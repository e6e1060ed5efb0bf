------------------------------- MODULE Ordering -------------------------------
(***************************************************************************)
(* From the cart to the order: CartService and OrdersService.create, and   *)
(* the business clients with their contacts and addresses.  What becomes   *)
(* of an order once it is created is the matter of OrderFulfilment.  The   *)
(* stock is what it is while carts are filled; taxes are left out.         *)
(***************************************************************************)
EXTENDS Requests, Folds

CONSTANTS
    Buyer,       \* business clients; each has one cart, once it has asked for it
    Article,
    Depot,       \* branches
    OnHand,      \* per depot and article, the quantity of the inventory row
    Reserved,    \* and what of it is allocated
    SellingPrice,
    Balance,     \* per buyer, what it owes; confirmations change it, orders do not
    Entry,       \* contacts and addresses
    NoCart,
    NoEntry

CartOp == {"GET_CART", "ADD_ITEM", "UPDATE_ITEM", "REMOVE_ITEM", "CLEAR_CART"}
OrderOp == {"PLACE_ORDER"}
BuyerOp == {"UPDATE_BUYER", "REMOVE_BUYER"}
BookOp == {"ADD_CONTACT", "UPDATE_CONTACT", "REMOVE_CONTACT", "ADD_ADDRESS", "UPDATE_ADDRESS", "REMOVE_ADDRESS"}
OrderingOp == CartOp \cup OrderOp \cup BuyerOp \cup BookOp
Book == {"contacts", "addresses"}

CartRow == [units: Nat, row: Nat]

ASSUME OrderingAssumption ==
    /\ NoCart \notin [Article -> CartRow] /\ NoEntry \notin Entry
    /\ OnHand \in [Depot -> [Article -> Nat]] /\ Reserved \in [Depot -> [Article -> Nat]]
    /\ SellingPrice \in [Depot -> [Article -> Nat]] /\ Balance \in [Buyer -> Nat]
    /\ \A r \in Request : r.op \in OrderingOp =>
          r \in [op: OrderingOp, buyer: Buyer, article: Article, n: Nat, entry: Entry \cup {NoEntry},
                 primary: BOOLEAN, by: Nat]

VARIABLES
    buyer,      \* the credit limit of each business client, -1 when it is removed
    cart,       \* per buyer and article, the units and the number of the row that holds them
    placed,     \* per buyer and article, the units in orders
    asked,      \* per buyer and article, the units its users ever put in the cart
    rivals,     \* buyers, and what of theirs two requests created or marked at once
    book        \* per buyer and book, its entries; the main one is marked

ordering == <<buyer, cart, placed, asked, rivals, book>>

OrderingTypeOK ==
    /\ buyer \in [Buyer -> Int]
    /\ cart \in [Buyer -> {NoCart} \cup [Article -> CartRow]]
    /\ placed \in [Buyer -> [Article -> Nat]] /\ asked \in [Buyer -> [Article -> Nat]]
    /\ rivals \subseteq Buyer \X (Book \cup {"orders"})
    /\ book \in [Buyer -> [Book -> [Entry -> {"none", "plain", "main"}]]]
    /\ \A b \in Buyer : buyer[b] = -1 => cart[b] = NoCart

OrderingInit ==
    /\ buyer = [b \in Buyer |-> 0] /\ cart = [b \in Buyer |-> NoCart]
    /\ placed = [b \in Buyer |-> [a \in Article |-> 0]] /\ asked = placed
    /\ rivals = {}
    /\ book = [b \in Buyer |-> [k \in Book |-> [e \in Entry |-> "none"]]]

Who(w) == job[w].buyer

\* Another request that creates the buyer's order, or marks the main entry of
\* the book, is under way when this one begins.
Creates(what) == [orders |-> OrderOp, contacts |-> {"ADD_CONTACT", "UPDATE_CONTACT"},
                  addresses |-> {"ADD_ADDRESS", "UPDATE_ADDRESS"}][what]
MeetsRival(w, what) ==
    LET met == \E v \in Worker \ {w} :
            /\ pc[v] \notin {"idle", "read"} /\ job[v].op \in Creates(what) /\ job[v].buyer = Who(w)
            /\ what = "orders" \/ (job[v].primary /\ job[w].primary) IN
    rivals' = IF met THEN rivals \cup {<<Who(w), what>>} ELSE rivals

-----------------------------------------------------------------------------
(* The cart.  Its rows are read in one statement and written in another.   *)

\* getOrCreateCart, which every operation of the cart calls first: the buyer
\* exists, and its cart is read ...
OpenCart(w, op, then) ==
    LET b == Who(w) IN
    \/ /\ At(w, op, "read")
       /\ SeeIf(w, buyer[b] # -1, Unread, "check")
       /\ UNCHANGED ordering
    \/ /\ At(w, op, "check")
       /\ Goto(w, IF cart[b] = NoCart THEN "ask" ELSE then)
       /\ UNCHANGED ordering
    \* ... or created, once: two first calls meet at the unique key.
    \/ /\ At(w, op, "ask")
       /\ IF cart[b] = NoCart /\ buyer[b] # -1
          THEN /\ cart' = [cart EXCEPT ![b] = [a \in Article |-> [units |-> 0, row |-> 0]]]
               /\ Goto(w, then)
          ELSE Answer(w) /\ UNCHANGED cart
       /\ UNCHANGED <<buyer, placed, asked, rivals, book>>

GetCart(w) ==
    \/ OpenCart(w, "GET_CART", "finish")
    \/ At(w, "GET_CART", "finish") /\ Answer(w) /\ UNCHANGED ordering

Ask(b, a, n) == asked' = [asked EXCEPT ![b][a] = @ + Max({0, n})]

\* A row is written or deleted under its id, and fails once it is gone.
StillThere(b, a, seen) == cart[b][a].units > 0 /\ cart[b][a].row = seen.row
SetUnits(b, a, n) == cart' = [cart EXCEPT ![b][a].units = n]

\* addItem: some depot has the quantity, reserved or not; then the article's
\* row is read and counted up from what was read, or created.
AddItem(w) ==
    LET b == Who(w)
        a == job[w].article
        n == job[w].n
        some == \E d \in Depot : OnHand[d][a] >= n IN
    \/ OpenCart(w, "ADD_ITEM", "next")
    \/ /\ At(w, "ADD_ITEM", "next")
       /\ SeeIf(w, some, cart[b][a], "write")
       /\ UNCHANGED ordering
    \/ /\ At(w, "ADD_ITEM", "write")
       /\ IF saw[w].units > 0
          THEN StillThere(b, a, saw[w]) /\ SetUnits(b, a, saw[w].units + n)
          ELSE /\ cart[b][a].units = 0
               /\ cart' = [cart EXCEPT ![b][a] = [units |-> n, row |-> @.row + 1]]
       /\ Ask(b, a, n)
       /\ Answer(w)
       /\ UNCHANGED <<buyer, placed, rivals, book>>

\* findUnique for one article: the item is in the cart.
FindItem(w, op) ==
    /\ At(w, op, "next")
    /\ SeeIf(w, cart[Who(w)][job[w].article].units > 0, cart[Who(w)][job[w].article], "write")
    /\ UNCHANGED ordering

UpdateItem(w) ==
    LET b == Who(w)
        a == job[w].article IN
    \/ OpenCart(w, "UPDATE_ITEM", "next") \/ FindItem(w, "UPDATE_ITEM")
    \/ /\ At(w, "UPDATE_ITEM", "write")
       /\ StillThere(b, a, saw[w])
       /\ SetUnits(b, a, job[w].n)
       /\ Ask(b, a, job[w].n - cart[b][a].units)
       /\ Answer(w)
       /\ UNCHANGED <<buyer, placed, rivals, book>>

RemoveItem(w) ==
    LET b == Who(w)
        a == job[w].article IN
    \/ OpenCart(w, "REMOVE_ITEM", "next") \/ FindItem(w, "REMOVE_ITEM")
    \/ /\ At(w, "REMOVE_ITEM", "write")
       /\ StillThere(b, a, saw[w])
       /\ SetUnits(b, a, 0)
       /\ Answer(w)
       /\ UNCHANGED <<buyer, placed, asked, rivals, book>>

Emptied(b) == cart' = [cart EXCEPT ![b] = [a \in Article |-> [units |-> 0, row |-> cart[b][a].row]]]

ClearCart(w) ==
    \/ OpenCart(w, "CLEAR_CART", "write")
    \/ /\ At(w, "CLEAR_CART", "write")
       /\ Emptied(Who(w))
       /\ Answer(w)
       /\ UNCHANGED <<buyer, placed, asked, rivals, book>>

-----------------------------------------------------------------------------
(* The order.                                                              *)

Free(d, a) == OnHand[d][a] - Reserved[d][a]
Wanted(items) == {a \in Article : items[a] > 0}
Total(items, worth) == FoldSet(LAMBDA a, sum : sum + worth[a], 0, Wanted(items))

\* findOptimalBranch: of the depots that have every article, one with most of
\* them all.
Supplies(d, items) == \A a \in Wanted(items) : Free(d, a) >= items[a]
Stock(d, items) == Total(items, [a \in Article |-> Free(d, a)])
OptimalDepots(items) ==
    LET able == {d \in Depot : Supplies(d, items)} IN
    {d \in able : \A e \in able : Stock(d, items) >= Stock(e, items)}

Price(d, items) == Total(items, [a \in Article |-> SellingPrice[d][a] * items[a]])

Units(b) == [a \in Article |-> IF cart[b] = NoCart THEN 0 ELSE cart[b][a].units]

\* Up to the creation of the order: the cart with the buyer's credit, the
\* depot and the credit, the contact.
ConsiderOrder(w) ==
    LET b == Who(w)
        e == job[w].entry IN
    \/ /\ At(w, "PLACE_ORDER", "read")
       /\ SeeIf(w, Wanted(Units(b)) # {}, [items |-> Units(b), credit |-> buyer[b] - Balance[b]], "check")
       /\ MeetsRival(w, "orders")
       /\ UNCHANGED <<buyer, cart, placed, asked, book>>
    \/ /\ At(w, "PLACE_ORDER", "check")
       /\ SeeIf(w, /\ \E d \in OptimalDepots(saw[w].items) : Price(d, saw[w].items) <= saw[w].credit
                   /\ e # NoEntry => book[b]["contacts"][e] # "none",
                saw[w], "commit")
       /\ UNCHANGED ordering

Place(w) ==
    placed' = [placed EXCEPT ![Who(w)] = [a \in Article |-> @[a] + saw[w].items[a]]]

\* The order is created and the cart left as it is.
KeepsCart(w) ==
    \/ ConsiderOrder(w)
    \/ /\ At(w, "PLACE_ORDER", "commit")
       /\ Place(w)
       /\ Answer(w)
       /\ UNCHANGED <<buyer, cart, asked, rivals, book>>

\* create: one transaction, which ends by emptying the cart of what it holds
\* by then; a contact that was deleted meanwhile fails the foreign key.
CreateOrder(w) ==
    \/ ConsiderOrder(w)
    \/ /\ At(w, "PLACE_ORDER", "commit")
       /\ job[w].entry # NoEntry => book[Who(w)]["contacts"][job[w].entry] # "none"
       /\ Place(w)
       /\ Emptied(Who(w))
       /\ Answer(w)
       /\ UNCHANGED <<buyer, asked, rivals, book>>

-----------------------------------------------------------------------------
(* Business clients.                                                       *)

ReadBuyer(w, op, step) ==
    At(w, op, "read") /\ SeeIf(w, buyer[Who(w)] # -1, Unread, step) /\ UNCHANGED ordering

\* update, of which only the credit limit matters here.
UpdateBuyer(w) ==
    \/ ReadBuyer(w, "UPDATE_BUYER", "commit")
    \/ /\ At(w, "UPDATE_BUYER", "commit")
       /\ buyer[Who(w)] # -1
       /\ buyer' = [buyer EXCEPT ![Who(w)] = job[w].n]
       /\ Answer(w)
       /\ UNCHANGED <<cart, placed, asked, rivals, book>>

\* The client goes, with its contacts and addresses.
DeleteBuyer(w) ==
    /\ At(w, "REMOVE_BUYER", "commit")
    /\ buyer[Who(w)] # -1
    /\ buyer' = [buyer EXCEPT ![Who(w)] = -1]
    /\ book' = [book EXCEPT ![Who(w)] = [k \in Book |-> [e \in Entry |-> "none"]]]
    /\ Answer(w)
    /\ UNCHANGED <<cart, placed, asked, rivals>>

\* ... with a cart or without.
RemoveAnyBuyer(w) == ReadBuyer(w, "REMOVE_BUYER", "commit") \/ DeleteBuyer(w)

\* remove: a cart forbids it, and where there was an order there was a cart.
RemoveBuyer(w) ==
    \/ ReadBuyer(w, "REMOVE_BUYER", "commit")
    \/ DeleteBuyer(w) /\ cart[Who(w)] = NoCart

\* updateMany: none of the book's entries, or none of the others, is the main one.
Demote(b, k, kept) ==
    book' = [book EXCEPT ![b][k] = [e \in Entry |-> IF @[e] = "main" /\ e # kept THEN "plain" ELSE @[e]]]

Enter(b, k, e, primary) == book' = [book EXCEPT ![b][k][e] = IF primary THEN "main" ELSE "plain"]

\* An entry is added: the client exists, the others are demoted, the entry is
\* created; three statements.
AddTo(w, op, k) ==
    LET b == Who(w) IN
    \/ /\ At(w, op, "read")
       /\ SeeIf(w, buyer[b] # -1, Unread, IF job[w].primary THEN "next" ELSE "write")
       /\ MeetsRival(w, k)
       /\ UNCHANGED <<buyer, cart, placed, asked, book>>
    \/ /\ At(w, op, "next")
       /\ Demote(b, k, NoEntry)
       /\ Goto(w, "write")
       /\ UNCHANGED <<buyer, cart, placed, asked, rivals>>
    \/ /\ At(w, op, "write")
       /\ buyer[b] # -1
       /\ Enter(b, k, job[w].entry, job[w].primary)
       /\ Answer(w)
       /\ UNCHANGED <<buyer, cart, placed, asked, rivals>>

\* An entry is changed, which says whether it is the main one: it exists, the
\* others are demoted, it is written.
ChangeIn(w, op, k) ==
    LET b == Who(w)
        e == job[w].entry IN
    \/ /\ At(w, op, "read")
       /\ SeeIf(w, book[b][k][e] # "none", Unread, IF job[w].primary THEN "next" ELSE "write")
       /\ MeetsRival(w, k)
       /\ UNCHANGED <<buyer, cart, placed, asked, book>>
    \/ /\ At(w, op, "next")
       /\ Demote(b, k, e)
       /\ Goto(w, "write")
       /\ UNCHANGED <<buyer, cart, placed, asked, rivals>>
    \/ /\ At(w, op, "write")
       /\ book[b][k][e] # "none"
       /\ Enter(b, k, e, job[w].primary)
       /\ Answer(w)
       /\ UNCHANGED <<buyer, cart, placed, asked, rivals>>

RemoveFrom(w, op, k) ==
    LET b == Who(w)
        e == job[w].entry IN
    \/ /\ At(w, op, "read")
       /\ SeeIf(w, book[b][k][e] # "none", Unread, "write")
       /\ UNCHANGED ordering
    \/ /\ At(w, op, "write")
       /\ book[b][k][e] # "none"
       /\ book' = [book EXCEPT ![b][k][e] = "none"]
       /\ Answer(w)
       /\ UNCHANGED <<buyer, cart, placed, asked, rivals>>

AddContact(w) == AddTo(w, "ADD_CONTACT", "contacts")
UpdateContact(w) == ChangeIn(w, "UPDATE_CONTACT", "contacts")
RemoveContact(w) == RemoveFrom(w, "REMOVE_CONTACT", "contacts")
AddAddress(w) == AddTo(w, "ADD_ADDRESS", "addresses")
UpdateAddress(w) == ChangeIn(w, "UPDATE_ADDRESS", "addresses")
RemoveAddress(w) == RemoveFrom(w, "REMOVE_ADDRESS", "addresses")

OrderingFails(w) ==
    /\ pc[w] # "idle" /\ job[w].op \in OrderingOp
    /\ Answer(w)
    /\ UNCHANGED ordering

OrderingStep(w) ==
    \/ GetCart(w) \/ AddItem(w) \/ UpdateItem(w) \/ RemoveItem(w) \/ ClearCart(w) \/ CreateOrder(w)
    \/ UpdateBuyer(w) \/ RemoveBuyer(w)
    \/ AddContact(w) \/ UpdateContact(w) \/ RemoveContact(w)
    \/ AddAddress(w) \/ UpdateAddress(w) \/ RemoveAddress(w)
    \/ OrderingFails(w)

-----------------------------------------------------------------------------
\* What a buyer's users put in the cart is ordered once at most, whatever
\* they change while an order is being created: only two orders created at
\* once from one cart order the same units twice.
OrderedOnce ==
    \A b \in Buyer, a \in Article : <<b, "orders">> \notin rivals => placed[b][a] <= asked[b][a]

\* A client has one main contact and one main address at most, though the
\* mark moves in two statements; only two requests that move it at once
\* leave two.
OneMainEntry ==
    \A b \in Buyer, k \in Book, e, f \in Entry :
        book[b][k][e] = "main" /\ book[b][k][f] = "main" => e = f \/ <<b, k>> \in rivals

\* Requests of one client collide only where two of them do the same at once.
OnlyRivalsCollide == OrderedOnce /\ OneMainEntry
=============================================================================
