------------------------------- MODULE Quotes -------------------------------
(***************************************************************************)
(* Quotes.  QuoteService serves the routes: it quotes the shelf price less *)
(* the discount that was typed in, and keeps the quote's status.           *)
(* QuotationsService, compiled but called by nothing, asks PriceEngine-    *)
(* Service for the price the client's rules give.  A quote has one item.   *)
(* Prices are in hundredths; a product's category and brand are one        *)
(* family; no two quotes get one number.                                   *)
(***************************************************************************)
EXTENDS Requests

CONSTANTS
    Quote,
    Client, Tier, Good, Family,
    NoOne,        \* null: no client, tier, product or family named
    TierOf,       \* per client, its price tier or NoOne
    FamilyOf,     \* per product
    Shelf, Cost   \* per product, its selling price and its cost

Null(S) == S \cup {NoOne}

PriceRule == [client: Null(Client), tier: Null(Tier), good: Null(Good), family: Null(Family), min: Nat,
              type: {"FIXED", "DISCOUNT", "MARKUP", "MARGIN"}, value: Nat]

QuoteRow == [status: {"DRAFT", "SENT", "ACCEPTED", "REJECTED", "EXPIRED", "CONVERTED"},
             client: Null(Client), good: Good, quantity: Nat, price: Int, total: Int]

QuoteOp == {"CREATE_QUOTE", "DRAW_UP_QUOTE", "SEND_QUOTE", "ACCEPT_QUOTE", "REJECT_QUOTE", "CONVERT_QUOTE"}

\* `off` is the discount in percent, `rules` the tenant's price rules at the
\* time of the call.
ASSUME QuoteAssumption ==
    /\ Unread \notin PriceRule /\ Unread \notin QuoteRow
    /\ NoOne \notin Client \cup Tier \cup Good \cup Family
    /\ TierOf \in [Client -> Null(Tier)] /\ FamilyOf \in [Good -> Family]
    /\ Shelf \in [Good -> Nat] /\ Cost \in [Good -> Nat]
    /\ \A r \in Request : r.op \in QuoteOp =>
          /\ r = [op |-> r.op, quote |-> r.quote, client |-> r.client, good |-> r.good,
                  quantity |-> r.quantity, off |-> r.off, rules |-> r.rules]
          /\ r.quote \in Quote /\ r.client \in Null(Client) /\ r.good \in Good
          /\ r.quantity \in Nat \ {0} /\ r.off \in 0..100
          /\ \A rule \in r.rules : rule \in PriceRule

VARIABLES
    quote,     \* the quotes
    past       \* those whose validUntil has passed

quotes == <<quote, past>>

QuoteTypeOK ==
    /\ quote \in [Quote -> QuoteRow \cup {Unread}]
    /\ past \subseteq {q \in Quote : quote[q] # Unread}

QuoteInit ==
    /\ quote = [q \in Quote |-> Unread]
    /\ past = {}

-----------------------------------------------------------------------------
(* PriceEngineService.calculatePrice.                                      *)

TierFor(client) == IF client = NoOne THEN NoOne ELSE TierOf[client]

\* The scope without the condition that a global rule names no client.
InLooseScope(rule, client) ==
    \/ client = NoOne
    \/ rule.client = client
    \/ rule.tier = TierFor(client)
    \/ rule.tier = NoOne

\* A rule of the client, of its tier, or global.  Without a client the first
\* alternative is `undefined`, no condition at all; without a tier the second
\* asks for rules that name no tier, whomever they name.
InScope(rule, client) ==
    \/ client = NoOne
    \/ rule.client = client
    \/ rule.tier = TierFor(client)
    \/ rule.client = NoOne /\ rule.tier = NoOne

Covers(rule, good) ==
    \/ rule.good = good
    \/ rule.family = FamilyOf[good]
    \/ rule.good = NoOne /\ rule.family = NoOne

\* The dates, isActive and priority of a rule are not asked for: a later OR
\* and AND of the same query take the place of those on the dates.
Applicable(rules, client, good, quantity) ==
    {r \in rules : r.min <= quantity /\ InScope(r, client) /\ Covers(r, good)}

Score(rule, client, good) ==
    (IF client # NoOne /\ rule.client = client THEN 100
     ELSE IF rule.tier = TierFor(client) THEN 50 ELSE 0)
    + (IF rule.good = good THEN 20 ELSE IF rule.family = FamilyOf[good] THEN 10 ELSE 0)
    + (IF rule.min > 1 THEN 1 ELSE 0)

\* Of rules that score the same, the database returns any one first.
Winners(rules, client, good) ==
    {r \in rules : \A s \in rules : Score(s, client, good) <= Score(r, client, good)}

PriceBy(rule, good) ==
    CASE rule.type = "FIXED" -> 100 * rule.value
      [] rule.type = "DISCOUNT" -> Shelf[good] * (100 - rule.value)
      [] rule.type = "MARKUP" -> Cost[good] * (100 + rule.value)
      [] OTHER -> 100 * Shelf[good]

-----------------------------------------------------------------------------
(* Handlers.                                                               *)

NewQuote(w, price, off) ==
    LET j == job[w] IN
    quote' = [quote EXCEPT ![j.quote] =
                 [status |-> "DRAFT", client |-> j.client, good |-> j.good, quantity |-> j.quantity,
                  price |-> price, total |-> (price * j.quantity * (100 - off)) \div 100]]

\* createQuote of QuoteService: no tier and no rule is looked at.
CreateQuote(w) ==
    /\ At(w, "CREATE_QUOTE", "read")
    /\ quote[job[w].quote] = Unread
    /\ NewQuote(w, 100 * Shelf[job[w].good], job[w].off)
    /\ Answer(w)
    /\ UNCHANGED past

\* create of QuotationsService: the price, then the row.
DrawUpQuote(w) ==
    LET j == job[w]
        rules == Applicable(j.rules, j.client, j.good, j.quantity) IN
    \/ /\ At(w, "DRAW_UP_QUOTE", "read")
       /\ \/ rules = {} /\ See(w, Unread, "commit")
          \/ \E r \in Winners(rules, j.client, j.good) : See(w, r, "commit")
       /\ UNCHANGED quotes
    \/ /\ At(w, "DRAW_UP_QUOTE", "commit")
       /\ quote[j.quote] = Unread
       /\ NewQuote(w, IF saw[w] = Unread THEN 100 * Shelf[j.good] ELSE PriceBy(saw[w], j.good), 0)
       /\ Answer(w)
       /\ UNCHANGED past

\* The quote as a handler reads it, in its transaction ...
ReadQuote(w, from, valid) ==
    LET q == quote[job[w].quote] IN
    /\ SeeIf(w, q # Unread /\ q.status \in from /\ (valid => job[w].quote \notin past), q, "commit")
    /\ UNCHANGED quotes

\* ... and writes it by its id, whatever happened in between.
WriteQuote(w, status) ==
    /\ quote' = [quote EXCEPT ![job[w].quote].status = status]
    /\ Answer(w)
    /\ UNCHANGED past

SendQuote(w) ==
    \/ At(w, "SEND_QUOTE", "read") /\ ReadQuote(w, {"DRAFT"}, TRUE)
    \/ At(w, "SEND_QUOTE", "commit") /\ WriteQuote(w, "SENT")

AcceptQuote(w) ==
    \/ At(w, "ACCEPT_QUOTE", "read") /\ ReadQuote(w, {"SENT"}, TRUE)
    \/ At(w, "ACCEPT_QUOTE", "commit") /\ WriteQuote(w, "ACCEPTED")

RejectQuote(w) ==
    \/ At(w, "REJECT_QUOTE", "read") /\ ReadQuote(w, {"DRAFT", "SENT", "ACCEPTED"}, FALSE)
    \/ At(w, "REJECT_QUOTE", "commit") /\ WriteQuote(w, "REJECTED")

\* convertToOrder: the order it would create has no branch and items with
\* fields that order items do not have; the client library refuses it.
ConvertToOrder(w) ==
    \/ At(w, "CONVERT_QUOTE", "read") /\ ReadQuote(w, {"ACCEPTED"}, TRUE)
    \/ At(w, "CONVERT_QUOTE", "commit") /\ Answer(w) /\ UNCHANGED quotes

QuoteFails(w) ==
    /\ pc[w] # "idle" /\ job[w].op \in QuoteOp
    /\ Answer(w)
    /\ UNCHANGED quotes

QuoteStep(w) ==
    \/ CreateQuote(w) \/ DrawUpQuote(w) \/ SendQuote(w) \/ AcceptQuote(w) \/ RejectQuote(w)
    \/ ConvertToOrder(w) \/ QuoteFails(w)

\* validUntil of a quote passes.
Lapses(q) ==
    /\ quote[q] # Unread /\ q \notin past
    /\ past' = past \cup {q}
    /\ UNCHANGED <<requests, quote>>

Stale == {q \in past : quote[q].status = "SENT"}

\* expireStaleQuotes, every hour: one statement.
ExpireStaleQuotes ==
    /\ Stale # {}
    /\ quote' = [q \in Quote |-> IF q \in Stale THEN [quote[q] EXCEPT !.status = "EXPIRED"] ELSE quote[q]]
    /\ UNCHANGED <<requests, past>>

QuoteWorld == (\E q \in Quote : Lapses(q)) \/ ExpireStaleQuotes

-----------------------------------------------------------------------------
Contract(rule, q) == rule.client = q.client /\ rule.good = q.good /\ rule.min <= q.quantity

\* What the scores are for: a client of a tier pays by no rule that was made
\* for another client or tier only, and by one of its own whenever it has a
\* contract for the product.  `rules` are those the call found.
PricedForTheClient ==
    \A w \in Worker :
        At(w, "DRAW_UP_QUOTE", "commit") /\ TierFor(job[w].client) # NoOne =>
        LET client == job[w].client
            rule == saw[w] IN
        /\ rule # Unread =>
              \/ rule.client = client \/ rule.tier = TierOf[client]
              \/ rule.client = NoOne /\ rule.tier = NoOne
        /\ (\E c \in job[w].rules : Contract(c, job[w])) => rule # Unread /\ rule.client = client
=============================================================================
