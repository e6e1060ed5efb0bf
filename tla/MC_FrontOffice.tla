---------------------------- MODULE MC_FrontOffice ----------------------------
(***************************************************************************)
(* The front office with two requests in progress at once, batch by batch. *)
(***************************************************************************)
EXTENDS FrontOffice, TLC

CONSTANTS w1, w2

\* One client, two depots of which only d2 has both articles.
Each(pad, disc) == "pad" :> pad @@ "disc" :> disc
MCOnHand == "d1" :> Each(3, 1) @@ "d2" :> Each(2, 2)
MCReserved == "d1" :> Each(1, 1) @@ "d2" :> Each(0, 0)
MCSellingPrice == "d1" :> Each(1, 1) @@ "d2" :> Each(1, 2)
MCBalance == "b1" :> 1
Shop(op, a, n, by) ==
    [op |-> op, buyer |-> "b1", article |-> a, n |-> n, entry |-> NoEntry, primary |-> FALSE, by |-> by]
Known(op, e, main, by) ==
    [op |-> op, buyer |-> "b1", article |-> "pad", n |-> 0, entry |-> e, primary |-> main, by |-> by]
Credit == Shop("UPDATE_BUYER", "pad", 5, 1)
Shopping ==
    {{Credit, Shop("ADD_ITEM", "pad", 1, 1), Shop("ADD_ITEM", "pad", 1, 2),
      Shop("PLACE_ORDER", "pad", 0, 1), Shop("PLACE_ORDER", "pad", 0, 2)},
     {Credit, Shop("ADD_ITEM", "pad", 1, 1), Shop("ADD_ITEM", "disc", 2, 1),
      Shop("UPDATE_ITEM", "pad", 2, 1), Shop("PLACE_ORDER", "pad", 0, 1)},
     {Credit, Shop("ADD_ITEM", "pad", 2, 1), Shop("REMOVE_ITEM", "pad", 0, 1),
      Shop("CLEAR_CART", "pad", 0, 1), Shop("PLACE_ORDER", "pad", 0, 1)},
     {Credit, Shop("ADD_ITEM", "pad", 1, 1), Known("ADD_CONTACT", "e1", TRUE, 1),
      Known("REMOVE_CONTACT", "e1", FALSE, 1), Known("PLACE_ORDER", "e1", FALSE, 1)},
     {Shop("GET_CART", "pad", 0, 1), Shop("REMOVE_BUYER", "pad", 0, 1), Known("ADD_CONTACT", "e1", TRUE, 1),
      Known("ADD_CONTACT", "e2", TRUE, 1), Known("UPDATE_CONTACT", "e1", TRUE, 1)},
     {Known("ADD_ADDRESS", "e1", TRUE, 1), Known("ADD_ADDRESS", "e2", TRUE, 1), Known("UPDATE_ADDRESS", "e1", TRUE, 1),
      Known("REMOVE_ADDRESS", "e2", FALSE, 1), Shop("REMOVE_BUYER", "pad", 0, 1)}}

\* One return worth 2, one whose items name a product, and one stop with a
\* parcel lost and another refused.
MCWorth == "c1" :> 2 @@ "c2" :> 1
MCTypeOfMishap == "x1" :> "LOST_IN_TRANSIT" @@ "x2" :> "CUSTOMER_UNAVAILABLE"
MCStopOf == "x1" :> "s1" @@ "x2" :> "s1"
Care(op, proof, refund, amount, by) ==
    [op |-> op, proof |-> proof, refund |-> refund, amount |-> amount, by |-> by]
Back(op, by) == Care(op, "c1", 0, 0, by)
Caring ==
    {{Back("ASK_RETURN", 1), Back("ALLOW_RETURN", 1), Back("REFUSE_RETURN", 1), Back("TAKE_RETURN", 1),
      Back("CLOSE_RETURN", 1), Care("PROCESS_REFUND", "c1", 1, 0, 1), Care("CANCEL_REFUND", "c1", 1, 0, 1)},
     {Back("ASK_RETURN", 1), Back("ALLOW_RETURN", 1), Back("ALLOW_RETURN", 2), Back("TAKE_RETURN", 1),
      Care("CREATE_REFUND", "c1", 0, 3, 1), Care("PROCESS_REFUND", "c1", 1, 0, 1),
      Care("PROCESS_REFUND", "c1", 1, 0, 2)},
     {Care("ASK_RETURN", "c2", 0, 0, 1), Care("ALLOW_RETURN", "c2", 0, 0, 1), Care("TAKE_RETURN", "c2", 0, 0, 1),
      Care("CLOSE_RETURN", "c2", 0, 0, 1), Care("REPLACE", "c2", 0, 0, 1), Care("REPLACE", "c2", 0, 0, 2)},
     {Care(op, x, 0, 1, 1) : op \in {"REPORT_MISHAP", "RESOLVE_MISHAP", "WRITE_OFF"}, x \in {"x1", "x2"}},
     {Care("REPORT_MISHAP", "x1", 0, 0, 1), Care("CREATE_REFUND", "x1", 0, 3, 1), Care("CREATE_REFUND", "x1", 0, 1, 2),
      Care("PROCESS_REFUND", "x1", 1, 0, 1), Care("CANCEL_REFUND", "x1", 1, 0, 1), Care("REPLACE", "x1", 0, 0, 1)}}

\* Of each catalog two parts (of NGK one) with up to two numbers; each import
\* twice, and two at once.
PartsDelivered ==
    "Bosch" :> <<BoschExtractor[7], BoschExtractor[10]>> @@ "NGK" :> SubSeq(NGKExtractor, 1, 1)
    @@ "Denso" :> SubSeq(DensoExtractor, 8, 9) @@ "Brembo" :> SubSeq(BremboExtractor, 7, 8)
    @@ "Mahle" :> SubSeq(MahleExtractor, 4, 5) @@ "MannFilter" :> SubSeq(MannExtractor, 5, 6)
Import(source, by) == [op |-> "IMPORT", source |-> source, by |-> by]
Importing == {{Import(m, 1), Import(m, 2)} : m \in Manufacturer} \cup {{Import("NGK", 1), Import("Denso", 1)}}

\* All pairs of strings of up to three characters out of two.
Strings == UNION {[1..n -> Letter] : n \in 0..3}
Comparing == {[op |-> "COMPARE", source |-> "NGK", by |-> 1]}

Admin(op, r, n, by) ==
    [op |-> op, row |-> r, value |-> n, member |-> "m1", first |-> "", spoken |-> {}, by |-> by]
Speak(first, spoken) ==
    [op |-> "SET_LANGUAGES", row |-> "plan", value |-> 1, member |-> "m1", first |-> first, spoken |-> spoken, by |-> 1]
Administering ==
    {{Admin("CREATE_PLAN", "plan", 1, 1), Admin("UPDATE_PLAN", "plan", 2, 1), Admin("UPDATE_PLAN", "plan", 3, 2),
      Admin("DELETE_PLAN", "plan", 1, 1)},
     {Admin("DELETE_PLAN", "basic", 1, 1), Admin("UPDATE_PLAN", "basic", 2, 1), Admin("SET_RATE", "rate", 1, 1),
      Admin("SET_RATE", "rate", 2, 2)},
     {Admin("CREATE_CURRENCY", "currency", 1, 1), Admin("UPDATE_CURRENCY", "currency", 2, 1),
      Admin("CREATE_TICKET", "ticket", 1, 1), Admin("UPDATE_TICKET", "ticket", 2, 1)},
     {Admin("UPDATE_TENANT", "tenant", 2, 1), Admin("UPDATE_TENANT", "tenant", 3, 2),
      Admin("OVERRIDE_CYCLE", "subscription", 2, 1), Admin("OVERRIDE_CYCLE", "subscription", 3, 2)},
     {Admin("CREATE_FLAG", "flag", 1, 1), Admin("UPDATE_FLAG", "flag", 2, 1), Admin("DELETE_FLAG", "flag", 1, 1)},
     {Admin("SET_CONFIG", "config", 1, 1), Admin("REMOVE_CONFIG", "config", 1, 1),
      Admin("CREATE_KEY", "key", 1, 1), Admin("DELETE_KEY", "key", 1, 1)},
     {Speak("ar", {}), Speak("en", {}), Speak("", {"ar"}), Speak("", {"en"}), Speak("fr", {"fr"})},
     {Admin(op, "plan", 1, by) : op \in MemberOp, by \in 1..2}}

\* Signups of which two share a subdomain and two an address.
SignUp(s, e, by) == [op |-> "SIGN_UP", subdomain |-> s, email |-> e, by |-> by]
SigningUp == {{SignUp("s1", "a1", 1), SignUp("s1", "a2", 2), SignUp("s2", "a2", 3)}}

\* Sales for cash and on account, a supplier paid, wages, capital, a transfer
\* from the drawer to the bank, a line with both sides, and an entry that does
\* not balance.
Dr(a, n) == [account |-> a, debit |-> n, credit |-> 0]
Cr(a, n) == [account |-> a, debit |-> 0, credit |-> n]
MCEntryLines ==
    {<<Dr("cash", 3), Cr("sales", 3), Dr("goodsSold", 1), Cr("payable", 1)>>,
     <<Dr("receivable", 2), Cr("sales", 2)>>, <<Dr("bank", 2), Cr("receivable", 2)>>,
     <<Dr("payable", 1), Cr("cash", 1)>>, <<Dr("salaries", 2), Cr("bank", 2)>>, <<Dr("cash", 4), Cr("capital", 4)>>,
     <<Dr("bank", 1), Cr("cash", 1)>>, <<[account |-> "cash", debit |-> 2, credit |-> 1], Cr("sales", 1)>>,
     <<Dr("cash", 1), Cr("sales", 2)>>}
Booked(day) == [op |-> "BOOK", day |-> day, by |-> 1]
Report(kind, from, to) == [op |-> "REPORT", kind |-> kind, from |-> from, to |-> to, by |-> 1]
Reporting == {{Booked(1), Booked(2), Report(k, 1, to)} : k \in ReportKind, to \in 1..2}

AllBatches == UNION {Shopping, Caring, Importing, {Comparing}, Administering, SigningUp, Reporting}
AllRequests == UNION AllBatches
\* TLC evaluates the definition of a constant at every use, but those it
\* names only once.
MCBatches == AllBatches
MCRequest == AllRequests
MCDelivered == PartsDelivered
MCText == Strings
=============================================================================
