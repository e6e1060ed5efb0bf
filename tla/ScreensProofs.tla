----------------------------- MODULE ScreensProofs -----------------------------
(***************************************************************************)
(* Proofs about a tab of the web client, for any pages, any trips over     *)
(* them that satisfy RenewalAssumption, and any number of changes: that a  *)
(* change renews the keys it concerns is what the assumption says, that    *)
(* the user then never looks at what was loaded before it is proved.  What *)
(* the entry of the cache may rely on (Good) is stated about any entry and *)
(* any set of changes owed, so that a handler is followed through the      *)
(* entries it makes on its way: what it does about the key, and the page   *)
(* it opens then.                                                          *)
(***************************************************************************)
EXTENDS Screens, FiniteSetTheorems, SequenceTheorems, TLAPS

Load == [read : Written \cup {NoData}, late : BOOLEAN]
Entry == [shown : Written \cup {NoData}, fresh : BOOLEAN, excused : BOOLEAN, loads : Seq(Load)]

\* A request that is answered and not late was answered after all that is owed
\* was applied.
Answers(held, due) ==
    \A i \in DOMAIN held.loads :
       ~held.loads[i].late /\ held.loads[i].read # NoData => due \subseteq held.loads[i].read

\* With nothing loading, what is fresh, and what an open page shows, includes
\* all that is owed.
Includes(held, due, open) ==
    held.loads = <<>> /\ ~held.excused /\ held.shown # NoData /\ (held.fresh \/ open) => due \subseteq held.shown

\* Pages on the cache share a request.
KeepsCache == \E p \in trip.pages : Pages[p].cached
Good(held, due, open) ==
    /\ held \in Entry /\ (held.fresh => held.shown # NoData)
    /\ Answers(held, due) /\ Includes(held, due, open)
    /\ KeepsCache => Len(held.loads) <= 1

\* Calls have numbers of their own, and each of those not applied yet will be
\* counted once.  One that patches what is shown finds it there.
Pending == {c.nr : c \in {d \in calls : d.applied = 0}}
CallsInv ==
    /\ calls \subseteq [nr : 1..made, of : trip.errand, applied : 0..now, here : BOOLEAN]
    /\ \A c, d \in calls : c.nr = d.nr => c = d
    /\ made \in 0..MaxCalls /\ now \in Nat /\ now + Cardinality(Pending) <= made
    /\ \A c \in calls : c.here /\ trip.key \in ChangeOf(c.of).patches => cache.shown # NoData

ScreensInv ==
    /\ trip \in Trips /\ page \in trip.pages \cup {Nowhere} /\ owed \subseteq 1..now
    /\ CallsInv
    /\ Good(cache, owed, Shows(page))

-----------------------------------------------------------------------------
(* Requests, and entries as pages open.                                    *)

LEMMA NoDataApart == NoData \notin Written
BY ScreensAssumption DEF Written

LEMMA Removed ==
    ASSUME NEW S, NEW s \in Seq(S), NEW i \in DOMAIN s
    PROVE  /\ RemoveAt(s, i) \in Seq(S) /\ Len(RemoveAt(s, i)) = Len(s) - 1
           /\ \A j \in DOMAIN RemoveAt(s, i) : \E k \in DOMAIN s : RemoveAt(s, i)[j] = s[k]
<1> DEFINE a == SubSeq(s, 1, i - 1)
           b == SubSeq(s, i + 1, Len(s))
<1>1. i \in 1..Len(s) /\ Len(s) \in Nat /\ DOMAIN s = 1..Len(s)
  OBVIOUS
<1>2. a \in Seq(S) /\ Len(a) = i - 1 /\ \A j \in 1..(i - 1) : a[j] = s[j]
  BY <1>1, SubSeqProperties
<1>3. b \in Seq(S) /\ Len(b) = Len(s) - i /\ \A j \in 1..(Len(s) - i) : b[j] = s[i + j]
  BY <1>1, SubSeqProperties
<1>4. RemoveAt(s, i) = a \o b
  BY DEF RemoveAt
<1> HIDE DEF a, b
<1>5. /\ a \o b \in Seq(S) /\ Len(a \o b) = (i - 1) + (Len(s) - i)
      /\ \A j \in 1..((i - 1) + (Len(s) - i)) : (a \o b)[j] = IF j <= i - 1 THEN a[j] ELSE b[j - (i - 1)]
  <2>1. a \in Seq(S) /\ b \in Seq(S)
    BY <1>2, <1>3
  <2>2. /\ a \o b \in Seq(S) /\ Len(a \o b) = Len(a) + Len(b)
        /\ \A j \in 1..(Len(a) + Len(b)) : (a \o b)[j] = IF j <= Len(a) THEN a[j] ELSE b[j - Len(a)]
    BY <2>1, ConcatProperties
  <2>3. Len(a) = i - 1 /\ Len(b) = Len(s) - i
    BY <1>2, <1>3
  <2> QED
    BY <2>2, <2>3
<1>6. (i - 1) + (Len(s) - i) = Len(s) - 1
  BY <1>1
<1>7. ASSUME NEW j \in 1..(Len(s) - 1) PROVE \E k \in DOMAIN s : (a \o b)[j] = s[k]
  <2>1. CASE j <= i - 1
    <3>1. j \in 1..(i - 1) /\ j \in DOMAIN s
      BY <1>1, <2>1
    <3>2. (a \o b)[j] = a[j]
      BY <1>5, <1>6, <2>1
    <3> QED
      BY <1>2, <3>1, <3>2
  <2>2. CASE ~ (j <= i - 1)
    <3>1. j - (i - 1) \in 1..(Len(s) - i) /\ i + (j - (i - 1)) \in DOMAIN s
      BY <1>1, <2>2
    <3>2. (a \o b)[j] = b[j - (i - 1)]
      BY <1>5, <1>6, <2>2
    <3> QED
      BY <1>3, <3>1, <3>2, Zenon
  <2> QED
    BY <2>1, <2>2
<1>8. DOMAIN (a \o b) = 1..(Len(s) - 1)
  BY <1>5, <1>6
<1> QED
  BY <1>4, <1>5, <1>6, <1>7, <1>8, Zenon

LEMMA AllLate ==
    ASSUME NEW ls \in Seq(Load)
    PROVE  /\ Late(ls) \in Seq(Load) /\ Len(Late(ls)) = Len(ls) /\ DOMAIN Late(ls) = DOMAIN ls
           /\ \A i \in DOMAIN ls : Late(ls)[i].late /\ Late(ls)[i].read = ls[i].read
<1>1. DOMAIN ls = 1..Len(ls) /\ Len(ls) \in Nat
  OBVIOUS
<1>2. DOMAIN Late(ls) = DOMAIN ls /\ \A i \in DOMAIN ls : Late(ls)[i] = [ls[i] EXCEPT !.late = TRUE]
  BY DEF Late
<1>3. ASSUME NEW i \in DOMAIN ls
      PROVE  Late(ls)[i] \in Load /\ Late(ls)[i].late /\ Late(ls)[i].read = ls[i].read
  <2>1. ls[i] \in Load
    OBVIOUS
  <2> QED
    BY <1>2, <2>1 DEF Load
<1>4. Late(ls) = [i \in 1..Len(ls) |-> Late(ls)[i]]
  BY <1>1, <1>2 DEF Late
<1>5. Late(ls) \in Seq(Load) /\ Len(Late(ls)) = Len(ls)
  BY <1>1, <1>2, <1>3, <1>4
<1> QED
  BY <1>2, <1>3, <1>5

LEMMA LoadIs == NewLoad \in Load /\ NewLoad.read = NoData
BY DEF NewLoad, Load

LEMMA EmptyIsGood == ASSUME NEW due, NEW open PROVE Good(Empty, due, open)
BY DEF Good, Entry, Empty, Answers, Includes

\* An entry that is right while no page shows it is right on a page opened.
LEMMA OpenedGood ==
    ASSUME NEW held, NEW due, NEW p, Good(held, due, FALSE)
    PROVE  Good(Opened(p, held), due, Shows(p))
<1>1. PICK kept : kept = IF Shows(page) /\ ~Pages[page].cached THEN Empty ELSE held
  OBVIOUS
<1>2. Good(kept, due, FALSE)
  BY <1>1, EmptyIsGood
<1>3. Opened(p, held) = IF Shows(p) /\ ~kept.fresh /\ kept.loads = <<>> THEN [kept EXCEPT !.loads = <<NewLoad>>] ELSE kept
  BY <1>1 DEF Opened
<1>4. CASE Shows(p) /\ ~kept.fresh /\ kept.loads = <<>>
  <2>1. Opened(p, held) = [kept EXCEPT !.loads = <<NewLoad>>]
    BY <1>3, <1>4
  <2>2. PICK e : e = [kept EXCEPT !.loads = <<NewLoad>>]
    OBVIOUS
  <2>3. kept \in Entry /\ (kept.fresh => kept.shown # NoData)
    BY <1>2 DEF Good
  <2>4. <<NewLoad>> \in Seq(Load) /\ Len(<<NewLoad>>) = 1 /\ <<NewLoad>> # <<>>
    BY LoadIs
  <2>5. /\ e \in Entry /\ e.loads = <<NewLoad>>
        /\ e.shown = kept.shown /\ e.fresh = kept.fresh
    BY <2>2, <2>3, <2>4 DEF Entry
  <2>6. Answers(e, due)
    BY <2>5, LoadIs DEF Answers
  <2> QED
    BY <2>1, <2>2, <2>3, <2>4, <2>5, <2>6 DEF Good, Includes
<1>5. CASE ~ (Shows(p) /\ ~kept.fresh /\ kept.loads = <<>>)
  BY <1>2, <1>3, <1>5 DEF Good, Includes
<1> QED
  BY <1>4, <1>5

-----------------------------------------------------------------------------
(* What a success does about the key.                                      *)

LEMMA InvalidatedGood ==
    ASSUME NEW held, NEW due, NEW more, NEW open, Good(held, due, open)
    PROVE  Good(Invalidated(open, held), more, open) /\ Invalidated(open, held).shown = held.shown
<1> DEFINE again == open /\ (held.loads = <<>> \/ held.shown # NoData)
           ls == IF again THEN <<NewLoad>> ELSE Late(held.loads)
<1>1. held \in Entry /\ held.loads \in Seq(Load)
  BY DEF Good, Entry
<1>2. PICK e : e = Invalidated(open, held)
  OBVIOUS
<1>3. ls \in Seq(Load) /\ (KeepsCache => Len(ls) <= 1)
  BY <1>1, AllLate, LoadIs DEF Good
<1>4. \A i \in DOMAIN ls : ls[i].late \/ ls[i].read = NoData
  BY <1>1, AllLate, LoadIs
<1>5. open /\ held.shown # NoData => ls # <<>>
  OBVIOUS
<1>6. e = [held EXCEPT !.fresh = FALSE, !.loads = ls]
  BY <1>2 DEF Invalidated
<1> HIDE DEF ls
<1>7. e \in Entry /\ e.shown = held.shown /\ e.fresh = FALSE /\ e.loads = ls
  BY <1>1, <1>3, <1>6 DEF Entry
<1>8. Answers(e, more)
  BY <1>4, <1>7 DEF Answers
<1> QED
  BY <1>2, <1>3, <1>5, <1>7, <1>8 DEF Good, Includes

LEMMA ReloadedGood ==
    ASSUME NEW held, NEW due, NEW more, NEW open, Good(held, due, open), ~KeepsCache
    PROVE  Good(Reloaded(held), more, open) /\ Reloaded(held).shown = held.shown
<1> DEFINE ls == Append(Late(held.loads), NewLoad)
<1>1. held \in Entry /\ held.loads \in Seq(Load)
  BY DEF Good, Entry
<1>2. PICK e : e = Reloaded(held)
  OBVIOUS
<1>3. PICK late \in Seq(Load) : late = Late(held.loads) /\ \A i \in DOMAIN late : late[i].late
  BY <1>1, AllLate
<1>4. ls \in Seq(Load) /\ ls # <<>> /\ \A i \in DOMAIN ls : ls[i].late \/ ls[i].read = NoData
  BY <1>3, LoadIs
<1>5. e = [held EXCEPT !.loads = ls]
  BY <1>2 DEF Reloaded
<1> HIDE DEF ls
<1>6. e \in Entry /\ e.shown = held.shown /\ e.fresh = held.fresh /\ e.loads = ls
  BY <1>1, <1>4, <1>5 DEF Entry
<1>7. Answers(e, more)
  BY <1>4, <1>6 DEF Answers
<1> QED
  BY <1>2, <1>4, <1>6, <1>7 DEF Good, Includes

\* Patched in place: the change is shown, and requests on their way are late.
LEMMA PatchedGood ==
    ASSUME NEW held, NEW due, NEW n \in 1..MaxCalls, NEW open, Good(held, due, open), held.shown # NoData,
           NEW e, e = [held EXCEPT !.shown = @ \cup {n}, !.loads = Late(@)]
    PROVE  Good(e, due \cup {n}, open) /\ e.shown # NoData
<1>1. held \in Entry /\ held.loads \in Seq(Load) /\ held.shown \in Written
  BY DEF Good, Entry
<1>2. held.shown \cup {n} \in Written /\ held.shown \cup {n} # NoData
  <2>1. held.shown \cup {n} \in Written
    BY <1>1 DEF Written
  <2> QED
    BY <2>1, NoDataApart
<1>3. PICK ls \in Seq(Load) : /\ ls = Late(held.loads) /\ Len(ls) = Len(held.loads) /\ \A i \in DOMAIN ls : ls[i].late
                              /\ DOMAIN ls = DOMAIN held.loads
  BY <1>1, AllLate
<1>4. /\ e \in Entry /\ e.shown = held.shown \cup {n} /\ e.fresh = held.fresh /\ e.excused = held.excused /\ e.loads = ls
  BY <1>1, <1>2, <1>3 DEF Entry
<1>5. ls = <<>> => held.loads = <<>>
  BY <1>1, <1>3
<1>6. Answers(e, due \cup {n})
  BY <1>3, <1>4 DEF Answers
<1>7. Includes(e, due \cup {n}, open)
  BY <1>4, <1>5 DEF Good, Includes
<1> QED
  BY <1>2, <1>3, <1>4, <1>6, <1>7 DEF Good

LEMMA OwesLess ==
    ASSUME NEW held, NEW due, NEW more, NEW open, Good(held, more, open), due \subseteq more
    PROVE  Good(held, due, open)
BY DEF Good, Answers, Includes

\* Whichever the handler does; what it does about a change it owes is one of
\* the three (RenewalAssumption).
LEMMA RenewedGood ==
    ASSUME ScreensInv, NEW c \in calls, c.applied # 0
    PROVE  /\ Good(Renewed(c), IF Expected(c) THEN owed \cup {c.applied} ELSE owed, Shows(page))
           /\ cache.shown # NoData => Renewed(c).shown # NoData
<1> DEFINE due == IF Expected(c) THEN owed \cup {c.applied} ELSE owed
<1>1. /\ trip \in Trips /\ c.of \in trip.errand /\ c.of[1] \in trip.pages /\ c.applied \in 1..MaxCalls
      /\ Good(cache, owed, Shows(page))
  <2>1. c.of \in trip.errand /\ c.applied \in 0..now /\ now \in Nat /\ now <= MaxCalls
    <3>1. now + Cardinality(Pending) <= made /\ Cardinality(Pending) \in Nat /\ made \in 0..MaxCalls /\ now \in Nat
      <4>1. Pending \subseteq 1..made /\ made \in 0..MaxCalls
        BY DEF ScreensInv, CallsInv, Pending
      <4>2. IsFiniteSet(1..made)
        BY <4>1, FS_Interval, ScreensAssumption
      <4> QED
        BY <4>1, <4>2, FS_Subset, FS_CardinalityType DEF ScreensInv, CallsInv
    <3> QED
      BY <3>1, ScreensAssumption DEF ScreensInv, CallsInv
  <2> QED
    BY <2>1, ScreensAssumption DEF ScreensInv
<1>2. \A p, q \in trip.pages : Pages[p].cached = Pages[q].cached
  BY <1>1, RenewalAssumption
<1>3. Concerns(trip, c.of) => Renews(c.of) \/ (trip.key \in ChangeOf(c.of).patches /\ ~Pages[c.of[1]].cached)
  BY <1>1, RenewalAssumption DEF Renews
<1>4. CASE Renews(c.of) /\ Pages[c.of[1]].cached
  <2>1. Renewed(c) = Invalidated(Shows(page), cache)
    BY <1>4 DEF Renewed
  <2> QED
    BY <1>1, <2>1, InvalidatedGood
<1>5. CASE Renews(c.of) /\ ~Pages[c.of[1]].cached /\ c.here
  <2>1. Renewed(c) = Reloaded(cache)
    BY <1>5 DEF Renewed
  <2>2. ~KeepsCache
    BY <1>1, <1>2, <1>5 DEF KeepsCache
  <2> QED
    BY <1>1, <2>1, <2>2, ReloadedGood
<1>6. CASE ~Renews(c.of) /\ trip.key \in ChangeOf(c.of).patches /\ c.here
  <2>1. Renewed(c) = [cache EXCEPT !.shown = @ \cup {c.applied}, !.loads = Late(@)]
    BY <1>6 DEF Renewed
  <2>2. cache.shown # NoData
    BY <1>6 DEF ScreensInv, CallsInv
  <2>3. Good(Renewed(c), owed \cup {c.applied}, Shows(page)) /\ Renewed(c).shown # NoData
    BY <1>1, <2>1, <2>2, PatchedGood
  <2>4. due \subseteq owed \cup {c.applied}
    OBVIOUS
  <2> HIDE DEF due
  <2>5. Good(Renewed(c), due, Shows(page))
    BY <2>3, <2>4, OwesLess
  <2> QED
    BY <2>3, <2>5 DEF due
<1>7. CASE /\ ~ (Renews(c.of) /\ Pages[c.of[1]].cached)
           /\ ~ (Renews(c.of) /\ c.here)
           /\ ~ (trip.key \in ChangeOf(c.of).patches /\ c.here)
  <2>1. Renewed(c) = cache
    BY <1>7 DEF Renewed
  <2>2. ~ Expected(c)
    <3>1. SUFFICES ASSUME Expected(c) PROVE FALSE
      OBVIOUS
    <3>2. ~Pages[c.of[1]].cached /\ ~c.here
      BY <1>3, <1>7, <3>1 DEF Expected
    <3>3. PICK p \in trip.pages : Pages[p].cached
      BY <3>1, <3>2 DEF Expected
    <3> QED
      BY <1>1, <1>2, <3>2, <3>3
  <2> QED
    BY <1>1, <2>1, <2>2
<1> QED
  BY <1>4, <1>5, <1>6, <1>7

-----------------------------------------------------------------------------
(* Calls.                                                                  *)

LEMMA PendingIs ==
    ASSUME CallsInv
    PROVE  IsFiniteSet(Pending) /\ Cardinality(Pending) \in Nat /\ Pending \subseteq 1..made /\ made \in Nat
<1>1. Pending \subseteq 1..made /\ made \in 0..MaxCalls /\ made \in Nat
  BY ScreensAssumption DEF CallsInv, Pending
<1>2. IsFiniteSet(1..made)
  BY <1>1, FS_Interval
<1> QED
  BY <1>1, <1>2, FS_Subset, FS_CardinalityType

\* Calls that are made when a page is left, or have ended, cost nothing.
LEMMA CallsLeft ==
    ASSUME CallsInv, NEW D, D \subseteq calls, UNCHANGED <<trip, made, now>>,
           \/ calls' = {[d EXCEPT !.here = FALSE] : d \in D}
           \/ calls' = D /\ (cache.shown # NoData => cache'.shown # NoData)
    PROVE  CallsInv'
<1> DEFINE T == [nr : 1..made, of : trip.errand, applied : 0..now, here : BOOLEAN]
<1>1. calls \subseteq T /\ D \subseteq T
  BY DEF CallsInv
<1>2. \A d \in D : LET e == [d EXCEPT !.here = FALSE] IN
          e \in T /\ e.nr = d.nr /\ e.applied = d.applied /\ e.here = FALSE
  BY <1>1
<1>3. calls' \subseteq T /\ \A e \in calls' : \E d \in D : e.nr = d.nr /\ e.applied = d.applied
  BY <1>1, <1>2
<1>4. \A c, d \in calls' : c.nr = d.nr => c = d
  BY <1>2 DEF CallsInv
<1>5. Pending' \subseteq Pending
  BY <1>3 DEF Pending
<1>6. Cardinality(Pending') \in Nat /\ Cardinality(Pending') <= Cardinality(Pending)
  BY <1>5, PendingIs, FS_Subset, FS_CardinalityType
<1>7. now' + Cardinality(Pending') <= made'
  BY <1>6, PendingIs DEF CallsInv
<1>8. \A c \in calls' : c.here /\ trip'.key \in ChangeOf(c.of).patches => cache'.shown # NoData
  BY <1>2 DEF CallsInv
<1> QED
  BY <1>3, <1>4, <1>7, <1>8 DEF CallsInv

LEMMA CallMade == ASSUME ScreensInv, NEW e, Call(e) PROVE CallsInv'
<1> DEFINE new == [nr |-> made + 1, of |-> e, applied |-> 0, here |-> TRUE]
           T(n) == [nr : 1..n, of : trip.errand, applied : 0..now, here : BOOLEAN]
<1>1. /\ CallsInv /\ e \in trip.errand /\ made < MaxCalls /\ made' = made + 1 /\ calls' = calls \cup {new}
      /\ UNCHANGED <<trip, cache, now>> /\ (trip.key \in ChangeOf(e).patches => cache.shown # NoData)
  BY DEF Call, ScreensInv
<1>2. made \in Nat /\ made' \in 0..MaxCalls /\ now \in Nat /\ 1..made \subseteq 1..(made + 1)
  BY <1>1, PendingIs, ScreensAssumption DEF CallsInv
<1>3. calls \subseteq T(made) /\ calls' \subseteq T(made + 1)
  <2>1. calls \subseteq T(made)
    BY <1>1 DEF CallsInv
  <2>2. T(made) \subseteq T(made + 1)
    BY <1>2
  <2>3. 0 \in 0..now /\ made + 1 \in 1..(made + 1)
    BY <1>2
  <2>4. new \in T(made + 1)
    BY <1>1, <2>3
  <2> QED
    BY <1>1, <2>1, <2>2, <2>4
<1>4. \A c, d \in calls' : c.nr = d.nr => c = d
  <2>1. \A c \in calls : c.nr # made + 1
    BY <1>2, <1>3
  <2>2. new.nr = made + 1
    OBVIOUS
  <2> HIDE DEF new
  <2> QED
    BY <1>1, <2>1, <2>2 DEF CallsInv
<1>5. Pending' \subseteq Pending \cup {made + 1}
  BY <1>1 DEF Pending
<1>6. IsFiniteSet(Pending \cup {made + 1}) /\ Cardinality(Pending \cup {made + 1}) <= Cardinality(Pending) + 1
  <2>1. IsFiniteSet(Pending) /\ Cardinality(Pending) \in Nat
    BY <1>1, PendingIs
  <2>2. /\ IsFiniteSet(Pending \cup {made + 1})
        /\ Cardinality(Pending \cup {made + 1}) = IF made + 1 \in Pending THEN Cardinality(Pending) ELSE Cardinality(Pending) + 1
    BY <2>1, FS_AddElement
  <2> QED
    BY <2>1, <2>2
<1>7. Cardinality(Pending') \in Nat /\ Cardinality(Pending') <= Cardinality(Pending) + 1
  BY <1>1, <1>5, <1>6, PendingIs, FS_Subset, FS_CardinalityType
<1>8. now' + Cardinality(Pending') <= made'
  BY <1>1, <1>2, <1>7, PendingIs DEF CallsInv
<1>9. \A c \in calls' : c.here /\ trip'.key \in ChangeOf(c.of).patches => cache'.shown # NoData
  BY <1>1 DEF CallsInv
<1> QED
  BY <1>1, <1>2, <1>3, <1>4, <1>8, <1>9 DEF CallsInv

LEMMA CallApplied == ASSUME ScreensInv, NEW c \in calls, Apply(c) PROVE CallsInv'
<1> DEFINE done == [c EXCEPT !.applied = now + 1]
           T(n) == [nr : 1..made, of : trip.errand, applied : 0..n, here : BOOLEAN]
<1>1. /\ CallsInv /\ c.applied = 0 /\ now' = now + 1 /\ calls' = (calls \ {c}) \cup {done}
      /\ UNCHANGED <<trip, cache, made>>
  BY DEF Apply, ScreensInv
<1>2. now \in Nat /\ now' \in Nat /\ now + 1 \in 0..now' /\ 0..now \subseteq 0..now'
  BY <1>1 DEF CallsInv
<1>3. calls \subseteq T(now) /\ c \in T(now) /\ calls \subseteq T(now')
  BY <1>1, <1>2 DEF CallsInv
<1>4. done \in T(now') /\ done.nr = c.nr /\ done.of = c.of /\ done.here = c.here /\ done.applied = now + 1
  BY <1>2, <1>3
<1> HIDE DEF done
<1>5. calls' \subseteq T(now')
  BY <1>1, <1>3, <1>4
<1>6. \A d, f \in calls' : d.nr = f.nr => d = f
  BY <1>1, <1>4 DEF CallsInv
<1>7. Pending' \subseteq Pending \ {c.nr} /\ c.nr \in Pending
  <2>1. \A d \in calls \ {c} : d.nr # c.nr
    BY <1>1 DEF CallsInv
  <2>2. \A d \in calls' : d.applied = 0 => d \in calls \ {c}
    BY <1>1, <1>2, <1>4
  <2> QED
    BY <1>1, <2>1, <2>2 DEF Pending
<1>8. IsFiniteSet(Pending \ {c.nr}) /\ Cardinality(Pending \ {c.nr}) = Cardinality(Pending) - 1
  BY <1>1, <1>7, PendingIs, FS_RemoveElement
<1>9. Cardinality(Pending') \in Nat /\ Cardinality(Pending') <= Cardinality(Pending) - 1
  BY <1>7, <1>8, FS_Subset, FS_CardinalityType
<1>10. now' + Cardinality(Pending') <= made'
  BY <1>1, <1>2, <1>9, PendingIs DEF CallsInv
<1>11. \A d \in calls' : d.here /\ trip'.key \in ChangeOf(d.of).patches => cache'.shown # NoData
  BY <1>1, <1>4 DEF CallsInv
<1> QED
  BY <1>1, <1>2, <1>5, <1>6, <1>10, <1>11 DEF CallsInv

-----------------------------------------------------------------------------
(* The steps.                                                              *)

\* A step that leaves the calls alone.
LEMMA EntryMoves ==
    ASSUME ScreensInv, UNCHANGED <<trip, page, calls, made, now, owed>>,
           Good(cache', owed, Shows(page)), cache.shown # NoData => cache'.shown # NoData
    PROVE  ScreensInv'
<1>1. CallsInv'
  BY CallsLeft DEF ScreensInv
<1>2. Good(cache, owed, Shows(page))'
  BY DEF Good, KeepsCache, Shows
<1> QED
  BY <1>1, <1>2 DEF ScreensInv

LEMMA ServeKeeps == ASSUME ScreensInv, NEW i \in DOMAIN cache.loads, Serve(i) PROVE ScreensInv'
<1>1. /\ cache \in Entry /\ cache.loads \in Seq(Load) /\ Good(cache, owed, Shows(page)) /\ owed \subseteq 1..now
      /\ cache' = [cache EXCEPT !.loads[i].read = 1..now] /\ UNCHANGED <<trip, page, calls, made, now, owed>>
  BY DEF ScreensInv, Good, Entry, Serve
<1>2. 1..now \in Written
  <2>1. CallsInv /\ MaxCalls \in Nat
    BY ScreensAssumption DEF ScreensInv
  <2>2. now \in Nat /\ made \in 0..MaxCalls /\ now + Cardinality(Pending) <= made /\ Cardinality(Pending) \in Nat
    BY <2>1, PendingIs DEF CallsInv
  <2>3. now <= MaxCalls
    BY <2>1, <2>2
  <2> QED
    BY <2>1, <2>2, <2>3 DEF Written
<1>3. PICK l : l = [cache.loads[i] EXCEPT !.read = 1..now]
  OBVIOUS
<1>4. cache.loads[i] \in Load /\ l \in Load /\ l.read = 1..now
  <2>1. cache.loads[i] \in Load
    BY <1>1
  <2> QED
    BY <1>2, <1>3, <2>1 DEF Load
<1>5. PICK ls : ls = [cache.loads EXCEPT ![i] = l]
  OBVIOUS
<1>6. /\ ls \in Seq(Load) /\ Len(ls) = Len(cache.loads) /\ DOMAIN ls = DOMAIN cache.loads
      /\ \A j \in DOMAIN ls : ls[j] = IF j = i THEN l ELSE cache.loads[j]
  BY <1>1, <1>4, <1>5
<1>7. cache' = [cache EXCEPT !.loads = ls]
  BY <1>1, <1>3, <1>5
<1>8. /\ cache' \in Entry /\ cache'.loads = ls /\ cache'.shown = cache.shown
      /\ cache'.fresh = cache.fresh /\ cache'.excused = cache.excused
  BY <1>1, <1>6, <1>7 DEF Entry
<1>9. Answers(cache', owed)
  BY <1>1, <1>4, <1>6, <1>8 DEF Good, Answers
<1>10. Good(cache', owed, Shows(page))
  <2>1. ls = <<>> => cache.loads = <<>>
    BY <1>1, <1>6
  <2> QED
    BY <1>1, <1>6, <1>8, <1>9, <2>1 DEF Good, Includes
<1> QED
  BY <1>1, <1>8, <1>10, EntryMoves

LEMMA ArriveKeeps == ASSUME ScreensInv, NEW i \in DOMAIN cache.loads, Arrive(i) PROVE ScreensInv'
<1> DEFINE ls == RemoveAt(cache.loads, i)
<1>1. /\ cache \in Entry /\ cache.loads \in Seq(Load) /\ Good(cache, owed, Shows(page))
      /\ cache.loads[i].read # NoData /\ UNCHANGED <<trip, page, calls, made, now, owed>>
      /\ cache' = [shown |-> cache.loads[i].read, fresh |-> TRUE, excused |-> cache.loads[i].late, loads |-> ls]
  BY DEF ScreensInv, Good, Entry, Arrive
<1>2. /\ ls \in Seq(Load) /\ Len(ls) = Len(cache.loads) - 1
      /\ \A j \in DOMAIN ls : \E k \in DOMAIN cache.loads : ls[j] = cache.loads[k]
  BY <1>1, Removed
<1>3. cache.loads[i] \in Load
  BY <1>1
<1> HIDE DEF ls
<1>4. cache' \in Entry
  BY <1>1, <1>2, <1>3 DEF Entry, Load
<1>5. Answers(cache', owed)
  BY <1>1, <1>2 DEF Good, Answers
<1>6. Includes(cache', owed, Shows(page))
  BY <1>1 DEF Good, Answers, Includes
<1>7. KeepsCache => Len(cache'.loads) <= 1
  BY <1>1, <1>2 DEF Good
<1>8. Good(cache', owed, Shows(page)) /\ cache'.shown # NoData
  BY <1>1, <1>4, <1>5, <1>6, <1>7 DEF Good
<1> QED
  BY <1>1, <1>8, EntryMoves

LEMMA LoadFailsKeeps == ASSUME ScreensInv, NEW i \in DOMAIN cache.loads, LoadFails(i) PROVE ScreensInv'
<1> DEFINE ls == RemoveAt(cache.loads, i)
<1>1. /\ cache \in Entry /\ cache.loads \in Seq(Load) /\ Good(cache, owed, Shows(page))
      /\ UNCHANGED <<trip, page, calls, made, now, owed>> /\ cache' = [cache EXCEPT !.excused = TRUE, !.loads = ls]
  BY DEF ScreensInv, Good, Entry, LoadFails
<1>2. /\ ls \in Seq(Load) /\ Len(ls) = Len(cache.loads) - 1
      /\ \A j \in DOMAIN ls : \E k \in DOMAIN cache.loads : ls[j] = cache.loads[k]
  BY <1>1, Removed
<1> HIDE DEF ls
<1>3. /\ cache' \in Entry /\ cache'.shown = cache.shown /\ cache'.fresh = cache.fresh
      /\ cache'.excused = TRUE /\ cache'.loads = ls
  BY <1>1, <1>2 DEF Entry
<1>4. Answers(cache', owed)
  BY <1>1, <1>2, <1>3 DEF Good, Answers
<1>5. KeepsCache => Len(ls) <= 1
  BY <1>1, <1>2 DEF Good
<1>6. Good(cache', owed, Shows(page))
  BY <1>1, <1>3, <1>4, <1>5 DEF Good, Includes
<1> QED
  BY <1>1, <1>3, <1>6, EntryMoves

LEMMA AgeKeeps == ASSUME ScreensInv, Age PROVE ScreensInv'
<1>1. /\ cache \in Entry /\ Good(cache, owed, Shows(page)) /\ UNCHANGED <<trip, page, calls, made, now, owed>>
      /\ cache' = [cache EXCEPT !.fresh = FALSE]
  BY DEF ScreensInv, Good, Age
<1>2. /\ cache' \in Entry /\ cache'.shown = cache.shown /\ cache'.fresh = FALSE
      /\ cache'.excused = cache.excused /\ cache'.loads = cache.loads
  BY <1>1 DEF Entry
<1>3. Good(cache', owed, Shows(page))
  BY <1>1, <1>2 DEF Good, Answers, Includes
<1> QED
  BY <1>1, <1>2, <1>3, EntryMoves

LEMMA VisitKeeps ==
    ASSUME ScreensInv, NEW p \in trip.pages \cup {Nowhere}, Visit(p)
    PROVE  ScreensInv'
<1>1. /\ page' = p /\ cache' = Opened(p, cache) /\ UNCHANGED <<trip, made, now, owed>>
      /\ calls' = {[c EXCEPT !.here = FALSE] : c \in calls} /\ Good(cache, owed, FALSE)
  BY DEF ScreensInv, Good, Includes, Visit
<1>2. CallsInv'
  BY <1>1, CallsLeft DEF ScreensInv
<1>3. Good(cache', owed, Shows(p))
  BY <1>1, OpenedGood
<1>4. Good(cache, owed, Shows(page))'
  BY <1>1, <1>3 DEF Good, KeepsCache, Shows
<1> QED
  BY <1>1, <1>2, <1>4 DEF ScreensInv

LEMMA CallsKeep ==
    ASSUME ScreensInv, UNCHANGED <<trip, page, cache, owed>>, CallsInv', now' >= now
    PROVE  ScreensInv'
<1>1. Good(cache, owed, Shows(page))'
  BY DEF ScreensInv, Good, KeepsCache, Shows
<1>2. now \in Nat /\ now' \in Nat /\ owed' \subseteq 1..now'
  BY DEF ScreensInv, CallsInv
<1> QED
  BY <1>1, <1>2 DEF ScreensInv

LEMMA SucceedKeeps == ASSUME ScreensInv, NEW c \in calls, Succeed(c) PROVE ScreensInv'
<1> DEFINE to == ChangeOf(c.of).leaves
           due == IF Expected(c) THEN owed \cup {c.applied} ELSE owed
<1>1. c.applied # 0 /\ owed' = due /\ UNCHANGED <<trip, made, now>> /\ CallsInv
  BY DEF Succeed, ScreensInv
<1>2. owed' \subseteq 1..now'
  <2>1. c.applied \in 1..now
    BY <1>1 DEF CallsInv
  <2> QED
    BY <1>1, <2>1 DEF ScreensInv
<1>3. Good(Renewed(c), due, Shows(page)) /\ (cache.shown # NoData => Renewed(c).shown # NoData)
  BY <1>1, RenewedGood
<1> HIDE DEF due
<1>4. CASE to \in {Nowhere, page}
  <2>1. cache' = Renewed(c) /\ calls' = calls \ {c} /\ page' = page
    BY <1>4 DEF Succeed
  <2>2. CallsInv'
    BY <1>1, <1>3, <2>1, CallsLeft
  <2>3. Good(cache, owed, Shows(page))'
    BY <1>1, <1>3, <2>1 DEF Good, KeepsCache, Shows
  <2> QED
    BY <1>1, <1>2, <2>1, <2>2, <2>3 DEF ScreensInv
<1>5. CASE to \notin {Nowhere, page}
  <2>1. /\ page' = to /\ cache' = Opened(to, Renewed(c)) /\ calls' = {[d EXCEPT !.here = FALSE] : d \in calls \ {c}}
    BY <1>5 DEF Succeed
  <2>2. CallsInv'
    <3>1. calls \ {c} \subseteq calls
      OBVIOUS
    <3> QED
      BY <1>1, <2>1, <3>1, CallsLeft
  <2>3. Good(cache', due, Shows(to))
    <3>1. Good(Renewed(c), due, FALSE)
      BY <1>3 DEF Good, Includes
    <3> QED
      BY <2>1, <3>1, OpenedGood
  <2>4. Good(cache, owed, Shows(page))'
    BY <1>1, <2>1, <2>3 DEF Good, KeepsCache, Shows
  <2>5. page' \in trip'.pages \cup {Nowhere}
    <3>1. trip \in Trips /\ c.of \in trip.errand
      BY <1>1 DEF ScreensInv, CallsInv
    <3> QED
      BY <1>1, <2>1, <3>1, RenewalAssumption
  <2> QED
    BY <1>1, <1>2, <2>2, <2>4, <2>5 DEF ScreensInv
<1> QED
  BY <1>4, <1>5

LEMMA ScreensStart == ScreensInit => ScreensInv
<1> SUFFICES ASSUME ScreensInit PROVE ScreensInv
  OBVIOUS
<1>1. Pending = {} /\ Cardinality({}) = 0
  BY FS_EmptySet DEF ScreensInit, Pending
<1>2. CallsInv
  BY <1>1, ScreensAssumption DEF ScreensInit, CallsInv
<1>3. Good(cache, owed, Shows(page))
  BY EmptyIsGood DEF ScreensInit
<1> QED
  BY <1>2, <1>3 DEF ScreensInit, ScreensInv

LEMMA ScreensSteps == ScreensInv /\ [ScreensNext]_vars => ScreensInv'
<1> SUFFICES ASSUME ScreensInv, [ScreensNext]_vars PROVE ScreensInv'
  OBVIOUS
<1>1. ASSUME NEW p \in trip.pages \cup {Nowhere}, Visit(p) PROVE ScreensInv'
  BY <1>1, VisitKeeps
<1>2. ASSUME NEW i \in DOMAIN cache.loads, Serve(i) \/ Arrive(i) \/ LoadFails(i) PROVE ScreensInv'
  BY <1>2, ServeKeeps, ArriveKeeps, LoadFailsKeeps
<1>3. CASE Age
  BY <1>3, AgeKeeps
<1>4. now \in Nat
  BY DEF ScreensInv, CallsInv
<1>5. ASSUME NEW e \in trip.errand, Call(e) PROVE ScreensInv'
  BY <1>4, <1>5, CallMade, CallsKeep DEF Call
<1>6. ASSUME NEW c \in calls, Apply(c) PROVE ScreensInv'
  BY <1>4, <1>6, CallApplied, CallsKeep DEF Apply
<1>7. ASSUME NEW c \in calls, CallFails(c) PROVE ScreensInv'
  <2>1. UNCHANGED <<trip, page, cache, made, now, owed>> /\ calls' = calls \ {c} /\ calls \ {c} \subseteq calls
    BY <1>7 DEF CallFails
  <2>2. CallsInv'
    BY <2>1, CallsLeft DEF ScreensInv
  <2> QED
    BY <1>4, <2>1, <2>2, CallsKeep
<1>8. ASSUME NEW c \in calls, Succeed(c) PROVE ScreensInv'
  BY <1>8, SucceedKeeps
<1>9. CASE UNCHANGED vars
  BY <1>9 DEF vars, ScreensInv, CallsInv, Pending, Good, KeepsCache, Shows
<1> QED
  BY <1>1, <1>2, <1>3, <1>5, <1>6, <1>7, <1>8, <1>9 DEF ScreensNext

\* What the user sees, once nothing is loading and unless an error is shown or
\* a request of before the change was answered after it, includes every change
\* whose success was seen and whose page renews the key; and a page on the
\* cache never asks twice at a time.  Whatever the pages: the handlers of
\* react-query, and the plain pages' own reloading, lose none.
THEOREM OwnChangesAreShown == ScreensSpec => []OwnChangesShow
<1>1. ScreensInv => OwnChangesShow
  <2> SUFFICES ASSUME ScreensInv PROVE OwnChangesShow
    OBVIOUS
  <2>1. CallsInv /\ Good(cache, owed, Shows(page)) /\ MaxCalls \in Nat
    BY ScreensAssumption DEF ScreensInv
  <2>2. now \in Nat /\ made \in 0..MaxCalls /\ now \in 0..made
    <3>1. /\ now \in Nat /\ made \in 0..MaxCalls /\ made \in Nat
          /\ now + Cardinality(Pending) <= made /\ Cardinality(Pending) \in Nat
      BY <2>1, PendingIs DEF CallsInv
    <3> QED
      BY <3>1
  <2>3. cache \in Entry /\ cache.loads \in Seq(Load)
    BY <2>1 DEF Good, Entry
  <2>4. \A i \in DOMAIN cache.loads : cache.loads[i].read \in Written \cup {NoData}
    <3>1. ASSUME NEW i \in DOMAIN cache.loads PROVE cache.loads[i] \in Load
      BY <2>3
    <3> QED
      BY <3>1 DEF Load
  <2>5. \A c \in calls : c.of \in trip.errand /\ c.nr \in 1..made /\ c.applied \in 0..now
    BY <2>1 DEF CallsInv
  <2>6. Shows(page) /\ Pages[page].cached => Len(cache.loads) <= 1
    <3>1. Shows(page) => page \in trip.pages
      BY DEF ScreensInv, Shows, ShowsOn
    <3>2. KeepsCache => Len(cache.loads) <= 1
      BY <2>1 DEF Good
    <3> QED
      BY <3>1, <3>2 DEF KeepsCache
  <2>7. ScreensTypeOK
    BY <2>1, <2>2, <2>3, <2>4, <2>5, <2>6 DEF ScreensTypeOK, ScreensInv, Good, Entry
  <2> QED
    BY <2>1, <2>7 DEF OwnChangesShow, Good, Includes
<1> QED
  BY <1>1, ScreensStart, ScreensSteps, PTL DEF ScreensSpec
=============================================================================
