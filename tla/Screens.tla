-------------------------------- MODULE Screens --------------------------------
(***************************************************************************)
(* One user's tab of a web client, the pages of its tables, and the server *)
(* behind them: what a page shows after a change the user made there.      *)
(* Cached pages keep what they load in react-query's cache, which outlives *)
(* them (QueryProvider: fresh for 30 seconds, one retry); plain ones load  *)
(* when they open and forget when they close.  The server is the number of *)
(* changes it has applied; what a page shows is the set of those that were *)
(* applied when it was read.  One entry of the cache is watched: entries   *)
(* do not depend on each other.                                            *)
(***************************************************************************)
EXTENDS WebPages, Integers, FiniteSets, SequencesExt

Pages == PlatformPages @@ TenantPages @@ PortalPages

CONSTANTS
    Trips,    \* what the user may be about
    Forgets,  \* pairs of a page and a key that its changes leave as it is, and
    Ignored,  \* keys that no other page's changes renew
    MaxCalls, \* how many changes the user makes
    NoData

\* A trip: the pages the user visits, the watched key, and the changes the
\* user makes, pairs of a page and a name.
ASSUME ScreensAssumption ==
    /\ \A t \in Trips :
          /\ t.pages \subseteq DOMAIN Pages /\ \E p \in t.pages : t.key \in DOMAIN Pages[p].shows
          /\ \A e \in t.errand : e[1] \in t.pages /\ e[2] \in DOMAIN Pages[e[1]].controls
    /\ \A p \in DOMAIN Pages : DOMAIN Pages[p].controls \subseteq DOMAIN Pages[p].changes
    /\ MaxCalls \in Nat /\ \A s \in SUBSET (1..MaxCalls) : s # NoData

ChangeOf(e) == Pages[e[1]].changes[e[2]]

\* Of a trip: the pages that show its key, the tables they read for it, and
\* the changes whose success renews it.
ShowsOn(t, p) == p # Nowhere /\ t.key \in DOMAIN Pages[p].shows
ReadOn(t) == UNION {Pages[p].shows[t.key] : p \in {q \in t.pages : ShowsOn(t, q)}}
RenewsOn(t, e) == \E r \in ChangeOf(e).renews : IsPrefix(r, t.key)

\* The change is made of what the key's pages read, and is none of those known
\* to leave it as it is.
Concerns(t, e) ==
    /\ ChangeOf(e).writes \cap ReadOn(t) # {}
    /\ t.key \notin Ignored /\ <<e[1], t.key>> \notin Forgets

\* The pages of one trip keep what they load the same way; a form's list is
\* among them; and a change renews the key it concerns, or patches it on a page
\* that keeps it itself.
ASSUME RenewalAssumption ==
    \A t \in Trips :
       /\ \A p, q \in t.pages : Pages[p].cached = Pages[q].cached
       /\ \A e \in t.errand :
             /\ ChangeOf(e).leaves \in t.pages \cup {Nowhere}
             /\ Concerns(t, e) => \/ RenewsOn(t, e)
                                  \/ t.key \in ChangeOf(e).patches /\ ~Pages[e[1]].cached

VARIABLES
    trip,
    page,    \* the page that is open
    cache,   \* what it shows or the cache holds of the key, and the requests for it
    calls,   \* the changes in progress
    made,    \* how many the user has made
    now,     \* how many the server has applied
    owed     \* those whose success the user has seen and that the key should show

vars == <<trip, page, cache, calls, made, now, owed>>

Shows(p) == ShowsOn(trip, p)
Renews(e) == RenewsOn(trip, e)

\* The key should show the call's change: the pages that show it are cached or
\* the one where the call was made and that was not left since.
Expected(c) ==
    /\ Concerns(trip, c.of)
    /\ c.here \/ \E p \in trip.pages : Shows(p) /\ Pages[p].cached

\* A page opened has nothing of the key until its first load arrives.
Empty == [shown |-> NoData, fresh |-> FALSE, excused |-> FALSE, loads |-> <<>>]
NewLoad == [read |-> NoData, late |-> FALSE]

Written == SUBSET (1..MaxCalls)
ScreensTypeOK ==
    /\ page \in trip.pages \cup {Nowhere}
    /\ cache.shown \in Written \cup {NoData} /\ cache.fresh \in BOOLEAN /\ cache.excused \in BOOLEAN
    /\ \A i \in DOMAIN cache.loads : cache.loads[i].read \in Written \cup {NoData}
    /\ \A c \in calls : c.of \in trip.errand /\ c.nr \in 1..made /\ c.applied \in 0..now
    /\ now \in 0..made /\ made \in 0..MaxCalls /\ owed \subseteq 1..now
    /\ cache.fresh => cache.shown # NoData
    /\ Shows(page) /\ Pages[page].cached => Len(cache.loads) <= 1

\* The user starts nowhere, with an empty cache.
ScreensInit ==
    /\ trip \in Trips
    /\ page = Nowhere /\ cache = Empty
    /\ calls = {} /\ made = 0 /\ now = 0 /\ owed = {}

-----------------------------------------------------------------------------
(* The cache.                                                              *)

Late(ls) == [i \in DOMAIN ls |-> [ls[i] EXCEPT !.late = TRUE]]

\* A page is opened from another.  What a plain page holds goes with it, and
\* answers to its requests are ignored; a cached one asks for what is not
\* fresh unless a request is in progress.
Opened(p, held) ==
    LET kept == IF Shows(page) /\ ~Pages[page].cached THEN Empty ELSE held IN
    IF Shows(p) /\ ~kept.fresh /\ kept.loads = <<>> THEN [kept EXCEPT !.loads = <<NewLoad>>] ELSE kept

Visit(p) ==
    /\ p # page
    /\ page' = p
    /\ cache' = Opened(p, cache)
    /\ calls' = {[c EXCEPT !.here = FALSE] : c \in calls}
    /\ UNCHANGED <<trip, made, now, owed>>

\* The server reads the tables.
Serve(i) ==
    /\ i \in DOMAIN cache.loads /\ cache.loads[i].read = NoData
    /\ cache' = [cache EXCEPT !.loads[i].read = 1..now]
    /\ UNCHANGED <<trip, page, calls, made, now, owed>>

\* Whatever request is answered last is shown.
Arrive(i) ==
    LET load == cache.loads[i] IN
    /\ i \in DOMAIN cache.loads /\ load.read # NoData
    /\ cache' = [shown |-> load.read, fresh |-> TRUE, excused |-> load.late, loads |-> RemoveAt(cache.loads, i)]
    /\ UNCHANGED <<trip, page, calls, made, now, owed>>

\* A request fails, and its retry: an error is shown, or the old data stay.
LoadFails(i) ==
    /\ i \in DOMAIN cache.loads
    /\ cache' = [cache EXCEPT !.excused = TRUE, !.loads = RemoveAt(@, i)]
    /\ UNCHANGED <<trip, page, calls, made, now, owed>>

\* After 30 seconds.
Age ==
    /\ cache.fresh
    /\ cache' = [cache EXCEPT !.fresh = FALSE]
    /\ UNCHANGED <<trip, page, calls, made, now, owed>>

\* invalidateQueries.  A request in progress is canceled and made again if the
\* page shows something already; the first one is not, and its answer counts
\* as fresh, as does that of a request for a page nobody has open.
Invalidated(open, held) ==
    [held EXCEPT !.fresh = FALSE,
                 !.loads = IF open /\ (@ = <<>> \/ held.shown # NoData) THEN <<NewLoad>> ELSE Late(@)]

\* As if a plain page did not load again while it is loading.
ReloadedOnce(held) == IF held.loads = <<>> THEN [held EXCEPT !.loads = <<NewLoad>>] ELSE held

\* A plain page loads again; the answers may overtake each other.
Reloaded(held) == [held EXCEPT !.loads = Append(Late(@), NewLoad)]

-----------------------------------------------------------------------------
(* Changes.                                                                *)

\* The user uses a control that no call made since the page opened disables;
\* one of a row, when the row is shown.
Call(e) ==
    /\ e \in trip.errand /\ e[1] = page /\ made < MaxCalls
    /\ ~\E c \in calls : c.here /\ c.of[2] \in Pages[page].controls[e[2]]
    /\ trip.key \in ChangeOf(e).patches => cache.shown # NoData
    /\ made' = made + 1
    /\ calls' = calls \cup {[nr |-> made + 1, of |-> e, applied |-> 0, here |-> TRUE]}
    /\ UNCHANGED <<trip, page, cache, now, owed>>

\* The server applies it ...
Apply(c) ==
    /\ c.applied = 0
    /\ now' = now + 1
    /\ calls' = (calls \ {c}) \cup {[c EXCEPT !.applied = now + 1]}
    /\ UNCHANGED <<trip, page, cache, made, owed>>

\* ... or refuses, or never gets it; or its answer is lost: the handler of the
\* error tells the user, and renews nothing.
CallFails(c) ==
    /\ calls' = calls \ {c}
    /\ UNCHANGED <<trip, page, cache, made, now, owed>>

\* What the handler of c's success does about the key: a page that is closed
\* by then still invalidates the cache, but reloads and patches nothing.
Renewed(c) ==
    LET of == ChangeOf(c.of) IN
    IF Renews(c.of) /\ Pages[c.of[1]].cached THEN Invalidated(Shows(page), cache)
    ELSE IF Renews(c.of) /\ c.here THEN Reloaded(cache)
    ELSE IF trip.key \in of.patches /\ c.here
         THEN [cache EXCEPT !.shown = @ \cup {c.applied}, !.loads = Late(@)]
    ELSE cache

\* The success arrives, on whatever page the user is by then; a form's opens
\* its list.
Succeed(c) ==
    LET to == ChangeOf(c.of).leaves IN
    /\ c.applied # 0
    /\ owed' = IF Expected(c) THEN owed \cup {c.applied} ELSE owed
    /\ IF to \in {Nowhere, page}
       THEN /\ cache' = Renewed(c)
            /\ calls' = calls \ {c}
            /\ UNCHANGED page
       ELSE /\ page' = to
            /\ cache' = Opened(to, Renewed(c))
            /\ calls' = {[d EXCEPT !.here = FALSE] : d \in calls \ {c}}
    /\ UNCHANGED <<trip, made, now>>

ScreensNext ==
    \/ \E p \in trip.pages \cup {Nowhere} : Visit(p)
    \/ \E i \in DOMAIN cache.loads : Serve(i) \/ Arrive(i) \/ LoadFails(i)
    \/ Age
    \/ \E e \in trip.errand : Call(e)
    \/ \E c \in calls : Apply(c) \/ CallFails(c) \/ Succeed(c)

ScreensSpec == ScreensInit /\ [][ScreensNext]_vars

-----------------------------------------------------------------------------
\* What the open page shows, once nothing is loading and unless an error is
\* shown or a request of before the change was answered after it, includes
\* every change whose success the user has seen and that the key should show;
\* and a cached page never asks twice at a time (ScreensTypeOK).
OwnChangesShow ==
    /\ ScreensTypeOK
    /\ Shows(page) /\ cache.loads = <<>> /\ cache.shown # NoData /\ ~cache.excused => owed \subseteq cache.shown
=============================================================================
