---------------------------- MODULE DeliveryTrips ----------------------------
(***************************************************************************)
(* Delivery trips: DeliveryTripsService, and ReturnToWarehouseService for  *)
(* what a failed trip brings back.  Only the latter is mounted by the      *)
(* application module; the former is compiled and tested but serves no     *)
(* route yet.  A driver and the vehicle given with him are one crew, and   *)
(* the goods of a stop are one unit, the subject of InventoryStock.        *)
(***************************************************************************)
EXTENDS Requests

CONSTANTS
    Trip, Stop, Crew, Pack,
    NoCrew, NoTrip,
    UnderWay,    \* trips on the road at the start, their stops reached
    StopsOf      \* and, for these, their stops

TripStatus == {"PLANNED", "LOADING", "IN_TRANSIT", "COMPLETED", "FAILED", "RETURNED"}
StopStatus == {"PENDING", "ARRIVED", "DELIVERED", "FAILED"}
PlanOp == {"CREATE_TRIP", "ASSIGN_PROVIDER", "ADD_STOP", "ADD_PACK", "START_LOADING", "START_TRIP"}
RoadOp == {"ARRIVE", "COMPLETE_STOP", "COMPLETE_TRIP", "FAIL_TRIP", "RTW"}
TripOp == PlanOp \cup RoadOp

TripRow == [status: TripStatus, version: Nat, crew: Crew \cup {NoCrew}]
StopRow == [trip: Trip, status: StopStatus]

\* A call names what its operation needs; a creation makes a row of its own.
\* The crew of a trip that is not of the own fleet is NoCrew.
ASSUME TripAssumption ==
    /\ Unread \notin TripRow /\ Unread \notin StopRow
    /\ NoTrip \notin Trip /\ NoCrew \notin Crew
    /\ UnderWay \subseteq Trip /\ StopsOf \in [UnderWay -> SUBSET Stop]
    /\ \A r \in Request : r.op \in TripOp =>
          r \in [op: TripOp, trip: Trip, stop: Stop, pack: Pack, crew: Crew \cup {NoCrew},
                 success: BOOLEAN, by: Nat]
    /\ \A q, r \in Request : q.op = "CREATE_TRIP" /\ r.op = "CREATE_TRIP" /\ q.trip = r.trip => q = r
    /\ \A q \in Request : q.op = "CREATE_TRIP" => q.trip \notin UnderWay
    /\ \A q, r \in Request : q.op = "ADD_STOP" /\ r.op = "ADD_STOP" /\ q.stop = r.stop => q = r
    /\ \A q \in Request : q.op = "ADD_STOP" => \A t \in UnderWay : q.stop \notin StopsOf[t]

VARIABLES
    trip,         \* the trips
    stop,         \* their stops
    packOn,       \* per pack, the trip it is on
    crewOn,       \* currentTripId of each crew
    delivery,     \* per stop, the status last written to its order
    committed,    \* per stop, how often completeTrip took its goods off the stock
    rtw,          \* stops with a ReturnToWarehouse record
    fetched       \* per stop, how often RTW took its goods off the allocation

trips == <<trip, stop, packOn, crewOn, delivery, committed, rtw, fetched>>
goods == <<committed, rtw, fetched>>

TripTypeOK ==
    /\ trip \in [Trip -> TripRow \cup {Unread}] /\ stop \in [Stop -> StopRow \cup {Unread}]
    /\ packOn \in [Pack -> Trip \cup {NoTrip}] /\ crewOn \in [Crew -> Trip \cup {NoTrip}]
    /\ delivery \in [Stop -> {"PROCESSING", "OUT_FOR_DELIVERY", "DELIVERED", "DELIVERY_FAILED"}]
    /\ committed \in [Stop -> Nat] /\ rtw \subseteq Stop /\ fetched \in [Stop -> Nat]

TripInit ==
    /\ trip = [t \in Trip |-> IF t \in UnderWay
                              THEN [status |-> "IN_TRANSIT", version |-> 0, crew |-> NoCrew] ELSE Unread]
    /\ stop = [s \in Stop |-> IF \E t \in UnderWay : s \in StopsOf[t]
                              THEN [trip |-> CHOOSE t \in UnderWay : s \in StopsOf[t], status |-> "ARRIVED"]
                              ELSE Unread]
    /\ packOn = [p \in Pack |-> NoTrip] /\ crewOn = [c \in Crew |-> NoTrip]
    /\ delivery = [s \in Stop |-> "PROCESSING"]
    /\ committed = [s \in Stop |-> 0] /\ rtw = {} /\ fetched = [s \in Stop |-> 0]

DELIVERY_TRIP_TRANSITIONS ==
    [s \in TripStatus |->
        CASE s = "PLANNED" -> {"LOADING", "FAILED", "IN_TRANSIT"}
          [] s = "LOADING" -> {"IN_TRANSIT", "FAILED"}
          [] s = "IN_TRANSIT" -> {"COMPLETED", "FAILED"}
          [] s = "FAILED" -> {"RETURNED"}
          [] OTHER -> {}]

May(t, to) == trip[t] # Unread /\ to \in DELIVERY_TRIP_TRANSITIONS[trip[t].status]
StopsOn(t) == {s \in Stop : stop[s] # Unread /\ stop[s].trip = t}
WithStatus(status) == {s \in Stop : stop[s] # Unread /\ stop[s].status = status}

\* What a handler reads of a trip.
Read(t) == [row |-> trip[t], stops |-> StopsOn(t), delivered |-> StopsOn(t) \cap WithStatus("DELIVERED")]

\* A write of the trip by its id.
SaveTripById(w, status) ==
    trip' = [trip EXCEPT ![job[w].trip].status = status, ![job[w].trip].version = @ + 1]

\* updateMany where the version is the one read, incremented.
SaveTrip(w, status) ==
    /\ trip[job[w].trip].version = saw[w].row.version
    /\ trip' = [trip EXCEPT ![job[w].trip].status = status, ![job[w].trip].version = @ + 1]

\* The crew of the trip is free again.
Release(crew) == crewOn' = [c \in Crew |-> IF c = crew THEN NoTrip ELSE crewOn[c]]

-----------------------------------------------------------------------------
(* Planning.  Outside a transaction: each statement commits by itself.     *)

\* createTrip finds the crew free, creates the trip, then takes the crew.
CreateTrip(w) ==
    LET c == job[w].crew IN
    \/ /\ At(w, "CREATE_TRIP", "read")
       /\ IF c = NoCrew \/ crewOn[c] = NoTrip THEN Goto(w, "write") ELSE Answer(w)
       /\ UNCHANGED trips
    \/ /\ At(w, "CREATE_TRIP", "write")
       /\ trip' = [trip EXCEPT ![job[w].trip] = [status |-> "PLANNED", version |-> 0, crew |-> c]]
       /\ IF c = NoCrew THEN Answer(w) ELSE Goto(w, "next")
       /\ UNCHANGED <<stop, packOn, crewOn, delivery, goods>>
    \/ /\ At(w, "CREATE_TRIP", "next")
       /\ crewOn' = [crewOn EXCEPT ![c] = job[w].trip]
       /\ Answer(w)
       /\ UNCHANGED <<trip, stop, packOn, delivery, goods>>

\* The handlers that only write the trip, at the version they read.
ReadTrip(w, ok) ==
    LET t == job[w].trip IN SeeIf(w, trip[t] # Unread /\ ok, Read(t), "commit") /\ UNCHANGED trips

AssignProvider(w) ==
    \/ At(w, "ASSIGN_PROVIDER", "read") /\ ReadTrip(w, trip[job[w].trip].status = "PLANNED")
    \/ /\ At(w, "ASSIGN_PROVIDER", "commit")
       /\ SaveTrip(w, trip[job[w].trip].status)
       /\ Answer(w)
       /\ UNCHANGED <<stop, packOn, crewOn, delivery, goods>>

\* addStop creates the stop, then counts it in the trip; a conflict there
\* leaves the stop.
AddStop(w) ==
    LET t == job[w].trip
        s == job[w].stop IN
    \/ /\ At(w, "ADD_STOP", "read")
       /\ SeeIf(w, trip[t] # Unread /\ trip[t].status = "PLANNED" /\ delivery[s] = "PROCESSING",
                Read(t), "write")
       /\ UNCHANGED trips
    \/ /\ At(w, "ADD_STOP", "write")
       /\ stop' = [stop EXCEPT ![s] = [trip |-> t, status |-> "PENDING"]]
       /\ Goto(w, "commit")
       /\ UNCHANGED <<trip, packOn, crewOn, delivery, goods>>
    \/ /\ At(w, "ADD_STOP", "commit")
       /\ SaveTrip(w, trip[t].status)
       /\ Answer(w)
       /\ UNCHANGED <<stop, packOn, crewOn, delivery, goods>>

\* addPack likewise; a pack is on one trip (the unique index on packId).
AddPack(w) ==
    LET t == job[w].trip
        p == job[w].pack IN
    \/ /\ At(w, "ADD_PACK", "read")
       /\ SeeIf(w, trip[t] # Unread /\ trip[t].status \in {"PLANNED", "LOADING"} /\ packOn[p] = NoTrip,
                Read(t), "write")
       /\ UNCHANGED trips
    \/ /\ At(w, "ADD_PACK", "write")
       /\ packOn[p] = NoTrip
       /\ packOn' = [packOn EXCEPT ![p] = t]
       /\ Goto(w, "commit")
       /\ UNCHANGED <<trip, stop, crewOn, delivery, goods>>
    \/ /\ At(w, "ADD_PACK", "commit")
       /\ SaveTrip(w, trip[t].status)
       /\ Answer(w)
       /\ UNCHANGED <<stop, packOn, crewOn, delivery, goods>>

\* startLoading is for the own fleet.
StartLoading(w) ==
    \/ At(w, "START_LOADING", "read") /\ ReadTrip(w, May(job[w].trip, "LOADING") /\ trip[job[w].trip].crew # NoCrew)
    \/ /\ At(w, "START_LOADING", "commit")
       /\ SaveTrip(w, "LOADING")
       /\ Answer(w)
       /\ UNCHANGED <<stop, packOn, crewOn, delivery, goods>>

\* startTrip writes the orders of the stops it read before it knows whether
\* the trip may start.
StartTrip(w) ==
    LET t == job[w].trip IN
    \/ /\ At(w, "START_TRIP", "read")
       /\ SeeIf(w, May(t, "IN_TRANSIT") /\ StopsOn(t) # {} /\ \E p \in Pack : packOn[p] = t,
                Read(t), "write")
       /\ UNCHANGED trips
    \/ /\ At(w, "START_TRIP", "write")
       /\ delivery' = [s \in Stop |-> IF s \in saw[w].stops THEN "OUT_FOR_DELIVERY" ELSE delivery[s]]
       /\ Goto(w, "commit")
       /\ UNCHANGED <<trip, stop, packOn, crewOn, goods>>
    \/ /\ At(w, "START_TRIP", "commit")
       /\ SaveTrip(w, "IN_TRANSIT")
       /\ Answer(w)
       /\ UNCHANGED <<stop, packOn, crewOn, delivery, goods>>

-----------------------------------------------------------------------------
(* On the road.                                                            *)

\* arriveAtStop reads the stop and its trip, and writes the stop by its id.
ArriveAtStop(w) ==
    LET s == job[w].stop IN
    \/ /\ At(w, "ARRIVE", "read")
       /\ SeeIf(w, stop[s] # Unread /\ stop[s].status = "PENDING" /\ trip[stop[s].trip].status = "IN_TRANSIT",
                Read(stop[s].trip), "commit")
       /\ UNCHANGED trips
    \/ /\ At(w, "ARRIVE", "commit")
       /\ stop' = [stop EXCEPT ![s] = [@ EXCEPT !.status = "ARRIVED"]]
       /\ Answer(w)
       /\ UNCHANGED <<trip, packOn, crewOn, delivery, goods>>

\* completeTrip: the first statement of its transaction, after which the
\* trip may be completed.
ReadForCompletion(w, t) == SeeIf(w, May(t, "COMPLETED"), Read(t), "commit") /\ UNCHANGED trips

\* Its last: the crew is released, the goods of the stops that were DELIVERED
\* leave the stock, the trip is written at the version read.
CommitTrip(w) ==
    /\ Release(saw[w].row.crew)
    /\ committed' = [s \in Stop |-> committed[s] + (IF s \in saw[w].delivered THEN 1 ELSE 0)]
    /\ SaveTrip(w, "COMPLETED")
    /\ Answer(w)
    /\ UNCHANGED <<stop, packOn, delivery, rtw, fetched>>

\* completeStop writes the stop, then the order, by their ids, and completes
\* the trip when every other stop it read was DELIVERED.
CompleteStop(w) ==
    LET s == job[w].stop
        t == job[w].trip
        ok == job[w].success IN
    \/ /\ At(w, "COMPLETE_STOP", "read")
       /\ SeeIf(w, stop[s] # Unread /\ stop[s].status = "ARRIVED" /\ stop[s].trip = t, Read(t), "write")
       /\ UNCHANGED trips
    \/ /\ At(w, "COMPLETE_STOP", "write")
       /\ stop' = [stop EXCEPT ![s] = [@ EXCEPT !.status = IF ok THEN "DELIVERED" ELSE "FAILED"]]
       /\ Goto(w, "next")
       /\ UNCHANGED <<trip, packOn, crewOn, delivery, goods>>
    \/ /\ At(w, "COMPLETE_STOP", "next")
       /\ delivery' = [delivery EXCEPT ![s] = IF ok THEN "DELIVERED" ELSE "DELIVERY_FAILED"]
       /\ IF ok /\ saw[w].stops \ {s} \subseteq saw[w].delivered THEN Goto(w, "then") ELSE Answer(w)
       /\ UNCHANGED <<trip, stop, packOn, crewOn, goods>>
    \/ At(w, "COMPLETE_STOP", "then") /\ ReadForCompletion(w, t)
    \/ At(w, "COMPLETE_STOP", "commit") /\ CommitTrip(w)

CompleteTrip(w) ==
    \/ At(w, "COMPLETE_TRIP", "read") /\ ReadForCompletion(w, job[w].trip)
    \/ At(w, "COMPLETE_TRIP", "commit") /\ CommitTrip(w)

\* failTrip writes the trip by its id and leaves its version alone.
FailTrip(w) ==
    \/ At(w, "FAIL_TRIP", "read") /\ ReadTrip(w, May(job[w].trip, "FAILED"))
    \/ /\ At(w, "FAIL_TRIP", "commit")
       /\ Release(saw[w].row.crew)
       /\ trip' = [trip EXCEPT ![job[w].trip] = [@ EXCEPT !.status = "FAILED"]]
       /\ Answer(w)
       /\ UNCHANGED <<stop, packOn, delivery, goods>>

\* returnToWarehouse: a FAILED stop of a FAILED trip, once (the unique index
\* on stopId), and the trip is RETURNED.
ReturnToWarehouse(w) ==
    LET s == job[w].stop
        t == job[w].trip IN
    \/ /\ At(w, "RTW", "read")
       /\ SeeIf(w, s \in StopsOn(t) /\ stop[s].status = "FAILED" /\ May(t, "RETURNED") /\ s \notin rtw,
                Read(t), "commit")
       /\ UNCHANGED trips
    \/ /\ At(w, "RTW", "commit")
       /\ s \notin rtw
       /\ rtw' = rtw \cup {s}
       /\ fetched' = [fetched EXCEPT ![s] = @ + 1]
       /\ SaveTrip(w, "RETURNED")
       /\ Answer(w)
       /\ UNCHANGED <<stop, packOn, crewOn, delivery, committed>>

TripFails(w) ==
    /\ pc[w] # "idle" /\ job[w].op \in TripOp
    /\ Answer(w)
    /\ UNCHANGED trips

TripStep(w) ==
    \/ CreateTrip(w) \/ AssignProvider(w) \/ AddStop(w) \/ AddPack(w) \/ StartLoading(w) \/ StartTrip(w)
    \/ ArriveAtStop(w) \/ CompleteStop(w) \/ CompleteTrip(w) \/ FailTrip(w) \/ ReturnToWarehouse(w)
    \/ TripFails(w)

-----------------------------------------------------------------------------
\* Whatever completions, failures and retries of a trip run together: the
\* goods of a stop leave the stock at most once, and come back at most once;
\* a trip that ended as RETURNED has brought some back.
GoodsLeaveOnce ==
    /\ \A s \in Stop : committed[s] <= 1 /\ fetched[s] <= 1
    /\ \A t \in Trip : trip[t] # Unread /\ trip[t].status = "RETURNED" => StopsOn(t) \cap rtw # {}

\* No late planner pulls a trip back into the yard once it has left.
TripNeverTurnsBack ==
    [][\A t \in Trip : trip[t] # Unread /\ trip[t].status \in {"IN_TRANSIT", "COMPLETED", "RETURNED"}
                       => trip'[t].status \notin {"PLANNED", "LOADING"}]_trip
=============================================================================
