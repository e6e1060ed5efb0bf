----------------------------- MODULE Dispatching -----------------------------
(***************************************************************************)
(* Trips as the mounted LogisticsService plans and dispatches them, and    *)
(* the shipment manifests that group orders for a trip (ManifestService).  *)
(* DeliveryTrips models the other, unmounted service on the same table.    *)
(* A driver and the vehicle given with him are one crew.                   *)
(***************************************************************************)
EXTENDS Requests

CONSTANTS
    Journey,      \* trips that may be planned
    Squad,        \* crews
    NoSquad, NoJourney,
    Manifest,
    Cargo         \* orders fit for a manifest (CONFIRMED, PROCESSING, PARTIALLY_FULFILLED)

ManifestStatus == {"DRAFT", "SEALED", "DISPATCHED", "COMPLETED", "CANCELLED"}
JourneyOp == {"PLAN_JOURNEY", "DISPATCH_JOURNEY"}
ManifestOp == {"CREATE_MANIFEST", "LIST_ORDERS", "SEAL_MANIFEST", "DISPATCH_MANIFEST", "COMPLETE_MANIFEST"}
DispatchOp == JourneyOp \cup ManifestOp

JourneyRow == [status: {"PLANNED", "IN_TRANSIT"}, squad: Squad \cup {NoSquad}]
ManifestRow == [status: ManifestStatus, version: Nat, orders: SUBSET Cargo, journey: Journey \cup {NoJourney}]

\* A creation makes a row of its own; its reference is not taken.
ASSUME DispatchAssumption ==
    /\ Unread \notin JourneyRow /\ Unread \notin ManifestRow
    /\ NoSquad \notin Squad /\ NoJourney \notin Journey
    /\ \A r \in Request : r.op \in DispatchOp =>
          r \in [op: DispatchOp, journey: Journey, squad: Squad \cup {NoSquad},
                 manifest: Manifest, cargo: SUBSET Cargo, by: Nat]
    /\ \A q, r \in Request :
          q.op = r.op /\ (\/ q.op = "PLAN_JOURNEY" /\ q.journey = r.journey
                          \/ q.op = "CREATE_MANIFEST" /\ q.manifest = r.manifest) => q = r

VARIABLES
    journey,     \* delivery_trips rows
    onJourney,   \* currentTripId of each crew
    manifest,    \* shipment_manifests rows with their orders
    announced    \* per manifest, the trips logistics.manifest.dispatched named

dispatching == <<journey, onJourney, manifest, announced>>

DispatchTypeOK ==
    /\ journey \in [Journey -> JourneyRow \cup {Unread}]
    /\ onJourney \in [Squad -> Journey \cup {NoJourney}]
    /\ manifest \in [Manifest -> ManifestRow \cup {Unread}]
    /\ announced \in [Manifest -> Seq(Journey)]

DispatchInit ==
    /\ journey = [j \in Journey |-> Unread] /\ onJourney = [s \in Squad |-> NoJourney]
    /\ manifest = [m \in Manifest |-> Unread] /\ announced = [m \in Manifest |-> <<>>]

-----------------------------------------------------------------------------
(* Trips.                                                                  *)

\* createTrip: the driver, if one is named, is free; nothing takes him yet.
PlanJourney(w) ==
    LET j == job[w].journey
        s == job[w].squad IN
    \/ /\ At(w, "PLAN_JOURNEY", "read")
       /\ SeeIf(w, s # NoSquad => onJourney[s] = NoJourney, Unread, "commit")
       /\ UNCHANGED dispatching
    \/ /\ At(w, "PLAN_JOURNEY", "commit")
       /\ journey' = [journey EXCEPT ![j] = [status |-> "PLANNED", squad |-> s]]
       /\ Answer(w)
       /\ UNCHANGED <<onJourney, manifest, announced>>

\* The crew a dispatch names, or else the one the trip was planned for.
CrewFor(w) == IF job[w].squad # NoSquad THEN job[w].squad ELSE saw[w].squad

\* A write of currentTripId alone.
TakeAnyCrew(s, j) == onJourney' = [onJourney EXCEPT ![s] = j]

\* currentTripId has a unique index: no other crew may have the trip.
TakeCrew(s, j) ==
    /\ \A other \in Squad \ {s} : onJourney[other] # j
    /\ onJourney' = [onJourney EXCEPT ![s] = j]

\* dispatchTrip reads the trip PLANNED (nothing mounted loads one) and writes
\* trip and crew by their ids, in one transaction.  Whether the crew is
\* already on the road does not matter.
DispatchJourney(w) ==
    LET j == job[w].journey IN
    \/ /\ At(w, "DISPATCH_JOURNEY", "read")
       /\ SeeIf(w, /\ journey[j] # Unread /\ journey[j].status = "PLANNED"
                   /\ job[w].squad # NoSquad \/ journey[j].squad # NoSquad,
                journey[j], "commit")
       /\ UNCHANGED dispatching
    \/ /\ At(w, "DISPATCH_JOURNEY", "commit")
       /\ journey' = [journey EXCEPT ![j] = [status |-> "IN_TRANSIT", squad |-> CrewFor(w)]]
       /\ TakeCrew(CrewFor(w), j)
       /\ Answer(w)
       /\ UNCHANGED <<manifest, announced>>

-----------------------------------------------------------------------------
(* Manifests.                                                              *)

MANIFEST_TRANSITIONS ==
    [s \in ManifestStatus |->
        CASE s = "DRAFT" -> {"SEALED", "CANCELLED"}
          [] s = "SEALED" -> {"DISPATCHED", "CANCELLED"}
          [] s = "DISPATCHED" -> {"COMPLETED"}
          [] OTHER -> {}]

CreateManifest(w) ==
    /\ At(w, "CREATE_MANIFEST", "read")
    /\ manifest' = [manifest EXCEPT ![job[w].manifest] =
           [status |-> "DRAFT", version |-> 0, orders |-> job[w].cargo, journey |-> NoJourney]]
    /\ Answer(w)
    /\ UNCHANGED <<journey, onJourney, announced>>

\* The manifest as the handler reads it.
ReadManifest(w, ok) ==
    LET m == manifest[job[w].manifest] IN
    SeeIf(w, m # Unread /\ ok, m, "commit") /\ UNCHANGED dispatching

MayBecome(w, status) == status \in MANIFEST_TRANSITIONS[manifest[job[w].manifest].status]

\* updateMany where the version is the one read; count 0 rolls back.
UpdateManifest(w, status, j) ==
    LET m == job[w].manifest IN
    /\ manifest[m].version = saw[w].version
    /\ manifest' = [manifest EXCEPT ![m].status = status, ![m].journey = j, ![m].version = @ + 1]

\* addOrders reads the manifest DRAFT and inserts the rows later, whatever
\* has become of it; the index refuses an order that is listed.
AddOrders(w) ==
    LET m == job[w].manifest IN
    \/ At(w, "LIST_ORDERS", "read") /\ ReadManifest(w, manifest[m].status = "DRAFT")
    \/ /\ At(w, "LIST_ORDERS", "commit")
       /\ manifest[m].orders \cap job[w].cargo = {}
       /\ manifest' = [manifest EXCEPT ![m].orders = @ \cup job[w].cargo]
       /\ Answer(w)
       /\ UNCHANGED <<journey, onJourney, announced>>

SealManifest(w) ==
    \/ /\ At(w, "SEAL_MANIFEST", "read")
       /\ ReadManifest(w, manifest[job[w].manifest].orders # {} /\ MayBecome(w, "SEALED"))
    \/ /\ At(w, "SEAL_MANIFEST", "commit")
       /\ UpdateManifest(w, "SEALED", NoJourney)
       /\ Answer(w)
       /\ UNCHANGED <<journey, onJourney, announced>>

\* dispatchManifest asks that the trip exists, not that it is on its way.
DispatchManifest(w) ==
    LET m == job[w].manifest
        j == job[w].journey IN
    \/ /\ At(w, "DISPATCH_MANIFEST", "read")
       /\ ReadManifest(w, MayBecome(w, "DISPATCHED") /\ journey[j] # Unread)
    \/ /\ At(w, "DISPATCH_MANIFEST", "commit")
       /\ UpdateManifest(w, "DISPATCHED", j)
       /\ announced' = [announced EXCEPT ![m] = Append(@, j)]
       /\ Answer(w)
       /\ UNCHANGED <<journey, onJourney>>

CompleteManifest(w) ==
    \/ At(w, "COMPLETE_MANIFEST", "read") /\ ReadManifest(w, MayBecome(w, "COMPLETED"))
    \/ /\ At(w, "COMPLETE_MANIFEST", "commit")
       /\ UpdateManifest(w, "COMPLETED", manifest[job[w].manifest].journey)
       /\ Answer(w)
       /\ UNCHANGED <<journey, onJourney, announced>>

DispatchFails(w) ==
    /\ pc[w] # "idle" /\ job[w].op \in DispatchOp
    /\ Answer(w)
    /\ UNCHANGED dispatching

DispatchStep(w) ==
    \/ PlanJourney(w) \/ DispatchJourney(w)
    \/ CreateManifest(w) \/ AddOrders(w) \/ SealManifest(w) \/ DispatchManifest(w) \/ CompleteManifest(w)
    \/ DispatchFails(w)

-----------------------------------------------------------------------------
\* Two dispatches of one trip with different crews run together: the crew
\* that is sent is the one the trip names, although both are written by id.
CrewIsOnItsJourney ==
    \A s \in Squad : onJourney[s] # NoJourney =>
        journey[onJourney[s]] = [status |-> "IN_TRANSIT", squad |-> s]

\* Two dispatches of one manifest to different trips: it goes on one of them,
\* the one that was announced, and never empty.
ManifestGoesOnce ==
    \A m \in Manifest : manifest[m] # Unread =>
        IF manifest[m].status \in {"DISPATCHED", "COMPLETED"}
        THEN announced[m] = <<manifest[m].journey>> /\ manifest[m].orders # {}
        ELSE announced[m] = <<>>

\* What is dispatched twice leaves once, crews and manifests alike.
DispatchedOnce == CrewIsOnItsJourney /\ ManifestGoesOnce
=============================================================================
