-------------------------------- MODULE Fleet --------------------------------
(***************************************************************************)
(* What buses are (create, update and duplicateBus of                      *)
(* src/src/bus/bus.service.ts) and the trips made for them (create of      *)
(* src/src/trip/trip.service.ts).  Booking starts from the trips and seats *)
(* that are made here.                                                     *)
(*                                                                         *)
(* Calls overlap; every statement is its own transaction, but for the two  *)
(* inserts of a trip and its seats.  A trip may be made for any bus, on    *)
(* any day, whatever trips the bus has already: days are left out.  Plates *)
(* and status are in Registry: here any insert or update of a bus may be   *)
(* refused, for a plate that is taken.                                     *)
(***************************************************************************)
EXTENDS FiniteSets

CONSTANTS
  Buses, Trips,
  Kits,        (* the pairs <<busModelId, seatLayout>> a bus may have; a   *)
               (* body always has both                                     *)
  Operators,   (* transport companies *)
  Clerks,      (* the calls at a time; an id is used again *)
  NoBus, NoKit, NoOperator

ASSUME FleetAssumption ==
  /\ NoBus \notin Buses /\ NoKit \notin Kits /\ NoOperator \notin Operators
  /\ Clerks \cap Trips = {}

VARIABLES
  owner,       (* bus.companyId, from the insert on *)
  kit,         (* the model and the layout of a bus, NoKit without a row   *)
  tripBus,     (* trip.busId, NoBus without a row; every trip is SCHEDULED *)
  tripSeats,   (* the kit its trip_seats were made from, NoKit for none    *)
  work,        (* what a call does next *)
  its,         (* the bus a call is about *)
  chosen,      (* the kit a call writes, or has read for a trip *)
  old,         (* the model an update with applyForAll has read *)
  all,         (* the company of an update with applyForAll, or NoOperator *)
  moved        (* history: the buses whose kit was written since a call,   *)
               (* or the maker of a trip, read or wrote it                 *)

busRows  == <<owner, kit>>
tripRows == <<tripBus, tripSeats>>
desk     == <<its, chosen, old, all>>

fleetVars == <<busRows, tripRows, work, desk, moved>>

IsBus(b)  == kit[b] # NoKit
IsTrip(t) == tripBus[t] # NoBus

Model(k) == k[1]

FleetTypeOK ==
  /\ owner \in [Buses -> Operators]
  /\ kit \in [Buses -> Kits \cup {NoKit}]
  /\ tripBus \in [Trips -> Buses \cup {NoBus}]
  /\ tripSeats \in [Trips -> Kits \cup {NoKit}]
  /\ work \in [Clerks -> {"idle", "insert", "all", "own", "commit"}]
  /\ its \in [Clerks -> Buses \cup {NoBus}]
  /\ chosen \in [Clerks -> Kits \cup {NoKit}]
  /\ old \in [Clerks -> {Model(k) : k \in Kits} \cup {NoKit}]
  /\ all \in [Clerks -> Operators \cup {NoOperator}]
  /\ moved \in [Clerks \cup Trips -> SUBSET Buses]

FleetInit ==
  /\ owner \in [Buses -> Operators]
  /\ kit = [b \in Buses |-> NoKit]
  /\ tripBus = [t \in Trips |-> NoBus]
  /\ tripSeats = [t \in Trips |-> NoKit]
  /\ work = [c \in Clerks |-> "idle"]
  /\ its = [c \in Clerks |-> NoBus]
  /\ chosen = [c \in Clerks |-> NoKit] /\ old = [c \in Clerks |-> NoKit]
  /\ all = [c \in Clerks |-> NoOperator]
  /\ moved = [x \in Clerks \cup Trips |-> {}]

-----------------------------------------------------------------------------

GoTo(c, from, to) == work[c] = from /\ work' = [work EXCEPT ![c] = to]

(* The end of a call; what it has read is forgotten. *)
Close(c) ==
  /\ work'   = [work EXCEPT ![c] = "idle"]
  /\ its'    = [its EXCEPT ![c] = NoBus]
  /\ chosen' = [chosen EXCEPT ![c] = NoKit]
  /\ old'    = [old EXCEPT ![c] = NoKit]
  /\ all'    = [all EXCEPT ![c] = NoOperator]

(* The buses a trip or a call depends on. *)
Watched(x) ==
  {b \in Buses : \/ x \in Trips /\ tripBus[x] = b
                 \/ x \in Clerks /\ work[x] = "own" /\ all[x] # NoOperator
                 \/ x \in Clerks /\ work[x] = "commit" /\ its[x] = b}

(* Call c, which starts afresh or ends, has written the kits of bs. *)
Moved(c, bs) ==
  moved' = [x \in Clerks \cup Trips |->
              IF x = c THEN {} ELSE moved[x] \cup (bs \cap Watched(x))]

Fresh(c) == Moved(c, {})

(*                                 buses                                   *)

(* create: the body has the kit. *)
AskBus(c, k) ==
  /\ GoTo(c, "idle", "insert")
  /\ chosen' = [chosen EXCEPT ![c] = k]
  /\ UNCHANGED <<busRows, tripRows, its, old, all, moved>>

(* duplicateBus: the kit is that of the bus it has read. *)
CopyBus(c, b) == IsBus(b) /\ AskBus(c, kit[b])

InsertBus(c) ==
  /\ work[c] = "insert"
  /\ \E b \in {x \in Buses : ~ IsBus(x)} :
       /\ kit' = [kit EXCEPT ![b] = chosen[c]]
       /\ Moved(c, {b})
  /\ Close(c)
  /\ UNCHANGED <<owner, tripRows>>

(* update: the bus is read first, whosever it is; with applyForAll the     *)
(* buses of the caller's company that have the model it had get the kit    *)
(* too, in a statement of their own.                                       *)
AskUpdate(c, b, k, operator) ==
  /\ GoTo(c, "idle", IF operator = NoOperator THEN "own" ELSE "all")
  /\ IsBus(b)
  /\ its' = [its EXCEPT ![c] = b]
  /\ chosen' = [chosen EXCEPT ![c] = k]
  /\ old' = [old EXCEPT ![c] = IF operator = NoOperator THEN NoKit ELSE Model(kit[b])]
  /\ all' = [all EXCEPT ![c] = operator]
  /\ UNCHANGED <<busRows, tripRows, moved>>

(* Mutant: the model is that of the body. *)
SiblingsByNewModel(c) ==
  {b \in Buses : IsBus(b) /\ owner[b] = all[c] /\ Model(kit[b]) = Model(chosen[c])}

(* Those that the first UPDATE finds. *)
Siblings(c) ==
  {b \in Buses : IsBus(b) /\ owner[b] = all[c] /\ Model(kit[b]) = old[c]}

UpdateAll(c) ==
  /\ GoTo(c, "all", "own")
  /\ kit' = [b \in Buses |-> IF b \in Siblings(c) THEN chosen[c] ELSE kit[b]]
  /\ Moved(c, Siblings(c))
  /\ UNCHANGED <<owner, tripRows, desk>>

UpdateOwn(c) ==
  /\ work[c] = "own"
  /\ kit' = [kit EXCEPT ![its[c]] = chosen[c]]
  /\ Moved(c, {its[c]})
  /\ Close(c)
  /\ UNCHANGED <<owner, tripRows>>

(*                                 trips                                   *)

(* create: the bus that the body names is read with its model, then a      *)
(* driver and a route of which it only asks that they are there.  Neither  *)
(* the status of the bus nor its trips are looked at.                      *)
ReadBus(c, b) ==
  /\ GoTo(c, "idle", "commit")
  /\ IsBus(b)
  /\ its' = [its EXCEPT ![c] = b]
  /\ chosen' = [chosen EXCEPT ![c] = kit[b]]
  /\ Fresh(c)
  /\ UNCHANGED <<busRows, tripRows, old, all>>

(* Mutant: the trip is saved outside the transaction, its seats fail. *)
CommitTripAlone(c) ==
  /\ work[c] = "commit"
  /\ \E t \in {u \in Trips : ~ IsTrip(u)} :
       /\ tripBus' = [tripBus EXCEPT ![t] = its[c]]
       /\ moved' = [moved EXCEPT ![t] = moved[c], ![c] = {}]
  /\ Close(c)
  /\ UNCHANGED <<busRows, tripSeats>>

(* One transaction: the trip, with one seat for each number in the layout  *)
(* that was read.                                                          *)
CommitTrip(c) ==
  /\ work[c] = "commit"
  /\ \E t \in {u \in Trips : ~ IsTrip(u)} :
       /\ tripBus' = [tripBus EXCEPT ![t] = its[c]]
       /\ tripSeats' = [tripSeats EXCEPT ![t] = chosen[c]]
       /\ moved' = [moved EXCEPT ![t] = moved[c], ![c] = {}]
  /\ Close(c)
  /\ UNCHANGED busRows

(* A refusal, an error or a crash. *)
Drop(c) ==
  /\ work[c] # "idle"
  /\ Fresh(c) /\ Close(c)
  /\ UNCHANGED <<busRows, tripRows>>

FleetNext ==
  \E c \in Clerks :
    \/ \E k \in Kits : AskBus(c, k)
    \/ \E b \in Buses : CopyBus(c, b)
    \/ \E b \in Buses, k \in Kits, m \in Operators \cup {NoOperator} : AskUpdate(c, b, k, m)
    \/ InsertBus(c) \/ UpdateAll(c) \/ UpdateOwn(c)
    \/ \E b \in Buses : ReadBus(c, b)
    \/ CommitTrip(c) \/ Drop(c)

FleetSpec == FleetInit /\ [][FleetNext]_fleetVars

-----------------------------------------------------------------------------
(*                         what must not happen                            *)

(* A trip is never there without its seats, and they are those of its bus  *)
(* unless the bus was given another model or layout after the call had     *)
(* read it.                                                                *)
SeatsOfBus ==
  \A t \in Trips : IsTrip(t) =>
    /\ tripSeats[t] # NoKit
    /\ tripBus[t] \notin moved[t] => tripSeats[t] = kit[tripBus[t]]

(* When an update with applyForAll ends, the buses of the company that     *)
(* still have the old model got it from calls that wrote after it: copies  *)
(* and creations from what they had read before, and other updates.        *)
NoneLeftBehind ==
  [][\A c \in Clerks :
       UpdateOwn(c) /\ all[c] # NoOperator /\ old[c] # Model(chosen[c]) =>
         \A b \in Buses :
           owner[b] = all[c] /\ kit'[b] # NoKit /\ Model(kit'[b]) = old[c] =>
             b \in moved[c]]_fleetVars

-----------------------------------------------------------------------------
(*                         the inductive invariant                         *)

(* What calls on their way to a trip, or through an update, rely on.       *)
ClerkHolds(c) ==
  /\ work[c] = "commit" => its[c] \in Buses /\ IsBus(its[c])
  /\ work[c] = "commit" =>
       chosen[c] # NoKit /\ (its[c] \notin moved[c] => chosen[c] = kit[its[c]])
  /\ work[c] \in {"insert", "all", "own"} => chosen[c] # NoKit
  /\ work[c] \in {"all", "own"} => its[c] \in Buses
  /\ work[c] = "own" /\ all[c] # NoOperator /\ old[c] # Model(chosen[c]) =>
       \A b \in Buses : owner[b] = all[c] /\ IsBus(b) /\ Model(kit[b]) = old[c] => b \in moved[c]

ClerksHold == \A c \in Clerks : ClerkHolds(c)

TripsHold == \A t \in Trips : IsTrip(t) => IsBus(tripBus[t])

FleetInv == FleetTypeOK /\ ClerksHold /\ TripsHold /\ SeatsOfBus
=============================================================================
