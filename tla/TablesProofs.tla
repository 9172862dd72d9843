----------------------------- MODULE TablesProofs -----------------------------
(***************************************************************************)
(* The tables of the back office.  For any number of buses, trips and      *)
(* calls: a trip has seats, and they are those of its bus as it was read.  *)
(* For any number of rows, titles and calls: two routes of a pair, or two  *)
(* models of a name, come from overlapping calls or from a write over a    *)
(* row, and a toggle turns a flag over unless the flag changed under it.   *)
(***************************************************************************)
EXTENDS Fleet, Registry, TLAPS

(*                        buses, models and trips                          *)

LEMMA FleetBegins == FleetInit => FleetInv
<1>. SUFFICES ASSUME FleetInit PROVE FleetInv
  OBVIOUS
<1>1. FleetTypeOK
  BY DEF FleetInit, FleetTypeOK
<1>2. ClerksHold
  BY DEF FleetInit, ClerksHold, ClerkHolds
<1>3. TripsHold /\ SeatsOfBus
  BY DEF FleetInit, TripsHold, SeatsOfBus, IsTrip
<1>. QED
  BY <1>1, <1>2, <1>3 DEF FleetInv

(* Trips and buses are only added, and a bus that changed is remembered.   *)
LEMMA OthersRely ==
  ASSUME FleetInv, NEW x \in Clerks,
         work'[x] = work[x], its'[x] = its[x], chosen'[x] = chosen[x],
         old'[x] = old[x], all'[x] = all[x], UNCHANGED owner,
         \A b \in Buses : IsBus(b) => kit'[b] # NoKit,
         moved[x] \subseteq moved'[x],
         work[x] = "commit" => its[x] \in moved'[x] \/ kit'[its[x]] = kit[its[x]],
         work[x] = "own" /\ all[x] # NoOperator =>
           \A b \in Buses : b \in moved'[x] \/ kit'[b] = kit[b]
  PROVE  ClerkHolds(x)'
<1>1. ClerkHolds(x)
  BY DEF FleetInv, ClerksHold
<1>2. work[x] = "commit" =>
        /\ its[x] \in Buses /\ kit'[its[x]] # NoKit
        /\ chosen[x] # NoKit /\ (its[x] \notin moved'[x] => chosen[x] = kit'[its[x]])
  BY <1>1 DEF ClerkHolds
<1>3. /\ work[x] \in {"insert", "all", "own"} => chosen[x] # NoKit
      /\ work[x] \in {"all", "own"} => its[x] \in Buses
  BY <1>1 DEF ClerkHolds
<1>4. work[x] = "own" /\ all[x] # NoOperator /\ old[x] # Model(chosen[x]) =>
        \A b \in Buses : owner[b] = all[x] /\ kit'[b] # NoKit /\ Model(kit'[b]) = old[x] =>
          b \in moved'[x]
  BY <1>1 DEF ClerkHolds, IsBus
<1>. QED
  BY <1>2, <1>3, <1>4 DEF ClerkHolds, IsBus

LEMMA TripsStay ==
  ASSUME FleetInv, UNCHANGED tripRows,
         \A b \in Buses : IsBus(b) => kit'[b] # NoKit,
         \A t \in Trips : /\ moved[t] \subseteq moved'[t]
                          /\ IsTrip(t) => \/ tripBus[t] \in moved'[t]
                                          \/ kit'[tripBus[t]] = kit[tripBus[t]]
  PROVE  TripsHold' /\ SeatsOfBus'
<1>. USE DEF FleetInv, tripRows
<1>1. \A t \in Trips : IsTrip(t)' <=> IsTrip(t)
  BY DEF IsTrip
<1>2. \A t \in Trips : IsTrip(t) => tripBus[t] \in Buses
  BY DEF FleetTypeOK, IsTrip
<1>3. TripsHold'
  BY <1>1, <1>2 DEF TripsHold, FleetTypeOK, IsBus
<1>4. SeatsOfBus'
  BY <1>1 DEF SeatsOfBus
<1>. QED
  BY <1>3, <1>4

LEMMA Remembers ==
  ASSUME FleetInv, NEW c \in Clerks, NEW bs \in SUBSET Buses, Moved(c, bs)
  PROVE  /\ moved' \in [Clerks \cup Trips -> SUBSET Buses]
         /\ moved'[c] = {}
         /\ \A x \in (Clerks \cup Trips) \ {c} :
              /\ moved[x] \subseteq moved'[x]
              /\ \A b \in bs \cap Watched(x) : b \in moved'[x]
  BY DEF Moved, Watched, FleetInv, FleetTypeOK

(* Call c gives the buses bs a kit, and is at work, or done, with them.    *)
LEMMA KitsKeep ==
  ASSUME FleetInv, NEW c \in Clerks, NEW bs \in SUBSET Buses, Moved(c, bs),
         kit' \in [Buses -> Kits \cup {NoKit}],
         \A b \in bs : kit'[b] # NoKit,
         \A b \in Buses \ bs : kit'[b] = kit[b],
         UNCHANGED tripRows,
         \A x \in Clerks \ {c} :
           /\ work'[x] = work[x] /\ its'[x] = its[x] /\ chosen'[x] = chosen[x]
           /\ old'[x] = old[x] /\ all'[x] = all[x],
         UNCHANGED owner
  PROVE  /\ \A x \in Clerks \ {c} : ClerkHolds(x)'
         /\ TripsHold' /\ SeatsOfBus'
<1>1. \A b \in Buses : IsBus(b) => kit'[b] # NoKit
  BY DEF IsBus
<1>2. ASSUME NEW x \in Clerks \ {c} PROVE ClerkHolds(x)'
  <2>1. work[x] = "commit" => its[x] \in Buses
    BY DEF FleetInv, ClerksHold, ClerkHolds
  <2>2. work[x] = "commit" => its[x] \in moved'[x] \/ kit'[its[x]] = kit[its[x]]
    BY <2>1, Remembers DEF Watched
  <2>3. work[x] = "own" /\ all[x] # NoOperator =>
          \A b \in Buses : b \in moved'[x] \/ kit'[b] = kit[b]
    BY Remembers DEF Watched
  <2>. QED
    BY <1>1, <2>2, <2>3, Remembers, OthersRely DEF tripRows
<1>3. ASSUME NEW t \in Trips
      PROVE  /\ moved[t] \subseteq moved'[t]
             /\ IsTrip(t) => tripBus[t] \in moved'[t] \/ kit'[tripBus[t]] = kit[tripBus[t]]
  <2>1. t # c /\ (IsTrip(t) => tripBus[t] \in Buses)
    BY FleetAssumption DEF FleetInv, FleetTypeOK, IsTrip
  <2>. QED
    BY <2>1, Remembers DEF Watched
<1>. QED
  BY <1>1, <1>2, <1>3, TripsStay

LEMMA ClosesAlone ==
  ASSUME FleetInv, NEW c \in Clerks, Close(c)
  PROVE  /\ work' \in [Clerks -> {"idle", "insert", "all", "own", "commit"}]
         /\ its' \in [Clerks -> Buses \cup {NoBus}] /\ chosen' \in [Clerks -> Kits \cup {NoKit}]
         /\ old' \in [Clerks -> {Model(k) : k \in Kits} \cup {NoKit}]
         /\ all' \in [Clerks -> Operators \cup {NoOperator}]
         /\ ClerkHolds(c)'
         /\ \A x \in Clerks \ {c} :
              /\ work'[x] = work[x] /\ its'[x] = its[x] /\ chosen'[x] = chosen[x]
              /\ old'[x] = old[x] /\ all'[x] = all[x]
<1>1. /\ work' = [work EXCEPT ![c] = "idle"] /\ its' = [its EXCEPT ![c] = NoBus]
      /\ chosen' = [chosen EXCEPT ![c] = NoKit] /\ old' = [old EXCEPT ![c] = NoKit]
      /\ all' = [all EXCEPT ![c] = NoOperator]
  BY DEF Close
<1>. QED
  BY <1>1 DEF FleetInv, FleetTypeOK, ClerkHolds

(*                          calls about buses                              *)

LEMMA AskBusKeeps ==
  ASSUME FleetInv, NEW c \in Clerks, NEW k \in Kits, AskBus(c, k)
  PROVE  FleetInv'
<1>1. /\ work' = [work EXCEPT ![c] = "insert"] /\ chosen' = [chosen EXCEPT ![c] = k]
      /\ UNCHANGED <<owner, kit, tripBus, tripSeats, its, old, all, moved>>
  BY DEF AskBus, GoTo, busRows, tripRows
<1>2. FleetTypeOK'
  BY <1>1 DEF FleetInv, FleetTypeOK
<1>3. ASSUME NEW x \in Clerks PROVE ClerkHolds(x)'
  <2>1. CASE x = c
    BY <1>1, <2>1, FleetAssumption
    DEF FleetInv, FleetTypeOK, ClerksHold, ClerkHolds, IsTrip
  <2>2. CASE x # c
    BY <1>1, <2>2, OthersRely DEF FleetInv, FleetTypeOK, IsBus
  <2>. QED
    BY <2>1, <2>2
<1>4. TripsHold' /\ SeatsOfBus'
  BY <1>1, TripsStay DEF tripRows, IsBus
<1>. QED
  BY <1>2, <1>3, <1>4 DEF FleetInv, ClerksHold

LEMMA AskUpdateKeeps ==
  ASSUME FleetInv, NEW c \in Clerks, NEW b \in Buses, NEW k \in Kits,
         NEW m \in Operators \cup {NoOperator}, AskUpdate(c, b, k, m)
  PROVE  FleetInv'
<1>1. /\ \E next \in {"own", "all"} :
           work' = [work EXCEPT ![c] = next] /\ (next = "own" => m = NoOperator)
      /\ chosen' = [chosen EXCEPT ![c] = k] /\ its' = [its EXCEPT ![c] = b]
      /\ \E o \in {NoKit, Model(kit[b])} : old' = [old EXCEPT ![c] = o]
      /\ all' = [all EXCEPT ![c] = m]
      /\ kit[b] # NoKit
      /\ UNCHANGED <<owner, kit, tripBus, tripSeats, moved>>
  BY DEF AskUpdate, GoTo, busRows, tripRows, IsBus
<1>2. FleetTypeOK'
  BY <1>1 DEF FleetInv, FleetTypeOK
<1>3. ASSUME NEW x \in Clerks PROVE ClerkHolds(x)'
  <2>1. CASE x = c
    BY <1>1, <2>1, FleetAssumption
    DEF FleetInv, FleetTypeOK, ClerksHold, ClerkHolds, IsTrip
  <2>2. CASE x # c
    BY <1>1, <2>2, OthersRely DEF FleetInv, FleetTypeOK, IsBus
  <2>. QED
    BY <2>1, <2>2
<1>4. TripsHold' /\ SeatsOfBus'
  BY <1>1, TripsStay DEF tripRows, IsBus
<1>. QED
  BY <1>2, <1>3, <1>4 DEF FleetInv, ClerksHold

LEMMA InsertBusKeeps ==
  ASSUME FleetInv, NEW c \in Clerks, InsertBus(c)
  PROVE  FleetInv'
<1>1. PICK b \in Buses : kit' = [kit EXCEPT ![b] = chosen[c]] /\ Moved(c, {b})
  BY DEF InsertBus
<1>2. Close(c) /\ UNCHANGED <<owner, tripRows>> /\ chosen[c] \in Kits
  BY DEF InsertBus, FleetInv, FleetTypeOK, ClerksHold, ClerkHolds
<1>3. FleetTypeOK'
  BY <1>1, <1>2, ClosesAlone, Remembers DEF FleetInv, FleetTypeOK, tripRows
<1>4. /\ kit' \in [Buses -> Kits \cup {NoKit}] /\ kit'[b] # NoKit
      /\ \A x \in Buses \ {b} : kit'[x] = kit[x]
  BY <1>1, <1>2, FleetAssumption DEF FleetInv, FleetTypeOK
<1>5. /\ \A x \in Clerks \ {c} : ClerkHolds(x)'
      /\ TripsHold' /\ SeatsOfBus'
  BY <1>1, <1>2, <1>4, ClosesAlone, KitsKeep
<1>. QED
  BY <1>2, <1>3, <1>5, ClosesAlone DEF FleetInv, ClerksHold

LEMMA UpdateAllKeeps ==
  ASSUME FleetInv, NEW c \in Clerks, UpdateAll(c)
  PROVE  FleetInv'
<1>1. /\ work[c] = "all" /\ work' = [work EXCEPT ![c] = "own"]
      /\ kit' = [b \in Buses |-> IF b \in Siblings(c) THEN chosen[c] ELSE kit[b]]
      /\ Moved(c, Siblings(c))
      /\ UNCHANGED <<owner, tripBus, tripSeats, its, chosen, old, all>>
  BY DEF UpdateAll, GoTo, tripRows, desk
<1>2. chosen[c] \in Kits /\ Siblings(c) \subseteq Buses
  BY <1>1 DEF FleetInv, FleetTypeOK, ClerksHold, ClerkHolds, Siblings
<1>3. FleetTypeOK'
  BY <1>1, <1>2, Remembers DEF FleetInv, FleetTypeOK
<1>4. /\ kit' \in [Buses -> Kits \cup {NoKit}]
      /\ \A b \in Siblings(c) : kit'[b] # NoKit
      /\ \A b \in Buses \ Siblings(c) : kit'[b] = kit[b]
  BY <1>1, <1>2, FleetAssumption DEF FleetInv, FleetTypeOK
<1>5. /\ \A x \in Clerks \ {c} : ClerkHolds(x)'
      /\ TripsHold' /\ SeatsOfBus'
  BY <1>1, <1>2, <1>4, KitsKeep DEF tripRows, FleetInv, FleetTypeOK
<1>6. ClerkHolds(c)'
  <2>1. /\ work'[c] = "own" /\ chosen'[c] = chosen[c] /\ its'[c] = its[c] /\ its[c] \in Buses
        /\ old'[c] = old[c] /\ all'[c] = all[c]
    BY <1>1 DEF FleetInv, FleetTypeOK, ClerksHold, ClerkHolds, IsTrip
  <2>2. \A b \in Buses : owner[b] = all[c] /\ kit'[b] # NoKit /\ Model(kit'[b]) = old[c] =>
          Model(chosen[c]) = old[c]
    BY <1>1 DEF Siblings, IsBus
  <2>. QED
    BY <1>1, <1>2, <2>1, <2>2, FleetAssumption DEF ClerkHolds, IsBus
<1>. QED
  BY <1>3, <1>5, <1>6 DEF FleetInv, ClerksHold

LEMMA UpdateOwnKeeps ==
  ASSUME FleetInv, NEW c \in Clerks, UpdateOwn(c)
  PROVE  FleetInv'
<1>1. /\ kit' = [kit EXCEPT ![its[c]] = chosen[c]] /\ Moved(c, {its[c]})
      /\ Close(c) /\ UNCHANGED <<owner, tripRows>>
      /\ chosen[c] \in Kits /\ its[c] \in Buses
  BY DEF UpdateOwn, FleetInv, FleetTypeOK, ClerksHold, ClerkHolds
<1>2. FleetTypeOK'
  BY <1>1, ClosesAlone, Remembers DEF FleetInv, FleetTypeOK, tripRows
<1>3. /\ kit' \in [Buses -> Kits \cup {NoKit}] /\ kit'[its[c]] # NoKit
      /\ \A x \in Buses \ {its[c]} : kit'[x] = kit[x]
  BY <1>1, FleetAssumption DEF FleetInv, FleetTypeOK
<1>4. /\ \A x \in Clerks \ {c} : ClerkHolds(x)'
      /\ TripsHold' /\ SeatsOfBus'
  BY <1>1, <1>3, ClosesAlone, KitsKeep
<1>. QED
  BY <1>1, <1>2, <1>4, ClosesAlone DEF FleetInv, ClerksHold

(*                          calls about trips                              *)

(* A call that only reads, and moves itself.                               *)
LEMMA ReadingKeeps ==
  ASSUME FleetInv, NEW c \in Clerks, UNCHANGED <<busRows, tripRows>>,
         moved' \in [Clerks \cup Trips -> SUBSET Buses],
         \A x \in (Clerks \cup Trips) \ {c} : moved[x] \subseteq moved'[x],
         \A x \in Clerks \ {c} :
           /\ work'[x] = work[x] /\ its'[x] = its[x] /\ chosen'[x] = chosen[x]
           /\ old'[x] = old[x] /\ all'[x] = all[x],
         FleetTypeOK', ClerkHolds(c)'
  PROVE  FleetInv'
<1>1. ASSUME NEW x \in Clerks \ {c} PROVE ClerkHolds(x)'
  BY OthersRely DEF busRows, tripRows, IsBus
<1>2. TripsHold' /\ SeatsOfBus'
  <2>1. \A t \in Trips : t # c
    BY FleetAssumption
  <2>. QED
    BY <2>1, TripsStay DEF busRows, IsBus
<1>. QED
  BY <1>1, <1>2 DEF FleetInv, ClerksHold

LEMMA ReadBusKeeps ==
  ASSUME FleetInv, NEW c \in Clerks, NEW b \in Buses, ReadBus(c, b)
  PROVE  FleetInv'
<1>1. /\ work' = [work EXCEPT ![c] = "commit"] /\ its' = [its EXCEPT ![c] = b]
      /\ chosen' = [chosen EXCEPT ![c] = kit[b]] /\ Moved(c, {})
      /\ UNCHANGED <<busRows, tripRows, old, all>>
  BY DEF ReadBus, GoTo, Fresh
<1>2. kit[b] # NoKit
  BY DEF ReadBus, IsBus
<1>3. /\ moved' \in [Clerks \cup Trips -> SUBSET Buses]
      /\ \A x \in (Clerks \cup Trips) \ {c} : moved[x] \subseteq moved'[x]
  BY <1>1, Remembers
<1>4. FleetTypeOK'
  BY <1>1, <1>2, <1>3 DEF FleetInv, FleetTypeOK, busRows, tripRows
<1>5. ClerkHolds(c)'
  <2>1. work'[c] = "commit" /\ its'[c] = b /\ chosen'[c] = kit[b] /\ kit' = kit
    BY <1>1 DEF FleetInv, FleetTypeOK, busRows
  <2>. QED
    BY <1>2, <2>1 DEF ClerkHolds, IsBus
<1>. QED
  BY <1>1, <1>3, <1>4, <1>5, ReadingKeeps DEF FleetInv, FleetTypeOK

LEMMA DropKeeps ==
  ASSUME FleetInv, NEW c \in Clerks, Drop(c)
  PROVE  FleetInv'
<1>1. Moved(c, {}) /\ Close(c) /\ UNCHANGED <<busRows, tripRows>>
  BY DEF Drop, Fresh
<1>2. /\ moved' \in [Clerks \cup Trips -> SUBSET Buses]
      /\ \A x \in (Clerks \cup Trips) \ {c} : moved[x] \subseteq moved'[x]
  BY <1>1, Remembers
<1>3. FleetTypeOK'
  BY <1>1, <1>2, ClosesAlone DEF FleetInv, FleetTypeOK, busRows, tripRows
<1>. QED
  BY <1>1, <1>2, <1>3, ClosesAlone, ReadingKeeps

(* The new trip takes the seats that were read, and what changed meanwhile *)
(* is remembered.                                                          *)
LEMMA CommitTripKeeps ==
  ASSUME FleetInv, NEW c \in Clerks, CommitTrip(c)
  PROVE  FleetInv'
<1>1. PICK t \in Trips :
        /\ ~ IsTrip(t)
        /\ tripBus' = [tripBus EXCEPT ![t] = its[c]]
        /\ tripSeats' = [tripSeats EXCEPT ![t] = chosen[c]]
        /\ moved' = [moved EXCEPT ![t] = moved[c], ![c] = {}]
  BY DEF CommitTrip
<1>2. Close(c) /\ UNCHANGED <<owner, kit>> /\ t # c
  BY FleetAssumption DEF CommitTrip, busRows
<1>3. /\ its[c] \in Buses /\ kit[its[c]] # NoKit
      /\ chosen[c] # NoKit /\ (its[c] \notin moved[c] => chosen[c] = kit[its[c]])
  BY DEF CommitTrip, FleetInv, ClerksHold, ClerkHolds, IsBus
<1>4. FleetTypeOK'
  BY <1>1, <1>2, <1>3, ClosesAlone DEF FleetInv, FleetTypeOK
<1>5. /\ tripBus'[t] = its[c] /\ tripSeats'[t] = chosen[c]
      /\ moved'[t] = moved[c]
      /\ \A u \in Trips \ {t} :
           tripBus'[u] = tripBus[u] /\ tripSeats'[u] = tripSeats[u] /\ moved'[u] = moved[u]
      /\ \A x \in Clerks \ {c} : moved'[x] = moved[x]
  BY <1>1, <1>2, FleetAssumption DEF FleetInv, FleetTypeOK
<1>6. IsTrip(t)' /\ \A u \in Trips \ {t} : IsTrip(u)' <=> IsTrip(u)
  BY <1>3, <1>5, FleetAssumption DEF IsTrip
<1>7. ASSUME NEW x \in Clerks \ {c} PROVE ClerkHolds(x)'
  BY <1>2, <1>5, ClosesAlone, OthersRely DEF IsBus
<1>8. TripsHold'
  BY <1>2, <1>3, <1>5, <1>6 DEF FleetInv, FleetTypeOK, TripsHold, IsBus
<1>9. SeatsOfBus'
  BY <1>2, <1>3, <1>5, <1>6 DEF FleetInv, SeatsOfBus
<1>. QED
  BY <1>2, <1>4, <1>7, <1>8, <1>9, ClosesAlone DEF FleetInv, ClerksHold

LEMMA FleetStep == FleetInv /\ [FleetNext]_fleetVars => FleetInv'
<1>. SUFFICES ASSUME FleetInv, [FleetNext]_fleetVars PROVE FleetInv'
  OBVIOUS
<1>1. ASSUME NEW c \in Clerks, NEW b \in Buses, CopyBus(c, b) PROVE FleetInv'
  <2>1. kit[b] \in Kits /\ AskBus(c, kit[b])
    BY <1>1 DEF CopyBus, IsBus, FleetInv, FleetTypeOK
  <2>. QED
    BY <2>1, AskBusKeeps
<1>2. ASSUME FleetNext PROVE FleetInv'
  BY <1>1, <1>2, AskBusKeeps, AskUpdateKeeps, InsertBusKeeps, UpdateAllKeeps, UpdateOwnKeeps,
     ReadBusKeeps, CommitTripKeeps, DropKeeps DEF FleetNext
<1>3. CASE UNCHANGED fleetVars
  <2>1. /\ UNCHANGED <<busRows, tripRows, work, its, chosen, old, all, moved>>
    BY <1>3 DEF fleetVars, desk
  <2>2. FleetTypeOK'
    BY <2>1 DEF FleetInv, FleetTypeOK, busRows, tripRows
  <2>3. ASSUME NEW x \in Clerks PROVE ClerkHolds(x)'
    BY <2>1, OthersRely DEF busRows, tripRows, IsBus
  <2>. QED
    BY <2>1, <2>2, <2>3, TripsStay DEF FleetInv, ClerksHold, busRows, IsBus
<1>. QED
  BY <1>2, <1>3

(* The inductive invariant: what a clerk has read is still so when the     *)
(* trip is made, or its change is remembered.                              *)
THEOREM FleetHolds == FleetSpec => []FleetInv
  BY FleetBegins, FleetStep, PTL DEF FleetSpec

(* A trip is never without its seats, and they are those of its bus unless *)
(* the bus changed after it was read.                                      *)
THEOREM TripsHaveTheirSeats == FleetSpec => []SeatsOfBus
  BY FleetHolds, PTL DEF FleetInv

(* When an update with applyForAll ends (185-233 of bus.service.ts), the   *)
(* buses of the company that have the old model got it from others since.  *)
THEOREM UpdatesReachAll == FleetSpec => NoneLeftBehind
<1>. DEFINE Reached ==
       \A c \in Clerks :
         UpdateOwn(c) /\ all[c] # NoOperator /\ old[c] # Model(chosen[c]) =>
           \A b \in Buses :
             owner[b] = all[c] /\ kit'[b] # NoKit /\ Model(kit'[b]) = old[c] => b \in moved[c]
<1>1. FleetInv => Reached
  <2>. SUFFICES ASSUME FleetInv, NEW c \in Clerks, UpdateOwn(c), all[c] # NoOperator,
                       old[c] # Model(chosen[c]), NEW b \in Buses,
                       owner[b] = all[c], kit'[b] # NoKit, Model(kit'[b]) = old[c]
                PROVE  b \in moved[c]
    OBVIOUS
  <2>1. /\ kit' = [kit EXCEPT ![its[c]] = chosen[c]] /\ work[c] = "own" /\ ClerkHolds(c)
        /\ kit \in [Buses -> Kits \cup {NoKit}]
    BY DEF UpdateOwn, FleetInv, FleetTypeOK, ClerksHold
  <2>2. b # its[c] /\ kit'[b] = kit[b]
    BY <2>1 DEF ClerkHolds
  <2>. QED
    BY <2>1, <2>2 DEF ClerkHolds, IsBus
<1>. QED
  BY <1>1, FleetHolds, PTL DEF FleetSpec, NoneLeftBehind

-----------------------------------------------------------------------------
(*                routes, models, terminals, plates, flags                 *)

LEMMA RegistryBegins == RegistryInit => RegistryInv
<1>. SUFFICES ASSUME RegistryInit PROVE RegistryInv
  OBVIOUS
<1>1. RegistryTypeOK
  BY DEF RegistryInit, RegistryTypeOK
<1>2. CallsHold
  BY DEF RegistryInit, CallsHold
<1>3. \A e \in Entries : older[e] \subseteq Rows /\ (e \in edited => Row(e))
  BY DEF RegistryInit
<1>4. OnlyOverlapsTwin
  BY DEF RegistryInit, OnlyOverlapsTwin, Rows, Row
<1>5. FlagsHold
  BY DEF RegistryInit, FlagsHold
<1>. QED
  BY <1>1, <1>2, <1>3, <1>4, <1>5 DEF RegistryInv

(* A step that leaves the rows alone need only look after the calls.       *)
LEMMA RowsStay ==
  ASSUME RegistryInv, UNCHANGED <<title, older, edited>>, RegistryTypeOK', CallsHold',
         FlagsHold'
  PROVE  RegistryInv'
<1>1. Rows' = Rows /\ \A e \in Entries : Row(e)' <=> Row(e)
  BY DEF Rows, Row
<1>2. OnlyOverlapsTwin'
  BY <1>1 DEF RegistryInv, OnlyOverlapsTwin, Twins
<1>. QED
  BY <1>1, <1>2 DEF RegistryInv

(* What a call that goes on has seen stays so while its rows are edited or *)
(* left alone, and rows are added.                                         *)
LEMMA OtherCallsRely ==
  ASSUME RegistryInv, NEW d \in Desks, NEW c \in Desks,
         step'[c] = step[c] /\ wanted'[c] = wanted[c] /\ present'[c] = present[c],
         entry'[c] = entry[c],
         edited \subseteq edited', Rows \subseteq Rows',
         \A x \in Rows \ edited' : title'[x] = title[x]
  PROVE  /\ present'[c] \subseteq Rows'
         /\ step'[c] \in {"route", "model", "terminal"} => wanted'[c] # NoTitle
         /\ step'[c] = "terminal" => entry'[c] # NoEntry
         /\ \A x \in present'[c] \ edited' :
              /\ step'[c] = "route" /\ x \in Routes => title'[x] # wanted'[c]
              /\ step'[c] = "model" /\ x \in BusModels => title'[x][1] # wanted'[c][1]
  BY DEF RegistryInv, CallsHold

LEMMA LookKeeps ==
  ASSUME RegistryInv, NEW d \in Desks, NEW next \in {"route", "model", "terminal", "flag"},
         NEW e \in Entries \cup {NoEntry}, NEW t \in Titles \cup {NoTitle},
         NEW flag \in BOOLEAN, Look(d, next, e, t, flag),
         next # "flag" => t # NoTitle, next = "terminal" => e # NoEntry,
         next = "route" => \A r \in Routes : title[r] # t,
         next = "model" => \A m \in BusModels : Row(m) => title[m][1] # t[1],
         next = "flag" => e \in Entries \ BusIds /\ Row(e) /\ flag = on[e]
  PROVE  RegistryInv'
<1>. USE DEF RegistryInv
<1>1. Rows \subseteq Entries /\ Rows' = Rows
  BY DEF Rows, Row, Look
<1>2. RegistryTypeOK'
  BY <1>1 DEF RegistryTypeOK, Look
<1>3. CallsHold'
  <2>1. ASSUME NEW c \in Desks, c # d
        PROVE  /\ step'[c] = step[c] /\ wanted'[c] = wanted[c] /\ present'[c] = present[c]
               /\ entry'[c] = entry[c]
    BY <2>1 DEF Look, RegistryTypeOK
  <2>2. step'[d] = next /\ wanted'[d] = t /\ entry'[d] = e
    BY DEF Look, RegistryTypeOK
  <2>3. present'[d] = IF next \in {"route", "model"} THEN Rows ELSE {}
    BY DEF Look, RegistryTypeOK
  <2>4. \A x \in present'[d] \ edited' :
          /\ step'[d] = "route" /\ x \in Routes => title'[x] # wanted'[d]
          /\ step'[d] = "model" /\ x \in BusModels => title'[x][1] # wanted'[d][1]
    BY <2>2, <2>3 DEF Look, Rows
  <2>. QED
    BY <1>1, <2>1, <2>2, <2>3, <2>4 DEF CallsHold, Look
<1>4. FlagsHold'
  <2>1. ASSUME NEW c \in Desks, c # d
        PROVE  step'[c] = step[c] /\ entry'[c] = entry[c] /\ was'[c] = was[c]
    BY <2>1 DEF Look, RegistryTypeOK
  <2>2. step'[d] = next /\ entry'[d] = e /\ was'[d] = flag
    BY DEF Look, RegistryTypeOK
  <2>. QED
    BY <2>1, <2>2 DEF FlagsHold, Look, Row
<1>. QED
  BY <1>2, <1>3, <1>4, RowsStay DEF Look

(* A call that ends holds nothing.                                         *)
LEMMA EndedCall ==
  ASSUME RegistryTypeOK, NEW d \in Desks, Idle(d)
  PROVE  /\ step' \in [Desks -> {"idle", "route", "model", "terminal", "flag"}]
         /\ entry' \in [Desks -> Entries \cup {NoEntry}]
         /\ wanted' \in [Desks -> Titles \cup {NoTitle}]
         /\ was' \in [Desks -> BOOLEAN]
         /\ present' \in [Desks -> SUBSET Entries]
         /\ step'[d] = "idle" /\ present'[d] = {}
         /\ \A c \in Desks \ {d} :
              /\ step'[c] = step[c] /\ wanted'[c] = wanted[c] /\ present'[c] = present[c]
              /\ entry'[c] = entry[c] /\ was'[c] = was[c]
<1>1. /\ step' \in [Desks -> {"idle", "route", "model", "terminal", "flag"}]
      /\ step'[d] = "idle" /\ \A c \in Desks \ {d} : step'[c] = step[c]
  BY DEF Idle, RegistryTypeOK
<1>2. /\ entry' \in [Desks -> Entries \cup {NoEntry}]
      /\ wanted' \in [Desks -> Titles \cup {NoTitle}]
      /\ \A c \in Desks \ {d} : wanted'[c] = wanted[c] /\ entry'[c] = entry[c]
  BY DEF Idle, RegistryTypeOK
<1>3. was' \in [Desks -> BOOLEAN] /\ \A c \in Desks \ {d} : was'[c] = was[c]
  BY DEF Idle, RegistryTypeOK
<1>4. /\ present' \in [Desks -> SUBSET Entries]
      /\ present'[d] = {} /\ \A c \in Desks \ {d} : present'[c] = present[c]
  BY DEF Idle, RegistryTypeOK
<1>. QED
  BY <1>1, <1>2, <1>3, <1>4

(* A call ends, or none moves.                                             *)
CallsEnd == Quietly \/ \E d \in Desks : Idle(d)

LEMMA CallsEndTyped ==
  ASSUME RegistryTypeOK, CallsEnd
  PROVE  /\ step' \in [Desks -> {"idle", "route", "model", "terminal", "flag"}]
         /\ entry' \in [Desks -> Entries \cup {NoEntry}]
         /\ wanted' \in [Desks -> Titles \cup {NoTitle}]
         /\ was' \in [Desks -> BOOLEAN]
         /\ present' \in [Desks -> SUBSET Entries]
         /\ \A c \in Desks :
              \/ step'[c] = "idle" /\ present'[c] = {}
              \/ /\ step'[c] = step[c] /\ wanted'[c] = wanted[c] /\ present'[c] = present[c]
                 /\ entry'[c] = entry[c] /\ was'[c] = was[c]
<1>1. CASE Quietly
  BY <1>1 DEF Quietly, RegistryTypeOK
<1>2. CASE \E d \in Desks : Idle(d)
  BY <1>2, EndedCall
<1>. QED
  BY <1>1, <1>2 DEF CallsEnd

(* The calls, when one of them may have ended.                             *)
LEMMA CallsRely ==
  ASSUME RegistryInv, CallsEnd, edited \subseteq edited', Rows \subseteq Rows',
         \A x \in Rows \ edited' : title'[x] = title[x]
  PROVE  CallsHold'
<1>1. RegistryTypeOK
  BY DEF RegistryInv
<1>2. SUFFICES ASSUME NEW c \in Desks
               PROVE  /\ present'[c] \subseteq Rows'
                      /\ step'[c] \in {"route", "model", "terminal"} => wanted'[c] # NoTitle
                      /\ step'[c] = "terminal" => entry'[c] # NoEntry
                      /\ \A x \in present'[c] \ edited' :
                           /\ step'[c] = "route" /\ x \in Routes => title'[x] # wanted'[c]
                           /\ step'[c] = "model" /\ x \in BusModels =>
                                title'[x][1] # wanted'[c][1]
  BY DEF CallsHold
<1>3. CASE step'[c] = "idle" /\ present'[c] = {}
  BY <1>3
<1>4. CASE /\ step'[c] = step[c] /\ wanted'[c] = wanted[c] /\ present'[c] = present[c]
           /\ entry'[c] = entry[c]
  BY <1>4, OtherCallsRely
<1>. QED
  BY <1>1, <1>3, <1>4, CallsEndTyped

(* A flag that is written is of no row the calls have read, or it is what  *)
(* they have read, or they are overtaken.                                  *)
LEMMA FlagsRely ==
  ASSUME RegistryInv, CallsEnd, overtaken \subseteq overtaken', Rows \subseteq Rows',
         \A c \in Desks, x \in Rows \ BusIds :
           step[c] = "flag" /\ entry[c] = x /\ c \notin overtaken' => on'[x] = on[x]
  PROVE  FlagsHold'
<1>1. RegistryTypeOK /\ FlagsHold
  BY DEF RegistryInv
<1>2. SUFFICES ASSUME NEW c \in Desks, step'[c] = "flag"
               PROVE  /\ entry'[c] \in Entries \ BusIds /\ Row(entry[c])'
                      /\ c \notin overtaken' => was'[c] = on'[entry'[c]]
  BY DEF FlagsHold
<1>3. /\ step'[c] = step[c] /\ entry'[c] = entry[c] /\ was'[c] = was[c]
  BY <1>1, <1>2, CallsEndTyped
<1>4. entry[c] \in Rows \ BusIds
  BY <1>1, <1>2, <1>3 DEF FlagsHold, Rows
<1>. QED
  BY <1>1, <1>2, <1>3, <1>4 DEF FlagsHold, Rows, Row

(* A row that is added is no twin of one its call has seen, unless that    *)
(* one was edited.                                                         *)
LEMMA AddKeeps ==
  ASSUME RegistryInv, CallsEnd, NEW e \in Entries, NEW t \in Titles, NEW flag \in BOOLEAN,
         NEW rows \in SUBSET Rows, Add(e, t, flag, rows),
         \A x \in rows \ edited :
           /\ e \in Routes /\ x \in Routes => title[x] # t
           /\ e \in BusModels /\ x \in BusModels => title[x][1] # t[1]
  PROVE  RegistryInv'
<1>. USE DEF RegistryInv
<1>1. /\ title' \in [Entries -> Titles \cup {NoTitle}] /\ title'[e] = t /\ t # NoTitle
      /\ title[e] = NoTitle /\ \A x \in Entries \ {e} : title'[x] = title[x]
  BY RegistryAssumption DEF Add, RegistryTypeOK, Row
<1>2. Rows \subseteq Entries \ {e} /\ Rows' = Rows \cup {e}
  BY <1>1 DEF Rows, Row
<1>3. /\ older' \in [Entries -> SUBSET Entries] /\ older'[e] = rows
      /\ \A x \in Entries \ {e} : older'[x] = older[x]
  BY <1>2 DEF Add, RegistryTypeOK
<1>4. RegistryTypeOK'
  <2>1. on' \in [Entries -> BOOLEAN]
    BY DEF Add, RegistryTypeOK
  <2>. QED
    BY <1>1, <1>3, <2>1, CallsEndTyped DEF Add, RegistryTypeOK
<1>5. CallsHold'
  BY <1>1, <1>2, CallsRely DEF Add
<1>6. \A x \in Entries : older'[x] \subseteq Rows' /\ (x \in edited' => Row(x)')
  BY <1>1, <1>2, <1>3 DEF Add, Row
<1>7. FlagsHold'
  <2>1. \A x \in Rows : on'[x] = on[x]
    BY <1>2 DEF Add, RegistryTypeOK
  <2>. QED
    BY <1>2, <2>1, FlagsRely DEF Add
<1>8. OnlyOverlapsTwin'
  <2>. SUFFICES ASSUME NEW x \in Rows' \ edited', NEW y \in Rows' \ edited', x # y,
                       Twins(x, y)'
                PROVE  x \notin older'[y]
    BY DEF OnlyOverlapsTwin
  <2>1. CASE x = e
    BY <1>2, <1>3, <2>1
  <2>2. CASE y = e
    <3>1. x \notin rows
      BY <1>1, <1>2, <2>2 DEF Twins, Add
    <3>. QED
      BY <1>3, <2>2, <3>1
  <2>3. CASE x # e /\ y # e
    BY <1>1, <1>2, <1>3, <2>3 DEF Twins, OnlyOverlapsTwin, Add
  <2>. QED
    BY <2>1, <2>2, <2>3
<1>. QED
  BY <1>4, <1>5, <1>6, <1>7, <1>8

(* A row with a new title is counted as edited, and a call that had read   *)
(* another flag than it is given is overtaken.                             *)
LEMMA RewriteKeeps ==
  ASSUME RegistryInv, CallsEnd, NEW e \in Entries, NEW t \in Titles, NEW flag \in BOOLEAN,
         Rewrite(e, t, flag)
  PROVE  RegistryInv'
<1>. USE DEF RegistryInv
<1>1. /\ title' \in [Entries -> Titles \cup {NoTitle}] /\ title'[e] # NoTitle /\ title'[e] = t
      /\ title[e] # NoTitle /\ \A x \in Entries \ {e} : title'[x] = title[x]
  BY RegistryAssumption DEF Rewrite, RegistryTypeOK, Row
<1>2. Rows' = Rows /\ \A x \in Entries : Row(x)' <=> Row(x)
  BY <1>1 DEF Rows, Row
<1>3. /\ edited \subseteq edited' /\ edited' \subseteq Rows \cup edited /\ older' = older
      /\ \A x \in Entries \ edited' : title'[x] = title[x]
  BY <1>1 DEF Rewrite, Rows, Row
<1>4. overtaken' = overtaken \cup Outdated(e, flag) /\ overtaken' \subseteq Desks
  BY DEF Rewrite, Outdated, RegistryTypeOK
<1>5. on' \in [Entries -> BOOLEAN] /\ on'[e] = flag /\ \A x \in Entries \ {e} : on'[x] = on[x]
  BY DEF Rewrite, RegistryTypeOK
<1>6. RegistryTypeOK'
  BY <1>1, <1>3, <1>4, <1>5, CallsEndTyped DEF RegistryTypeOK, Rows
<1>7. CallsHold'
  BY <1>1, <1>2, <1>3, CallsRely DEF Rows
<1>8. \A x \in Entries : older'[x] \subseteq Rows' /\ (x \in edited' => Row(x)')
  BY <1>1, <1>2, <1>3 DEF Rows
<1>9. OnlyOverlapsTwin'
  BY <1>1, <1>2, <1>3 DEF Twins, OnlyOverlapsTwin, Rows
<1>10. FlagsHold'
  <2>1. ASSUME NEW c \in Desks, NEW x \in Rows \ BusIds,
               step[c] = "flag", entry[c] = x, c \notin overtaken'
        PROVE  on'[x] = on[x]
    BY <1>4, <1>5, <2>1 DEF Outdated, Rows
  <2>. QED
    BY <1>2, <1>4, <2>1, FlagsRely
<1>. QED
  BY <1>6, <1>7, <1>8, <1>9, <1>10

(* A flag is none of what twins are about.                                 *)
LEMMA FlagKeeps ==
  ASSUME RegistryInv, CallsEnd, on' \in [Entries -> BOOLEAN], overtaken' \subseteq Desks,
         UNCHANGED <<title, older, edited>>, FlagsHold'
  PROVE  RegistryInv'
<1>1. RegistryTypeOK'
  BY CallsEndTyped DEF RegistryInv, RegistryTypeOK
<1>2. CallsHold'
  BY CallsRely DEF Rows, Row
<1>. QED
  BY <1>1, <1>2, RowsStay

LEMMA RegistryStep == RegistryInv /\ [RegistryNext]_registryVars => RegistryInv'
<1>. SUFFICES ASSUME RegistryInv, [RegistryNext]_registryVars PROVE RegistryInv'
  OBVIOUS
<1>. USE DEF RegistryInv
<1>0. RegistryTypeOK /\ CallsHold
  OBVIOUS
<1>1. ASSUME NEW d \in Desks, NEW t \in Titles, FindRoute(d, t) PROVE RegistryInv'
  BY <1>1, LookKeeps, RegistryAssumption DEF FindRoute
<1>2. ASSUME NEW d \in Desks, NEW t \in Titles, FindModel(d, t) PROVE RegistryInv'
  BY <1>2, LookKeeps, RegistryAssumption DEF FindModel
<1>3. ASSUME NEW d \in Desks, NEW e \in Terminals, NEW t \in Titles, FindNamesake(d, e, t)
      PROVE  RegistryInv'
  BY <1>3, LookKeeps, RegistryAssumption DEF FindNamesake, Entries
<1>4. ASSUME NEW d \in Desks, NEW e \in Entries \ BusIds, ReadFlag(d, e) PROVE RegistryInv'
  <2>1. on[e] \in BOOLEAN
    BY DEF RegistryTypeOK
  <2>. QED
    BY <1>4, <2>1, LookKeeps DEF ReadFlag
<1>5. ASSUME NEW d \in Desks, InsertRoute(d) PROVE RegistryInv'
  <2>1. PICK r \in Routes, flag \in BOOLEAN : Add(r, wanted[d], flag, present[d])
    BY <1>5, Zenon DEF InsertRoute
  <2>2. wanted[d] \in Titles /\ present[d] \subseteq Rows /\ r \in Entries /\ r \notin BusModels
    BY <1>0, <1>5, RegistryAssumption DEF InsertRoute, CallsHold, RegistryTypeOK, Entries
  <2>3. \A x \in present[d] \ edited : x \in Routes => title[x] # wanted[d]
    BY <1>0, <1>5 DEF InsertRoute, CallsHold
  <2>. QED
    BY <1>5, <2>1, <2>2, <2>3, AddKeeps DEF InsertRoute, CallsEnd
<1>6. ASSUME NEW d \in Desks, InsertModel(d) PROVE RegistryInv'
  <2>1. PICK m \in BusModels, flag \in BOOLEAN :
          Add(m, wanted[d], flag, present[d]) \/ Rewrite(m, wanted[d], flag)
    BY <1>6 DEF InsertModel
  <2>2. wanted[d] \in Titles /\ present[d] \subseteq Rows /\ m \in Entries /\ m \notin Routes
    BY <1>0, <1>6, RegistryAssumption DEF InsertModel, CallsHold, RegistryTypeOK, Entries
  <2>3. \A x \in present[d] \ edited : x \in BusModels => title[x][1] # wanted[d][1]
    BY <1>0, <1>6 DEF InsertModel, CallsHold
  <2>4. CallsEnd
    BY <1>6 DEF InsertModel, CallsEnd
  <2>5. CASE Add(m, wanted[d], flag, present[d])
    BY <2>2, <2>3, <2>4, <2>5, AddKeeps
  <2>6. CASE Rewrite(m, wanted[d], flag)
    BY <2>2, <2>4, <2>6, RewriteKeeps
  <2>. QED
    BY <2>1, <2>5, <2>6
<1>7. ASSUME NEW d \in Desks, UpdateTerminal(d) PROVE RegistryInv'
  <2>1. entry[d] \in Entries /\ wanted[d] \in Titles
    BY <1>0, <1>7 DEF UpdateTerminal, CallsHold, RegistryTypeOK
  <2>. QED
    BY <1>7, <2>1, RewriteKeeps DEF UpdateTerminal, Retitle, CallsEnd, RegistryTypeOK
<1>8. ASSUME NEW d \in Desks, WriteFlag(d) PROVE RegistryInv'
  <2>1. on' \in [Entries -> BOOLEAN]
    BY <1>8 DEF WriteFlag, RegistryTypeOK
  <2>2. overtaken' \subseteq Desks
    BY <1>8 DEF WriteFlag, Outdated, RegistryTypeOK
  <2>3. FlagsHold'
    <3>. SUFFICES ASSUME NEW c \in Desks, step'[c] = "flag"
                  PROVE  /\ entry'[c] \in Entries \ BusIds /\ Row(entry[c])'
                         /\ c \notin overtaken' => was'[c] = on'[entry'[c]]
      BY DEF FlagsHold
    <3>1. c # d /\ step'[c] = step[c] /\ entry'[c] = entry[c] /\ was'[c] = was[c]
      BY <1>0, <1>8, EndedCall DEF WriteFlag
    <3>2. entry[c] \in Entries \ BusIds /\ Row(entry[c])'
      BY <1>8, <3>1 DEF FlagsHold, WriteFlag, Row
    <3>3. ASSUME c \notin overtaken' PROVE was[c] = on'[entry[c]]
      <4>1. c \notin overtaken /\ (entry[c] # entry[d] \/ on[entry[d]] = ~ was[d])
        BY <1>8, <3>1, <3>3 DEF WriteFlag, Outdated
      <4>2. was[c] = on[entry[c]]
        BY <3>1, <4>1 DEF FlagsHold
      <4>3. on'[entry[c]] = on[entry[c]]
        BY <1>8, <3>2, <4>1 DEF WriteFlag, RegistryTypeOK
      <4>. QED
        BY <4>2, <4>3
    <3>. QED
      BY <3>1, <3>2, <3>3
  <2>. QED
    BY <1>8, <2>1, <2>2, <2>3, FlagKeeps DEF WriteFlag, CallsEnd
<1>9. ASSUME NEW d \in Desks, Abandon(d) PROVE RegistryInv'
  <2>1. \A c \in Desks : step'[c] = "flag" =>
          /\ c # d /\ step'[c] = step[c] /\ entry'[c] = entry[c] /\ was'[c] = was[c]
    BY <1>0, <1>9, EndedCall DEF Abandon
  <2>2. FlagsHold'
    BY <1>9, <2>1 DEF FlagsHold, Abandon, Row
  <2>. QED
    BY <1>9, <2>2, FlagKeeps DEF Abandon, CallsEnd, RegistryTypeOK
<1>10. ASSUME NEW e \in Entries, NEW t \in Titles, NEW flag \in BOOLEAN,
              Rewrite(e, t, flag), Quietly
       PROVE  RegistryInv'
  BY <1>10, RewriteKeeps DEF CallsEnd
<1>11. ASSUME NEW e \in Terminals \cup Cities \cup BusIds, NEW t \in Titles,
              NEW flag \in BOOLEAN, Add(e, t, flag, {}), Quietly
       PROVE  RegistryInv'
  BY <1>11, AddKeeps DEF CallsEnd, Entries
<1>12. ASSUME NEW e \in BusIds, NEW flag \in BOOLEAN, ToggleBus(e, flag) PROVE RegistryInv'
  <2>1. \A x \in Entries \ BusIds : on'[x] = on[x]
    BY <1>12 DEF ToggleBus, RegistryTypeOK
  <2>2. FlagsHold'
    BY <1>12, <2>1, FlagsRely DEF ToggleBus, CallsEnd, Rows, Row
  <2>. QED
    BY <1>12, <2>2, FlagKeeps DEF ToggleBus, CallsEnd, RegistryTypeOK
<1>13. CASE UNCHANGED registryVars
  <2>1. FlagsHold'
    BY <1>13 DEF registryVars, FlagsHold, Row
  <2>. QED
    BY <1>13, <2>1, FlagKeeps DEF registryVars, CallsEnd, Quietly, RegistryTypeOK
<1>14. CASE RegistryNext
  <2>1. Routes \cup BusModels \cup Terminals \cup Cities \cup BusIds = Entries
    BY DEF Entries
  <2>2. \A d \in Desks, e \in Entries :
          ToggleRoute(d, e) \/ ToggleModel(d, e) \/ ToggleTerminal(d, e) =>
            e \notin BusIds /\ ReadFlag(d, e)
    BY RegistryAssumption DEF ToggleRoute, ToggleModel, ToggleTerminal
  <2>3. \A e \in Entries, t \in Titles :
          UpdateRoute(e, t) \/ UpdatePlate(e, t) =>
            on[e] \in BOOLEAN /\ Rewrite(e, t, on[e]) /\ Quietly
    BY DEF UpdateRoute, UpdatePlate, Retitle, RegistryTypeOK
  <2>4. \A e \in Entries, t \in Titles :
          CreateTerminal(e, t) \/ CreateCity(e, t) \/ CreateBus(e, t) =>
            \E flag \in BOOLEAN : Add(e, t, flag, {}) /\ Quietly
    BY Zenon DEF CreateTerminal, CreateCity, CreateBus
  <2>. QED
    BY <1>14, <1>1, <1>2, <1>3, <1>4, <1>5, <1>6, <1>7, <1>8, <1>9, <1>10, <1>11, <1>12,
       <2>1, <2>2, <2>3, <2>4 DEF RegistryNext, UpdateModel
<1>. QED
  BY <1>13, <1>14

(* The inductive invariant: what a call that is about to insert has seen   *)
(* is there, and no twin of what it inserts unless it was edited.          *)
THEOREM RegistryHolds == RegistrySpec => []RegistryInv
<1>. QED
  BY RegistryBegins, RegistryStep, PTL DEF RegistrySpec

(* create of a route or of a bus model (route.service.ts, bus.service.ts)  *)
(* makes no twin of a row that was there when it looked.                   *)
THEOREM TwinsOverlap == RegistrySpec => []OnlyOverlapsTwin
<1>1. RegistryInv => OnlyOverlapsTwin
  BY DEF RegistryInv
<1>. QED
  BY <1>1, RegistryHolds, PTL

(* toggleRouteStatus, toggleBusModelStatus and toggleTerminalStatus turn   *)
(* the flag over, unless it was changed in between: by another of them, or *)
(* by createBusModel and updateBusModel, whose bodies may name it.         *)
THEOREM FlagsAreTurned == RegistrySpec => TogglesTurn
<1>1. RegistryInv => \A d \in Desks \ overtaken : WriteFlag(d) => on'[entry[d]] # on[entry[d]]
  <2>. SUFFICES ASSUME RegistryInv, NEW d \in Desks \ overtaken, WriteFlag(d)
                PROVE  on'[entry[d]] # on[entry[d]]
    OBVIOUS
  <2>1. entry[d] \in Entries /\ was[d] = on[entry[d]]
    BY DEF RegistryInv, FlagsHold, WriteFlag
  <2>2. on'[entry[d]] = ~ was[d]
    BY <2>1 DEF WriteFlag, RegistryInv, RegistryTypeOK
  <2>3. was[d] \in BOOLEAN
    BY DEF RegistryInv, RegistryTypeOK
  <2>. QED
    BY <2>1, <2>2, <2>3
<1>. QED
  BY <1>1, RegistryHolds, PTL DEF TogglesTurn
=============================================================================
