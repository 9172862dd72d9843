----------------------------- MODULE MCBackOffice -----------------------------
(***************************************************************************)
(* The rows the back office keeps, on a small instance: cancellation       *)
(* policies, buses and trips, the five tables of Registry, companies and   *)
(* their people, and of an account the attempts to log in.  They share no  *)
(* variable, so a behaviour of all of them is an interleaving of one of    *)
(* each, and a property of one cannot tell: each behaviour here moves one  *)
(* part and leaves the others as they began.                               *)
(***************************************************************************)
EXTENDS CancellationPolicy, Fleet, Registry, Staff, Login, TLC

VARIABLE part

CONSTANTS m1, m2, l1, l2, n1, n2, p1, p2

TwoKits == {<<m1, l1>>, <<m2, l2>>}

ThreeTitles == {<<n1, p1>>, <<n1, p2>>, <<n2, p1>>}

Table == [routes |-> Routes, models |-> BusModels, terminals |-> Terminals, cities |-> Cities,
          buses |-> BusIds]

StepOf == [routes |-> "route", models |-> "model", terminals |-> "terminal", cities |-> "idle",
           buses |-> "idle"]

(* In a behaviour of one table the calls are about that table. *)
Confined ==
  /\ \A e \in Entries \ Table[part] : title'[e] = NoTitle
  /\ \A d \in Desks : step'[d] \in {"idle", "flag", StepOf[part]}

rowVars == <<vars, fleetVars, registryVars>>

accountVars == <<staffVars, loginVars>>

(* Operators being interchangeable, a bus may be taken to be of this one.  *)
First == CHOOSE m \in Operators : TRUE

(* Each part may begin in any of its initial states, the others in one.    *)
BackOfficeInit ==
  /\ Init /\ FleetInit /\ RegistryInit /\ StaffInit /\ LoginInit
  /\ part \in {"policies", "fleet", "staff", "attempts"} \cup DOMAIN Table
  /\ \E b \in Buses : owner[b] = First
  /\ part = "fleet" \/ \A b \in Buses : owner[b] = First
  /\ twoFactor = FALSE

(* The tokens' roles and the one-time code are looked at in MCPeople. *)
Owning == role' = "owner" /\ redis'["code"] = "absent"

BackOfficeNext ==
  /\ \/ part = "policies" /\ Next /\ UNCHANGED <<fleetVars, registryVars, accountVars>>
     \/ part = "fleet" /\ FleetNext /\ UNCHANGED <<vars, registryVars, accountVars>>
     \/ /\ part \in DOMAIN Table /\ RegistryNext /\ Confined
        /\ UNCHANGED <<vars, fleetVars, accountVars>>
     \/ part = "staff" /\ StaffNext /\ UNCHANGED <<rowVars, loginVars>>
     \/ part = "attempts" /\ LoginNext /\ Owning /\ UNCHANGED <<rowVars, staffVars>>
  /\ UNCHANGED part

BackOfficeSpec == BackOfficeInit /\ [][BackOfficeNext]_<<rowVars, accountVars, part>>

(* The calls of the parts are the same model values, and so are buses and  *)
(* phones, trips and people, companies and cities: few permutations serve  *)
(* every part.                                                             *)
Interchangeable ==
  Permutations(Buses) \cup Permutations(Trips) \cup Permutations(Companies)
    \cup Permutations(Clerks)

(* What calls under way rely on, none of which a client can see: the rows  *)
(* that createDriver, create of a company, a toggle, an update of a bus, a *)
(* new trip and an attempt to log in have read or hold are still as they   *)
(* found them, or the call is known to be overtaken.                       *)
RowsHold ==
  /\ ClerksHold /\ TripsHold
  /\ CallsHold /\ FlagsHold
  /\ CommitsHold /\ LookupsHold /\ PhonesDiffer
  /\ StrikesCount /\ RowsAreRead
=============================================================================
