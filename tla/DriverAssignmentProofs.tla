------------------------ MODULE DriverAssignmentProofs ------------------------
(***************************************************************************)
(* For any number of drivers, buses and calls: an assignment leaves no     *)
(* older one of its driver or bus active, and ends one only by replacing   *)
(* it.                                                                     *)
(***************************************************************************)
EXTENDS DriverAssignment, TLAPS

(* The parts of the invariant, to be cited one by one.                     *)
LEMMA InitEnds == Init => EndsWhatItMust
  BY NullsAreDistinct
  DEF Init, EndsWhatItMust, TypeOK, LocksAreOwned, TodoIsOwned, RowsAreCommitted,
      HistoryIsCommitted, DriverEnds, BusEnds, OnlyOverlapsClash, InFlight

LEMMA BeginEnds ==
  ASSUME EndsWhatItMust, NEW c \in Calls, Begin(c)
  PROVE  EndsWhatItMust'
<1>. USE DEF EndsWhatItMust
<1>1. PICK d \in Drivers, b \in Buses :
        /\ driver' = [driver EXCEPT ![c] = d]
        /\ bus'    = [bus EXCEPT ![c] = b]
        /\ todo'   = [todo EXCEPT ![c] = ActiveOfDriver(d)]
  BY DEF Begin
<1>2. /\ pc[c] = "idle" /\ pc' = [pc EXCEPT ![c] = "driver"]
      /\ before' = [before EXCEPT ![c] = {a \in Calls : active[a] # "absent"}]
      /\ UNCHANGED <<active, lock>>
  BY DEF Begin
<1>3. active[c] = "absent"
  BY <1>2 DEF RowsAreCommitted, TypeOK
<1>4. TypeOK'
  BY <1>1, <1>2 DEF TypeOK, ActiveOfDriver
<1>5. \A a \in Calls : a # c => driver'[a] = driver[a] /\ bus'[a] = bus[a]
                              /\ todo'[a] = todo[a] /\ before'[a] = before[a]
                              /\ pc'[a] = pc[a]
  BY <1>1, <1>2 DEF TypeOK
<1>6. /\ driver'[c] = d /\ pc'[c] = "driver"
      /\ todo'[c] = {a \in Calls : active[a] = "yes" /\ driver[a] = d}
      /\ before'[c] = {a \in Calls : active[a] # "absent"}
  BY <1>1, <1>2 DEF TypeOK, ActiveOfDriver
<1>7. LocksAreOwned'
  BY <1>2, <1>3, <1>5 DEF LocksAreOwned, SameRequest, InFlight
<1>8. TodoIsOwned'
  BY <1>2, <1>3, <1>5, <1>6 DEF TodoIsOwned, SameRequest, TypeOK
<1>9. RowsAreCommitted' /\ HistoryIsCommitted'
  BY <1>2, <1>5, <1>6 DEF RowsAreCommitted, HistoryIsCommitted
<1>10. DriverEnds' /\ BusEnds'
  BY <1>2, <1>3, <1>5, <1>6 DEF DriverEnds, BusEnds, HistoryIsCommitted, InFlight
<1>11. OnlyOverlapsClash'
  BY <1>2, <1>3, <1>5 DEF OnlyOverlapsClash, Rivals, SameRequest
<1>. QED
  BY <1>4, <1>5, <1>6, <1>7, <1>8, <1>9, <1>10, <1>11

LEMMA EndRowEnds ==
  ASSUME EndsWhatItMust, NEW c \in Calls, EndRow(c)
  PROVE  EndsWhatItMust'
<1>. USE DEF EndsWhatItMust
<1>1. PICK a \in todo[c] :
        /\ lock[a] = NoCall
        /\ lock' = [lock EXCEPT ![a] = IF active[a] = "yes" THEN c ELSE NoCall]
        /\ todo' = [todo EXCEPT ![c] = @ \ {a}]
  BY DEF EndRow
<1>2. /\ pc[c] \in {"driver", "bus"} /\ a \in Calls /\ SameRequest(a, c)
      /\ UNCHANGED <<driver, bus, before, active, pc>>
  BY <1>1 DEF EndRow, request, TypeOK, TodoIsOwned
<1>3. TypeOK'
  BY <1>1, <1>2 DEF TypeOK
<1>4. /\ \A x \in Calls : x # a => lock'[x] = lock[x]
      /\ lock'[a] = IF active[a] = "yes" THEN c ELSE NoCall
      /\ \A x \in Calls : x # c => todo'[x] = todo[x]
      /\ todo'[c] = todo[c] \ {a}
  BY <1>1, <1>2 DEF TypeOK
<1>5. LocksAreOwned'
  BY <1>2, <1>4, NullsAreDistinct DEF LocksAreOwned, InFlight, SameRequest
<1>6. TodoIsOwned' /\ RowsAreCommitted' /\ HistoryIsCommitted'
  BY <1>2, <1>4 DEF TodoIsOwned, RowsAreCommitted, HistoryIsCommitted, SameRequest
<1>7. \A x, q \in Calls : lock[x] = q => lock'[x] = q
  BY <1>1, <1>4, NullsAreDistinct
<1>8. DriverEnds'
  BY <1>2, <1>4, <1>7 DEF DriverEnds, InFlight, HistoryIsCommitted, TypeOK
<1>9. BusEnds'
  BY <1>2, <1>4, <1>7 DEF BusEnds, TypeOK
<1>10. OnlyOverlapsClash'
  BY <1>2 DEF OnlyOverlapsClash, Rivals, SameRequest
<1>. QED
  BY <1>2, <1>3, <1>4, <1>5, <1>6, <1>8, <1>9, <1>10

LEMMA EndBusEnds ==
  ASSUME EndsWhatItMust, NEW c \in Calls, EndBus(c)
  PROVE  EndsWhatItMust'
<1>. USE DEF EndsWhatItMust
<1>1. /\ pc[c] = "driver" /\ todo[c] = {}
      /\ todo' = [todo EXCEPT ![c] = {a \in ActiveOfBus(bus[c]) : lock[a] # c}]
      /\ pc' = [pc EXCEPT ![c] = "bus"]
      /\ UNCHANGED <<driver, bus, before, active, lock>>
  BY DEF EndBus, request
<1>2. TypeOK'
  BY <1>1 DEF TypeOK, ActiveOfBus
<1>3. /\ \A x \in Calls : x # c => todo'[x] = todo[x] /\ pc'[x] = pc[x]
      /\ pc'[c] = "bus"
      /\ todo'[c] = {a \in Calls : active[a] = "yes" /\ bus[a] = bus[c] /\ lock[a] # c}
  BY <1>1 DEF TypeOK, ActiveOfBus
<1>4. LocksAreOwned' /\ RowsAreCommitted' /\ HistoryIsCommitted' /\ OnlyOverlapsClash'
  BY <1>1, <1>3 DEF LocksAreOwned, RowsAreCommitted, HistoryIsCommitted,
                    OnlyOverlapsClash, InFlight, SameRequest, Rivals
<1>5. TodoIsOwned'
  BY <1>1, <1>3 DEF TodoIsOwned, SameRequest
<1>6. DriverEnds'
  BY <1>1, <1>3 DEF DriverEnds, InFlight
<1>7. BusEnds'
  BY <1>1, <1>3 DEF BusEnds, TypeOK
<1>. QED
  BY <1>2, <1>3, <1>4, <1>5, <1>6, <1>7

LEMMA InsertEnds ==
  ASSUME EndsWhatItMust, NEW c \in Calls, Insert(c)
  PROVE  EndsWhatItMust'
<1>. USE DEF EndsWhatItMust
<1>1. /\ pc[c] = "bus" /\ todo[c] = {} /\ pc' = [pc EXCEPT ![c] = "insert"]
      /\ UNCHANGED <<driver, bus, before, active, lock, todo>>
  BY DEF Insert, request
<1>2. TypeOK' /\ pc'[c] = "insert" /\ \A x \in Calls : x # c => pc'[x] = pc[x]
  BY <1>1 DEF TypeOK
<1>3. LocksAreOwned' /\ TodoIsOwned' /\ RowsAreCommitted' /\ HistoryIsCommitted'
      /\ OnlyOverlapsClash'
  BY <1>1, <1>2 DEF LocksAreOwned, TodoIsOwned, RowsAreCommitted, HistoryIsCommitted,
                    OnlyOverlapsClash, InFlight, SameRequest, Rivals
<1>4. DriverEnds' /\ BusEnds'
  BY <1>1, <1>2 DEF DriverEnds, BusEnds, InFlight
<1>. QED
  BY <1>1, <1>2, <1>3, <1>4

(* What the end of a transaction does to the locks. *)
LEMMA UnlockedEffect ==
  ASSUME TypeOK, NEW c \in Calls, lock' = Unlocked(c)
  PROVE  /\ lock' \in [Calls -> Calls \cup {NoCall}]
         /\ \A a \in Calls : lock'[a] # c
         /\ \A a, q \in Calls : q # c => (lock'[a] = q <=> lock[a] = q)
  BY NullsAreDistinct DEF Unlocked, TypeOK

LEMMA RollbackEnds ==
  ASSUME EndsWhatItMust, NEW c \in Calls, Rollback(c)
  PROVE  EndsWhatItMust'
<1>. USE DEF EndsWhatItMust
<1>1. /\ InFlight(c) /\ lock' = Unlocked(c)
      /\ todo' = [todo EXCEPT ![c] = {}] /\ pc' = [pc EXCEPT ![c] = "failed"]
      /\ UNCHANGED <<driver, bus, before, active>>
  BY DEF Rollback, request
<1>2. /\ lock' \in [Calls -> Calls \cup {NoCall}]
      /\ \A a \in Calls : lock'[a] # c
      /\ \A a, q \in Calls : q # c => (lock'[a] = q <=> lock[a] = q)
  BY <1>1, UnlockedEffect
<1>3. TypeOK' /\ pc'[c] = "failed" /\ todo'[c] = {}
      /\ \A x \in Calls : x # c => pc'[x] = pc[x] /\ todo'[x] = todo[x]
  BY <1>1, <1>2 DEF TypeOK
<1>4. LocksAreOwned' /\ TodoIsOwned'
  BY <1>1, <1>2, <1>3 DEF LocksAreOwned, TodoIsOwned, InFlight, SameRequest
<1>5. RowsAreCommitted' /\ HistoryIsCommitted' /\ OnlyOverlapsClash'
  BY <1>1, <1>3 DEF RowsAreCommitted, HistoryIsCommitted, OnlyOverlapsClash,
                    InFlight, SameRequest, Rivals
<1>6. DriverEnds' /\ BusEnds'
  BY <1>1, <1>2, <1>3 DEF DriverEnds, BusEnds, InFlight
<1>. QED
  BY <1>3, <1>4, <1>5, <1>6

LEMMA CommitEnds ==
  ASSUME EndsWhatItMust, NEW c \in Calls, Commit(c)
  PROVE  EndsWhatItMust'
<1>. USE DEF EndsWhatItMust
<1>1. /\ pc[c] = "insert" /\ lock' = Unlocked(c)
      /\ active' = [a \in Calls |-> IF a = c THEN "yes"
                                    ELSE IF lock[a] = c THEN "no" ELSE active[a]]
      /\ pc' = [pc EXCEPT ![c] = "done"]
      /\ UNCHANGED <<driver, bus, before, todo>>
  BY DEF Commit, request
<1>2. /\ lock' \in [Calls -> Calls \cup {NoCall}]
      /\ \A a \in Calls : lock'[a] # c
      /\ \A a, q \in Calls : q # c => (lock'[a] = q <=> lock[a] = q)
  BY <1>1, UnlockedEffect
<1>3. TypeOK' /\ pc'[c] = "done" /\ \A x \in Calls : x # c => pc'[x] = pc[x]
  BY <1>1, <1>2 DEF TypeOK
<1>4. /\ active[c] = "absent" /\ todo[c] = {} /\ InFlight(c)
      /\ \A a \in Calls : lock[a] = c => active[a] = "yes" /\ pc[a] = "done"
  BY <1>1 DEF RowsAreCommitted, LocksAreOwned, InFlight
<1>5. LocksAreOwned'
  BY <1>1, <1>2, <1>3, <1>4, NullsAreDistinct DEF LocksAreOwned, InFlight, SameRequest, TypeOK
<1>6. TodoIsOwned' /\ RowsAreCommitted' /\ HistoryIsCommitted'
  BY <1>1, <1>3, <1>4 DEF TodoIsOwned, RowsAreCommitted, HistoryIsCommitted, SameRequest
<1>7. DriverEnds'
  BY <1>1, <1>2, <1>3, <1>4 DEF DriverEnds, HistoryIsCommitted, InFlight
<1>8. BusEnds'
  BY <1>1, <1>2, <1>3, <1>4 DEF BusEnds, HistoryIsCommitted
<1>9. OnlyOverlapsClash'
  <2>. SUFFICES ASSUME NEW a \in Calls, NEW b \in Calls,
                       active'[a] = "yes", active'[b] = "yes", Rivals(a, b),
                       a \in before[b]
                PROVE  FALSE
    BY <1>1 DEF OnlyOverlapsClash, Rivals, SameRequest
  <2>1. a # c
    BY <1>4 DEF HistoryIsCommitted
  <2>2. active[a] = "yes" /\ lock[a] # c
    BY <1>1, <2>1
  <2>3. CASE b = c
    BY <1>1, <1>4, <2>2, <2>3 DEF DriverEnds, BusEnds, Rivals, SameRequest
  <2>4. CASE b # c
    BY <1>1, <2>2, <2>4 DEF OnlyOverlapsClash
  <2>. QED
    BY <2>3, <2>4
<1>. QED
  BY <1>1, <1>3, <1>5, <1>6, <1>7, <1>8, <1>9

(* EndsWhatItMust is inductive: one case per disjunct of Next. *)
LEMMA NextEnds ==
  ASSUME EndsWhatItMust, [Next]_vars
  PROVE  EndsWhatItMust'
<1>1. CASE UNCHANGED vars
  BY <1>1 DEF vars, EndsWhatItMust, TypeOK, LocksAreOwned, TodoIsOwned, RowsAreCommitted,
              HistoryIsCommitted, DriverEnds, BusEnds, OnlyOverlapsClash, InFlight,
              SameRequest, Rivals
<1>2. ASSUME NEW c \in Calls, Begin(c) \/ Step(c) \/ Rollback(c)
      PROVE  EndsWhatItMust'
  BY <1>2, BeginEnds, EndRowEnds, EndBusEnds, InsertEnds, CommitEnds, RollbackEnds DEF Step
<1>. QED
  BY <1>1, <1>2 DEF Next

(* The whole invariant, for every instance. *)
THEOREM AssignmentsEndWhatTheyMust == Spec => []EndsWhatItMust
  BY InitEnds, NextEnds, PTL DEF Spec

(* Two active rows of one driver or one bus come from calls that           *)
(* overlapped: without overlap an assignment is exclusive, and a single    *)
(* call ends whatever duplicates earlier overlaps have left.               *)
THEOREM OnlyOverlappingCallsClash == Spec => []OnlyOverlapsClash
<1>1. EndsWhatItMust => OnlyOverlapsClash
  BY DEF EndsWhatItMust
<1>. QED
  BY <1>1, AssignmentsEndWhatTheyMust, PTL

(* An assignment ends only together with the start of another one of its   *)
(* driver or its bus, wherever calls fail.                                 *)
THEOREM AssignmentsEndByAnother == Spec => EndedByAnother
<1>. DEFINE Replaced == \A a \in Calls : active[a] = "yes" /\ active'[a] = "no" =>
                          \E c \in Calls : /\ active[c] = "absent" /\ active'[c] = "yes"
                                           /\ Rivals(a, c)
<1>1. ASSUME EndsWhatItMust, [Next]_vars PROVE [Replaced]_vars
  <2>1. ASSUME NEW c \in Calls, Commit(c) PROVE Replaced
    <3>1. /\ active' = [a \in Calls |-> IF a = c THEN "yes"
                                        ELSE IF lock[a] = c THEN "no" ELSE active[a]]
          /\ pc[c] = "insert"
      BY <2>1 DEF Commit
    <3>2. active[c] = "absent" /\ active'[c] = "yes"
      BY <1>1, <3>1 DEF EndsWhatItMust, RowsAreCommitted, TypeOK
    <3>3. \A a \in Calls : lock[a] = c => SameRequest(a, c)
      BY <1>1 DEF EndsWhatItMust, LocksAreOwned
    <3>. QED
      BY <3>1, <3>2, <3>3 DEF Rivals
  <2>2. ASSUME NEW c \in Calls, Begin(c) \/ EndRow(c) \/ EndBus(c) \/ Insert(c) \/ Rollback(c)
        PROVE  Replaced
    <3>1. UNCHANGED active
      BY <2>2 DEF Begin, EndRow, EndBus, Insert, Rollback
    <3>. QED
      BY <3>1
  <2>. QED
    BY <1>1, <2>1, <2>2 DEF Next, Step
<1>. QED
  BY <1>1, AssignmentsEndWhatTheyMust, PTL DEF Spec, EndedByAnother

-----------------------------------------------------------------------------
(*                     the refinement of Succession                        *)

LEMMA InitSucceeds == Init => Abstract!Init
  BY DEF Init, Abstract!Init, Phase, Claim, InFlight

(* Calls share a claim exactly when they share the driver or the bus.      *)
LEMMA ClaimsAreRequests ==
  ASSUME NEW a \in Calls, NEW c \in Calls, pc[a] # "idle", pc[c] # "idle"
  PROVE  Claim(a) \cap Claim(c) # {} <=> SameRequest(a, c)
<1>1. /\ Claim(a) = {<<"driver", driver[a]>>, <<"bus", bus[a]>>}
      /\ Claim(c) = {<<"driver", driver[c]>>, <<"bus", bus[c]>>}
  BY DEF Claim
<1>2. ASSUME SameRequest(a, c) PROVE Claim(a) \cap Claim(c) # {}
  <2>1. CASE driver[a] = driver[c]
    <3>1. <<"driver", driver[a]>> \in Claim(a) \cap Claim(c)
      BY <1>1, <2>1
    <3>. QED
      BY <3>1
  <2>2. CASE bus[a] = bus[c]
    <3>1. <<"bus", bus[a]>> \in Claim(a) \cap Claim(c)
      BY <1>1, <2>2
    <3>. QED
      BY <3>1
  <2>. QED
    BY <1>2, <2>1, <2>2 DEF SameRequest
<1>3. ASSUME Claim(a) \cap Claim(c) # {} PROVE SameRequest(a, c)
  <2>1. PICK r : r \in Claim(a) /\ r \in Claim(c)
    BY <1>3
  <2>2. r = <<"driver", driver[a]>> \/ r = <<"bus", bus[a]>>
    BY <1>1, <2>1
  <2>3. r = <<"driver", driver[c]>> \/ r = <<"bus", bus[c]>>
    BY <1>1, <2>1
  <2>. QED
    BY <2>2, <2>3 DEF SameRequest
<1>. QED
  BY <1>2, <1>3

LEMMA BeginSucceeds ==
  ASSUME EndsWhatItMust, NEW c \in Calls, Begin(c)
  PROVE  Abstract!Begin(c)
<1>1. PICK d \in Drivers, b \in Buses :
        /\ driver' = [driver EXCEPT ![c] = d]
        /\ bus'    = [bus EXCEPT ![c] = b]
  BY DEF Begin
<1>2. /\ pc[c] = "idle" /\ pc' = [pc EXCEPT ![c] = "driver"]
      /\ before' = [before EXCEPT ![c] = {a \in Calls : active[a] # "absent"}]
      /\ UNCHANGED active
  BY DEF Begin
<1>3. TypeOK /\ RowsAreCommitted
  BY DEF EndsWhatItMust
<1>4. [q \in Calls |-> Phase(q)]' = [[q \in Calls |-> Phase(q)] EXCEPT ![c] = "open"]
  BY <1>2, <1>3 DEF Phase, InFlight, TypeOK
<1>5. [q \in Calls |-> Claim(q)]'
        = [[q \in Calls |-> Claim(q)] EXCEPT ![c] = {<<"driver", d>>, <<"bus", b>>}]
  BY <1>1, <1>2, <1>3 DEF Claim, TypeOK
<1>6. {<<"driver", d>>, <<"bus", b>>} \in
        SUBSET (({"driver"} \X Drivers) \cup ({"bus"} \X Buses))
  OBVIOUS
<1>7. {a \in Calls : active[a] # "absent"} = {a \in Calls : Phase(a) = "done"}
  BY <1>3 DEF RowsAreCommitted, Phase, InFlight
<1>8. Phase(c) = "idle"
  BY <1>2 DEF Phase, InFlight
<1>. QED
  BY <1>2, <1>4, <1>5, <1>6, <1>7, <1>8 DEF Abstract!Begin, Abstract!Added

(* The commit is the step in which a call replaces its rivals.             *)
LEMMA CommitSucceeds ==
  ASSUME EndsWhatItMust, NEW c \in Calls, Commit(c)
  PROVE  Abstract!Replace(c)
<1>1. /\ pc[c] = "insert" /\ pc' = [pc EXCEPT ![c] = "done"]
      /\ active' = [a \in Calls |-> IF a = c THEN "yes"
                                    ELSE IF lock[a] = c THEN "no" ELSE active[a]]
      /\ UNCHANGED <<driver, bus, before>>
  BY DEF Commit, request
<1>2. TypeOK
  BY DEF EndsWhatItMust
<1>3. [q \in Calls |-> Phase(q)]' = [[q \in Calls |-> Phase(q)] EXCEPT ![c] = "done"]
  BY <1>1, <1>2 DEF Phase, InFlight, TypeOK
<1>4. [q \in Calls |-> Claim(q)]' = [q \in Calls |-> Claim(q)]
  BY <1>1, <1>2 DEF Claim, TypeOK
<1>. DEFINE now   == {a \in Calls : active[a] = "yes"}
            ended == {a \in Calls : lock[a] = c}
<1>5. \A a \in Calls : active[a] = "yes" => a # c /\ pc[a] # "idle"
  BY <1>1 DEF EndsWhatItMust, RowsAreCommitted
<1>6. \A a \in now : Abstract!Rivals(a, c) <=> SameRequest(a, c)
  BY <1>1, <1>5, ClaimsAreRequests DEF Abstract!Rivals
<1>7. ended \in SUBSET {a \in now : Abstract!Rivals(a, c)}
  BY <1>6 DEF EndsWhatItMust, LocksAreOwned
<1>8. {a \in now \cap before[c] : Abstract!Rivals(a, c)} \subseteq ended
  BY <1>1, <1>6 DEF EndsWhatItMust, DriverEnds, BusEnds, InFlight, SameRequest
<1>9. now' = (now \ ended) \cup {c}
  BY <1>1
<1>10. Phase(c) = "open"
  BY <1>1 DEF Phase, InFlight
<1>. QED
  BY <1>1, <1>3, <1>4, <1>7, <1>8, <1>9, <1>10 DEF Abstract!Replace

LEMMA RollbackSucceeds ==
  ASSUME EndsWhatItMust, NEW c \in Calls, Rollback(c)
  PROVE  Abstract!GiveUp(c)
<1>1. /\ InFlight(c) /\ pc' = [pc EXCEPT ![c] = "failed"]
      /\ UNCHANGED <<driver, bus, before, active>>
  BY DEF Rollback, request
<1>2. TypeOK
  BY DEF EndsWhatItMust
<1>3. [q \in Calls |-> Phase(q)]' = [[q \in Calls |-> Phase(q)] EXCEPT ![c] = "failed"]
  BY <1>1, <1>2 DEF Phase, InFlight, TypeOK
<1>4. [q \in Calls |-> Claim(q)]' = [q \in Calls |-> Claim(q)]
  BY <1>1, <1>2 DEF Claim, InFlight, TypeOK
<1>5. Phase(c) = "open"
  BY <1>1 DEF Phase
<1>. QED
  BY <1>1, <1>3, <1>4, <1>5 DEF Abstract!GiveUp

(* The statements before the commit are not seen.                          *)
LEMMA StatementStutters ==
  ASSUME EndsWhatItMust, NEW c \in Calls, EndRow(c) \/ EndBus(c) \/ Insert(c)
  PROVE  UNCHANGED Abstract!vars
<1>1. /\ UNCHANGED <<driver, bus, before, active>>
      /\ InFlight(c)
      /\ \/ pc' = pc
         \/ pc' = [pc EXCEPT ![c] = "bus"]
         \/ pc' = [pc EXCEPT ![c] = "insert"]
  BY DEF EndRow, EndBus, Insert, request, InFlight
<1>2. TypeOK
  BY DEF EndsWhatItMust
<1>3. [q \in Calls |-> Phase(q)]' = [q \in Calls |-> Phase(q)]
  BY <1>1, <1>2 DEF Phase, InFlight, TypeOK
<1>4. [q \in Calls |-> Claim(q)]' = [q \in Calls |-> Claim(q)]
  BY <1>1, <1>2 DEF Claim, InFlight, TypeOK
<1>. QED
  BY <1>1, <1>3, <1>4 DEF Abstract!vars

(* The three statements of assignDriverToBus, interleaved with those of    *)
(* other calls, implement the one step that Succession promises.           *)
THEOREM AssignmentsSucceed == Spec => ReplacesAssignments
<1>1. ASSUME EndsWhatItMust, [Next]_vars PROVE [Abstract!Next]_(Abstract!vars)
  <2>1. CASE UNCHANGED vars
    <3>1. UNCHANGED <<driver, bus, active, pc, before>>
      BY <2>1 DEF vars
    <3>. QED
      BY <3>1 DEF Abstract!vars, Phase, Claim, InFlight
  <2>2. ASSUME NEW c \in Calls, Begin(c) PROVE Abstract!Next
    BY <1>1, <2>2, BeginSucceeds DEF Abstract!Next
  <2>3. ASSUME NEW c \in Calls, Commit(c) PROVE Abstract!Next
    BY <1>1, <2>3, CommitSucceeds DEF Abstract!Next
  <2>4. ASSUME NEW c \in Calls, Rollback(c) PROVE Abstract!Next
    BY <1>1, <2>4, RollbackSucceeds DEF Abstract!Next
  <2>5. ASSUME NEW c \in Calls, EndRow(c) \/ EndBus(c) \/ Insert(c)
        PROVE  UNCHANGED Abstract!vars
    BY <1>1, <2>5, StatementStutters
  <2>. QED
    BY <1>1, <2>1, <2>2, <2>3, <2>4, <2>5 DEF Next, Step
<1>. QED
  BY <1>1, InitSucceeds, AssignmentsEndWhatTheyMust, PTL
  DEF Spec, ReplacesAssignments, Abstract!Spec
=============================================================================
