--------------------------- MODULE DriverAssignment ---------------------------
(***************************************************************************)
(* assignDriverToBus of driver.service.ts: one transaction that ends the   *)
(* driver's active row of driver_bus, then the bus's, and inserts a new    *)
(* active one.  Nothing but these rows says who drives what: driver_bus    *)
(* has no unique index, the two UPDATEs are all that keeps it exclusive.   *)
(*                                                                         *)
(* READ COMMITTED: an UPDATE works on the rows that are committed and      *)
(* active when it starts, waits for those another call has locked, and     *)
(* skips the ones that are no longer active when the lock is released.  A  *)
(* call has locked exactly the rows it has ended, so `lock` is also its    *)
(* pending writes.                                                         *)
(***************************************************************************)
EXTENDS FiniteSets

CONSTANTS
  Drivers,
  Buses,
  Calls,     \* calls of assignDriverToBus; also the id of the row it inserts
  Bodies,    \* the (driverId, busId) each call may be made with
  NoCall,    \* owner of a row that is not locked
  NoDriver,  \* no driver, no bus chosen yet
  NoBus

ASSUME NullsAreDistinct ==
  NoCall \notin Calls /\ NoDriver \notin Drivers /\ NoBus \notin Buses

ASSUME BodiesAssumption == Bodies \in [Calls -> SUBSET (Drivers \X Buses)]

VARIABLES
  driver,   \* driverId of a call, and of the row it inserts
  bus,      \* busId of the same
  active,   \* isActive of the committed rows; "absent" while there is no row
  lock,     \* the call that has ended a row and not committed, or NoCall
  pc,       \* where each call is
  todo,     \* the rows the current UPDATE has still to visit
  before    \* history: the rows that were committed when a call began

request == <<driver, bus, before>>
vars    == <<driver, bus, active, lock, pc, todo, before>>

TypeOK ==
  /\ driver \in [Calls -> Drivers \cup {NoDriver}]
  /\ bus    \in [Calls -> Buses \cup {NoBus}]
  /\ active \in [Calls -> {"absent", "yes", "no"}]
  /\ lock   \in [Calls -> Calls \cup {NoCall}]
  /\ pc     \in [Calls -> {"idle", "driver", "bus", "insert", "done", "failed"}]
  /\ todo   \in [Calls -> SUBSET Calls]
  /\ before \in [Calls -> SUBSET Calls]

InFlight(c) == pc[c] \in {"driver", "bus", "insert"}

Init ==
  /\ driver = [c \in Calls |-> NoDriver]
  /\ bus    = [c \in Calls |-> NoBus]
  /\ active = [c \in Calls |-> "absent"]
  /\ lock   = [c \in Calls |-> NoCall]
  /\ pc     = [c \in Calls |-> "idle"]
  /\ todo   = [c \in Calls |-> {}]
  /\ before = [c \in Calls |-> {}]

-----------------------------------------------------------------------------
(* The rows an UPDATE that starts now will visit. *)
ActiveOfDriver(d) == {a \in Calls : active[a] = "yes" /\ driver[a] = d}
ActiveOfBus(b)    == {a \in Calls : active[a] = "yes" /\ bus[a] = b}

(* The transaction and its first UPDATE start. *)
Begin(c) ==
  /\ pc[c] = "idle"
  /\ \E d \in Drivers, b \in Buses :
       /\ <<d, b>> \in Bodies[c]
       /\ driver' = [driver EXCEPT ![c] = d]
       /\ bus'    = [bus EXCEPT ![c] = b]
       /\ todo'   = [todo EXCEPT ![c] = ActiveOfDriver(d)]
  /\ before' = [before EXCEPT ![c] = {a \in Calls : active[a] # "absent"}]
  /\ pc' = [pc EXCEPT ![c] = "driver"]
  /\ UNCHANGED <<active, lock>>

(* Mutant: a row that another call has locked is skipped. *)
EndRowSkipLocked(c) ==
  /\ pc[c] \in {"driver", "bus"}
  /\ \E a \in todo[c] :
       /\ lock' = [lock EXCEPT ![a] = IF @ = NoCall /\ active[a] = "yes" THEN c ELSE @]
       /\ todo' = [todo EXCEPT ![c] = @ \ {a}]
  /\ UNCHANGED <<request, active, pc>>

(* One row of either UPDATE. *)
EndRow(c) ==
  /\ pc[c] \in {"driver", "bus"}
  /\ \E a \in todo[c] :
       /\ lock[a] = NoCall
       /\ lock' = [lock EXCEPT ![a] = IF active[a] = "yes" THEN c ELSE NoCall]
       /\ todo' = [todo EXCEPT ![c] = @ \ {a}]
  /\ UNCHANGED <<request, active, pc>>

(* Mutant: the second UPDATE works on what the first has found. *)
EndBusOfDriver(c) ==
  /\ pc[c] = "driver"
  /\ todo[c] = {}
  /\ todo' = [todo EXCEPT ![c] =
                {a \in ActiveOfDriver(driver[c]) : lock[a] # c /\ bus[a] = bus[c]}]
  /\ pc' = [pc EXCEPT ![c] = "bus"]
  /\ UNCHANGED <<request, active, lock>>

(* The second UPDATE starts; its own transaction sees the rows that the    *)
(* first has ended as inactive.                                            *)
EndBus(c) ==
  /\ pc[c] = "driver"
  /\ todo[c] = {}
  /\ todo' = [todo EXCEPT ![c] = {a \in ActiveOfBus(bus[c]) : lock[a] # c}]
  /\ pc' = [pc EXCEPT ![c] = "bus"]
  /\ UNCHANGED <<request, active, lock>>

Insert(c) ==
  /\ pc[c] = "bus"
  /\ todo[c] = {}
  /\ pc' = [pc EXCEPT ![c] = "insert"]
  /\ UNCHANGED <<request, active, lock, todo>>

Unlocked(c) == [a \in Calls |-> IF lock[a] = c THEN NoCall ELSE lock[a]]

(* Mutant: the connection goes back to the pool inside its transaction. *)
RollbackKeepsLocks(c) ==
  /\ InFlight(c)
  /\ todo' = [todo EXCEPT ![c] = {}]
  /\ pc'   = [pc EXCEPT ![c] = "failed"]
  /\ UNCHANGED <<request, active, lock>>

(* Mutant: the rollback has been forgotten and the release commits. *)
RollbackCommits(c) ==
  /\ InFlight(c)
  /\ active' = [a \in Calls |-> IF lock[a] = c THEN "no" ELSE active[a]]
  /\ lock' = Unlocked(c)
  /\ todo' = [todo EXCEPT ![c] = {}]
  /\ pc'   = [pc EXCEPT ![c] = "failed"]
  /\ UNCHANGED request

(* An error of the database, a deadlock or a crash: the transaction is     *)
(* rolled back.                                                            *)
Rollback(c) ==
  /\ InFlight(c)
  /\ lock' = Unlocked(c)
  /\ todo' = [todo EXCEPT ![c] = {}]
  /\ pc'   = [pc EXCEPT ![c] = "failed"]
  /\ UNCHANGED <<request, active>>

Commit(c) ==
  /\ pc[c] = "insert"
  /\ active' = [a \in Calls |-> IF a = c THEN "yes"
                                ELSE IF lock[a] = c THEN "no" ELSE active[a]]
  /\ lock' = Unlocked(c)
  /\ pc'   = [pc EXCEPT ![c] = "done"]
  /\ UNCHANGED <<request, todo>>

Step(c) == EndRow(c) \/ EndBus(c) \/ Insert(c) \/ Commit(c)

Next == \E c \in Calls : Begin(c) \/ Step(c) \/ Rollback(c)

Spec == Init /\ [][Next]_vars

-----------------------------------------------------------------------------
(*                         what must not happen                            *)

SameRequest(a, c) == driver[a] = driver[c] \/ bus[a] = bus[c]

Rivals(a, b) == a # b /\ SameRequest(a, b)

(* Two active rows of one driver or of one bus come from two calls that    *)
(* overlapped: a call leaves no older assignment of its driver or of its   *)
(* bus active, whoever it had to wait for (the two UPDATEs, 301-325).      *)
OnlyOverlapsClash ==
  \A a, b \in Calls :
    active[a] = "yes" /\ active[b] = "yes" /\ Rivals(a, b) => a \notin before[b]

(* Why: the inductive invariant of the proofs.  A lock is held by a call   *)
(* in flight on an active row of its driver or its bus, and the UPDATEs    *)
(* leave behind them no unlocked row that was there when the call began.   *)
LocksAreOwned ==
  \A a, c \in Calls : lock[a] = c =>
    InFlight(c) /\ active[a] = "yes" /\ SameRequest(a, c)

TodoIsOwned ==
  \A a, c \in Calls : a \in todo[c] => SameRequest(a, c) /\ active[a] # "absent"

RowsAreCommitted == \A a \in Calls : active[a] # "absent" <=> pc[a] = "done"

HistoryIsCommitted == \A a, c \in Calls : a \in before[c] => active[a] # "absent"

DriverEnds ==
  \A a, c \in Calls :
    a \in before[c] /\ InFlight(c) /\ active[a] = "yes" /\ driver[a] = driver[c] =>
      lock[a] = c \/ (pc[c] = "driver" /\ a \in todo[c])

BusEnds ==
  \A a, c \in Calls :
    a \in before[c] /\ pc[c] \in {"bus", "insert"} /\ active[a] = "yes" /\ bus[a] = bus[c] =>
      lock[a] = c \/ (pc[c] = "bus" /\ a \in todo[c])

EndsWhatItMust ==
  /\ TypeOK
  /\ LocksAreOwned
  /\ TodoIsOwned
  /\ RowsAreCommitted
  /\ HistoryIsCommitted
  /\ DriverEnds
  /\ BusEnds
  /\ \A c \in Calls : pc[c] = "insert" => todo[c] = {}
  /\ OnlyOverlapsClash

(* An assignment ends only in the step in which another one of its driver  *)
(* or its bus begins: no error or crash between the statements leaves the  *)
(* driver or the bus without the one it had.                               *)
EndedByAnother ==
  [][\A a \in Calls : active[a] = "yes" /\ active'[a] = "no" =>
       \E c \in Calls : /\ active[c] = "absent" /\ active'[c] = "yes"
                        /\ Rivals(a, c)]_vars

(* What the comments at 301 and 314 and the listing's find() (116) take    *)
(* for granted: a driver has one current assignment, and so has a bus.     *)
OneCurrentAssignment ==
  \A a, b \in Calls : active[a] = "yes" /\ active[b] = "yes" => ~ Rivals(a, b)

(* Seen from outside a call is one step, although it is three statements   *)
(* that other calls interleave with.                                       *)
Phase(c) == IF InFlight(c) THEN "open" ELSE pc[c]

Claim(c) == IF pc[c] = "idle" THEN {} ELSE {<<"driver", driver[c]>>, <<"bus", bus[c]>>}

Abstract ==
  INSTANCE Succession WITH
    Resources <- ({"driver"} \X Drivers) \cup ({"bus"} \X Buses),
    phase     <- [c \in Calls |-> Phase(c)],
    claim     <- [c \in Calls |-> Claim(c)],
    known     <- before,
    current   <- {a \in Calls : active[a] = "yes"}

(* Assignments replace each other as Succession promises. *)
ReplacesAssignments == Abstract!Spec

-----------------------------------------------------------------------------
(*                               progress                                  *)

(* Whom c waits for: the calls that have locked what its UPDATE must visit. *)
Holders(c) == {lock[a] : a \in todo[c]} \ {NoCall, c}

Waiting(c) == pc[c] \in {"driver", "bus"} /\ todo[c] # {} /\ \A a \in todo[c] : lock[a] # NoCall

WaitTogether(cs) == \A c \in cs : Waiting(c) /\ Holders(c) \cap cs # {}

(* PostgreSQL's deadlock detector rolls one call of a circle back. *)
Circles ==
  {cs \in (SUBSET Calls) \ {{}} :
     WaitTogether(cs) /\ \A ds \in (SUBSET cs) \ {{}, cs} : ~ WaitTogether(ds)}

BreakDeadlock == \E cs \in Circles : \E c \in cs : Rollback(c)

(* The server runs every call it has begun and PostgreSQL hands a released *)
(* row to its waiters in turn; nobody has to call.                         *)
Fairness ==
  /\ \A c \in Calls : SF_vars(Step(c))
  /\ WF_vars(BreakDeadlock)

FairSpec == Spec /\ Fairness

(* Two calls that swap the buses of two drivers wait for each other; every *)
(* call ends all the same, and does not stay in its connection for ever.   *)
EveryCallEnds == \A c \in Calls : InFlight(c) ~> ~ InFlight(c)
=============================================================================
