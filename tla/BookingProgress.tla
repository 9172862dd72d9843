--------------------------- MODULE BookingProgress ---------------------------
(***************************************************************************)
(* Progress of the transactions of Booking under the fairness the platform *)
(* gives them:                                                             *)
(*   - the server runs every transaction it has begun, the gateway answers *)
(*     and PostgreSQL hands a released row to those that wait for it in    *)
(*     turn: strong fairness of the steps of every transaction (a row may  *)
(*     be taken and released any number of times before it is a waiter's   *)
(*     turn, so weak fairness would not do);                               *)
(*   - PostgreSQL's deadlock detector rolls one transaction of a circle    *)
(*     back: weak fairness of BreakDeadlock.                               *)
(* Nothing is assumed of the customers, of the clients that view trips or  *)
(* of the gateway's callbacks: they may never come.                        *)
(***************************************************************************)
EXTENDS Booking

Step(p) ==
  \/ p \in Requests  /\ RequestNext(p)
  \/ p \in Sweeps    /\ SweepNext(p)
  \/ p \in Callbacks /\ CallbackNext(p)

(* The transactions that hold the rows p's next statement is about.        *)
Holders(p) == {q \in Txns : WaitsFor(p, q)}

Blocked == {p \in Txns : Active(p) /\ ~ ENABLED Step(p)}

WaitTogether(ps) == \A p \in ps : Holders(p) \cap ps # {}

(* The detector rolls back a transaction that is itself on the circle, not *)
(* one that only waits for the circle: hence the least such sets.          *)
Circles ==
  {ps \in (SUBSET Blocked) \ {{}} :
     WaitTogether(ps) /\ \A qs \in (SUBSET ps) \ {{}, ps} : ~ WaitTogether(qs)}

BreakDeadlock == \E ps \in Circles : \E p \in ps : Abort(p)

Fairness ==
  /\ \A p \in Txns : SF_vars(Step(p))
  /\ WF_vars(BreakDeadlock)

FairSpec == Spec /\ Fairness

(* Every transaction that has begun ends, committed or rolled back: no     *)
(* interleaving leaves one waiting for ever for a row, and with it every   *)
(* later customer of the same seats.                                       *)
EveryTransactionEnds == \A p \in Txns : Active(p) ~> ~ Active(p)
=============================================================================
