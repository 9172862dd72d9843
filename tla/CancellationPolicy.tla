-------------------------- MODULE CancellationPolicy --------------------------
(***************************************************************************)
(* Cancellation policies.  createCancellationPolicy and                    *)
(* updateCancellationPolicy are the same transaction: every policy of the  *)
(* company is disabled, a new enabled one is inserted, then its tiers      *)
(* (rows of nobody else, so that they come with the insert).  The id of    *)
(* the edited policy is not used.  A customer's booking is made under an   *)
(* enabled policy of the trip's company, which createBooking reads before  *)
(* its own transaction, and so may be replaced before the booking commits. *)
(*                                                                         *)
(* READ COMMITTED, as in DriverAssignment; the UPDATE asks only for the    *)
(* company, so that it locks policies that are disabled already too.       *)
(***************************************************************************)
EXTENDS FiniteSets

CONSTANTS
  Companies,
  Calls,      \* calls of create and update; also the policy it inserts
  Customers,
  NoCall,     \* owner of a row that is not locked
  NoCompany,
  NoPolicy    \* no policy found

ASSUME NullsAreDistinct ==
  NoCall \notin Calls /\ NoPolicy \notin Calls /\ NoCompany \notin Companies

VARIABLES
  company,   \* companyId of a call, and of the policy it inserts
  enabled,   \* of the committed policies; "absent" while there is no row
  lock,      \* the call that has disabled a policy and not committed
  pc,
  todo,      \* the policies the UPDATE has still to visit
  before,    \* history: the policies that were committed when a call began
  taken,     \* the policy read for a customer's latest booking, and its company
  since      \* history: the policies that were committed since it was read

calls == <<company, before>>
takes == <<taken, since>>
vars  == <<calls, enabled, lock, pc, todo, takes>>

Policies == {a \in Calls : enabled[a] # "absent"}

PoliciesOf(m) == {a \in Policies : company[a] = m}

TypeOK ==
  /\ company \in [Calls -> Companies \cup {NoCompany}]
  /\ enabled \in [Calls -> {"absent", "yes", "no"}]
  /\ lock    \in [Calls -> Calls \cup {NoCall}]
  /\ pc      \in [Calls -> {"idle", "disabling", "inserted", "done", "failed"}]
  /\ todo    \in [Calls -> SUBSET Calls]
  /\ before  \in [Calls -> SUBSET Calls]
  /\ taken   \in [Customers -> [company : Companies \cup {NoCompany},
                                policy  : Calls \cup {NoPolicy}]]
  /\ since   \in [Customers -> SUBSET Calls]

InFlight(c) == pc[c] \in {"disabling", "inserted"}

Init ==
  /\ company = [c \in Calls |-> NoCompany]
  /\ enabled = [c \in Calls |-> "absent"]
  /\ lock    = [c \in Calls |-> NoCall]
  /\ pc      = [c \in Calls |-> "idle"]
  /\ todo    = [c \in Calls |-> {}]
  /\ before  = [c \in Calls |-> {}]
  /\ taken   = [k \in Customers |-> [company |-> NoCompany, policy |-> NoPolicy]]
  /\ since   = [k \in Customers |-> {}]

-----------------------------------------------------------------------------
(* Mutant: the UPDATE does not ask for the company. *)
BeginAnyCompany(c) ==
  /\ pc[c] = "idle"
  /\ \E m \in Companies : company' = [company EXCEPT ![c] = m]
  /\ todo'   = [todo EXCEPT ![c] = Policies]
  /\ before' = [before EXCEPT ![c] = Policies]
  /\ pc' = [pc EXCEPT ![c] = "disabling"]
  /\ UNCHANGED <<enabled, lock, takes>>

(* The transaction and its UPDATE start. *)
Begin(c) ==
  /\ pc[c] = "idle"
  /\ \E m \in Companies :
       /\ company' = [company EXCEPT ![c] = m]
       /\ todo'    = [todo EXCEPT ![c] = PoliciesOf(m)]
  /\ before' = [before EXCEPT ![c] = Policies]
  /\ pc' = [pc EXCEPT ![c] = "disabling"]
  /\ UNCHANGED <<enabled, lock, takes>>

(* Mutant: a policy that another call has locked is skipped. *)
DisableSkipLocked(c) ==
  /\ pc[c] = "disabling"
  /\ \E a \in todo[c] :
       /\ lock' = [lock EXCEPT ![a] = IF @ = NoCall THEN c ELSE @]
       /\ todo' = [todo EXCEPT ![c] = @ \ {a}]
  /\ UNCHANGED <<calls, enabled, pc, takes>>

(* One row of the UPDATE. *)
Disable(c) ==
  /\ pc[c] = "disabling"
  /\ \E a \in todo[c] :
       /\ lock[a] = NoCall
       /\ lock' = [lock EXCEPT ![a] = c]
       /\ todo' = [todo EXCEPT ![c] = @ \ {a}]
  /\ UNCHANGED <<calls, enabled, pc, takes>>

(* The policy and its tiers are saved. *)
Insert(c) ==
  /\ pc[c] = "disabling"
  /\ todo[c] = {}
  /\ pc' = [pc EXCEPT ![c] = "inserted"]
  /\ UNCHANGED <<calls, enabled, lock, todo, takes>>

Unlocked(c) == [a \in Calls |-> IF lock[a] = c THEN NoCall ELSE lock[a]]

(* Mutant: the UPDATE runs outside the transaction. *)
RollbackKeepsDisabled(c) ==
  /\ InFlight(c)
  /\ enabled' = [a \in Calls |-> IF lock[a] = c THEN "no" ELSE enabled[a]]
  /\ lock' = Unlocked(c)
  /\ todo' = [todo EXCEPT ![c] = {}]
  /\ pc'   = [pc EXCEPT ![c] = "failed"]
  /\ UNCHANGED <<calls, takes>>

(* An error of the database, a deadlock or a crash. *)
Rollback(c) ==
  /\ InFlight(c)
  /\ lock' = Unlocked(c)
  /\ todo' = [todo EXCEPT ![c] = {}]
  /\ pc'   = [pc EXCEPT ![c] = "failed"]
  /\ UNCHANGED <<calls, enabled, takes>>

Commit(c) ==
  /\ pc[c] = "inserted"
  /\ enabled' = [a \in Calls |-> IF a = c THEN "yes"
                                 ELSE IF lock[a] = c THEN "no" ELSE enabled[a]]
  /\ lock' = Unlocked(c)
  /\ pc'   = [pc EXCEPT ![c] = "done"]
  /\ since' = [k \in Customers |-> since[k] \cup {c}]
  /\ UNCHANGED <<calls, todo, taken>>

-----------------------------------------------------------------------------
EnabledOf(m) == {a \in PoliciesOf(m) : enabled[a] = "yes"}

(* createBooking reads an enabled policy of the trip's company, or none.   *)
(* The booking is made under it however late it commits.                   *)
Take(k) ==
  /\ \E m \in Companies :
       \/ \E a \in EnabledOf(m) :
            taken' = [taken EXCEPT ![k] = [company |-> m, policy |-> a]]
       \/ /\ EnabledOf(m) = {}
          /\ taken' = [taken EXCEPT ![k] = [company |-> m, policy |-> NoPolicy]]
  /\ since' = [since EXCEPT ![k] = {}]
  /\ UNCHANGED <<calls, enabled, lock, pc, todo>>

Next ==
  \/ \E c \in Calls : Begin(c) \/ Disable(c) \/ Insert(c) \/ Commit(c) \/ Rollback(c)
  \/ \E k \in Customers : Take(k)

Spec == Init /\ [][Next]_vars

-----------------------------------------------------------------------------
(* A company that has a policy has an enabled one, whatever calls overlap  *)
(* and fail: there is no moment between the UPDATE and the insert at which *)
(* a booking is made without a policy (createBooking, 282-289).            *)
NeverWithoutPolicy == \A m \in Companies : PoliciesOf(m) # {} => EnabledOf(m) # {}

(* A booking is made under an enabled policy of its company: if the policy *)
(* is not enabled any more, a call that committed since it was read has    *)
(* put another one of the company in its place; and a company under whose  *)
(* trip a booking has none has got all of its policies since.              *)
BookingPolicy ==
  \A k \in Customers : taken[k].company # NoCompany =>
    IF taken[k].policy = NoPolicy
      THEN PoliciesOf(taken[k].company) \subseteq since[k]
      ELSE /\ company[taken[k].policy] = taken[k].company
           /\ \/ enabled[taken[k].policy] = "yes"
              \/ \E c \in since[k] :
                   /\ company[c] = taken[k].company
                   /\ enabled[c] # "absent"
                   /\ taken[k].policy \in before[c]

-----------------------------------------------------------------------------
(* Seen from outside a call replaces the company's policy in one step.     *)
Phase(c) == IF InFlight(c) THEN "open" ELSE pc[c]

Claim(c) == IF pc[c] = "idle" THEN {} ELSE {company[c]}

Abstract ==
  INSTANCE Succession WITH
    Resources <- Companies,
    phase     <- [c \in Calls |-> Phase(c)],
    claim     <- [c \in Calls |-> Claim(c)],
    known     <- before,
    current   <- {a \in Calls : enabled[a] = "yes"}

(* Policies replace each other as Succession promises: a new policy ends   *)
(* all those that were enabled when its call began, and no other company's. *)
ReplacesPolicies == Abstract!Spec

(* The inductive invariant of the proofs. *)
LocksAreOwned ==
  \A a, c \in Calls : lock[a] = c =>
    InFlight(c) /\ enabled[a] # "absent" /\ company[a] = company[c] /\ a \in before[c]

TodoIsOwned ==
  \A a, c \in Calls : a \in todo[c] =>
    enabled[a] # "absent" /\ company[a] = company[c] /\ a \in before[c]

RowsAreCommitted == \A a \in Calls : enabled[a] # "absent" <=> pc[a] = "done"

HistoryIsCommitted == \A a, c \in Calls : a \in before[c] => enabled[a] # "absent"

OldOnesEnd ==
  \A a, c \in Calls :
    a \in before[c] /\ InFlight(c) /\ company[a] = company[c] =>
      lock[a] = c \/ (pc[c] = "disabling" /\ a \in todo[c])

CompaniesAreKnown == \A c \in Calls : pc[c] # "idle" => company[c] \in Companies

PoliciesSucceed ==
  /\ TypeOK
  /\ LocksAreOwned
  /\ TodoIsOwned
  /\ RowsAreCommitted
  /\ HistoryIsCommitted
  /\ OldOnesEnd
  /\ CompaniesAreKnown
  /\ \A c \in Calls : pc[c] = "inserted" => todo[c] = {}
  /\ NeverWithoutPolicy
=============================================================================
