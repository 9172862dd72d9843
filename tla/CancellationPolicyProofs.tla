----------------------- MODULE CancellationPolicyProofs -----------------------
(***************************************************************************)
(* For any number of companies, calls and customers: a company that has a  *)
(* policy always has one in force, and policies succeed each other as      *)
(* Succession promises.                                                    *)
(***************************************************************************)
EXTENDS CancellationPolicy, TLAPS

LEMMA InitPolicies == Init => PoliciesSucceed
<1>. SUFFICES ASSUME Init PROVE PoliciesSucceed
  OBVIOUS
<1>1. TypeOK
  BY DEF Init, TypeOK
<1>2. LocksAreOwned /\ TodoIsOwned /\ RowsAreCommitted /\ HistoryIsCommitted /\ OldOnesEnd
  BY NullsAreDistinct
  DEF Init, LocksAreOwned, TodoIsOwned, RowsAreCommitted, HistoryIsCommitted, OldOnesEnd, InFlight
<1>3. CompaniesAreKnown /\ NeverWithoutPolicy
  BY DEF Init, CompaniesAreKnown, NeverWithoutPolicy, Policies, PoliciesOf
<1>4. \A c \in Calls : pc[c] = "inserted" => todo[c] = {}
  BY DEF Init
<1>. QED
  BY <1>1, <1>2, <1>3, <1>4 DEF PoliciesSucceed

(* A step that changes no committed policy leaves no company without one. *)
LEMMA SamePolicies ==
  ASSUME NeverWithoutPolicy, UNCHANGED enabled,
         \A a \in Calls : enabled[a] # "absent" => company'[a] = company[a]
  PROVE  NeverWithoutPolicy'
  BY DEF NeverWithoutPolicy, PoliciesOf, Policies, EnabledOf

LEMMA BeginPolicies ==
  ASSUME PoliciesSucceed, NEW c \in Calls, Begin(c)
  PROVE  PoliciesSucceed'
<1>. USE DEF PoliciesSucceed
<1>1. PICK m \in Companies :
        /\ company' = [company EXCEPT ![c] = m]
        /\ todo'    = [todo EXCEPT ![c] = PoliciesOf(m)]
  BY DEF Begin
<1>2. /\ pc[c] = "idle" /\ pc' = [pc EXCEPT ![c] = "disabling"]
      /\ before' = [before EXCEPT ![c] = Policies]
      /\ UNCHANGED <<enabled, lock, taken, since>>
  BY DEF Begin, takes
<1>3. enabled[c] = "absent"
  BY <1>2 DEF RowsAreCommitted
<1>4. TypeOK'
  BY <1>1, <1>2 DEF TypeOK, PoliciesOf, Policies
<1>5. \A a \in Calls : a # c => /\ company'[a] = company[a] /\ todo'[a] = todo[a]
                                /\ before'[a] = before[a] /\ pc'[a] = pc[a]
  BY <1>1, <1>2 DEF TypeOK
<1>6. /\ company'[c] = m /\ pc'[c] = "disabling"
      /\ todo'[c] = {a \in Calls : enabled[a] # "absent" /\ company[a] = m}
      /\ before'[c] = {a \in Calls : enabled[a] # "absent"}
  BY <1>1, <1>2 DEF TypeOK, PoliciesOf, Policies
<1>7. LocksAreOwned'
  BY <1>2, <1>3, <1>5 DEF LocksAreOwned, InFlight
<1>8. TodoIsOwned'
  BY <1>2, <1>3, <1>5, <1>6 DEF TodoIsOwned
<1>9. RowsAreCommitted' /\ HistoryIsCommitted' /\ CompaniesAreKnown'
  BY <1>2, <1>5, <1>6 DEF RowsAreCommitted, HistoryIsCommitted, CompaniesAreKnown
<1>10. OldOnesEnd'
  <2>. SUFFICES ASSUME NEW a \in Calls, NEW d \in Calls,
                       a \in before'[d], InFlight(d)', company'[a] = company'[d]
                PROVE  lock'[a] = d \/ (pc'[d] = "disabling" /\ a \in todo'[d])
    BY DEF OldOnesEnd
  <2>1. CASE d = c
    BY <1>3, <1>5, <1>6, <2>1
  <2>2. CASE d # c /\ a # c
    BY <1>2, <1>5, <2>2 DEF OldOnesEnd, InFlight
  <2>3. CASE d # c /\ a = c
    <3>1. c \in before[d] /\ pc'[d] = pc[d]
      BY <1>5, <2>3
    <3>. QED
      BY <1>3, <3>1 DEF HistoryIsCommitted
  <2>. QED
    BY <2>1, <2>2, <2>3
<1>11. NeverWithoutPolicy'
  BY <1>2, <1>3, <1>5, SamePolicies
<1>. QED
  BY <1>4, <1>5, <1>6, <1>7, <1>8, <1>9, <1>10, <1>11

LEMMA DisablePolicies ==
  ASSUME PoliciesSucceed, NEW c \in Calls, Disable(c)
  PROVE  PoliciesSucceed'
<1>. USE DEF PoliciesSucceed
<1>1. PICK a \in todo[c] :
        /\ lock[a] = NoCall
        /\ lock' = [lock EXCEPT ![a] = c]
        /\ todo' = [todo EXCEPT ![c] = @ \ {a}]
  BY DEF Disable
<1>2. /\ pc[c] = "disabling" /\ a \in Calls
      /\ UNCHANGED <<company, before, enabled, pc, taken, since>>
  BY <1>1 DEF Disable, calls, takes, TypeOK
<1>3. TypeOK'
  BY <1>1, <1>2 DEF TypeOK
<1>4. /\ \A x \in Calls : x # a => lock'[x] = lock[x]
      /\ lock'[a] = c
      /\ \A x \in Calls : x # c => todo'[x] = todo[x]
      /\ todo'[c] = todo[c] \ {a}
  BY <1>1, <1>2 DEF TypeOK
<1>5. LocksAreOwned' /\ TodoIsOwned' /\ RowsAreCommitted' /\ CompaniesAreKnown'
  BY <1>1, <1>2, <1>4 DEF LocksAreOwned, TodoIsOwned, RowsAreCommitted, CompaniesAreKnown, InFlight
<1>6. OldOnesEnd'
  BY <1>1, <1>2, <1>4, NullsAreDistinct DEF OldOnesEnd, InFlight
<1>7. NeverWithoutPolicy'
  BY <1>2, SamePolicies
<1>. QED
  BY <1>2, <1>3, <1>4, <1>5, <1>6, <1>7 DEF HistoryIsCommitted

LEMMA InsertPolicies ==
  ASSUME PoliciesSucceed, NEW c \in Calls, Insert(c)
  PROVE  PoliciesSucceed'
<1>. USE DEF PoliciesSucceed
<1>1. /\ pc[c] = "disabling" /\ todo[c] = {} /\ pc' = [pc EXCEPT ![c] = "inserted"]
      /\ UNCHANGED <<company, before, enabled, lock, todo, taken, since>>
  BY DEF Insert, calls, takes
<1>2. TypeOK' /\ pc'[c] = "inserted" /\ \A x \in Calls : x # c => pc'[x] = pc[x]
  BY <1>1 DEF TypeOK
<1>3. LocksAreOwned' /\ TodoIsOwned' /\ RowsAreCommitted' /\ CompaniesAreKnown' /\ OldOnesEnd'
  BY <1>1, <1>2 DEF LocksAreOwned, TodoIsOwned, RowsAreCommitted, CompaniesAreKnown, OldOnesEnd,
                    InFlight
<1>4. NeverWithoutPolicy'
  BY <1>1, SamePolicies
<1>. QED
  BY <1>1, <1>2, <1>3, <1>4 DEF HistoryIsCommitted

(* What the end of a transaction does to the locks. *)
LEMMA UnlockedEffect ==
  ASSUME TypeOK, NEW c \in Calls, lock' = Unlocked(c)
  PROVE  /\ lock' \in [Calls -> Calls \cup {NoCall}]
         /\ \A a \in Calls : lock'[a] # c
         /\ \A a, q \in Calls : q # c => (lock'[a] = q <=> lock[a] = q)
  BY NullsAreDistinct DEF Unlocked, TypeOK

LEMMA RollbackPolicies ==
  ASSUME PoliciesSucceed, NEW c \in Calls, Rollback(c)
  PROVE  PoliciesSucceed'
<1>. USE DEF PoliciesSucceed
<1>1. /\ InFlight(c) /\ lock' = Unlocked(c)
      /\ todo' = [todo EXCEPT ![c] = {}] /\ pc' = [pc EXCEPT ![c] = "failed"]
      /\ UNCHANGED <<company, before, enabled, taken, since>>
  BY DEF Rollback, calls, takes
<1>2. /\ lock' \in [Calls -> Calls \cup {NoCall}]
      /\ \A a \in Calls : lock'[a] # c
      /\ \A a, q \in Calls : q # c => (lock'[a] = q <=> lock[a] = q)
  BY <1>1, UnlockedEffect
<1>3. TypeOK' /\ pc'[c] = "failed" /\ todo'[c] = {}
      /\ \A x \in Calls : x # c => pc'[x] = pc[x] /\ todo'[x] = todo[x]
  BY <1>1, <1>2 DEF TypeOK
<1>4. LocksAreOwned' /\ TodoIsOwned' /\ RowsAreCommitted' /\ CompaniesAreKnown'
  BY <1>1, <1>2, <1>3 DEF LocksAreOwned, TodoIsOwned, RowsAreCommitted, CompaniesAreKnown, InFlight
<1>5. OldOnesEnd'
  BY <1>1, <1>2, <1>3 DEF OldOnesEnd, InFlight
<1>6. NeverWithoutPolicy'
  BY <1>1, SamePolicies
<1>. QED
  BY <1>1, <1>3, <1>4, <1>5, <1>6 DEF HistoryIsCommitted

(* NeverWithoutPolicy, by the policies that are there.                     *)
LEMMA InForce ==
  ASSUME UNCHANGED company,
         \A a \in Calls : enabled'[a] # "absent" =>
           \E b \in Calls : enabled'[b] = "yes" /\ company[b] = company[a]
  PROVE  NeverWithoutPolicy'
<1>. SUFFICES ASSUME NEW m \in Companies, NEW a \in PoliciesOf(m)' PROVE EnabledOf(m)' # {}
  BY DEF NeverWithoutPolicy
<1>1. a \in Calls /\ enabled'[a] # "absent" /\ company[a] = m
  BY DEF PoliciesOf, Policies
<1>2. PICK b \in Calls : enabled'[b] = "yes" /\ company[b] = m
  BY <1>1
<1>. QED
  BY <1>2 DEF PoliciesOf, Policies, EnabledOf

LEMMA CommitPolicies ==
  ASSUME PoliciesSucceed, NEW c \in Calls, Commit(c)
  PROVE  PoliciesSucceed'
<1>. USE DEF PoliciesSucceed
<1>1. /\ pc[c] = "inserted" /\ lock' = Unlocked(c)
      /\ enabled' = [a \in Calls |-> IF a = c THEN "yes"
                                     ELSE IF lock[a] = c THEN "no" ELSE enabled[a]]
      /\ pc' = [pc EXCEPT ![c] = "done"]
      /\ since' = [k \in Customers |-> since[k] \cup {c}]
      /\ UNCHANGED <<company, before, todo, taken>>
  BY DEF Commit, calls
<1>2. /\ lock' \in [Calls -> Calls \cup {NoCall}]
      /\ \A a \in Calls : lock'[a] # c
      /\ \A a, q \in Calls : q # c => (lock'[a] = q <=> lock[a] = q)
  BY <1>1, UnlockedEffect
<1>3. TypeOK' /\ pc'[c] = "done" /\ \A x \in Calls : x # c => pc'[x] = pc[x]
  BY <1>1, <1>2 DEF TypeOK
<1>4. /\ enabled[c] = "absent" /\ todo[c] = {} /\ InFlight(c)
      /\ \A a \in Calls : lock[a] = c => enabled[a] # "absent" /\ company[a] = company[c]
  BY <1>1 DEF RowsAreCommitted, LocksAreOwned, InFlight
<1>5. \A a \in Calls : a # c => (enabled'[a] # "absent" <=> enabled[a] # "absent")
  BY <1>1, <1>4
<1>6. LocksAreOwned'
  BY <1>1, <1>2, <1>3, <1>4, <1>5, NullsAreDistinct DEF LocksAreOwned, InFlight, TypeOK
<1>7. TodoIsOwned' /\ RowsAreCommitted' /\ CompaniesAreKnown'
  BY <1>1, <1>3, <1>4, <1>5 DEF TodoIsOwned, RowsAreCommitted, CompaniesAreKnown
<1>8. OldOnesEnd'
  BY <1>1, <1>2, <1>3, <1>4 DEF OldOnesEnd, InFlight
<1>9. NeverWithoutPolicy'
  <2>. SUFFICES ASSUME NEW a \in Calls, enabled'[a] # "absent"
                PROVE  \E b \in Calls : enabled'[b] = "yes" /\ company[b] = company[a]
    BY <1>1, InForce
  <2>1. CASE company[c] = company[a]
    BY <1>1, <2>1
  <2>2. CASE company[c] # company[a]
    <3>1. enabled[a] # "absent"
      BY <1>5, <2>2
    <3>2. PICK b \in Calls : enabled[b] = "yes" /\ company[b] = company[a]
      <4>1. NeverWithoutPolicy /\ company[a] \in Companies
        BY <3>1 DEF RowsAreCommitted, CompaniesAreKnown
      <4>. QED
        BY <3>1, <4>1 DEF NeverWithoutPolicy, PoliciesOf, Policies, EnabledOf
    <3>3. enabled'[b] = "yes"
      BY <1>1, <1>4, <2>2, <3>2
    <3>. QED
      BY <3>2, <3>3
  <2>. QED
    BY <2>1, <2>2
<1>. QED
  BY <1>1, <1>3, <1>4, <1>5, <1>6, <1>7, <1>8, <1>9 DEF HistoryIsCommitted

(* A read changes nothing but what the customer has read. *)
LEMMA ReadPolicies ==
  ASSUME PoliciesSucceed, NEW k \in Customers, Take(k)
  PROVE  PoliciesSucceed'
<1>1. UNCHANGED <<company, before, enabled, lock, pc, todo>>
  BY DEF Take, calls
<1>2. /\ taken' \in [Customers -> [company : Companies \cup {NoCompany},
                                   policy  : Calls \cup {NoPolicy}]]
      /\ since' \in [Customers -> SUBSET Calls]
  BY DEF PoliciesSucceed, TypeOK, Take, EnabledOf, PoliciesOf, Policies
<1>. QED
  BY <1>1, <1>2
  DEF PoliciesSucceed, TypeOK, LocksAreOwned, TodoIsOwned, RowsAreCommitted, HistoryIsCommitted,
      OldOnesEnd, CompaniesAreKnown, NeverWithoutPolicy, Policies, PoliciesOf, EnabledOf, InFlight

(* PoliciesSucceed is inductive: one case per disjunct of Next. *)
LEMMA NextPolicies ==
  ASSUME PoliciesSucceed, [Next]_vars
  PROVE  PoliciesSucceed'
<1>1. CASE UNCHANGED vars
  BY <1>1 DEF vars, calls, takes, PoliciesSucceed, TypeOK, LocksAreOwned, TodoIsOwned, RowsAreCommitted,
              HistoryIsCommitted, OldOnesEnd, CompaniesAreKnown, NeverWithoutPolicy,
              Policies, PoliciesOf, EnabledOf, InFlight
<1>2. ASSUME NEW c \in Calls, Begin(c) \/ Disable(c) \/ Insert(c) \/ Commit(c) \/ Rollback(c)
      PROVE  PoliciesSucceed'
  BY <1>2, BeginPolicies, DisablePolicies, InsertPolicies, CommitPolicies, RollbackPolicies
<1>3. ASSUME NEW k \in Customers, Take(k) PROVE PoliciesSucceed'
  BY <1>3, ReadPolicies
<1>. QED
  BY <1>1, <1>2, <1>3 DEF Next

(* The whole invariant, for every instance. *)
THEOREM PoliciesAlwaysSucceed == Spec => []PoliciesSucceed
  BY InitPolicies, NextPolicies, PTL DEF Spec

(* A company that has a policy has one in force in every committed state,  *)
(* whatever calls overlap and fail.                                        *)
THEOREM CompaniesKeepAPolicy == Spec => []NeverWithoutPolicy
<1>1. PoliciesSucceed => NeverWithoutPolicy
  BY DEF PoliciesSucceed
<1>. QED
  BY <1>1, PoliciesAlwaysSucceed, PTL

-----------------------------------------------------------------------------
(*                     the refinement of Succession                        *)

LEMMA InitSucceeds == Init => Abstract!Init
  BY DEF Init, Abstract!Init, Phase, Claim, InFlight

LEMMA BeginSucceeds ==
  ASSUME PoliciesSucceed, NEW c \in Calls, Begin(c)
  PROVE  Abstract!Begin(c)
<1>1. PICK m \in Companies : company' = [company EXCEPT ![c] = m]
  BY DEF Begin
<1>2. /\ pc[c] = "idle" /\ pc' = [pc EXCEPT ![c] = "disabling"]
      /\ before' = [before EXCEPT ![c] = Policies]
      /\ UNCHANGED enabled
  BY DEF Begin
<1>3. TypeOK /\ RowsAreCommitted
  BY DEF PoliciesSucceed
<1>4. [q \in Calls |-> Phase(q)]' = [[q \in Calls |-> Phase(q)] EXCEPT ![c] = "open"]
  BY <1>2, <1>3 DEF Phase, InFlight, TypeOK
<1>5. [q \in Calls |-> Claim(q)]' = [[q \in Calls |-> Claim(q)] EXCEPT ![c] = {m}]
  BY <1>1, <1>2, <1>3 DEF Claim, TypeOK
<1>6. {m} \in SUBSET Companies
  OBVIOUS
<1>7. Policies = {a \in Calls : Phase(a) = "done"}
  BY <1>3 DEF RowsAreCommitted, Phase, InFlight, Policies
<1>8. Phase(c) = "idle"
  BY <1>2 DEF Phase, InFlight
<1>. QED
  BY <1>2, <1>4, <1>5, <1>6, <1>7, <1>8 DEF Abstract!Begin, Abstract!Added

(* The commit is the step in which a policy replaces its company's.        *)
LEMMA CommitSucceeds ==
  ASSUME PoliciesSucceed, NEW c \in Calls, Commit(c)
  PROVE  Abstract!Replace(c)
<1>1. /\ pc[c] = "inserted" /\ pc' = [pc EXCEPT ![c] = "done"]
      /\ enabled' = [a \in Calls |-> IF a = c THEN "yes"
                                     ELSE IF lock[a] = c THEN "no" ELSE enabled[a]]
      /\ UNCHANGED <<company, before>>
  BY DEF Commit, calls
<1>2. TypeOK
  BY DEF PoliciesSucceed
<1>3. [q \in Calls |-> Phase(q)]' = [[q \in Calls |-> Phase(q)] EXCEPT ![c] = "done"]
  BY <1>1, <1>2 DEF Phase, InFlight, TypeOK
<1>4. [q \in Calls |-> Claim(q)]' = [q \in Calls |-> Claim(q)]
  BY <1>1, <1>2 DEF Claim, TypeOK
<1>. DEFINE now   == {a \in Calls : enabled[a] = "yes"}
            ended == {a \in now : lock[a] = c}
<1>5. \A a \in Calls : enabled[a] # "absent" => a # c /\ pc[a] # "idle"
  BY <1>1 DEF PoliciesSucceed, RowsAreCommitted
<1>6. \A a \in now : Abstract!Rivals(a, c) <=> company[a] = company[c]
  <2>1. \A a \in now : a # c /\ Claim(a) = {company[a]} /\ Claim(c) = {company[c]}
    BY <1>1, <1>5 DEF Claim
  <2>. QED
    BY <2>1 DEF Abstract!Rivals
<1>7. ended \in SUBSET {a \in now : Abstract!Rivals(a, c)}
  BY <1>6 DEF PoliciesSucceed, LocksAreOwned
<1>8. {a \in now \cap before[c] : Abstract!Rivals(a, c)} \subseteq ended
  BY <1>1, <1>6 DEF PoliciesSucceed, OldOnesEnd, InFlight
<1>9. now' = (now \ ended) \cup {c}
  BY <1>1
<1>10. Phase(c) = "open"
  BY <1>1 DEF Phase, InFlight
<1>. QED
  BY <1>1, <1>3, <1>4, <1>7, <1>8, <1>9, <1>10 DEF Abstract!Replace

LEMMA RollbackSucceeds ==
  ASSUME PoliciesSucceed, NEW c \in Calls, Rollback(c)
  PROVE  Abstract!GiveUp(c)
<1>1. /\ InFlight(c) /\ pc' = [pc EXCEPT ![c] = "failed"]
      /\ UNCHANGED <<company, before, enabled>>
  BY DEF Rollback, calls
<1>2. TypeOK
  BY DEF PoliciesSucceed
<1>3. [q \in Calls |-> Phase(q)]' = [[q \in Calls |-> Phase(q)] EXCEPT ![c] = "failed"]
  BY <1>1, <1>2 DEF Phase, InFlight, TypeOK
<1>4. [q \in Calls |-> Claim(q)]' = [q \in Calls |-> Claim(q)]
  BY <1>1, <1>2 DEF Claim, InFlight, TypeOK
<1>5. Phase(c) = "open"
  BY <1>1 DEF Phase
<1>. QED
  BY <1>1, <1>3, <1>4, <1>5 DEF Abstract!GiveUp

(* The statements before the commit are not seen.                          *)
LEMMA StatementStutters ==
  ASSUME PoliciesSucceed, NEW c \in Calls, Disable(c) \/ Insert(c)
  PROVE  UNCHANGED Abstract!vars
<1>1. /\ UNCHANGED <<company, before, enabled>>
      /\ InFlight(c)
      /\ pc' = pc \/ pc' = [pc EXCEPT ![c] = "inserted"]
  BY DEF Disable, Insert, calls, InFlight
<1>2. TypeOK
  BY DEF PoliciesSucceed
<1>3. [q \in Calls |-> Phase(q)]' = [q \in Calls |-> Phase(q)]
  BY <1>1, <1>2 DEF Phase, InFlight, TypeOK
<1>4. [q \in Calls |-> Claim(q)]' = [q \in Calls |-> Claim(q)]
  BY <1>1, <1>2 DEF Claim, InFlight, TypeOK
<1>. QED
  BY <1>1, <1>3, <1>4 DEF Abstract!vars

(* The statements of a call, interleaved with those of other calls and     *)
(* with the reads of customers, implement one step of Succession.          *)
THEOREM PoliciesReplaceEachOther == Spec => ReplacesPolicies
<1>1. ASSUME PoliciesSucceed, [Next]_vars PROVE [Abstract!Next]_(Abstract!vars)
  <2>1. ASSUME UNCHANGED <<company, enabled, pc, before>> PROVE UNCHANGED Abstract!vars
    BY <2>1 DEF Abstract!vars, Phase, Claim, InFlight
  <2>2. CASE UNCHANGED vars
    BY <2>1, <2>2 DEF vars, calls
  <2>3. ASSUME NEW k \in Customers, Take(k) PROVE UNCHANGED Abstract!vars
    BY <2>1, <2>3 DEF Take, calls
  <2>4. ASSUME NEW c \in Calls, Begin(c) PROVE Abstract!Next
    BY <1>1, <2>4, BeginSucceeds DEF Abstract!Next
  <2>5. ASSUME NEW c \in Calls, Commit(c) PROVE Abstract!Next
    BY <1>1, <2>5, CommitSucceeds DEF Abstract!Next
  <2>6. ASSUME NEW c \in Calls, Rollback(c) PROVE Abstract!Next
    BY <1>1, <2>6, RollbackSucceeds DEF Abstract!Next
  <2>7. ASSUME NEW c \in Calls, Disable(c) \/ Insert(c) PROVE UNCHANGED Abstract!vars
    BY <1>1, <2>7, StatementStutters
  <2>. QED
    BY <1>1, <2>2, <2>3, <2>4, <2>5, <2>6, <2>7 DEF Next
<1>. QED
  BY <1>1, InitSucceeds, PoliciesAlwaysSucceed, PTL
  DEF Spec, ReplacesPolicies, Abstract!Spec

-----------------------------------------------------------------------------
(* A booking is made under a policy of its company which stays enabled     *)
(* until another call puts one in its place, and under none only if the    *)
(* company had none: however late it commits, and whatever calls overlap.  *)
THEOREM BookingsHaveAPolicy == Spec => []BookingPolicy
<1>1. Init => BookingPolicy
  BY DEF Init, BookingPolicy
<1>2. ASSUME PoliciesSucceed, BookingPolicy, [Next]_vars PROVE BookingPolicy'
  <2>. USE DEF PoliciesOf, Policies
  <2>1. ASSUME NEW c \in Calls, Begin(c) PROVE BookingPolicy'
    <3>1. enabled[c] = "absent" /\ UNCHANGED <<enabled, taken, since>>
      BY <1>2, <2>1 DEF Begin, takes, PoliciesSucceed, RowsAreCommitted
    <3>2. \A a \in Calls : a # c => company'[a] = company[a] /\ before'[a] = before[a]
      BY <1>2, <2>1 DEF Begin, PoliciesSucceed, TypeOK
    <3>3. \A k \in Customers : taken[k].policy \in Calls \cup {NoPolicy} /\ since[k] \subseteq Calls
      BY <1>2 DEF PoliciesSucceed, TypeOK
    <3>4. \A k \in Customers : taken[k].company # NoCompany /\ taken[k].policy # NoPolicy =>
            taken[k].policy # c
      <4>. SUFFICES ASSUME NEW k \in Customers, taken[k].company # NoCompany,
                           taken[k].policy # NoPolicy, enabled[taken[k].policy] # "yes"
                    PROVE  taken[k].policy # c
        BY <3>1
      <4>1. PICK q \in since[k] : taken[k].policy \in before[q]
        BY <1>2 DEF BookingPolicy
      <4>2. q \in Calls /\ taken[k].policy \in Calls
        BY <3>3
      <4>3. enabled[taken[k].policy] # "absent"
        BY <1>2, <4>1, <4>2 DEF PoliciesSucceed, HistoryIsCommitted
      <4>. QED
        BY <3>1, <4>3
    <3>5. \A a \in Calls : enabled[a] # "absent" => company'[a] = company[a] /\ before'[a] = before[a]
      BY <3>1, <3>2
    <3>. SUFFICES ASSUME NEW k \in Customers, taken[k].company # NoCompany
                  PROVE  IF taken[k].policy = NoPolicy
                           THEN \A a \in Calls :
                                  enabled[a] # "absent" /\ company'[a] = taken[k].company
                                    => a \in since[k]
                           ELSE /\ company'[taken[k].policy] = taken[k].company
                                /\ \/ enabled[taken[k].policy] = "yes"
                                   \/ \E q \in since[k] :
                                        /\ company'[q] = taken[k].company
                                        /\ enabled[q] # "absent"
                                        /\ taken[k].policy \in before'[q]
      BY <3>1 DEF BookingPolicy
    <3>6. CASE taken[k].policy = NoPolicy
      BY <1>2, <3>5, <3>6 DEF BookingPolicy
    <3>7. CASE taken[k].policy # NoPolicy
      <4>1. /\ company[taken[k].policy] = taken[k].company /\ taken[k].policy \in Calls
            /\ company'[taken[k].policy] = company[taken[k].policy]
        BY <1>2, <3>2, <3>3, <3>4, <3>7 DEF BookingPolicy
      <4>2. CASE enabled[taken[k].policy] = "yes"
        BY <3>7, <4>1, <4>2
      <4>3. CASE enabled[taken[k].policy] # "yes"
        <5>1. PICK q \in since[k] : /\ company[q] = taken[k].company
                                    /\ enabled[q] # "absent"
                                    /\ taken[k].policy \in before[q]
          BY <1>2, <3>7, <4>3 DEF BookingPolicy
        <5>. QED
          BY <3>3, <3>5, <3>7, <4>1, <5>1
      <4>. QED
        BY <4>2, <4>3
    <3>. QED
      BY <3>6, <3>7
  <2>2. ASSUME NEW c \in Calls, Commit(c) PROVE BookingPolicy'
    <3>1. /\ UNCHANGED <<company, before, taken>>
          /\ \A k \in Customers : since'[k] = since[k] \cup {c}
          /\ enabled'[c] = "yes"
          /\ \A a \in Calls : a # c =>
               enabled'[a] = IF lock[a] = c THEN "no" ELSE enabled[a]
      BY <2>2 DEF Commit, calls
    <3>2. \A a \in Calls : lock[a] = c =>
            enabled[a] # "absent" /\ company[a] = company[c] /\ a \in before[c]
      BY <1>2 DEF PoliciesSucceed, LocksAreOwned
    <3>3. \A k \in Customers : taken[k].policy \in Calls \cup {NoPolicy} /\ since[k] \subseteq Calls
      BY <1>2 DEF PoliciesSucceed, TypeOK
    <3>4. \A a \in Calls : enabled[a] # "absent" => enabled'[a] # "absent"
      BY <3>1, <3>2
    <3>5. \A a \in Calls : enabled'[a] # "absent" => a = c \/ enabled[a] # "absent"
      BY <3>1, <3>2
    <3>. SUFFICES ASSUME NEW k \in Customers, taken[k].company # NoCompany
                  PROVE  IF taken[k].policy = NoPolicy
                           THEN \A a \in Calls : enabled'[a] # "absent" /\ company[a] = taken[k].company
                                                   => a \in since'[k]
                           ELSE /\ company[taken[k].policy] = taken[k].company
                                /\ \/ enabled'[taken[k].policy] = "yes"
                                   \/ \E q \in since'[k] :
                                        /\ company[q] = taken[k].company
                                        /\ enabled'[q] # "absent"
                                        /\ taken[k].policy \in before[q]
      BY <3>1 DEF BookingPolicy
    <3>6. CASE taken[k].policy = NoPolicy
      BY <1>2, <3>1, <3>5, <3>6 DEF BookingPolicy
    <3>7. CASE taken[k].policy # NoPolicy
      <4>1. company[taken[k].policy] = taken[k].company /\ taken[k].policy \in Calls
        BY <1>2, <3>3, <3>7 DEF BookingPolicy
      <4>2. CASE enabled[taken[k].policy] = "yes"
        BY <3>1, <3>2, <3>7, <4>1, <4>2
      <4>3. CASE enabled[taken[k].policy] # "yes"
        <5>1. PICK q \in since[k] : /\ company[q] = taken[k].company
                                    /\ enabled[q] # "absent"
                                    /\ taken[k].policy \in before[q]
          BY <1>2, <3>7, <4>3 DEF BookingPolicy
        <5>2. q \in since'[k] /\ enabled'[q] # "absent"
          BY <3>1, <3>3, <3>4, <5>1
        <5>. QED
          BY <3>7, <4>1, <5>1, <5>2
      <4>. QED
        BY <4>2, <4>3
    <3>. QED
      BY <3>6, <3>7
  <2>3. ASSUME NEW k \in Customers, Take(k) PROVE BookingPolicy'
    <3>1. PICK m \in Companies :
            \/ \E a \in EnabledOf(m) :
                 taken' = [taken EXCEPT ![k] = [company |-> m, policy |-> a]]
            \/ /\ EnabledOf(m) = {}
               /\ taken' = [taken EXCEPT ![k] = [company |-> m, policy |-> NoPolicy]]
      BY <2>3 DEF Take
    <3>2. UNCHANGED <<company, before, enabled>> /\ since' = [since EXCEPT ![k] = {}]
      BY <2>3 DEF Take, calls
    <3>3. \A q \in Customers : q # k => taken'[q] = taken[q] /\ since'[q] = since[q]
      BY <1>2, <3>1, <3>2 DEF PoliciesSucceed, TypeOK
    <3>4. /\ taken'[k].company = m
          /\ \/ /\ taken'[k].policy \in Calls /\ company[taken'[k].policy] = m
                /\ enabled[taken'[k].policy] = "yes"
             \/ taken'[k].policy = NoPolicy /\ PoliciesOf(m) = {}
      BY <1>2, <3>1 DEF PoliciesSucceed, TypeOK, NeverWithoutPolicy, EnabledOf
    <3>. QED
      BY <1>2, <3>2, <3>3, <3>4, NullsAreDistinct DEF BookingPolicy
  <2>4. ASSUME UNCHANGED <<company, before, enabled, taken, since>> PROVE BookingPolicy'
    BY <1>2, <2>4 DEF BookingPolicy
  <2>. QED
    BY <1>2, <2>1, <2>2, <2>3, <2>4 DEF Next, Disable, Insert, Rollback, vars, calls, takes
<1>. QED
  BY <1>1, <1>2, PoliciesAlwaysSucceed, PTL DEF Spec
=============================================================================
