------------------------------ MODULE Succession ------------------------------
(***************************************************************************)
(* The promise of the calls that replace what is current: assigning a      *)
(* driver to a bus replaces the assignments of both, a new cancellation    *)
(* policy replaces the company's.  A call claims some resources.  In one   *)
(* step it ends current holders of them, among which all that were there   *)
(* when it began, and becomes current itself; or it gives up and changes   *)
(* nothing.                                                                *)
(***************************************************************************)
CONSTANTS
  Calls,      \* the calls; a call is also the row it adds
  Resources   \* what there should be one current row for

VARIABLES
  phase,      \* where each call is
  claim,      \* the resources it replaces the holders of
  known,      \* the rows that were there when it began
  current     \* the rows that are in force

vars == <<phase, claim, known, current>>

Init ==
  /\ phase   = [c \in Calls |-> "idle"]
  /\ claim   = [c \in Calls |-> {}]
  /\ known   = [c \in Calls |-> {}]
  /\ current = {}

Added == {a \in Calls : phase[a] = "done"}

Begin(c) ==
  /\ phase[c] = "idle"
  /\ phase' = [phase EXCEPT ![c] = "open"]
  /\ \E rs \in SUBSET Resources : claim' = [claim EXCEPT ![c] = rs]
  /\ known' = [known EXCEPT ![c] = Added]
  /\ UNCHANGED current

Rivals(a, c) == a # c /\ claim[a] \cap claim[c] # {}

Replace(c) ==
  /\ phase[c] = "open"
  /\ phase' = [phase EXCEPT ![c] = "done"]
  /\ \E ended \in SUBSET {a \in current : Rivals(a, c)} :
       /\ {a \in current \cap known[c] : Rivals(a, c)} \subseteq ended
       /\ current' = (current \ ended) \cup {c}
  /\ UNCHANGED <<claim, known>>

GiveUp(c) ==
  /\ phase[c] = "open"
  /\ phase' = [phase EXCEPT ![c] = "failed"]
  /\ UNCHANGED <<claim, known, current>>

Next == \E c \in Calls : Begin(c) \/ Replace(c) \/ GiveUp(c)

Spec == Init /\ [][Next]_vars
=============================================================================
