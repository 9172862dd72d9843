-------------------------- MODULE MCDriverAssignment --------------------------
(* DriverAssignment on small instances. *)
EXTENDS DriverAssignment, TLC

(* Every call may be made with any body: drivers, buses and calls are each *)
(* interchangeable.                                                        *)
AnyBody == [c \in Calls |-> Drivers \X Buses]

Interchangeable == Permutations(Drivers) \cup Permutations(Buses) \cup Permutations(Calls)
=============================================================================
