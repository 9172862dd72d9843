--------------------------- MODULE BackOfficeProofs ---------------------------
(***************************************************************************)
(* The parts of the back office beside each other, as MCBackOffice runs    *)
(* them: what the other proof modules say of a part is true of the whole.  *)
(***************************************************************************)
EXTENDS MCBackOffice, TablesProofs, StaffProofs, AccountProofs

(* A behaviour of the back office is a behaviour of each of its parts: no  *)
(* part's rows are written by another.                                     *)
LEMMA PartsAreThemselves ==
  BackOfficeSpec => Spec /\ FleetSpec /\ RegistrySpec /\ StaffSpec /\ LoginSpec
<1>1. BackOfficeInit => Init /\ FleetInit /\ RegistryInit /\ StaffInit /\ LoginInit
  BY DEF BackOfficeInit
<1>2. ASSUME [BackOfficeNext]_<<rowVars, accountVars, part>>
      PROVE  /\ [Next]_vars /\ [FleetNext]_fleetVars /\ [RegistryNext]_registryVars
             /\ [StaffNext]_staffVars /\ [LoginNext]_loginVars
  <2>1. CASE UNCHANGED <<rowVars, accountVars>>
    BY <2>1 DEF rowVars, accountVars
  <2>2. CASE BackOfficeNext
    BY <2>2 DEF BackOfficeNext, rowVars, accountVars
  <2>. QED
    BY <1>2, <2>1, <2>2
<1>. QED
  BY <1>1, <1>2, PTL DEF BackOfficeSpec, Spec, FleetSpec, RegistrySpec, StaffSpec, LoginSpec

(* Whatever calls of the back office interleave, what each of them has     *)
(* read or holds is still so at the statement that relies on it, unless    *)
(* the write that overtook it is remembered.                               *)
THEOREM RowsAlwaysHold == BackOfficeSpec => []RowsHold
<1>1. FleetInv /\ RegistryInv /\ StaffInv /\ LoginInv => RowsHold
  BY DEF RowsHold, FleetInv, RegistryInv, StaffInv, LoginInv
<1>. QED
  BY <1>1, PartsAreThemselves, FleetHolds, RegistryHolds, StaffHolds, LoginHolds, PTL
=============================================================================
