------------------------------- MODULE Faults -------------------------------
(***************************************************************************)
(* The failures of flash, heap and drivers that a behaviour contains, which *)
(* the modules of the network count together: a bound of the models.        *)
(***************************************************************************)
EXTENDS Naturals

CONSTANT MaxFaults   \* bound on the failures

ASSUME FaultAssumption == MaxFaults \in Nat

VARIABLE faults

\* Calls that succeed (TRUE) or fail, in one step: a failing step counts.
Ok(b)      == b \in (IF faults < MaxFaults THEN BOOLEAN ELSE {TRUE})
Count(oks) == faults' = faults + (IF \A b \in oks : b THEN 0 ELSE 1)
Fails      == faults < MaxFaults /\ faults' = faults + 1
=============================================================================
