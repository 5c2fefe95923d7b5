---------------------------- MODULE MCConfigSync ----------------------------
(* Instances of ConfigSync for TLC.                                        *)
EXTENDS ConfigSync, TLC

CONSTANTS m1, m2

TwoMachines == {m1, m2}
MachinesSymmetric == Permutations(TwoMachines)
=============================================================================
