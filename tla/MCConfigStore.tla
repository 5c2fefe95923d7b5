--------------------------- MODULE MCConfigStore ---------------------------
(* Instances of ConfigStore for TLC.                                       *)
EXTENDS ConfigStore, TLC

CONSTANTS p1, p2

TwoProcs == {p1, p2}
ProcsSymmetric == Permutations(Procs)
Windows == {0, 1}
=============================================================================
