--------------------------- MODULE MCAgentServer ---------------------------
(* Instances of AgentServer for TLC: the constants of the configurations.  *)
EXTENDS AgentServer, TLC

CONSTANTS c1, c2, c3, L, M, R

OneLocal  == {L}
TwoLocals == {L, M}
OneRemote == {R}
ThreeConns == {c1, c2, c3}
TwoConns == {c1, c2}
OneReloader == {c1}
TwoReloaders == {c1, c2}
\* The connections that can carry a reload are interchangeable.
ReloadersSymmetric == Permutations(TwoReloaders)

\* A mapping with a variable from the bag and one from a remote source.
RemoteThenLocal == <<R, L>>
\* A mapping whose variables use two sources of type local.
BothLocals == <<L, M>>
=============================================================================
