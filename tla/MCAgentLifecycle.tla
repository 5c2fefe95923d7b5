-------------------------- MODULE MCAgentLifecycle --------------------------
(* Instances of AgentLifecycle for TLC.                                    *)
EXTENDS AgentLifecycle, TLC

CONSTANTS u1, u2, u3

TwoUnlocks == {u1, u2}
ThreeUnlocks == {u1, u2, u3}
=============================================================================
