------------------------------- MODULE Launch -------------------------------
(***************************************************************************)
(* What a user is promised about a command typed in a shell with the jitenv *)
(* hook, whichever way it is taken: it is held until jitenv has decided and *)
(* its program is there, it starts with its secrets or without them, and it *)
(* does not start at all if the user said so.                              *)
(***************************************************************************)
CONSTANTS Slots,    \* commands that may be under way at a time
          Answers   \* what the user may say: "continue", "abort" or something else

VARIABLES stage,    \* where each command is
          answer    \* what the user said about it

Stages == {"idle", "held", "injected", "plain", "refused"}
Running == {"injected", "plain"}

Init ==
    /\ stage = [j \in Slots |-> "idle"]
    /\ answer = [j \in Slots |-> "none"]

Hold(j) ==
    /\ stage[j] = "idle"
    /\ stage' = [stage EXCEPT ![j] = "held"]
    /\ UNCHANGED answer

\* The user is asked at most once for a command, and "abort" ends it there
\* and then.
Ask(j, a) ==
    /\ stage[j] = "held" /\ answer[j] = "none"
    /\ answer' = [answer EXCEPT ![j] = a]
    /\ stage' = IF a = "abort" THEN [stage EXCEPT ![j] = "refused"] ELSE stage

\* The command runs.  Unmapped commands are never held.
Run(j, how) ==
    /\ stage[j] = "held" \/ (stage[j] = "idle" /\ how = "plain")
    /\ how = "injected" => answer[j] # "continue"
    /\ stage' = [stage EXCEPT ![j] = how]
    /\ UNCHANGED answer

\* There is no such program, or it cannot be executed.
Refuse(j) ==
    /\ stage[j] = "held"
    /\ stage' = [stage EXCEPT ![j] = "refused"]
    /\ UNCHANGED answer

End(j) ==
    /\ stage[j] \in Running \cup {"refused"}
    /\ stage' = [stage EXCEPT ![j] = "idle"]
    /\ answer' = [answer EXCEPT ![j] = "none"]

Next == \E j \in Slots : \/ Hold(j) \/ Refuse(j) \/ End(j)
                         \/ \E a \in Answers : Ask(j, a)
                         \/ \E how \in Running : Run(j, how)

Spec == Init /\ [][Next]_<<stage, answer>>
=============================================================================
