----------------------- MODULE AgentLifecycleProofs -----------------------
(***************************************************************************)
(* What AgentLifecycle promises for every number of unlocks and crashes.   *)
(***************************************************************************)
EXTENDS AgentLifecycle, TLAPS

\* The lock is held exactly from Acquire to ReleaseLock or death.
LockInv == \A a \in Unlocks : apc[a] \in Owning <=> lock = a

\* A listener left open belongs to an agent past its accept loop.
LateInv ==
    \A a \in late : apc[a] \in {"draining", "unsocked", "unpidded", "released"}

\* The files of an agent, from the step that makes them to the one that
\* removes them.
FileInv ==
    \A a \in Unlocks :
        /\ Listening(a) => sock = a \/ stray
        /\ apc[a] \in {"serving", "closing", "draining", "unsocked"} =>
              pidfile = a

\* A file that is there belongs to an agent that will remove it.
LeftoverInv ==
    ~unclean =>
        /\ sock # None => apc[sock] \in {"bound", "serving", "closing", "draining"}
        /\ pidfile # None =>
              apc[pidfile] \in {"serving", "closing", "draining", "unsocked"}

\* The agent that holds the lock finds the socket path free before it binds.
PathInv ==
    /\ \A a \in Unlocks : apc[a] = "cleared" => sock = None
    /\ blocked = {}

\* A child is not forked before its unlock reached Fork.
ForkInv ==
    \A u \in Unlocks : upc[u] \in {"idle", "checked"} => apc[u] = "none"

Inv == TypeOK /\ LockInv /\ LateInv /\ FileInv /\ LeftoverInv /\ PathInv /\ ForkInv

-----------------------------------------------------------------------------
\* Before the first unlock no agent runs and no file exists.
LEMMA InvInit == Init => Inv
<1> SUFFICES ASSUME Init PROVE Inv
  OBVIOUS
<1> USE LifecycleAssumption DEF Init, Owning, Live, Waiting, Returned
<1>1. TypeOK
  <2>1. crashes \in 0 .. MaxCrashes
    OBVIOUS
  <2>2. /\ upc \in [Unlocks -> {"idle"} \cup Waiting \cup Returned]
        /\ apc \in [Unlocks -> {"none", "exited"} \cup Live]
    OBVIOUS
  <2> QED
    BY <2>1, <2>2, Zenon DEF TypeOK
<1>2. LockInv /\ LateInv /\ PathInv /\ ForkInv
  BY DEF LockInv, LateInv, PathInv, ForkInv
<1>3. FileInv /\ LeftoverInv
  BY DEF FileInv, LeftoverInv, Listening
<1> QED
  BY <1>1, <1>2, <1>3 DEF Inv

\* Every step of an unlock, an agent or the kernel keeps the invariant.
LEMMA InvStep == Inv /\ [Next]_vars => Inv'
<1> SUFFICES ASSUME Inv, [Next]_vars PROVE Inv'
  OBVIOUS
<1> USE LifecycleAssumption
        DEF Inv, TypeOK, LockInv, LateInv, FileInv, LeftoverInv, PathInv,
            ForkInv, ghosts, Rival,
            Owning, Live, Waiting, Returned, Listening, Move, Dies
<1>1. ASSUME NEW a \in Unlocks, BootFail(a) PROVE Inv'
  BY <1>1 DEF BootFail
<1>2. ASSUME NEW a \in Unlocks, Acquire(a) PROVE Inv'
  BY <1>2 DEF Acquire
<1>3. ASSUME NEW a \in Unlocks, RemoveStale(a) PROVE Inv'
  BY <1>3 DEF RemoveStale
<1>4. ASSUME NEW a \in Unlocks, Bind(a) PROVE Inv'
  BY <1>4 DEF Bind
<1>5. ASSUME NEW a \in Unlocks, BindFail(a) PROVE Inv'
  BY <1>5 DEF BindFail
<1>6. ASSUME NEW a \in Unlocks, WritePid(a) PROVE Inv'
  BY <1>6 DEF WritePid
<1>7. ASSUME NEW a \in Unlocks, WritePidFail(a) PROVE Inv'
  BY <1>7 DEF WritePidFail
<1>8. ASSUME NEW a \in Unlocks, CloseListener(a) PROVE Inv'
  BY <1>8 DEF CloseListener
<1>9. ASSUME NEW a \in Unlocks, LateClose(a) PROVE Inv'
  BY <1>9 DEF LateClose
<1>10. ASSUME NEW a \in Unlocks, RemoveSocket(a) PROVE Inv'
  BY <1>10 DEF RemoveSocket
<1>11. ASSUME NEW a \in Unlocks, RemovePid(a) PROVE Inv'
  BY <1>11 DEF RemovePid
<1>12. ASSUME NEW a \in Unlocks, ReleaseLock(a) PROVE Inv'
  BY <1>12 DEF ReleaseLock
<1>13. ASSUME NEW a \in Unlocks, Exit(a) PROVE Inv'
  BY <1>13 DEF Exit
<1>14. ASSUME NEW a \in Unlocks, Check(a) PROVE Inv'
  BY <1>14 DEF Check
<1>15. ASSUME NEW a \in Unlocks, Fork(a) PROVE Inv'
  BY <1>15 DEF Fork
<1>16. ASSUME NEW a \in Unlocks, StatSocket(a) PROVE Inv'
  BY <1>16 DEF StatSocket
<1>17. ASSUME NEW a \in Unlocks, ChildExited(a) PROVE Inv'
  BY <1>17 DEF ChildExited
<1>18. ASSUME NEW a \in Unlocks, SpawnTimeout(a) PROVE Inv'
  BY <1>18 DEF SpawnTimeout
<1>19. ASSUME NEW a \in Unlocks, Cancel(a) PROVE Inv'
  BY <1>19 DEF Cancel
<1>20. ASSUME NEW a \in Unlocks, AcceptFail(a) PROVE Inv'
  BY <1>20 DEF AcceptFail
<1>21. ASSUME NEW a \in Unlocks, Crash(a) PROVE Inv'
  BY <1>21 DEF Crash
<1>22. ASSUME NEW a \in Unlocks, PidReuse(a) PROVE Inv'
  BY <1>22 DEF PidReuse
<1>23. CASE UNCHANGED vars
  BY <1>23 DEF vars
<1> QED
  BY <1>1, <1>2, <1>3, <1>4, <1>5, <1>6, <1>7, <1>8, <1>9, <1>10, <1>11,
     <1>12, <1>13, <1>14, <1>15, <1>16, <1>17, <1>18, <1>19, <1>20, <1>21,
     <1>22, <1>23
  DEF Next, Start, Stop, Spawn

\* The inductive invariant holds throughout.
LEMMA InvCorrect == Spec => []Inv
BY InvInit, InvStep, PTL DEF Spec

\* No agent coming or going takes the files of the one that serves.
THEOREM FilesCorrect == Spec => []ServingOwnsFiles
<1>1. Inv => ServingOwnsFiles
  BY DEF Inv, FileInv, ServingOwnsFiles, Listening
<1> QED
  BY <1>1, InvCorrect, PTL

\* There is never a second listening agent.
THEOREM ListeningCorrect == Spec => []OneListening
<1>1. Inv => OneListening
  BY DEF Inv, LockInv, OneListening, Listening, Owning
<1> QED
  BY <1>1, InvCorrect, PTL

\* Orderly exits leave neither socket nor pidfile.
THEOREM CleanExitCorrect == Spec => []CleanExitLeavesNothing
<1>1. Inv => CleanExitLeavesNothing
  BY DEF Inv, TypeOK, LeftoverInv, CleanExitLeavesNothing
<1> QED
  BY <1>1, InvCorrect, PTL

\* No agent is kept from starting by what a dead one left.
THEOREM LeftoversCorrect == Spec => []LeftoversDoNotBlock
<1>1. Inv => LeftoversDoNotBlock
  BY DEF Inv, PathInv, LeftoversDoNotBlock
<1> QED
  BY <1>1, InvCorrect, PTL

\* Every variable keeps its type.
THEOREM LifecycleTypeCorrect == Spec => []TypeOK
<1>1. Inv => TypeOK
  BY DEF Inv
<1> QED
  BY <1>1, InvCorrect, PTL
=============================================================================
