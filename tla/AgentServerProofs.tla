------------------------- MODULE AgentServerProofs -------------------------
(***************************************************************************)
(* What AgentServer promises for every number of connections, sources,     *)
(* reloads and saves.                                                      *)
(***************************************************************************)
EXTENDS AgentServer, FiniteSetTheorems, SequenceTheorems, TLAPS

\* Progress of a handler that has computed no response yet.
Unanswered == {"idle", "dialed", "reading", "dispatch", "fetching",
               "loading", "loaded", "wiping"}
\* Progress of a connection whose reload has built nothing yet.
Unbuilt == {"idle", "dialed", "reading", "dispatch", "loading"}

\* What a handler holds at each point of its progress.
HandlerInv ==
    \A c \in Conns :
        /\ pc[c] \in Unanswered => resp[c] = "none"
        /\ pc[c] = "fetching" =>
              op[c] = "fetch" /\ ref[c] \in Gens /\ Built(ref[c])
        /\ pc[c] \in {"loading", "loaded", "wiping"} => op[c] = "reload"
        /\ pc[c] \in {"loaded", "wiping"} => Built(c)
        /\ pc[c] = "wiping" => ref[c] \in Gens /\ Built(ref[c])
        /\ op[c] = "reload" /\ resp[c] = "ok" => Built(c)

\* A resolver that is not installed yet is known to its reload only.
FreshInv ==
    /\ resolver # None => Built(resolver)
    /\ \A c \in Conns :
          /\ pc[c] \in Unbuilt => ~Built(c)
          /\ pc[c] \in Unbuilt \cup {"loaded"} => resolver # c
          /\ pc[c] \in Unbuilt \cup {"loaded"} =>
                \A d \in Conns : ref[d] # c

AgeInv == ~ctxDone => age <= IdleTimeout

BasicInv == TypeOK /\ HandlerInv /\ FreshInv /\ AgeInv

\* Handlers and resolver while the process shuts down.
DrainInv ==
    /\ resolver = None => stage \in {"down", "exit", "dead"}
    /\ stage \in {"wipe", "down"} /\ ~timedOut => Handlers = {}
    /\ stage \in {"exit", "dead"} => Handlers = {}
    /\ stage \in {"down", "exit"} /\ ~timedOut => resolver = None

ShutdownInv == DrainInv /\ CutOnlyAfterTimeout

WipeInv == OneWiper /\ PlaintextOwned /\ WipedOnDrainedExit

\* At most one source of type local, so its lock guards the bag map alone.
SingleLocal == \A s, t \in LocalSources : s = t

\* What a fetch has collected at each point of its progress.
Collected(c) ==
    /\ pc[c] \in {"idle", "dialed", "reading", "dispatch"} =>
          pos[c] = 0 /\ got[c] = {}
    /\ pc[c] = "fetching" => got[c] \subseteq {ver[ref[c]]}
    /\ pc[c] = "fetching" /\ pos[c] > 0 => got[c] # {}
    /\ op[c] = "fetch" /\ resp[c] = "ok" =>
          got[c] = {ver[ref[c]]} /\ ref[c] \in Gens /\ Built(ref[c])
    /\ op[c] = "fetch" /\ resp[c] = "empty" => timedOut

FetchInv == \A c \in Conns : Collected(c)

\* The reload of c has installed its resolver.
Installed(c) == pc[c] = "wiping" \/ (op[c] = "reload" /\ resp[c] = "ok")

\* c reads, or has answered from, the resolver it captured.
Fetched(c) == pc[c] = "fetching" \/ (op[c] = "fetch" /\ resp[c] = "ok")

\* What is on disk is at least as new as all that was loaded or acknowledged.
DiskInv ==
    /\ \A g \in Gens : Built(g) => ver[g] <= disk
    /\ acked <= disk
    /\ \A c \in Conns : since[c] <= acked

\* What a reload is about to install is at least as new as all that was
\* installed or acknowledged before.
PendingInv ==
    \A c \in Conns : pc[c] = "loaded" =>
        /\ acked <= ver[c]
        /\ \A d \in Conns : Installed(d) => ver[d] <= ver[c]

\* So is the resolver in place, and so was the one a fetch captured.
ServedInv ==
    /\ resolver # None =>
          /\ acked <= ver[resolver]
          /\ \A d \in Conns : Installed(d) => ver[d] <= ver[resolver]
    /\ \A c \in Conns : Fetched(c) =>
          ref[c] \in Gens /\ Built(ref[c]) /\ since[c] <= ver[ref[c]]

OrderInv == DiskInv /\ (~overtaken => PendingInv /\ ServedInv)

-----------------------------------------------------------------------------
\* The initial state of the agent has its types and no handler runs.
LEMMA BasicInit == Init => BasicInv
<1> SUFFICES ASSUME Init PROVE BasicInv
  OBVIOUS
<1> USE ServerAssumption DEF Init, Built, Gens, Versions
<1>1. TypeOK
  <2>1. pos \in [Conns -> 0 .. Len(VarSources)]
    BY LenProperties
  <2>2. /\ disk \in 0 .. MaxSaves
        /\ acked \in 0 .. MaxSaves
        /\ since \in [Conns -> 0 .. MaxSaves]
        /\ age \in 0 .. IdleTimeout + 1
    OBVIOUS
  <2>3. ver \in [Gens -> Versions \cup {None}]
    BY <2>2
  <2>4. inFlight \in Int
    OBVIOUS
  <2>5. /\ pc \in [Conns -> {"idle", "dialed"} \cup HandlerPcs \cup EndPcs]
        /\ stage \in {"serve", "drain", "wipe", "down", "exit", "dead"}
        /\ op \in [Conns -> {"none", "fetch", "query", "lock", "reload"}]
        /\ resp \in [Conns -> {"none", "ok", "empty", "error", "cleared"}]
    OBVIOUS
  <2>6. /\ cleared \in [Gens -> SUBSET LocalSources]
        /\ got \in [Conns -> SUBSET (Versions \cup {Blank})]
    BY Zenon
  <2> QED
    BY <2>1, <2>2, <2>3, <2>4, <2>5, <2>6, Zenon DEF TypeOK
<1>2. HandlerInv /\ AgeInv
  BY DEF HandlerInv, AgeInv
<1>3. FreshInv
  BY DEF FreshInv, Unbuilt
<1> QED
  BY <1>1, <1>2, <1>3 DEF BasicInv

\* A step of a wipe keeps the types of the memory it works on.
LEMMA WipeStepType ==
    ASSUME TypeOK, NEW g \in Gens, WipeStep(g)
    PROVE  /\ wiping' \in [Gens -> LocalSources \cup {None}]
           /\ cleared' \in [Gens -> SUBSET LocalSources]
           /\ ver' = ver
<1>1. CASE WipeBegin(g)
  BY <1>1 DEF WipeBegin, TypeOK
<1>2. CASE WipeEnd(g)
  <2>1. wiping[g] \in LocalSources
    BY <1>2 DEF WipeEnd, TypeOK
  <2> QED
    BY <1>2, <2>1 DEF WipeEnd, TypeOK
<1> QED
  BY <1>1, <1>2 DEF WipeStep

\* Progress and response stay in their sets when a handler moves on.
LEMMA MoveType ==
    ASSUME TypeOK, NEW c \in Conns, NEW p \in HandlerPcs,
           pc' = [pc EXCEPT ![c] = p]
    PROVE  pc' \in [Conns -> {"idle", "dialed"} \cup HandlerPcs \cup EndPcs]
BY DEF TypeOK

\* A handler that answers keeps the types of its progress and response.
LEMMA RespondType ==
    ASSUME TypeOK, NEW c \in Conns, NEW r \in {"ok", "empty", "error", "cleared"},
           Respond(c, r)
    PROVE  /\ pc' \in [Conns -> {"idle", "dialed"} \cup HandlerPcs \cup EndPcs]
           /\ resp' \in [Conns -> {"none", "ok", "empty", "error", "cleared"}]
<1>1. "replying" \in HandlerPcs
  BY DEF HandlerPcs
<1> QED
  BY <1>1, MoveType DEF Respond, TypeOK

\* A handler that captures a resolver keeps the type of its reference.
LEMMA CaptureType ==
    ASSUME TypeOK, NEW c \in Conns, ref' = [ref EXCEPT ![c] = resolver]
    PROVE  ref' \in [Conns -> Gens \cup {None}]
BY DEF TypeOK

\* Every step keeps the types and the handlers' bookkeeping.
LEMMA BasicStep == BasicInv /\ [Next]_vars => BasicInv'
<1> SUFFICES ASSUME BasicInv, [Next]_vars PROVE BasicInv'
  OBVIOUS
<1> USE ServerAssumption DEF BasicInv, TypeOK, HandlerInv, FreshInv, AgeInv,
        Built, Gens, HandlerPcs, EndPcs, Unbuilt, Unanswered,
        memVars, connVars, procVars, ghosts
<1>1. CASE Save
  BY <1>1 DEF Save, Versions
<1>2. CASE Tick
  <2>1. CASE age + 1 > IdleTimeout
    <3>1. age' \in 0 .. IdleTimeout + 1 /\ ctxDone'
      BY <1>2, <2>1 DEF Tick
    <3> QED
      BY <1>2, <3>1 DEF Tick
  <2>2. CASE ~(age + 1 > IdleTimeout)
    <3>1. age' \in 0 .. IdleTimeout + 1 /\ age' <= IdleTimeout
      BY <1>2, <2>2 DEF Tick
    <3>2. UNCHANGED ctxDone
      BY <1>2, <2>2 DEF Tick
    <3> QED
      BY <1>2, <3>1, <3>2 DEF Tick
  <2> QED
    BY <2>1, <2>2
<1>3. CASE LockFires
  BY <1>3 DEF LockFires
<1>4. CASE Signal
  BY <1>4 DEF Signal
<1>5. CASE CloseListener
  BY <1>5 DEF CloseListener, Drop, Backlog
<1>6. CASE AcceptFail
  BY <1>6 DEF AcceptFail
<1>7. CASE ServeReturns
  BY <1>7 DEF ServeReturns
<1>8. CASE Drained
  BY <1>8 DEF Drained
<1>9. CASE DrainTimeout
  BY <1>9 DEF DrainTimeout
<1>10. CASE ShutdownWipe
  <2> DEFINE g == resolver
  <2>1. g \in Gens /\ WipeStep(g)
    BY <1>10 DEF ShutdownWipe
  <2>2. /\ wiping' \in [Gens -> LocalSources \cup {None}]
        /\ cleared' \in [Gens -> SUBSET LocalSources]
        /\ ver' = ver
    BY <2>1, WipeStepType
  <2>3. UNCHANGED <<disk, resolver, connVars, inFlight, procVars, ghosts>>
    BY <1>10 DEF ShutdownWipe
  <2> QED
    BY <2>2, <2>3
<1>11. CASE ShutdownDone
  BY <1>11 DEF ShutdownDone
<1>12. CASE Exit
  BY <1>12 DEF Exit, Drop, Backlog, Handlers
<1>13. ASSUME NEW c \in Conns, Dial(c) PROVE BasicInv'
  BY <1>13 DEF Dial
<1>14. ASSUME NEW c \in Conns, Accept(c) PROVE BasicInv'
  <2>1. TypeOK'
    <3>1. pc' = [pc EXCEPT ![c] = "reading"] \/ pc' = [pc EXCEPT ![c] = "rejected"]
      BY <1>14 DEF Accept
    <3>2. inFlight' = inFlight \/ inFlight' = inFlight + 1
      BY <1>14 DEF Accept
    <3>3. pc' \in [Conns -> {"idle", "dialed"} \cup HandlerPcs \cup EndPcs]
      BY <3>1
    <3>4. inFlight' \in Int
      BY <3>2
    <3> QED
      BY <1>14, <3>3, <3>4 DEF Accept
  <2>2. HandlerInv'
    BY <1>14 DEF Accept
  <2>3. FreshInv' /\ AgeInv'
    BY <1>14 DEF Accept
  <2> QED
    BY <2>1, <2>2, <2>3
<1>15. ASSUME NEW c \in Conns, ReadFail(c) PROVE BasicInv'
  BY <1>15 DEF ReadFail, Respond
<1>16. ASSUME NEW c \in Conns, ReadRequest(c) PROVE BasicInv'
  BY <1>16 DEF ReadRequest, Ops
<1>17. ASSUME NEW c \in Conns, Query(c) PROVE BasicInv'
  BY <1>17 DEF Query, Respond
<1>18. ASSUME NEW c \in Conns, LockOp(c) PROVE BasicInv'
  BY <1>18 DEF LockOp, Respond
<1>19. ASSUME NEW c \in Conns, FetchBegin(c) PROVE BasicInv'
  <2>1. CASE resolver = None
    <3>1. TypeOK'
      <4>1. Respond(c, "empty") /\ UNCHANGED ref
        BY <1>19, <2>1 DEF FetchBegin
      <4>2. /\ pc' \in [Conns -> {"idle", "dialed"} \cup HandlerPcs \cup EndPcs]
            /\ resp' \in [Conns -> {"none", "ok", "empty", "error", "cleared"}]
        BY <4>1, RespondType
      <4> QED
        BY <1>19, <4>1, <4>2 DEF FetchBegin
    <3>2. HandlerInv'
      BY <1>19, <2>1 DEF FetchBegin, Respond
    <3>3. FreshInv' /\ AgeInv'
      BY <1>19, <2>1 DEF FetchBegin, Respond
    <3> QED
      BY <3>1, <3>2, <3>3
  <2>2. CASE resolver # None
    <3>1. TypeOK'
      <4>1. /\ pc' = [pc EXCEPT ![c] = "fetching"]
            /\ ref' = [ref EXCEPT ![c] = resolver]
            /\ UNCHANGED resp
        BY <1>19, <2>2 DEF FetchBegin
      <4>2. /\ pc' \in [Conns -> {"idle", "dialed"} \cup HandlerPcs \cup EndPcs]
            /\ ref' \in [Conns -> Gens \cup {None}]
        BY <4>1, MoveType, CaptureType
      <4> QED
        BY <1>19, <4>1, <4>2 DEF FetchBegin
    <3>2. HandlerInv'
      BY <1>19, <2>2 DEF FetchBegin
    <3>3. FreshInv' /\ AgeInv'
      BY <1>19, <2>2 DEF FetchBegin
    <3> QED
      BY <3>1, <3>2, <3>3
  <2> QED
    BY <2>1, <2>2
<1>20. ASSUME NEW c \in Conns, FetchVar(c) PROVE BasicInv'
  <2>1. ver[ref[c]] \in Versions
    BY <1>20 DEF FetchVar
  <2>2. BagValues(ref[c]) \subseteq Versions \cup {Blank}
    BY <2>1 DEF BagValues
  <2>3. PICK v \in Versions \cup {Blank} : got' = [got EXCEPT ![c] = @ \cup {v}]
    BY <1>20, <2>1, <2>2 DEF FetchVar
  <2>4. pos' \in [Conns -> 0 .. Len(VarSources)]
    BY <1>20, LenProperties DEF FetchVar
  <2>5. got' \in [Conns -> SUBSET (Versions \cup {Blank})]
    BY <2>3
  <2> QED
    BY <1>20, <2>4, <2>5 DEF FetchVar
<1>21. ASSUME NEW c \in Conns, FetchCleared(c) PROVE BasicInv'
  BY <1>21 DEF FetchCleared, Respond
<1>22. ASSUME NEW c \in Conns, FetchFail(c) PROVE BasicInv'
  BY <1>22 DEF FetchFail, Respond
<1>23. ASSUME NEW c \in Conns, FetchDone(c) PROVE BasicInv'
  BY <1>23 DEF FetchDone, Respond
<1>24. ASSUME NEW c \in Conns, MapRace(c) PROVE BasicInv'
  BY <1>24 DEF MapRace, Drop, Backlog, Handlers
<1>25. ASSUME NEW c \in Conns, ReloadStart(c) PROVE BasicInv'
  BY <1>25 DEF ReloadStart
<1>26. ASSUME NEW c \in Conns, ReloadLoad(c) PROVE BasicInv'
  BY <1>26 DEF ReloadLoad
<1>27. ASSUME NEW c \in Conns, ReloadFail(c) PROVE BasicInv'
  BY <1>27 DEF ReloadFail, Respond
<1>28. ASSUME NEW c \in Conns, ReloadSwap(c) PROVE BasicInv'
  <2>1. CASE resolver = None
    <3>1. TypeOK'
      <4>1. Respond(c, "ok") /\ ref' = [ref EXCEPT ![c] = resolver]
        BY <1>28, <2>1 DEF ReloadSwap
      <4>2. /\ pc' \in [Conns -> {"idle", "dialed"} \cup HandlerPcs \cup EndPcs]
            /\ resp' \in [Conns -> {"none", "ok", "empty", "error", "cleared"}]
            /\ ref' \in [Conns -> Gens \cup {None}]
        BY <4>1, RespondType, CaptureType
      <4> QED
        BY <1>28, <4>2 DEF ReloadSwap
    <3>2. HandlerInv'
      BY <1>28, <2>1 DEF ReloadSwap, Respond
    <3>3. FreshInv' /\ AgeInv'
      BY <1>28, <2>1 DEF ReloadSwap, Respond
    <3> QED
      BY <3>1, <3>2, <3>3
  <2>2. CASE resolver # None
    <3>1. TypeOK'
      <4>1. /\ pc' = [pc EXCEPT ![c] = "wiping"]
            /\ ref' = [ref EXCEPT ![c] = resolver]
            /\ UNCHANGED resp
        BY <1>28, <2>2 DEF ReloadSwap
      <4>2. /\ pc' \in [Conns -> {"idle", "dialed"} \cup HandlerPcs \cup EndPcs]
            /\ ref' \in [Conns -> Gens \cup {None}]
        BY <4>1, MoveType, CaptureType
      <4> QED
        BY <1>28, <4>1, <4>2 DEF ReloadSwap
    <3>2. HandlerInv'
      BY <1>28, <2>2 DEF ReloadSwap
    <3>3. FreshInv' /\ AgeInv'
      BY <1>28, <2>2 DEF ReloadSwap
    <3> QED
      BY <3>1, <3>2, <3>3
  <2> QED
    BY <2>1, <2>2
<1>29. ASSUME NEW c \in Conns, ReloadWipe(c) PROVE BasicInv'
  <2> DEFINE g == ref[c]
  <2>1. g \in Gens /\ WipeStep(g)
    BY <1>29 DEF ReloadWipe
  <2>2. /\ wiping' \in [Gens -> LocalSources \cup {None}]
        /\ cleared' \in [Gens -> SUBSET LocalSources]
        /\ ver' = ver
    BY <2>1, WipeStepType
  <2>3. UNCHANGED <<disk, resolver, connVars, inFlight, procVars, ghosts>>
    BY <1>29 DEF ReloadWipe
  <2> QED
    BY <2>2, <2>3
<1>30. ASSUME NEW c \in Conns, ReloadDone(c) PROVE BasicInv'
  BY <1>30 DEF ReloadDone, Respond
<1>31. ASSUME NEW c \in Conns, Reply(c) PROVE BasicInv'
  BY <1>31 DEF Reply
<1>32. ASSUME NEW c \in Conns, Finish(c) PROVE BasicInv'
  BY <1>32 DEF Finish
<1>33. CASE UNCHANGED vars
  BY <1>33 DEF vars
<1> QED
  BY <1>1, <1>2, <1>3, <1>4, <1>5, <1>6, <1>7, <1>8, <1>9, <1>10, <1>11, <1>12, <1>13, <1>14, <1>15, <1>16, <1>17, <1>18, <1>19, <1>20, <1>21, <1>22, <1>23, <1>24, <1>25, <1>26, <1>27, <1>28, <1>29, <1>30, <1>31, <1>32, <1>33
  DEF Next, Handle, Shutdown

\* The shutdown sequence: no handler outlives a drain that did not time out.
LEMMA ShutdownStep == BasicInv /\ ShutdownInv /\ [Next]_vars => ShutdownInv'
<1> SUFFICES ASSUME BasicInv /\ ShutdownInv, [Next]_vars PROVE ShutdownInv'
  OBVIOUS
<1> USE ServerAssumption DEF BasicInv, TypeOK, ShutdownInv, DrainInv, CutOnlyAfterTimeout,
        Handlers, HandlerPcs, EndPcs, memVars, connVars, procVars, ghosts
<1>1. CASE Save
  BY <1>1 DEF Save, Versions
<1>2. CASE Tick
  BY <1>2 DEF Tick
<1>3. CASE LockFires
  BY <1>3 DEF LockFires
<1>4. CASE Signal
  BY <1>4 DEF Signal
<1>5. CASE CloseListener
  BY <1>5 DEF CloseListener, Drop, Backlog
<1>6. CASE AcceptFail
  BY <1>6 DEF AcceptFail
<1>7. CASE ServeReturns
  BY <1>7 DEF ServeReturns
<1>8. CASE Drained
  BY <1>8 DEF Drained
<1>9. CASE DrainTimeout
  BY <1>9 DEF DrainTimeout
<1>10. CASE ShutdownWipe
  BY <1>10 DEF ShutdownWipe, WipeStep, WipeBegin, WipeEnd
<1>11. CASE ShutdownDone
  BY <1>11 DEF ShutdownDone
<1>12. CASE Exit
  BY <1>12 DEF Exit, Drop, Backlog
<1>13. ASSUME NEW c \in Conns, Dial(c) PROVE ShutdownInv'
  BY <1>13 DEF Dial
<1>14. ASSUME NEW c \in Conns, Accept(c) PROVE ShutdownInv'
  BY <1>14 DEF Accept
<1>15. ASSUME NEW c \in Conns, ReadFail(c) PROVE ShutdownInv'
  BY <1>15 DEF ReadFail, Respond
<1>16. ASSUME NEW c \in Conns, ReadRequest(c) PROVE ShutdownInv'
  BY <1>16 DEF ReadRequest, Ops
<1>17. ASSUME NEW c \in Conns, Query(c) PROVE ShutdownInv'
  BY <1>17 DEF Query, Respond
<1>18. ASSUME NEW c \in Conns, LockOp(c) PROVE ShutdownInv'
  BY <1>18 DEF LockOp, Respond
<1>19. ASSUME NEW c \in Conns, FetchBegin(c) PROVE ShutdownInv'
  BY <1>19 DEF FetchBegin, Respond
<1>20. ASSUME NEW c \in Conns, FetchVar(c) PROVE ShutdownInv'
  BY <1>20 DEF FetchVar, BagValues, NextSource
<1>21. ASSUME NEW c \in Conns, FetchCleared(c) PROVE ShutdownInv'
  BY <1>21 DEF FetchCleared, Respond
<1>22. ASSUME NEW c \in Conns, FetchFail(c) PROVE ShutdownInv'
  BY <1>22 DEF FetchFail, Respond
<1>23. ASSUME NEW c \in Conns, FetchDone(c) PROVE ShutdownInv'
  BY <1>23 DEF FetchDone, Respond
<1>24. ASSUME NEW c \in Conns, MapRace(c) PROVE ShutdownInv'
  BY <1>24 DEF MapRace, Drop, Backlog
<1>25. ASSUME NEW c \in Conns, ReloadStart(c) PROVE ShutdownInv'
  BY <1>25 DEF ReloadStart
<1>26. ASSUME NEW c \in Conns, ReloadLoad(c) PROVE ShutdownInv'
  BY <1>26 DEF ReloadLoad
<1>27. ASSUME NEW c \in Conns, ReloadFail(c) PROVE ShutdownInv'
  BY <1>27 DEF ReloadFail, Respond
<1>28. ASSUME NEW c \in Conns, ReloadSwap(c) PROVE ShutdownInv'
  <2>1. pc[c] = "loaded" /\ c \in Handlers
    BY <1>28 DEF ReloadSwap
  <2>2. timedOut \/ stage \in {"serve", "drain"}
    BY <1>28, <2>1 DEF ReloadSwap, MuFree
  <2>3. /\ pc' \in [Conns -> {"idle", "dialed"} \cup HandlerPcs \cup EndPcs]
        /\ pc'[c] \in {"replying", "wiping"}
        /\ \A d \in Conns \ {c} : pc'[d] = pc[d]
    BY <1>28 DEF ReloadSwap, Respond
  <2>4. UNCHANGED <<stage, timedOut>> /\ resolver' = c
    BY <1>28 DEF ReloadSwap
  <2>5. stage \notin {"exit", "dead"}
    BY <2>1
  <2>6. DrainInv'
    BY <2>2, <2>4, <2>5 DEF Gens
  <2>7. CutOnlyAfterTimeout'
    BY <2>3, <2>4
  <2> QED
    BY <2>6, <2>7
<1>29. ASSUME NEW c \in Conns, ReloadWipe(c) PROVE ShutdownInv'
  BY <1>29 DEF ReloadWipe, WipeStep, WipeBegin, WipeEnd
<1>30. ASSUME NEW c \in Conns, ReloadDone(c) PROVE ShutdownInv'
  BY <1>30 DEF ReloadDone, Respond
<1>31. ASSUME NEW c \in Conns, Reply(c) PROVE ShutdownInv'
  BY <1>31 DEF Reply
<1>32. ASSUME NEW c \in Conns, Finish(c) PROVE ShutdownInv'
  BY <1>32 DEF Finish
<1>33. CASE UNCHANGED vars
  BY <1>33 DEF vars
<1> QED
  BY <1>1, <1>2, <1>3, <1>4, <1>5, <1>6, <1>7, <1>8, <1>9, <1>10, <1>11,
     <1>12, <1>13, <1>14, <1>15, <1>16, <1>17, <1>18, <1>19, <1>20, <1>21,
     <1>22, <1>23, <1>24, <1>25, <1>26, <1>27, <1>28, <1>29, <1>30, <1>31,
     <1>32, <1>33
  DEF Next, Handle, Shutdown

\* A step that leaves the resolvers, their memory and the handlers that own
\* one alone keeps their ownership.
LEMMA WipeFrame ==
    ASSUME TypeOK, WipeInv, UNCHANGED <<resolver, memVars, stage, timedOut>>,
           \A d \in Conns :
               pc[d] \in {"loaded", "wiping"} \/ pc'[d] \in {"loaded", "wiping"}
                   => pc'[d] = pc[d] /\ ref'[d] = ref[d]
    PROVE  WipeInv'
<1> USE DEF WipeInv, memVars
<1>1. OneWiper'
  BY DEF OneWiper
<1>2. PlaintextOwned'
  BY DEF PlaintextOwned, Built, Wiped
<1>3. WipedOnDrainedExit'
  BY DEF WipedOnDrainedExit, Built, Wiped
<1> QED
  BY <1>1, <1>2, <1>3

\* Every built resolver keeps one owner until it is wiped.
LEMMA WipeInvStep == BasicInv /\ ShutdownInv /\ WipeInv /\ [Next]_vars => WipeInv'
<1> SUFFICES ASSUME BasicInv /\ ShutdownInv /\ WipeInv, [Next]_vars PROVE WipeInv'
  OBVIOUS
<1> USE ServerAssumption DEF BasicInv, TypeOK, HandlerInv, FreshInv, ShutdownInv, DrainInv,
        WipeInv, OneWiper, PlaintextOwned, WipedOnDrainedExit, Built, Wiped,
        Gens, Handlers, HandlerPcs, Unbuilt, MuFree,
        memVars, connVars, procVars, ghosts
<1>1. CASE Save
  BY <1>1 DEF Save, Versions
<1>2. CASE Tick
  BY <1>2 DEF Tick
<1>3. CASE LockFires
  BY <1>3 DEF LockFires
<1>4. CASE Signal
  BY <1>4 DEF Signal
<1>5. CASE CloseListener
  BY <1>5 DEF CloseListener, Drop, Backlog
<1>6. CASE AcceptFail
  BY <1>6 DEF AcceptFail
<1>7. CASE ServeReturns
  BY <1>7 DEF ServeReturns
<1>8. CASE Drained
  BY <1>8 DEF Drained
<1>9. CASE DrainTimeout
  BY <1>9 DEF DrainTimeout
<1>10. CASE ShutdownWipe
  BY <1>10 DEF ShutdownWipe, WipeStep, WipeBegin, WipeEnd
<1>11. CASE ShutdownDone
  <2>1. OneWiper'
    BY <1>11 DEF ShutdownDone
  <2>2. PlaintextOwned'
    BY <1>11 DEF ShutdownDone
  <2>3. WipedOnDrainedExit'
    BY <1>11 DEF ShutdownDone
  <2> QED
    BY <2>1, <2>2, <2>3
<1>12. CASE Exit
  BY <1>12 DEF Exit, Drop, Backlog
<1>13. ASSUME NEW c \in Conns, Dial(c) PROVE WipeInv'
  BY <1>13, WipeFrame DEF Dial
<1>14. ASSUME NEW c \in Conns, Accept(c) PROVE WipeInv'
  BY <1>14, WipeFrame DEF Accept
<1>15. ASSUME NEW c \in Conns, ReadFail(c) PROVE WipeInv'
  BY <1>15, WipeFrame DEF ReadFail, Respond
<1>16. ASSUME NEW c \in Conns, ReadRequest(c) PROVE WipeInv'
  BY <1>16, WipeFrame DEF ReadRequest
<1>17. ASSUME NEW c \in Conns, Query(c) PROVE WipeInv'
  BY <1>17, WipeFrame DEF Query, Respond
<1>18. ASSUME NEW c \in Conns, LockOp(c) PROVE WipeInv'
  BY <1>18, WipeFrame DEF LockOp, Respond
<1>19. ASSUME NEW c \in Conns, FetchBegin(c) PROVE WipeInv'
  BY <1>19, WipeFrame DEF FetchBegin, Respond
<1>20. ASSUME NEW c \in Conns, FetchVar(c) PROVE WipeInv'
  BY <1>20, WipeFrame DEF FetchVar
<1>21. ASSUME NEW c \in Conns, FetchCleared(c) PROVE WipeInv'
  BY <1>21, WipeFrame DEF FetchCleared, Respond
<1>22. ASSUME NEW c \in Conns, FetchFail(c) PROVE WipeInv'
  BY <1>22, WipeFrame DEF FetchFail, Respond
<1>23. ASSUME NEW c \in Conns, FetchDone(c) PROVE WipeInv'
  BY <1>23, WipeFrame DEF FetchDone, Respond
<1>24. ASSUME NEW c \in Conns, MapRace(c) PROVE WipeInv'
  BY <1>24 DEF MapRace, Drop, Backlog
<1>25. ASSUME NEW c \in Conns, ReloadStart(c) PROVE WipeInv'
  BY <1>25, WipeFrame DEF ReloadStart
<1>26. ASSUME NEW c \in Conns, ReloadLoad(c) PROVE WipeInv'
  <2>1. OneWiper'
    BY <1>26 DEF ReloadLoad
  <2>2. PlaintextOwned'
    <3>1. /\ UNCHANGED <<resolver, cleared, ref, stage>>
          /\ pc[c] = "loading" /\ pc'[c] = "loaded"
          /\ \A d \in Conns \ {c} : pc'[d] = pc[d]
          /\ \A g \in Gens \ {c} : ver'[g] = ver[g]
      BY <1>26 DEF ReloadLoad
    <3> SUFFICES ASSUME stage' \notin {"exit", "dead"},
                        NEW g \in Gens, Built(g)', ~Wiped(g)', g # resolver'
                 PROVE  \E d \in Conns : \/ pc'[d] = "loaded" /\ g = d
                                         \/ pc'[d] = "wiping" /\ g = ref'[d]
      BY Zenon DEF PlaintextOwned
    <3>2. CASE g = c
      BY <3>1, <3>2
    <3>3. CASE g # c
      <4>1. PICK d \in Conns : \/ pc[d] = "loaded" /\ g = d
                               \/ pc[d] = "wiping" /\ g = ref[d]
        BY <3>1, <3>3
      <4>2. d # c /\ pc'[d] = pc[d] /\ ref'[d] = ref[d]
        BY <3>1, <4>1
      <4> QED
        BY <4>1, <4>2
    <3> QED
      BY <3>2, <3>3
  <2>3. WipedOnDrainedExit'
    BY <1>26 DEF ReloadLoad
  <2> QED
    BY <2>1, <2>2, <2>3
<1>27. ASSUME NEW c \in Conns, ReloadFail(c) PROVE WipeInv'
  BY <1>27, WipeFrame DEF ReloadFail, Respond
<1>28. ASSUME NEW c \in Conns, ReloadSwap(c) PROVE WipeInv'
  <2>1. OneWiper'
    BY <1>28 DEF ReloadSwap, Respond
  <2>2. PlaintextOwned'
    <3> SUFFICES ASSUME stage' \notin {"exit", "dead"},
                        NEW g \in Gens, Built(g)', ~Wiped(g)', g # resolver'
                 PROVE  \E d \in Conns : \/ pc'[d] = "loaded" /\ g = d
                                         \/ pc'[d] = "wiping" /\ g = ref'[d]
      BY Zenon DEF PlaintextOwned
    <3>1. /\ UNCHANGED <<ver, cleared, stage>>
          /\ resolver' = c
          /\ ref'[c] = resolver
          /\ resolver # None => pc'[c] = "wiping"
          /\ \A d \in Conns \ {c} : pc'[d] = pc[d] /\ ref'[d] = ref[d]
      BY <1>28 DEF ReloadSwap, Respond
    <3>2. CASE g = resolver
      BY <3>1, <3>2
    <3>3. CASE g # resolver
      <4>1. PICK d \in Conns : \/ pc[d] = "loaded" /\ g = d
                               \/ pc[d] = "wiping" /\ g = ref[d]
        BY <3>1, <3>3
      <4>2. d # c
        BY <3>1, <4>1, <1>28 DEF ReloadSwap
      <4>3. pc'[d] = pc[d] /\ ref'[d] = ref[d]
        BY <3>1, <4>2
      <4> QED
        BY <4>1, <4>3
    <3> QED
      BY <3>2, <3>3
  <2>3. WipedOnDrainedExit'
    BY <1>28 DEF ReloadSwap, Respond
  <2> QED
    BY <2>1, <2>2, <2>3
<1>29. ASSUME NEW c \in Conns, ReloadWipe(c) PROVE WipeInv'
  BY <1>29 DEF ReloadWipe, WipeStep, WipeBegin, WipeEnd
<1>30. ASSUME NEW c \in Conns, ReloadDone(c) PROVE WipeInv'
  <2>1. OneWiper'
    BY <1>30 DEF ReloadDone, Respond
  <2>2. PlaintextOwned'
    BY <1>30 DEF ReloadDone, Respond
  <2>3. WipedOnDrainedExit'
    BY <1>30 DEF ReloadDone, Respond
  <2> QED
    BY <2>1, <2>2, <2>3
<1>31. ASSUME NEW c \in Conns, Reply(c) PROVE WipeInv'
  BY <1>31, WipeFrame DEF Reply
<1>32. ASSUME NEW c \in Conns, Finish(c) PROVE WipeInv'
  BY <1>32, WipeFrame DEF Finish
<1>33. CASE UNCHANGED vars
  BY <1>33 DEF vars
<1> QED
  BY <1>1, <1>2, <1>3, <1>4, <1>5, <1>6, <1>7, <1>8, <1>9, <1>10, <1>11,
     <1>12, <1>13, <1>14, <1>15, <1>16, <1>17, <1>18, <1>19, <1>20, <1>21,
     <1>22, <1>23, <1>24, <1>25, <1>26, <1>27, <1>28, <1>29, <1>30, <1>31,
     <1>32, <1>33
  DEF Next, Handle, Shutdown

\* With one local source a fetch collects values of one version only.
LEMMA FetchInvStep == SingleLocal /\ BasicInv /\ ShutdownInv /\ FetchInv /\ [Next]_vars => FetchInv'
<1> SUFFICES ASSUME SingleLocal /\ BasicInv /\ ShutdownInv /\ FetchInv, [Next]_vars PROVE FetchInv'
  OBVIOUS
<1> USE ServerAssumption DEF SingleLocal, BasicInv, TypeOK, HandlerInv, FreshInv, ShutdownInv, DrainInv,
        FetchInv, Collected, Built, Gens, Handlers, HandlerPcs, Unbuilt,
        Unanswered,
        memVars, connVars, procVars, ghosts
<1>1. CASE Save
  BY <1>1 DEF Save, Versions
<1>2. CASE Tick
  BY <1>2 DEF Tick
<1>3. CASE LockFires
  BY <1>3 DEF LockFires
<1>4. CASE Signal
  BY <1>4 DEF Signal
<1>5. CASE CloseListener
  BY <1>5 DEF CloseListener, Drop, Backlog
<1>6. CASE AcceptFail
  BY <1>6 DEF AcceptFail
<1>7. CASE ServeReturns
  BY <1>7 DEF ServeReturns
<1>8. CASE Drained
  BY <1>8 DEF Drained
<1>9. CASE DrainTimeout
  BY <1>9 DEF DrainTimeout
<1>10. CASE ShutdownWipe
  BY <1>10 DEF ShutdownWipe, WipeStep, WipeBegin, WipeEnd
<1>11. CASE ShutdownDone
  BY <1>11 DEF ShutdownDone
<1>12. CASE Exit
  BY <1>12 DEF Exit, Drop, Backlog
<1>13. ASSUME NEW c \in Conns, Dial(c) PROVE FetchInv'
  BY <1>13 DEF Dial
<1>14. ASSUME NEW c \in Conns, Accept(c) PROVE FetchInv'
  BY <1>14 DEF Accept
<1>15. ASSUME NEW c \in Conns, ReadFail(c) PROVE FetchInv'
  BY <1>15 DEF ReadFail, Respond
<1>16. ASSUME NEW c \in Conns, ReadRequest(c) PROVE FetchInv'
  BY <1>16 DEF ReadRequest, Ops
<1>17. ASSUME NEW c \in Conns, Query(c) PROVE FetchInv'
  BY <1>17 DEF Query, Respond
<1>18. ASSUME NEW c \in Conns, LockOp(c) PROVE FetchInv'
  BY <1>18 DEF LockOp, Respond
<1>19. ASSUME NEW c \in Conns, FetchBegin(c) PROVE FetchInv'
  BY <1>19 DEF FetchBegin, Respond
<1>20. ASSUME NEW c \in Conns, FetchVar(c) PROVE FetchInv'
  <2>1. pc[c] = "fetching" /\ UNCHANGED <<pc, op, ref, resp, ver, timedOut>>
    BY <1>20 DEF FetchVar
  <2>2. got' = [got EXCEPT ![c] = @ \cup {ver[ref[c]]}]
    <3>1. CASE NextSource(c) \in RemoteSources
      BY <1>20, <3>1 DEF FetchVar
    <3>2. CASE NextSource(c) \in LocalSources
      <4>1. cleared[ref[c]] = {} /\ wiping[ref[c]] = None
        BY <1>20, <3>2 DEF FetchVar
      <4>2. BagValues(ref[c]) = {ver[ref[c]]}
        BY <4>1 DEF BagValues
      <4> QED
        BY <1>20, <3>2, <4>2 DEF FetchVar
    <3> QED
      BY <1>20, <3>1, <3>2 DEF FetchVar
  <2>3. got'[c] = {ver[ref[c]]}
    BY <2>1, <2>2
  <2>4. \A d \in Conns \ {c} : got'[d] = got[d] /\ pos'[d] = pos[d]
    BY <1>20, <2>2 DEF FetchVar
  <2>5. resp[c] = "none"
    BY <2>1
  <2>6. Collected(c)'
    BY <2>1, <2>3, <2>5
  <2>7. ASSUME NEW d \in Conns \ {c} PROVE Collected(d)'
    BY <2>1, <2>4
  <2> QED
    BY <2>6, <2>7
<1>21. ASSUME NEW c \in Conns, FetchCleared(c) PROVE FetchInv'
  BY <1>21 DEF FetchCleared, Respond
<1>22. ASSUME NEW c \in Conns, FetchFail(c) PROVE FetchInv'
  BY <1>22 DEF FetchFail, Respond
<1>23. ASSUME NEW c \in Conns, FetchDone(c) PROVE FetchInv'
  BY <1>23 DEF FetchDone, Respond
<1>24. ASSUME NEW c \in Conns, MapRace(c) PROVE FetchInv'
  BY <1>24 DEF MapRace, Drop, Backlog
<1>25. ASSUME NEW c \in Conns, ReloadStart(c) PROVE FetchInv'
  BY <1>25 DEF ReloadStart
<1>26. ASSUME NEW c \in Conns, ReloadLoad(c) PROVE FetchInv'
  BY <1>26 DEF ReloadLoad
<1>27. ASSUME NEW c \in Conns, ReloadFail(c) PROVE FetchInv'
  BY <1>27 DEF ReloadFail, Respond
<1>28. ASSUME NEW c \in Conns, ReloadSwap(c) PROVE FetchInv'
  BY <1>28 DEF ReloadSwap, Respond
<1>29. ASSUME NEW c \in Conns, ReloadWipe(c) PROVE FetchInv'
  BY <1>29 DEF ReloadWipe, WipeStep, WipeBegin, WipeEnd
<1>30. ASSUME NEW c \in Conns, ReloadDone(c) PROVE FetchInv'
  BY <1>30 DEF ReloadDone, Respond
<1>31. ASSUME NEW c \in Conns, Reply(c) PROVE FetchInv'
  BY <1>31 DEF Reply
<1>32. ASSUME NEW c \in Conns, Finish(c) PROVE FetchInv'
  BY <1>32 DEF Finish
<1>33. CASE UNCHANGED vars
  BY <1>33 DEF vars
<1> QED
  BY <1>1, <1>2, <1>3, <1>4, <1>5, <1>6, <1>7, <1>8, <1>9, <1>10, <1>11,
     <1>12, <1>13, <1>14, <1>15, <1>16, <1>17, <1>18, <1>19, <1>20, <1>21,
     <1>22, <1>23, <1>24, <1>25, <1>26, <1>27, <1>28, <1>29, <1>30, <1>31,
     <1>32, <1>33
  DEF Next, Handle, Shutdown

\* There are finitely many handlers: each belongs to a connection.
LEMMA HandlersFinite == IsFiniteSet(Handlers)
BY ServerAssumption, FS_Subset DEF Handlers

\* Slots and handlers are counted together.
LEMMA SlotFrame ==
    ASSUME SlotsBounded, Handlers' = Handlers, inFlight' = inFlight,
           stage' \in {"exit", "dead"} \/ stage \notin {"exit", "dead"}
    PROVE  SlotsBounded'
BY DEF SlotsBounded

\* A handler takes a slot when it starts and gives it back when it ends.
LEMMA SlotsStep == BasicInv /\ SlotsBounded /\ [Next]_vars => SlotsBounded'
<1> SUFFICES ASSUME BasicInv /\ SlotsBounded, [Next]_vars PROVE SlotsBounded'
  OBVIOUS
<1> USE ServerAssumption DEF BasicInv, TypeOK, memVars, connVars, procVars, ghosts
<1>1. CASE Save
  BY <1>1, SlotFrame DEF Save, Handlers, HandlerPcs
<1>2. CASE Tick
  BY <1>2, SlotFrame DEF Tick, Handlers, HandlerPcs
<1>3. CASE LockFires
  BY <1>3, SlotFrame DEF LockFires, Handlers, HandlerPcs
<1>4. CASE Signal
  BY <1>4, SlotFrame DEF Signal, Handlers, HandlerPcs
<1>5. CASE CloseListener
  BY <1>5, SlotFrame DEF CloseListener, Drop, Backlog, Handlers, HandlerPcs
<1>6. CASE AcceptFail
  BY <1>6, SlotFrame DEF AcceptFail, Handlers, HandlerPcs
<1>7. CASE ServeReturns
  BY <1>7, SlotFrame DEF ServeReturns, Handlers, HandlerPcs
<1>8. CASE Drained
  BY <1>8, SlotFrame DEF Drained, Handlers, HandlerPcs
<1>9. CASE DrainTimeout
  BY <1>9, SlotFrame DEF DrainTimeout, Handlers, HandlerPcs
<1>10. CASE ShutdownWipe
  BY <1>10, SlotFrame DEF ShutdownWipe, WipeStep, WipeBegin, WipeEnd, Handlers, HandlerPcs
<1>11. CASE ShutdownDone
  BY <1>11, SlotFrame DEF ShutdownDone, Handlers, HandlerPcs
<1>12. CASE Exit
  BY <1>12 DEF Exit, SlotsBounded
<1>13. ASSUME NEW c \in Conns, Dial(c) PROVE SlotsBounded'
  BY <1>13, SlotFrame DEF Dial, Handlers, HandlerPcs
<1>14. ASSUME NEW c \in Conns, Accept(c) PROVE SlotsBounded'
  <2>1. CASE inFlight < MaxConns
    <3>1. /\ inFlight' = inFlight + 1
          /\ stage' = stage /\ stage = "serve"
          /\ Handlers' = Handlers \cup {c} /\ c \notin Handlers
      BY <1>14, <2>1 DEF Accept, Handlers, HandlerPcs
    <3>2. Cardinality(Handlers') = Cardinality(Handlers) + 1
      BY <3>1, HandlersFinite, FS_AddElement
    <3> QED
      BY <2>1, <3>1, <3>2 DEF SlotsBounded
  <2>2. CASE inFlight >= MaxConns
    <3>1. Handlers' = Handlers /\ inFlight' = inFlight /\ stage' = stage
      BY <1>14, <2>2 DEF Accept, Handlers, HandlerPcs
    <3> QED
      BY <3>1 DEF SlotsBounded
  <2> QED
    BY <2>1, <2>2
<1>15. ASSUME NEW c \in Conns, ReadFail(c) PROVE SlotsBounded'
  BY <1>15, SlotFrame DEF ReadFail, Respond, Handlers, HandlerPcs
<1>16. ASSUME NEW c \in Conns, ReadRequest(c) PROVE SlotsBounded'
  BY <1>16, SlotFrame DEF ReadRequest, Handlers, HandlerPcs
<1>17. ASSUME NEW c \in Conns, Query(c) PROVE SlotsBounded'
  BY <1>17, SlotFrame DEF Query, Respond, Handlers, HandlerPcs
<1>18. ASSUME NEW c \in Conns, LockOp(c) PROVE SlotsBounded'
  BY <1>18, SlotFrame DEF LockOp, Respond, Handlers, HandlerPcs
<1>19. ASSUME NEW c \in Conns, FetchBegin(c) PROVE SlotsBounded'
  BY <1>19, SlotFrame DEF FetchBegin, Respond, Handlers, HandlerPcs
<1>20. ASSUME NEW c \in Conns, FetchVar(c) PROVE SlotsBounded'
  BY <1>20, SlotFrame DEF FetchVar, Handlers, HandlerPcs
<1>21. ASSUME NEW c \in Conns, FetchCleared(c) PROVE SlotsBounded'
  BY <1>21, SlotFrame DEF FetchCleared, Respond, Handlers, HandlerPcs
<1>22. ASSUME NEW c \in Conns, FetchFail(c) PROVE SlotsBounded'
  BY <1>22, SlotFrame DEF FetchFail, Respond, Handlers, HandlerPcs
<1>23. ASSUME NEW c \in Conns, FetchDone(c) PROVE SlotsBounded'
  BY <1>23, SlotFrame DEF FetchDone, Respond, Handlers, HandlerPcs
<1>24. ASSUME NEW c \in Conns, MapRace(c) PROVE SlotsBounded'
  BY <1>24 DEF MapRace, SlotsBounded
<1>25. ASSUME NEW c \in Conns, ReloadStart(c) PROVE SlotsBounded'
  BY <1>25, SlotFrame DEF ReloadStart, Handlers, HandlerPcs
<1>26. ASSUME NEW c \in Conns, ReloadLoad(c) PROVE SlotsBounded'
  BY <1>26, SlotFrame DEF ReloadLoad, Handlers, HandlerPcs
<1>27. ASSUME NEW c \in Conns, ReloadFail(c) PROVE SlotsBounded'
  BY <1>27, SlotFrame DEF ReloadFail, Respond, Handlers, HandlerPcs
<1>28. ASSUME NEW c \in Conns, ReloadSwap(c) PROVE SlotsBounded'
  BY <1>28, SlotFrame DEF ReloadSwap, Respond, Handlers, HandlerPcs
<1>29. ASSUME NEW c \in Conns, ReloadWipe(c) PROVE SlotsBounded'
  BY <1>29, SlotFrame DEF ReloadWipe, WipeStep, WipeBegin, WipeEnd, Handlers, HandlerPcs
<1>30. ASSUME NEW c \in Conns, ReloadDone(c) PROVE SlotsBounded'
  BY <1>30, SlotFrame DEF ReloadDone, Respond, Handlers, HandlerPcs
<1>31. ASSUME NEW c \in Conns, Reply(c) PROVE SlotsBounded'
  BY <1>31, SlotFrame DEF Reply, Handlers, HandlerPcs
<1>32. ASSUME NEW c \in Conns, Finish(c) PROVE SlotsBounded'
  <2>1. /\ inFlight' = inFlight - 1
        /\ stage' = stage
        /\ Handlers' = Handlers \ {c} /\ c \in Handlers
    BY <1>32 DEF Finish, Handlers, HandlerPcs
  <2>2. Cardinality(Handlers') = Cardinality(Handlers) - 1
    BY <2>1, HandlersFinite, FS_RemoveElement
  <2> QED
    BY <2>1, <2>2 DEF SlotsBounded
<1>33. CASE UNCHANGED vars
  BY <1>33, SlotFrame DEF vars, Handlers, SlotsBounded
<1> QED
  BY <1>1, <1>2, <1>3, <1>4, <1>5, <1>6, <1>7, <1>8, <1>9, <1>10, <1>11,
     <1>12, <1>13, <1>14, <1>15, <1>16, <1>17, <1>18, <1>19, <1>20, <1>21,
     <1>22, <1>23, <1>24, <1>25, <1>26, <1>27, <1>28, <1>29, <1>30, <1>31,
     <1>32, <1>33
  DEF Next, Handle, Shutdown

\* Until a reload overtakes another, every step keeps the order of versions.
LEMMA OrderStep == BasicInv /\ OrderInv /\ [Next]_vars => OrderInv'
<1> SUFFICES ASSUME BasicInv /\ OrderInv, [Next]_vars PROVE OrderInv'
  OBVIOUS
<1> USE ServerAssumption DEF BasicInv, TypeOK, HandlerInv, FreshInv,
        OrderInv, DiskInv, PendingInv, ServedInv, Installed, Fetched, Built, Gens, Versions, Handlers, HandlerPcs, Unbuilt,
        Unanswered,
        memVars, connVars, procVars, ghosts
<1>1. CASE Save
  BY <1>1 DEF Save, Versions
<1>2. CASE Tick
  BY <1>2 DEF Tick
<1>3. CASE LockFires
  BY <1>3 DEF LockFires
<1>4. CASE Signal
  BY <1>4 DEF Signal
<1>5. CASE CloseListener
  BY <1>5 DEF CloseListener, Drop, Backlog
<1>6. CASE AcceptFail
  BY <1>6 DEF AcceptFail
<1>7. CASE ServeReturns
  BY <1>7 DEF ServeReturns
<1>8. CASE Drained
  BY <1>8 DEF Drained
<1>9. CASE DrainTimeout
  BY <1>9 DEF DrainTimeout
<1>10. CASE ShutdownWipe
  BY <1>10 DEF ShutdownWipe, WipeStep, WipeBegin, WipeEnd
<1>11. CASE ShutdownDone
  BY <1>11 DEF ShutdownDone
<1>12. CASE Exit
  BY <1>12 DEF Exit, Drop, Backlog
<1>13. ASSUME NEW c \in Conns, Dial(c) PROVE OrderInv'
  BY <1>13 DEF Dial
<1>14. ASSUME NEW c \in Conns, Accept(c) PROVE OrderInv'
  BY <1>14 DEF Accept
<1>15. ASSUME NEW c \in Conns, ReadFail(c) PROVE OrderInv'
  BY <1>15 DEF ReadFail, Respond
<1>16. ASSUME NEW c \in Conns, ReadRequest(c) PROVE OrderInv'
  BY <1>16 DEF ReadRequest, Ops
<1>17. ASSUME NEW c \in Conns, Query(c) PROVE OrderInv'
  BY <1>17 DEF Query, Respond
<1>18. ASSUME NEW c \in Conns, LockOp(c) PROVE OrderInv'
  BY <1>18 DEF LockOp, Respond
<1>19. ASSUME NEW c \in Conns, FetchBegin(c) PROVE OrderInv'
  BY <1>19 DEF FetchBegin, Respond
<1>20. ASSUME NEW c \in Conns, FetchVar(c) PROVE OrderInv'
  BY <1>20 DEF FetchVar
<1>21. ASSUME NEW c \in Conns, FetchCleared(c) PROVE OrderInv'
  BY <1>21 DEF FetchCleared, Respond
<1>22. ASSUME NEW c \in Conns, FetchFail(c) PROVE OrderInv'
  BY <1>22 DEF FetchFail, Respond
<1>23. ASSUME NEW c \in Conns, FetchDone(c) PROVE OrderInv'
  BY <1>23 DEF FetchDone, Respond
<1>24. ASSUME NEW c \in Conns, MapRace(c) PROVE OrderInv'
  BY <1>24 DEF MapRace, Drop, Backlog
<1>25. ASSUME NEW c \in Conns, ReloadStart(c) PROVE OrderInv'
  BY <1>25 DEF ReloadStart
<1>26. ASSUME NEW c \in Conns, ReloadLoad(c) PROVE OrderInv'
  BY <1>26 DEF ReloadLoad
<1>27. ASSUME NEW c \in Conns, ReloadFail(c) PROVE OrderInv'
  BY <1>27 DEF ReloadFail, Respond
<1>28. ASSUME NEW c \in Conns, ReloadSwap(c) PROVE OrderInv'
  <2>1. /\ pc[c] = "loaded" /\ pc'[c] \in {"wiping", "replying"}
        /\ op[c] = "reload"
        /\ \A d \in Conns \ {c} : pc'[d] = pc[d] /\ resp'[d] = resp[d]
                                 /\ ref'[d] = ref[d]
        /\ resolver' = c
        /\ UNCHANGED <<disk, ver, op, acked, since>>
    BY <1>28 DEF ReloadSwap, Respond
  <2>2. DiskInv'
    BY <2>1
  <2> SUFFICES ASSUME ~overtaken' PROVE PendingInv' /\ ServedInv'
    BY <2>2
  <2>3. /\ ~overtaken
        /\ \A d \in Conns : pc[d] = "loaded" => ~(ver[d] < ver[c])
    BY <1>28 DEF ReloadSwap
  <2>4. PendingInv /\ ServedInv
    BY <2>3
  <2>5. \A d \in Conns : pc[d] = "loaded" => ver[d] \in Nat /\ ver[c] <= ver[d]
    BY <2>1, <2>3
  <2>6. \A d \in Conns : Installed(d)' => d = c \/ Installed(d)
    BY <2>1
  <2>7. PendingInv'
    BY <2>1, <2>4, <2>5, <2>6
  <2>8. ServedInv'
    <3>1. acked <= ver[c]
      BY <2>1, <2>4
    <3>2. \A d \in Conns : Installed(d)' => ver[d] <= ver[c]
      BY <2>1, <2>4, <2>5, <2>6
    <3>3. ASSUME NEW d \in Conns, Fetched(d)'
          PROVE  Fetched(d) /\ d # c
      BY <2>1, <3>3
    <3> QED
      BY <2>1, <2>4, <3>1, <3>2, <3>3
  <2> QED
    BY <2>7, <2>8
<1>29. ASSUME NEW c \in Conns, ReloadWipe(c) PROVE OrderInv'
  BY <1>29 DEF ReloadWipe, WipeStep, WipeBegin, WipeEnd
<1>30. ASSUME NEW c \in Conns, ReloadDone(c) PROVE OrderInv'
  BY <1>30 DEF ReloadDone, Respond
<1>31. ASSUME NEW c \in Conns, Reply(c) PROVE OrderInv'
  BY <1>31 DEF Reply
<1>32. ASSUME NEW c \in Conns, Finish(c) PROVE OrderInv'
  BY <1>32 DEF Finish
<1>33. CASE UNCHANGED vars
  BY <1>33 DEF vars
<1> QED
  BY <1>1, <1>2, <1>3, <1>4, <1>5, <1>6, <1>7, <1>8, <1>9, <1>10, <1>11,
     <1>12, <1>13, <1>14, <1>15, <1>16, <1>17, <1>18, <1>19, <1>20, <1>21,
     <1>22, <1>23, <1>24, <1>25, <1>26, <1>27, <1>28, <1>29, <1>30, <1>31,
     <1>32, <1>33
  DEF Next, Handle, Shutdown

-----------------------------------------------------------------------------
\* The initial state satisfies the parts of the invariant on top of the types.
LEMMA SafetyInit == Init => ShutdownInv /\ WipeInv /\ FetchInv /\ SlotsBounded
<1> SUFFICES ASSUME Init PROVE ShutdownInv /\ WipeInv /\ FetchInv /\ SlotsBounded
  OBVIOUS
<1> USE ServerAssumption DEF Init, Gens
<1>1. ShutdownInv
  BY DEF ShutdownInv, DrainInv, CutOnlyAfterTimeout
<1>2. WipeInv
  BY DEF WipeInv, OneWiper, PlaintextOwned, WipedOnDrainedExit, Built, Wiped
<1>3. FetchInv
  BY DEF FetchInv, Collected
<1>4. SlotsBounded
  <2>1. Handlers = {}
    BY DEF Handlers, HandlerPcs
  <2> QED
    BY <2>1, FS_EmptySet DEF SlotsBounded
<1> QED
  BY <1>1, <1>2, <1>3, <1>4

\* The types and the bookkeeping of the handlers hold throughout.
LEMMA BasicCorrect == Spec => []BasicInv
BY BasicInit, BasicStep, PTL DEF Spec

\* The facts about the stages of Shutdown hold throughout.
LEMMA ShutdownCorrect == Spec => []ShutdownInv
BY BasicCorrect, SafetyInit, ShutdownStep, PTL DEF Spec

\* Every variable of the agent keeps its type, whatever clients do: counters
\* stay in range and no handler reads the version of a resolver never built.
THEOREM TypeCorrect == Spec => []TypeOK
<1>1. BasicInv => TypeOK
  BY DEF BasicInv
<1> QED
  BY <1>1, BasicCorrect, PTL

\* Shutdown cuts an accepted request off only after its drain timed out.
THEOREM CutCorrect == Spec => []CutOnlyAfterTimeout
<1>1. ShutdownInv => CutOnlyAfterTimeout
  BY DEF ShutdownInv
<1> QED
  BY <1>1, ShutdownCorrect, PTL

\* The ownership of the resolvers holds throughout.
LEMMA WipeCorrect == Spec => []WipeInv
BY BasicCorrect, ShutdownCorrect, SafetyInit, WipeInvStep, PTL DEF Spec

\* However reloads interleave with each other and with Shutdown, decrypted
\* secrets are always owned by the agent or by a running reload.
THEOREM PlaintextCorrect == Spec => []PlaintextOwned
<1>1. WipeInv => PlaintextOwned
  BY DEF WipeInv
<1> QED
  BY <1>1, WipeCorrect, PTL

\* No resolver is wiped by two goroutines at once.
THEOREM OneWiperCorrect == Spec => []OneWiper
<1>1. WipeInv => OneWiper
  BY DEF WipeInv
<1> QED
  BY <1>1, WipeCorrect, PTL

\* A shutdown that drains leaves no decrypted bag behind.
THEOREM WipedCorrect == Spec => []WipedOnDrainedExit
<1>1. WipeInv => WipedOnDrainedExit
  BY DEF WipeInv
<1> QED
  BY <1>1, WipeCorrect, PTL

\* The semaphore counts the handlers exactly and caps them.
THEOREM SlotsCorrect == Spec => []SlotsBounded
BY BasicCorrect, SafetyInit, SlotsStep, PTL DEF Spec

\* With at most one source of type local, an OK reply to a fetch is whole and
\* of one version, for every interleaving with reloads and shutdown.
THEOREM FetchCorrect == SingleLocal => (Spec => []FetchOkGenuine)
<1> SUFFICES ASSUME SingleLocal PROVE Spec => []FetchOkGenuine
  OBVIOUS
<1>1. BasicInv /\ ShutdownInv /\ FetchInv /\ [Next]_vars => FetchInv'
  BY FetchInvStep
<1>2. FetchInv => FetchOkGenuine
  BY DEF FetchInv, Collected, FetchOkGenuine
<1> QED
  BY <1>1, <1>2, BasicCorrect, ShutdownCorrect, SafetyInit, PTL DEF Spec

\* A fetch dialled after the acknowledgement of a reload is answered from the
\* version that reload loaded or a later one, for every number of reloads,
\* saves and fetches, lost replies and a drain that times out, as long as no
\* reload installs its load while another holds an older one.
THEOREM FetchSeesReloadCorrect == Spec => []FetchSeesReload
<1>1. Init => OrderInv
  BY ServerAssumption
  DEF Init, OrderInv, DiskInv, PendingInv, ServedInv, Installed, Fetched, Built, Gens
<1>2. BasicInv /\ OrderInv => FetchSeesReload
  <2> SUFFICES ASSUME BasicInv, OrderInv, ~overtaken,
                      NEW c \in Conns, op[c] = "fetch", resp[c] = "ok"
               PROVE  ver[ref[c]] >= since[c]
    BY DEF FetchSeesReload
  <2>1. ref[c] \in Gens /\ Built(ref[c]) /\ since[c] <= ver[ref[c]]
    BY DEF OrderInv, ServedInv, Fetched
  <2>2. ver[ref[c]] \in Nat /\ since[c] \in Nat
    BY <2>1, ServerAssumption DEF BasicInv, TypeOK, Built, Versions
  <2> QED
    BY <2>1, <2>2
<1> QED
  BY <1>1, <1>2, OrderStep, BasicCorrect, PTL DEF Spec
=============================================================================
