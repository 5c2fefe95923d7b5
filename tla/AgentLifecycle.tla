--------------------------- MODULE AgentLifecycle ---------------------------
(***************************************************************************)
(* How agent processes come and go: `jitenv unlock` forks a child and polls *)
(* for the socket file, the child takes the pidfile's lock, binds the       *)
(* socket, writes the pidfile, serves, and undoes all that on shutdown.     *)
(* Processes share three files: the lock (released by the kernel when its   *)
(* holder dies), the socket path and the pidfile (both survive a crash).    *)
(*                                                                         *)
(* An unlock forks at most one child, so a child and its pid are named by   *)
(* the unlock that forked it.                                               *)
(***************************************************************************)
EXTENDS Naturals, FiniteSets

CONSTANTS Unlocks,     \* runs of SpawnDaemon
          MaxCrashes,  \* bound on kills of an agent from outside
          None

ASSUME LifecycleAssumption == None \notin Unlocks /\ MaxCrashes \in Nat

VARIABLES
    upc,        \* progress of each unlock
    apc,        \* progress of each child agent
    lock,       \* holder of agent.pid.lock
    sock,       \* the agent that bound the inode at the socket path
    pidfile,    \* the pid in agent.pid
    late,       \* agents whose listener is still to be closed (and unlinked)
                \* by the context goroutine after the accept loop failed
    reused,     \* pids of dead agents that an unrelated process has now
    unclean,    \* some agent died without running Shutdown
    stray,      \* a listener was closed after its agent released the lock
    blocked,    \* agents that gave up in Listen with no other agent alive
                \* (lock), or because the socket path was taken (bind)
    crashes

ghosts == <<unclean, stray, blocked>>
vars == <<upc, apc, lock, sock, pidfile, late, reused, ghosts, crashes>>

\* An agent from taking the lock to giving it back.
Owning == {"locked", "cleared", "bound", "serving", "closing", "draining",
           "unsocked", "unpidded"}
Live == Owning \cup {"boot", "released"}
Waiting == {"checked", "waiting"}
Returned == {"ok", "refused", "early", "timeout"}

\* Its socket accepts connections.
Listening(a) == apc[a] \in {"bound", "serving", "closing"}
PidAlive(p) == apc[p] \in Live \/ p \in reused

Init ==
    /\ upc = [u \in Unlocks |-> "idle"]
    /\ apc = [a \in Unlocks |-> "none"]
    /\ lock = None
    /\ sock = None
    /\ pidfile = None
    /\ late = {}
    /\ reused = {}
    /\ unclean = FALSE
    /\ stray = FALSE
    /\ blocked = {}
    /\ crashes = 0

-----------------------------------------------------------------------------
(* The agent process                                                       *)

Move(a, from, to) == apc[a] = from /\ apc' = [apc EXCEPT ![a] = to]

\* The process is gone: the kernel drops its lock, the files stay.
Dies(a) ==
    /\ apc' = [apc EXCEPT ![a] = "exited"]
    /\ lock' = IF lock = a THEN None ELSE lock
    /\ late' = late \ {a}

\* The key cannot be read, or the config does not load, decrypt or validate.
BootFail(a) ==
    /\ Move(a, "boot", "exited")
    /\ UNCHANGED <<upc, lock, sock, pidfile, late, reused, ghosts, crashes>>

\* Mutant: the lock is not tested.
AcquireAnyway(a) ==
    /\ Move(a, "boot", "locked")
    /\ lock' = a
    /\ UNCHANGED <<upc, sock, pidfile, late, reused, ghosts, crashes>>

\* a finds a live agent other than itself.
Rival(a) == \E b \in Unlocks \ {a} : apc[b] \in Live

\* Mutant: the agent goes by the pidfile, which outlives its writer.
AcquireByPidfile(a) ==
    /\ \/ /\ lock = None
          /\ pidfile = None
          /\ Move(a, "boot", "locked")
          /\ lock' = a
          /\ UNCHANGED blocked
       \/ /\ lock # None \/ pidfile # None
          /\ Move(a, "boot", "exited")
          /\ blocked' = IF Rival(a) THEN blocked ELSE blocked \cup {a}
          /\ UNCHANGED lock
    /\ UNCHANGED <<upc, sock, pidfile, late, reused, unclean, stray, crashes>>

\* Listen: the lock is taken without waiting, or the process gives up.
Acquire(a) ==
    /\ \/ /\ lock = None
          /\ Move(a, "boot", "locked")
          /\ lock' = a
          /\ UNCHANGED blocked
       \/ /\ lock # None
          /\ Move(a, "boot", "exited")
          /\ blocked' = IF Rival(a) THEN blocked ELSE blocked \cup {a}
          /\ UNCHANGED lock
    /\ UNCHANGED <<upc, sock, pidfile, late, reused, unclean, stray, crashes>>

\* Listen: the socket a crashed agent left is removed.
RemoveStale(a) ==
    /\ Move(a, "locked", "cleared")
    /\ sock' = None
    /\ UNCHANGED <<upc, lock, pidfile, late, reused, ghosts, crashes>>

\* listenSocket succeeds.
Bind(a) ==
    /\ Move(a, "cleared", "bound")
    /\ sock = None
    /\ sock' = a
    /\ UNCHANGED <<upc, lock, pidfile, late, reused, ghosts, crashes>>

\* listenSocket fails: the lock is closed and the process returns.
BindFail(a) ==
    /\ Move(a, "cleared", "exited")
    /\ lock' = None
    /\ blocked' = IF sock = None THEN blocked ELSE blocked \cup {a}
    /\ UNCHANGED <<upc, sock, pidfile, late, reused, unclean, stray, crashes>>

\* Mutant: the pidfile is created with no pid in it.
WritePidZero(a) ==
    /\ Move(a, "bound", "serving")
    /\ pidfile' = 0
    /\ UNCHANGED <<upc, lock, sock, late, reused, ghosts, crashes>>

\* Listen: WritePidFile, the last thing before Serve.
WritePid(a) ==
    /\ Move(a, "bound", "serving")
    /\ pidfile' = a
    /\ UNCHANGED <<upc, lock, sock, late, reused, ghosts, crashes>>

\* The pidfile cannot be written: the process returns, Shutdown never runs.
WritePidFail(a) ==
    /\ apc[a] = "bound"
    /\ Dies(a)
    /\ unclean' = TRUE
    /\ UNCHANGED <<upc, sock, pidfile, reused, stray, blocked, crashes>>

\* jitenv lock, the idle timeout or a signal.
Cancel(a) ==
    /\ Move(a, "serving", "closing")
    /\ UNCHANGED <<upc, lock, sock, pidfile, late, reused, ghosts, crashes>>

\* The context goroutine closes the listener, which unlinks the socket PATH.
CloseListener(a) ==
    /\ Move(a, "closing", "draining")
    /\ sock' = None
    /\ UNCHANGED <<upc, lock, pidfile, late, reused, ghosts, crashes>>

\* Accept fails with the context live: Serve returns, Shutdown cancels, and
\* the context goroutine closes the listener whenever it is scheduled.
AcceptFail(a) ==
    /\ Move(a, "serving", "draining")
    /\ late' = late \cup {a}
    /\ UNCHANGED <<upc, lock, sock, pidfile, reused, ghosts, crashes>>

LateClose(a) ==
    /\ a \in late
    /\ late' = late \ {a}
    /\ sock' = None
    /\ stray' = (stray \/ lock # a)
    /\ UNCHANGED <<upc, apc, lock, pidfile, reused, unclean, blocked, crashes>>

\* Shutdown after the drain: socket, pidfile, lock, in this order.
RemoveSocket(a) ==
    /\ Move(a, "draining", "unsocked")
    /\ sock' = None
    /\ UNCHANGED <<upc, lock, pidfile, late, reused, ghosts, crashes>>

\* Mutant: the pidfile is left to the next agent to overwrite.
RemovePidSkipped(a) ==
    /\ Move(a, "unsocked", "unpidded")
    /\ UNCHANGED <<upc, lock, sock, pidfile, late, reused, ghosts, crashes>>

RemovePid(a) ==
    /\ Move(a, "unsocked", "unpidded")
    /\ pidfile' = None
    /\ UNCHANGED <<upc, lock, sock, late, reused, ghosts, crashes>>

ReleaseLock(a) ==
    /\ Move(a, "unpidded", "released")
    /\ lock' = None
    /\ UNCHANGED <<upc, sock, pidfile, late, reused, ghosts, crashes>>

\* Shutdown has wiped the resolver and main returns.
Exit(a) ==
    /\ apc[a] = "released"
    /\ Dies(a)
    /\ UNCHANGED <<upc, sock, pidfile, reused, ghosts, crashes>>

\* SIGKILL, a panic, a fatal runtime error.
Crash(a) ==
    /\ apc[a] \in Live
    /\ crashes < MaxCrashes
    /\ crashes' = crashes + 1
    /\ Dies(a)
    /\ unclean' = TRUE
    /\ UNCHANGED <<upc, sock, pidfile, reused, stray, blocked>>

\* The kernel gives the pid of a dead agent to another process.
PidReuse(a) ==
    /\ apc[a] = "exited"
    /\ a \notin reused
    /\ reused' = reused \cup {a}
    /\ UNCHANGED <<upc, apc, lock, sock, pidfile, late, ghosts, crashes>>

-----------------------------------------------------------------------------
(* SpawnDaemon                                                             *)

\* The pidfile names a live process: unlock refuses; otherwise it goes on.
Check(u) ==
    /\ upc[u] = "idle"
    /\ upc' = [upc EXCEPT ![u] =
                 IF pidfile # None /\ PidAlive(pidfile) THEN "refused"
                 ELSE "checked"]
    /\ UNCHANGED <<apc, lock, sock, pidfile, late, reused, ghosts, crashes>>

Fork(u) ==
    /\ upc[u] = "checked"
    /\ upc' = [upc EXCEPT ![u] = "waiting"]
    /\ apc' = [apc EXCEPT ![u] = "boot"]
    /\ UNCHANGED <<lock, sock, pidfile, late, reused, ghosts, crashes>>

\* The socket path exists: success.
StatSocket(u) ==
    /\ upc[u] = "waiting"
    /\ sock # None
    /\ upc' = [upc EXCEPT ![u] = "ok"]
    /\ UNCHANGED <<apc, lock, sock, pidfile, late, reused, ghosts, crashes>>

\* cmd.Wait returned first.
ChildExited(u) ==
    /\ upc[u] = "waiting"
    /\ apc[u] = "exited"
    /\ upc' = [upc EXCEPT ![u] = "early"]
    /\ UNCHANGED <<apc, lock, sock, pidfile, late, reused, ghosts, crashes>>

\* The deadline passes: the child is killed and waited for.
SpawnTimeout(u) ==
    /\ upc[u] = "waiting"
    /\ upc' = [upc EXCEPT ![u] = "timeout"]
    /\ Dies(u)
    /\ unclean' = (unclean \/ apc[u] \in Live)
    /\ UNCHANGED <<sock, pidfile, reused, stray, blocked, crashes>>

-----------------------------------------------------------------------------
Start(a) ==
    \/ BootFail(a) \/ Acquire(a) \/ RemoveStale(a) \/ Bind(a) \/ BindFail(a)
    \/ WritePid(a) \/ WritePidFail(a)

Stop(a) ==
    \/ CloseListener(a) \/ LateClose(a) \/ RemoveSocket(a) \/ RemovePid(a)
    \/ ReleaseLock(a) \/ Exit(a)

Spawn(u) == Check(u) \/ Fork(u) \/ StatSocket(u) \/ ChildExited(u) \/ SpawnTimeout(u)

Next ==
    \E a \in Unlocks :
        \/ Start(a) \/ Stop(a) \/ Spawn(a)
        \/ Cancel(a) \/ AcceptFail(a) \/ Crash(a) \/ PidReuse(a)

Spec == Init /\ [][Next]_vars

\* An agent that is stopping runs on to its end; no one has to run unlock,
\* lock the agent or kill it, and a child may start as slowly as it likes.
Fairness == \A a \in Unlocks : WF_vars(Stop(a))

FairSpec == Spec /\ Fairness

-----------------------------------------------------------------------------
(* Properties                                                              *)

\* The lock, the socket and the pidfile name an agent or nothing.
TypeOK ==
    /\ upc \in [Unlocks -> {"idle"} \cup Waiting \cup Returned]
    /\ apc \in [Unlocks -> {"none", "exited"} \cup Live]
    /\ lock \in Unlocks \cup {None}
    /\ sock \in Unlocks \cup {None}
    /\ pidfile \in Unlocks \cup {None}
    /\ late \subseteq Unlocks
    /\ reused \subseteq Unlocks
    /\ unclean \in BOOLEAN
    /\ stray \in BOOLEAN
    /\ blocked \subseteq Unlocks
    /\ crashes \in 0 .. MaxCrashes

\* However unlocks, shutdowns and crashes interleave, the pidfile and the
\* socket of a serving agent are its own: no agent on its way out, and no
\* second agent on its way in, removes or replaces them.  The exception is a
\* listener closed late after a failed accept loop, which unlinks by path.
ServingOwnsFiles ==
    \A a \in Unlocks : apc[a] = "serving" =>
        /\ pidfile = a
        /\ sock = a \/ stray

\* At most one agent listens, also while one hands over to the next.
OneListening ==
    \A a, b \in Unlocks : Listening(a) /\ Listening(b) => a = b

\* When every agent is gone and none died without Shutdown, neither socket nor
\* pidfile is left to mislead the next unlock.
CleanExitLeavesNothing ==
    ~unclean /\ (\A a \in Unlocks : apc[a] \in {"none", "exited"})
        => sock = None /\ pidfile = None

\* What SpawnDaemon and Spawn document: success means that an agent listens.
SpawnOkMeansListening ==
    [][\A u \in Unlocks : upc[u] # "ok" /\ upc'[u] = "ok" =>
            sock # None /\ Listening(sock)]_vars

\* What a killed agent leaves behind, its socket, its pidfile or the lock file,
\* never keeps the next one from starting, also when the dead agent's pid is in
\* use again: Listen gives up only because another agent is alive, or because
\* the system refuses to bind a path that is free (Listen, lockfile.Acquire).
LeftoversDoNotBlock == blocked = {}
=============================================================================
