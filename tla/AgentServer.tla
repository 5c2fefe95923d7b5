---------------------------- MODULE AgentServer ----------------------------
(***************************************************************************)
(* The jitenv agent process from the moment it listens until it exits:     *)
(* the accept loop, one handler goroutine per connection, the resolver     *)
(* that OpReload swaps and wipes, the idle ticker, the delayed cancel of   *)
(* OpLock and the shutdown sequence.                                       *)
(*                                                                         *)
(* A connection carries one request, as the client makes it.  A resolver   *)
(* is named by the connection whose reload built it, or Boot.  The config  *)
(* on disk is a version number; a variable fetched from a resolver built   *)
(* on version v has the value v, unless the wipe blanked it.  Every local  *)
(* source of one resolver shares the resolver's decrypted bag map.         *)
(***************************************************************************)
EXTENDS Integers, Sequences, FiniteSets

CONSTANTS
    Conns,          \* connections clients may open
    Reloaders,      \* the connections that may carry OpReload
    LocalSources,   \* sources of type "local", wiped with the resolver
    RemoteSources,  \* every other source, literals included: nothing to wipe
    VarSources,     \* the source of each variable of the mapping, in order
    MaxConns,       \* maxConcurrentAgentConns
    MaxSaves,       \* bound on the saves of the config file
    IdleTimeout,    \* idle timeout in ticks of the idle loop, 0 disables it
    Boot,           \* names the resolver built at start-up
    Blank,          \* a wiped value, the empty string
    None

Gens == Conns \cup {Boot}
Versions == 0 .. MaxSaves

ASSUME ServerAssumption ==
    /\ IsFiniteSet(Conns)
    /\ Reloaders \subseteq Conns
    /\ Boot \notin Conns
    /\ None \notin Gens \cup LocalSources \cup RemoteSources \cup Versions
    /\ Blank \notin Versions
    /\ LocalSources \cap RemoteSources = {}
    /\ VarSources \in Seq(LocalSources \cup RemoteSources)
    /\ VarSources # <<>>
    /\ MaxConns \in Nat \ {0}
    /\ MaxSaves \in Nat
    /\ IdleTimeout \in Nat

VARIABLES
    disk,       \* version of the config file
    resolver,   \* Agent.resolver: a generation, or None after Shutdown
    ver,        \* ver[g]: the version g was built from, None when not built
    cleared,    \* cleared[g]: the local sources of g whose bags are nil
    wiping,     \* wiping[g]: the local source whose Wipe holds its lock
    pc, op,     \* per connection: progress and requested operation
    ref,        \* the resolver a handler captured (fetch) or replaced (reload)
    pos, got,   \* fetchVars: variables done, values obtained
    resp,       \* the response the handler computed
    inFlight,   \* Agent.inFlight, the semaphore's length
    stage,      \* progress of the main goroutine
    listening, ctxDone, lockTimer, age,
    timedOut,   \* Shutdown gave up waiting for handlers
    \* Observations; no action's guard reads them.
    acked,      \* highest version a delivered OK reply to OpReload stands for
    since,      \* since[c]: acked when the client of c dialled
    overtaken   \* a reload installed its load before another's older one

memVars  == <<ver, cleared, wiping>>
connVars == <<pc, op, ref, pos, got, resp>>
procVars == <<stage, listening, ctxDone, lockTimer, age, timedOut>>
ghosts == <<acked, since, overtaken>>
vars == <<disk, resolver, memVars, connVars, inFlight, procVars, ghosts>>

HandlerPcs == {"reading", "dispatch", "fetching", "loading", "loaded",
               "wiping", "replying", "closing"}
EndPcs == {"done", "rejected", "eof", "cut"}
Handlers == {c \in Conns : pc[c] \in HandlerPcs}

Ops(c) == {"fetch", "query", "lock"} \cup
          (IF c \in Reloaders THEN {"reload"} ELSE {})

Built(g) == ver[g] # None
Wiped(g) == cleared[g] = LocalSources
\* Shutdown holds a.mu while it wipes; every other section of a.mu is a step.
MuFree == stage # "wipe"

Init ==
    /\ disk = 0
    /\ resolver = Boot
    /\ ver = [g \in Gens |-> IF g = Boot THEN 0 ELSE None]
    /\ cleared = [g \in Gens |-> {}]
    /\ wiping = [g \in Gens |-> None]
    /\ pc = [c \in Conns |-> "idle"]
    /\ op = [c \in Conns |-> "none"]
    /\ ref = [c \in Conns |-> None]
    /\ pos = [c \in Conns |-> 0]
    /\ got = [c \in Conns |-> {}]
    /\ resp = [c \in Conns |-> "none"]
    /\ inFlight = 0
    /\ stage = "serve"
    /\ listening = TRUE
    /\ ctxDone = FALSE
    /\ lockTimer = FALSE
    /\ age = 0
    /\ timedOut = FALSE
    /\ acked = 0
    /\ since = [c \in Conns |-> 0]
    /\ overtaken = FALSE

-----------------------------------------------------------------------------
(* Clients and editors                                                     *)

\* An editor or a sync pull replaces the config file (atomic rename).
Save ==
    /\ disk < MaxSaves
    /\ disk' = disk + 1
    /\ UNCHANGED <<resolver, memVars, connVars, inFlight, procVars, ghosts>>

\* Client.call connects; the connection waits in the listener's backlog.
Dial(c) ==
    /\ listening
    /\ pc[c] = "idle"
    /\ pc' = [pc EXCEPT ![c] = "dialed"]
    /\ since' = [since EXCEPT ![c] = acked]
    /\ UNCHANGED <<disk, resolver, memVars, op, ref, pos, got, resp, inFlight,
                   procVars, acked, overtaken>>

-----------------------------------------------------------------------------
(* The accept loop and the handler up to dispatch                          *)

\* Mutant: the cap is off by one.
AcceptOneMore(c) ==
    /\ stage = "serve"
    /\ listening
    /\ pc[c] = "dialed"
    /\ inFlight <= MaxConns
    /\ inFlight' = inFlight + 1
    /\ pc' = [pc EXCEPT ![c] = "reading"]
    /\ UNCHANGED <<disk, resolver, memVars, op, ref, pos, got, resp, procVars,
                   ghosts>>

\* A free semaphore slot starts a handler; at the cap the connection is closed.
Accept(c) ==
    /\ stage = "serve"
    /\ listening
    /\ pc[c] = "dialed"
    /\ \/ /\ inFlight < MaxConns
          /\ inFlight' = inFlight + 1
          /\ pc' = [pc EXCEPT ![c] = "reading"]
       \/ /\ inFlight >= MaxConns
          /\ pc' = [pc EXCEPT ![c] = "rejected"]
          /\ UNCHANGED inFlight
    /\ UNCHANGED <<disk, resolver, memVars, op, ref, pos, got, resp, procVars,
                   ghosts>>

\* The handler has its response and goes on to write it.
Respond(c, r) ==
    /\ pc' = [pc EXCEPT ![c] = "replying"]
    /\ resp' = [resp EXCEPT ![c] = r]

\* Foreign peer, malformed message or expired deadline: no request is counted.
ReadFail(c) ==
    /\ pc[c] = "reading"
    /\ Respond(c, "error")
    /\ UNCHANGED <<disk, resolver, memVars, op, ref, pos, got, inFlight,
                   procVars, ghosts>>

\* A request is read: the idle clock restarts.
ReadRequest(c) ==
    /\ pc[c] = "reading"
    /\ \E o \in Ops(c) : op' = [op EXCEPT ![c] = o]
    /\ pc' = [pc EXCEPT ![c] = "dispatch"]
    /\ age' = 0
    /\ UNCHANGED <<disk, resolver, memVars, ref, pos, got, resp, inFlight,
                   stage, listening, ctxDone, lockTimer, timedOut, ghosts>>

\* OpStatus, OpIsMapped, OpCwdCommands: answered from the current resolver's
\* index and names, which no wipe touches, or from none.
Query(c) ==
    /\ pc[c] = "dispatch"
    /\ op[c] = "query"
    /\ MuFree
    /\ Respond(c, "ok")
    /\ UNCHANGED <<disk, resolver, memVars, op, ref, pos, got, inFlight,
                   procVars, ghosts>>

LockOp(c) ==
    /\ pc[c] = "dispatch"
    /\ op[c] = "lock"
    /\ Respond(c, "ok")
    /\ UNCHANGED <<disk, resolver, memVars, op, ref, pos, got, inFlight,
                   procVars, ghosts>>

-----------------------------------------------------------------------------
(* OpFetchEnv and OpFetchEnvCwd                                            *)

\* currentResolver(): captured once, used for the whole request.
FetchBegin(c) ==
    /\ pc[c] = "dispatch"
    /\ op[c] = "fetch"
    /\ MuFree
    /\ IF resolver = None
       THEN /\ Respond(c, "empty")
            /\ UNCHANGED ref
       ELSE /\ pc' = [pc EXCEPT ![c] = "fetching"]
            /\ ref' = [ref EXCEPT ![c] = resolver]
            /\ UNCHANGED resp
    /\ UNCHANGED <<disk, resolver, memVars, op, pos, got, inFlight, procVars,
                   ghosts>>

NextSource(c) == VarSources[pos[c] + 1]

\* What a read of g's shared bag map may return: the value, the blank, or
\* either while another local source of g is blanking the map.
BagValues(g) ==
    CASE cleared[g] # {} -> {Blank}
      [] cleared[g] = {} /\ wiping[g] # None -> {ver[g], Blank}
      [] OTHER -> {ver[g]}

\* Mutant: each variable is read from the resolver current at that moment.
FetchVarCurrent(c) ==
    /\ pc[c] = "fetching"
    /\ pos[c] < Len(VarSources)
    /\ resolver # None
    /\ got' = [got EXCEPT ![c] = @ \cup {ver[resolver]}]
    /\ pos' = [pos EXCEPT ![c] = @ + 1]
    /\ UNCHANGED <<disk, resolver, memVars, pc, op, ref, resp, inFlight,
                   procVars, ghosts>>

\* One iteration of fetchVars.  A local source reads under its own lock.
FetchVar(c) ==
    /\ pc[c] = "fetching"
    /\ pos[c] < Len(VarSources)
    /\ \/ /\ NextSource(c) \in LocalSources
          /\ NextSource(c) \notin cleared[ref[c]]
          /\ wiping[ref[c]] # NextSource(c)
          /\ \E v \in BagValues(ref[c]) :
                got' = [got EXCEPT ![c] = @ \cup {v}]
       \/ /\ NextSource(c) \in RemoteSources
          /\ got' = [got EXCEPT ![c] = @ \cup {ver[ref[c]]}]
    /\ pos' = [pos EXCEPT ![c] = @ + 1]
    /\ UNCHANGED <<disk, resolver, memVars, pc, op, ref, resp, inFlight,
                   procVars, ghosts>>

\* errBagsCleared: the source was wiped since the resolver was captured.
FetchCleared(c) ==
    /\ pc[c] = "fetching"
    /\ pos[c] < Len(VarSources)
    /\ NextSource(c) \in cleared[ref[c]]
    /\ wiping[ref[c]] # NextSource(c)
    /\ Respond(c, "cleared")
    /\ UNCHANGED <<disk, resolver, memVars, op, ref, pos, got, inFlight,
                   procVars, ghosts>>

\* A remote call fails or is cancelled, a bag or a key is missing.
FetchFail(c) ==
    /\ pc[c] = "fetching"
    /\ pos[c] < Len(VarSources)
    /\ NextSource(c) \in LocalSources => wiping[ref[c]] # NextSource(c)
    /\ Respond(c, "error")
    /\ UNCHANGED <<disk, resolver, memVars, op, ref, pos, got, inFlight,
                   procVars, ghosts>>

FetchDone(c) ==
    /\ pc[c] = "fetching"
    /\ pos[c] = Len(VarSources)
    /\ Respond(c, "ok")
    /\ UNCHANGED <<disk, resolver, memVars, op, ref, pos, got, inFlight,
                   procVars, ghosts>>

-----------------------------------------------------------------------------
(* resolver.Wipe, one local source after the other in map order            *)

\* localSource.Wipe takes the source's lock and starts blanking the bags.
WipeBegin(g) ==
    /\ wiping[g] = None
    /\ \E s \in LocalSources \ cleared[g] : wiping' = [wiping EXCEPT ![g] = s]
    /\ UNCHANGED <<ver, cleared>>

\* It drops its reference and releases the lock.
WipeEnd(g) ==
    /\ wiping[g] # None
    /\ cleared' = [cleared EXCEPT ![g] = @ \cup {wiping[g]}]
    /\ wiping' = [wiping EXCEPT ![g] = None]
    /\ UNCHANGED ver

WipeStep(g) == WipeBegin(g) \/ WipeEnd(g)

-----------------------------------------------------------------------------
(* OpReload                                                                *)

ReloadStart(c) ==
    /\ pc[c] = "dispatch"
    /\ op[c] = "reload"
    /\ MuFree
    /\ pc' = [pc EXCEPT ![c] = "loading"]
    /\ UNCHANGED <<disk, resolver, memVars, op, ref, pos, got, resp, inFlight,
                   procVars, ghosts>>

\* loadAndBuild reads, decrypts and validates the file without a.mu.
ReloadLoad(c) ==
    /\ pc[c] = "loading"
    /\ pc' = [pc EXCEPT ![c] = "loaded"]
    /\ ver' = [ver EXCEPT ![c] = disk]
    /\ UNCHANGED <<disk, resolver, cleared, wiping, op, ref, pos, got, resp,
                   inFlight, procVars, ghosts>>

ReloadFail(c) ==
    /\ pc[c] = "loading"
    /\ Respond(c, "error")
    /\ UNCHANGED <<disk, resolver, memVars, op, ref, pos, got, inFlight,
                   procVars, ghosts>>

\* Mutant: the old resolver is replaced and never wiped.
ReloadSwapNoWipe(c) ==
    /\ pc[c] = "loaded"
    /\ MuFree
    /\ ref' = [ref EXCEPT ![c] = resolver]
    /\ resolver' = c
    /\ Respond(c, "ok")
    /\ UNCHANGED <<disk, memVars, op, pos, got, inFlight, procVars, ghosts>>

\* Mutant: the old resolver is wiped and stays the current one.
ReloadSwapForgets(c) ==
    /\ pc[c] = "loaded"
    /\ MuFree
    /\ ref' = [ref EXCEPT ![c] = resolver]
    /\ IF resolver = None
       THEN Respond(c, "ok")
       ELSE /\ pc' = [pc EXCEPT ![c] = "wiping"]
            /\ UNCHANGED resp
    /\ UNCHANGED <<disk, resolver, memVars, op, pos, got, inFlight, procVars,
                   ghosts>>

\* Mutant: a reload that finds another one still wiping is taken as done.
ReloadSwapCoalesced(c) ==
    /\ pc[c] = "loaded"
    /\ MuFree
    /\ IF \E d \in Conns : pc[d] = "wiping"
       THEN /\ Respond(c, "ok")
            /\ UNCHANGED <<resolver, ref>>
       ELSE /\ ref' = [ref EXCEPT ![c] = resolver]
            /\ resolver' = c
            /\ IF resolver = None
               THEN Respond(c, "ok")
               ELSE /\ pc' = [pc EXCEPT ![c] = "wiping"]
                    /\ UNCHANGED resp
    /\ UNCHANGED <<disk, memVars, op, pos, got, inFlight, procVars, ghosts>>

\* Under a.mu: the new resolver replaces the old one, which this handler wipes.
ReloadSwap(c) ==
    /\ pc[c] = "loaded"
    /\ MuFree
    /\ ref' = [ref EXCEPT ![c] = resolver]
    /\ resolver' = c
    /\ IF resolver = None
       THEN Respond(c, "ok")
       ELSE /\ pc' = [pc EXCEPT ![c] = "wiping"]
            /\ UNCHANGED resp
    /\ overtaken' = (overtaken \/ \E d \in Conns : pc[d] = "loaded" /\ ver[d] < ver[c])
    /\ UNCHANGED <<disk, memVars, op, pos, got, inFlight, procVars, acked, since>>

ReloadWipe(c) ==
    /\ pc[c] = "wiping"
    /\ WipeStep(ref[c])
    /\ UNCHANGED <<disk, resolver, connVars, inFlight, procVars, ghosts>>

ReloadDone(c) ==
    /\ pc[c] = "wiping"
    /\ Wiped(ref[c])
    /\ Respond(c, "ok")
    /\ UNCHANGED <<disk, resolver, memVars, op, ref, pos, got, inFlight,
                   procVars, ghosts>>

-----------------------------------------------------------------------------
(* The end of a handler                                                    *)

\* The reply reaches the client, or its deadline passed and it is lost.
\* OpLock arms the delayed cancel either way.
Reply(c) ==
    /\ pc[c] = "replying"
    /\ pc' = [pc EXCEPT ![c] = "closing"]
    /\ \/ /\ op[c] = "reload" /\ resp[c] = "ok" /\ ver[c] > acked
          /\ acked' = ver[c]
       \/ UNCHANGED acked
    /\ lockTimer' = (lockTimer \/ op[c] = "lock")
    /\ UNCHANGED <<disk, resolver, memVars, op, ref, pos, got, resp, inFlight,
                   stage, listening, ctxDone, age, timedOut, since, overtaken>>

\* The deferred calls: the slot is given back and the wait group counted down.
Finish(c) ==
    /\ pc[c] = "closing"
    /\ pc' = [pc EXCEPT ![c] = "done"]
    /\ inFlight' = inFlight - 1
    /\ UNCHANGED <<disk, resolver, memVars, op, ref, pos, got, resp, procVars,
                   ghosts>>

-----------------------------------------------------------------------------
(* Cancellation                                                            *)

\* Mutant: the idle loop goes on after it cancelled.
TickForever ==
    /\ IdleTimeout > 0
    /\ stage = "serve"
    /\ age' = age + 1
    /\ IF age + 1 > IdleTimeout THEN ctxDone' = TRUE ELSE UNCHANGED ctxDone
    /\ UNCHANGED <<disk, resolver, memVars, connVars, inFlight, stage,
                   listening, lockTimer, timedOut, ghosts>>

\* The idle loop's ticker: it cancels once more than IdleTimeout has passed.
Tick ==
    /\ IdleTimeout > 0
    /\ ~ctxDone
    /\ stage = "serve"
    /\ age' = age + 1
    /\ IF age + 1 > IdleTimeout THEN ctxDone' = TRUE ELSE UNCHANGED ctxDone
    /\ UNCHANGED <<disk, resolver, memVars, connVars, inFlight, stage,
                   listening, lockTimer, timedOut, ghosts>>

\* The goroutine OpLock left behind cancels after its 50 ms sleep.
LockFires ==
    /\ lockTimer
    /\ stage \notin {"exit", "dead"}
    /\ lockTimer' = FALSE
    /\ ctxDone' = TRUE
    /\ UNCHANGED <<disk, resolver, memVars, connVars, inFlight, stage,
                   listening, age, timedOut, ghosts>>

\* SIGINT or SIGTERM.
Signal ==
    /\ ~ctxDone
    /\ stage = "serve"
    /\ ctxDone' = TRUE
    /\ UNCHANGED <<disk, resolver, memVars, connVars, inFlight, stage,
                   listening, lockTimer, age, timedOut, ghosts>>

\* Every connection in the set S ends as e, those of T as f.
Drop(S, e, T, f) ==
    pc' = [c \in Conns |-> IF c \in S THEN e ELSE IF c \in T THEN f ELSE pc[c]]

Backlog == {c \in Conns : pc[c] = "dialed"}

\* The goroutine waiting on the context closes the listener; connections that
\* were never accepted see end of file.
CloseListener ==
    /\ ctxDone
    /\ listening
    /\ stage \notin {"exit", "dead"}
    /\ listening' = FALSE
    /\ Drop(Backlog, "eof", {}, "cut")
    /\ UNCHANGED <<disk, resolver, memVars, op, ref, pos, got, resp, inFlight,
                   stage, ctxDone, lockTimer, age, timedOut, ghosts>>

-----------------------------------------------------------------------------
(* Serve returns and Shutdown runs                                         *)

\* Accept reports the closed listener; Shutdown cancels and waits.
ServeReturns ==
    /\ stage = "serve"
    /\ ~listening
    /\ stage' = "drain"
    /\ UNCHANGED <<disk, resolver, memVars, connVars, inFlight, listening,
                   ctxDone, lockTimer, age, timedOut, ghosts>>

\* Accept fails for another reason: Serve returns with the listener open.
AcceptFail ==
    /\ stage = "serve"
    /\ listening
    /\ stage' = "drain"
    /\ ctxDone' = TRUE
    /\ UNCHANGED <<disk, resolver, memVars, connVars, inFlight, listening,
                   lockTimer, age, timedOut, ghosts>>

\* Mutant: Shutdown does not wait for the handlers.
DrainedAtOnce ==
    /\ stage = "drain"
    /\ stage' = "wipe"
    /\ UNCHANGED <<disk, resolver, memVars, connVars, inFlight, listening,
                   ctxDone, lockTimer, age, timedOut, ghosts>>

\* Mutant: Shutdown waits for the handlers without a timeout.
DrainUnbounded == FALSE

\* The wait group is down to zero; a.mu is taken for the wipe.
Drained ==
    /\ stage = "drain"
    /\ Handlers = {}
    /\ stage' = "wipe"
    /\ UNCHANGED <<disk, resolver, memVars, connVars, inFlight, listening,
                   ctxDone, lockTimer, age, timedOut, ghosts>>

\* shutdownDrainTimeout passes with handlers still running.
DrainTimeout ==
    /\ stage = "drain"
    /\ Handlers # {}
    /\ stage' = "wipe"
    /\ timedOut' = TRUE
    /\ UNCHANGED <<disk, resolver, memVars, connVars, inFlight, listening,
                   ctxDone, lockTimer, age, ghosts>>

ShutdownWipe ==
    /\ stage = "wipe"
    /\ resolver # None
    /\ WipeStep(resolver)
    /\ UNCHANGED <<disk, resolver, connVars, inFlight, procVars, ghosts>>

\* Mutant: Shutdown drops the resolver without wiping it.
ShutdownNoWipe ==
    /\ stage = "wipe"
    /\ resolver' = None
    /\ stage' = "down"
    /\ UNCHANGED <<disk, memVars, connVars, inFlight, listening, ctxDone,
                   lockTimer, age, timedOut, ghosts>>

\* The resolver is dropped and a.mu released.
ShutdownDone ==
    /\ stage = "wipe"
    /\ resolver # None => Wiped(resolver)
    /\ resolver' = None
    /\ stage' = "down"
    /\ UNCHANGED <<disk, memVars, connVars, inFlight, listening, ctxDone,
                   lockTimer, age, timedOut, ghosts>>

\* The process ends; abandoned handlers lose their connections.
Exit ==
    /\ stage = "down"
    /\ stage' = "exit"
    /\ listening' = FALSE
    /\ Drop(Backlog, "eof", Handlers, "cut")
    /\ UNCHANGED <<disk, resolver, memVars, op, ref, pos, got, resp, inFlight,
                   ctxDone, lockTimer, age, timedOut, ghosts>>

\* Two local sources of one resolver share the bag map but not the lock: a
\* read through one while the other blanks it may be caught by the Go runtime
\* as a concurrent map access, which ends the process.
MapRace(c) ==
    /\ pc[c] = "fetching"
    /\ pos[c] < Len(VarSources)
    /\ NextSource(c) \in LocalSources \ cleared[ref[c]]
    /\ wiping[ref[c]] \notin {None, NextSource(c)}
    /\ stage' = "dead"
    /\ listening' = FALSE
    /\ Drop(Backlog, "eof", Handlers, "cut")
    /\ UNCHANGED <<disk, resolver, memVars, op, ref, pos, got, resp, inFlight,
                   ctxDone, lockTimer, age, timedOut, ghosts>>

-----------------------------------------------------------------------------
Handle(c) ==
    \/ ReadFail(c) \/ ReadRequest(c) \/ Query(c) \/ LockOp(c)
    \/ FetchBegin(c) \/ FetchVar(c) \/ FetchCleared(c) \/ FetchFail(c)
    \/ FetchDone(c) \/ MapRace(c)
    \/ ReloadStart(c) \/ ReloadLoad(c) \/ ReloadFail(c) \/ ReloadSwap(c)
    \/ ReloadWipe(c) \/ ReloadDone(c)
    \/ Reply(c) \/ Finish(c)

Shutdown ==
    \/ ServeReturns \/ Drained \/ DrainTimeout \/ ShutdownWipe
    \/ ShutdownDone \/ Exit

Next ==
    \/ Save
    \/ \E c \in Conns : Dial(c) \/ Accept(c) \/ Handle(c)
    \/ Tick \/ LockFires \/ Signal \/ CloseListener \/ AcceptFail
    \/ Shutdown

Spec == Init /\ [][Next]_vars

\* The handler waits for a remote source, whose fetch has no deadline of its
\* own and may never return.
AwaitsRemote(c) ==
    /\ pc[c] = "fetching"
    /\ pos[c] < Len(VarSources)
    /\ NextSource(c) \in RemoteSources

\* The goroutines of a live process run and its timers fire; clients, editors
\* and signals owe nothing, and neither do the remote sources.
Fairness ==
    /\ WF_vars(Tick)
    /\ WF_vars(LockFires)
    /\ WF_vars(CloseListener)
    /\ WF_vars(Shutdown)
    /\ \A c \in Conns : WF_vars(Accept(c)) /\ WF_vars(~AwaitsRemote(c) /\ Handle(c))

FairSpec == Spec /\ Fairness

-----------------------------------------------------------------------------
(* Properties                                                              *)

\* Counters stay in range, a reply is one dispatch can give, and no handler
\* collects the version of a resolver that was never built.
TypeOK ==
    /\ disk \in Versions
    /\ resolver \in Gens \cup {None}
    /\ ver \in [Gens -> Versions \cup {None}]
    /\ cleared \in [Gens -> SUBSET LocalSources]
    /\ wiping \in [Gens -> LocalSources \cup {None}]
    /\ pc \in [Conns -> {"idle", "dialed"} \cup HandlerPcs \cup EndPcs]
    /\ op \in [Conns -> {"none", "fetch", "query", "lock", "reload"}]
    /\ ref \in [Conns -> Gens \cup {None}]
    /\ pos \in [Conns -> 0 .. Len(VarSources)]
    /\ got \in [Conns -> SUBSET (Versions \cup {Blank})]
    /\ resp \in [Conns -> {"none", "ok", "empty", "error", "cleared"}]
    /\ inFlight \in Int
    /\ stage \in {"serve", "drain", "wipe", "down", "exit", "dead"}
    /\ listening \in BOOLEAN
    /\ ctxDone \in BOOLEAN
    /\ lockTimer \in BOOLEAN
    /\ age \in 0 .. IdleTimeout + 1
    /\ timedOut \in BOOLEAN
    /\ acked \in Versions
    /\ since \in [Conns -> Versions]
    /\ overtaken \in BOOLEAN

\* An OK reply to a fetch is the complete environment of one version of the
\* config: nothing blanked by a concurrent reload's wipe, nothing mixed from
\* two versions.  The empty environment of a missing resolver is only served
\* when Shutdown gave up on the handler (dispatch, OpFetchEnv).
FetchOkGenuine ==
    \A c \in Conns : op[c] = "fetch" =>
        /\ resp[c] = "ok" => got[c] = {ver[ref[c]]}
        /\ resp[c] = "empty" => timedOut

\* What the comment on OpReload promises: a fetch in flight against the
\* outgoing resolver, if it is answered OK, saw it fully populated.
InFlightFetchPopulated ==
    ~timedOut => \A c \in Conns :
        op[c] = "fetch" /\ resp[c] = "ok" => got[c] = {ver[ref[c]]}

\* A fetch dialled after a client was told its reload succeeded is answered
\* from the config that reload loaded or from a later one, however many reloads
\* ran before, between and since, and whichever of them failed or lost their
\* reply - unless some reload installed its load while another still held an
\* older one, which a.mu does not prevent (dispatch, OpReload and OpFetchEnv).
FetchSeesReload ==
    ~overtaken => \A c \in Conns :
        op[c] = "fetch" /\ resp[c] = "ok" => ver[ref[c]] >= since[c]

\* What the documentation promises of a reload without that reservation: once
\* a client is told it succeeded, the agent serves that version of the config
\* or a later one until it shuts down (dispatch, OpReload).
AckedReloadServed == resolver # None => ver[resolver] >= acked

\* Decrypted secrets never pile up: a resolver that is built and not wiped is
\* the current one, or some running reload is about to install or wipe it
\* (dispatch, OpReload: wipe on swap).
PlaintextOwned ==
    stage \notin {"exit", "dead"} =>
        \A g \in Gens : Built(g) /\ ~Wiped(g) =>
            \/ g = resolver
            \/ \E c \in Conns : \/ pc[c] = "loaded" /\ g = c
                                \/ pc[c] = "wiping" /\ g = ref[c]

\* A shutdown that drained its handlers leaves no unwiped secrets behind,
\* whatever reloads ran before or during it (Shutdown).
WipedOnDrainedExit ==
    stage \in {"down", "exit"} /\ ~timedOut =>
        \A g \in Gens : Built(g) => Wiped(g)

\* Every handler holds one slot of the semaphore, whichever way it ends, and
\* there are never more handlers than slots (Serve).
SlotsBounded ==
    stage \notin {"exit", "dead"} =>
        /\ inFlight = Cardinality(Handlers)
        /\ inFlight <= MaxConns

\* An accepted request is cut off only when the drain timed out or the
\* process crashed (Shutdown drains the handlers).
CutOnlyAfterTimeout ==
    (\E c \in Conns : pc[c] = "cut") => timedOut \/ stage = "dead"

\* No two goroutines wipe the same resolver: it leaves Agent.resolver under
\* a.mu, once (OpReload and Shutdown).
OneWiper ==
    stage \notin {"exit", "dead"} =>
        /\ \A c, d \in Conns :
              pc[c] = "wiping" /\ pc[d] = "wiping" /\ ref[c] = ref[d] => c = d
        /\ \A c \in Conns : pc[c] = "wiping" => ref[c] # resolver

Stopped == stage \in {"exit", "dead"}

\* With an idle timeout the agent ends even if no one ever locks it
\* (idleLoop), and takes no longer for a handler that hangs (Shutdown).
IdleAgentStops == IdleTimeout > 0 => <>Stopped
=============================================================================
