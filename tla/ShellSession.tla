---------------------------- MODULE ShellSession ----------------------------
(***************************************************************************)
(* An interactive bash with the jitenv hook.  At every prompt the hook      *)
(* brings the shell's own directory (wrappers, anchors, stamp, marker) in   *)
(* line with the working directory and the config, by `jitenv __chpwd` if   *)
(* it cannot tell that nothing changed.  A command typed then goes to a     *)
(* wrapper (the shim), through the DEBUG trap to `jitenv run`, or runs as   *)
(* it is; the programs it starts may meet wrappers again.  Meanwhile the    *)
(* config is edited by other programs and commands run in the background.   *)
(*                                                                         *)
(* The agent is seen as a fetch that succeeds or fails.  What is injected   *)
(* is left out: only that it was, and how often.                            *)
(***************************************************************************)
EXTENDS MappingIndex, FiniteSets

CONSTANTS Cmds,       \* commands on the PATH, typed by their name
          Files,      \* mapped or unmapped files, typed by their path
          Dirs,       \* working directories
          Home,       \* the one the shell starts in
          BinDir,     \* the PATH directory that holds the real commands
          Configs,    \* contents of config.toml
          Broken,     \* a content that does not parse
          Delay,      \* seconds of the agent-down countdown
          Inherited,  \* what the shell's parent may have left in the environment
          MaxEdits, MaxLines, MaxOnLine, MaxHops, MaxFaults

Slots == {"fg", "bg"}

\* Every command that a config names is on the PATH; no pattern is empty
\* (ValidateStructure).
ASSUME SessionAssumption ==
    /\ Delay \in Nat /\ MaxEdits \in Nat /\ MaxLines \in Nat
    /\ MaxOnLine \in Nat /\ MaxHops \in [Slots -> Nat] /\ MaxFaults \in Nat
    /\ Broken \notin Configs /\ Home \in Dirs
    /\ Inherited \subseteq SUBSET {"stale", "warned"}
    /\ \A c \in Configs, d \in Dirs : CwdCommands(c, d) \subseteq Cmds
    /\ \A c \in Configs : \A m \in Range(c) : m.pat \in Seq(STRING) \ {<<>>}
    /\ Files \subseteq Seq(STRING) /\ BinDir \in Seq(STRING) /\ Cmds \cup {"/"} \subseteq STRING

VARIABLES
    cfg,       \* config.toml: content and modification time
    at,        \* what the shell is doing
    pwd,       \* $PWD
    lastPwd,   \* $__JITENV_LAST_PWD
    anchors,   \* $__JITENV_EXACT, $__JITENV_PREFIX
    hash,      \* bash's table of commands: "wrap" or "real"
    env,       \* jitenv's variables in the shell's environment
    onLine,    \* commands of the current line started so far
    lines,     \* lines typed
    wrappers,  \* <shell dir>/bin
    sidecar,   \* <shell dir>/match-anchors
    stamp,     \* <shell dir>/last-mtime: its content; whether it was written in the
               \* current second, or in one before the config's last edit
    marker,    \* <shell dir>/injected: the command that wrote it, or "none"
    helper,    \* locals of the running __chpwd
    job,       \* the command in the foreground and one in the background
    faults,    \* failed system calls
    moved,     \* the config was edited since a helper read it, and no prompt since
               \* could have told
    failed,    \* the last reconcile, or a write of the anchors, failed
    unhashed   \* a failed reconcile changed wrappers, and the table was not cleared since

cfgVars == <<cfg, moved>>
shellVars == <<at, pwd, lastPwd, anchors, hash, env, onLine, lines>>
dirVars == <<wrappers, sidecar, stamp, marker>>
checkVars == <<helper, failed, unhashed>>
vars == <<cfg, at, pwd, lastPwd, anchors, hash, env, onLine, lines, wrappers, sidecar,
          stamp, marker, helper, job, faults, moved, failed, unhashed>>

\* Tables of what MappingIndex says about the configs of this instance.
Wanted == [c \in Configs |-> [d \in Dirs |-> CwdCommands(c, d)]]
Anchored == [c \in Configs |-> Anchors(c)]
RealPath(cmd) == BinDir \o <<"/", cmd>>
Targets == Files \cup {RealPath(c) : c \in Cmds}
IsMapped == [c \in Configs |-> [p \in Targets |-> Mapped(c, p)]]

NoStamp == [value |-> 0, fresh |-> FALSE, old |-> FALSE]
NoHelper == [cur |-> 0, content |-> Broken, changed |-> FALSE]

\* env: "shell" stands for the variables the hook exports, "inj" for
\* __JITENV_INJECTED with the nonce of the session, "stale" for one with
\* another nonce, "warned" for __JITENV_AGENT_WARNED.
Idle == [is |-> "none", top |-> "none", at |-> "idle", first |-> FALSE, typed |-> FALSE,
         env |-> {}, hops |-> 0, out |-> "none", injected |-> 0, warned |-> 0,
         left |-> 0, key |-> "none", tick |-> FALSE, early |-> FALSE,
         answer |-> "none", marked |-> TRUE]

\* The terminal is given back.
Calm(r) == [r EXCEPT !.left = 0, !.key = "none", !.tick = FALSE, !.early = FALSE]

Init ==
    /\ cfg \in {[content |-> c, ns |-> 1] : c \in Configs}
    /\ at = "prompt" /\ pwd = Home /\ lastPwd = <<>>
    /\ anchors = NoAnchors /\ hash = [c \in {} |-> ""]
    /\ env \in {{"shell"} \cup s : s \in Inherited}
    /\ onLine = 0 /\ lines = 0
    /\ wrappers = {} /\ sidecar = NoAnchors /\ stamp = NoStamp /\ marker = "none"
    /\ helper = NoHelper
    /\ job = [j \in Slots |-> Idle]
    /\ faults = 0
    /\ moved = FALSE /\ failed = FALSE /\ unhashed = FALSE

Fault == faults < MaxFaults /\ faults' = faults + 1
NoFault == UNCHANGED faults

-----------------------------------------------------------------------------
(* The world outside: no step of a command in the foreground reads the      *)
(* config again, so an edit during one is left for the next prompt.         *)

EditConfig(c) ==
    /\ cfg.ns <= MaxEdits /\ at # "line" /\ c # cfg.content
    /\ cfg' = [content |-> c, ns |-> cfg.ns + 1]
    /\ stamp' = IF stamp.fresh THEN stamp ELSE [stamp EXCEPT !.old = TRUE]
    /\ moved' = TRUE
    /\ UNCHANGED <<shellVars, wrappers, sidecar, marker, checkVars, job, faults>>

\* A second passes; it matters to an edit that is still to come.
Second ==
    /\ stamp.fresh /\ at # "line" /\ cfg.ns <= MaxEdits
    /\ stamp' = [stamp EXCEPT !.fresh = FALSE]
    /\ UNCHANGED <<cfgVars, shellVars, wrappers, sidecar, marker, checkVars, job, faults>>

-----------------------------------------------------------------------------
(* The prompt: __jitenv_chpwd and the helper it starts.                     *)

\* Mutant: the config's time is not looked at.
UpToDateIfStamped == stamp.value # 0

\* -f last-mtime and not `cfg -nt last-mtime`, in whole seconds.
UpToDate == stamp.value # 0 /\ ~stamp.old

\* Mutant: the marker is left to the helper.
PromptKeepsMarker ==
    /\ at = "prompt"
    /\ moved' = (moved /\ ~stamp.old)
    /\ at' = IF pwd = lastPwd /\ UpToDate THEN "ready" ELSE "stat"
    /\ onLine' = 0
    /\ UNCHANGED <<cfg, pwd, lastPwd, anchors, hash, env, lines, dirVars, checkVars, job,
                   faults>>

\* The marker is removed at every prompt.
Prompt ==
    /\ at = "prompt"
    /\ marker' = "none"
    /\ moved' = (moved /\ ~stamp.old)
    /\ at' = IF pwd = lastPwd /\ UpToDate THEN "ready" ELSE "stat"
    /\ onLine' = 0
    /\ UNCHANGED <<cfg, pwd, lastPwd, anchors, hash, env, lines, wrappers, sidecar, stamp,
                   checkVars, job, faults>>

\* chpwd.Run up to its own short-circuit: the time is taken before the file
\* is read.
Stat ==
    /\ at = "stat"
    /\ marker' = "none"
    /\ helper' = [NoHelper EXCEPT !.cur = cfg.ns]
    /\ at' = IF pwd = lastPwd /\ stamp.value = cfg.ns THEN "after" ELSE "load"
    /\ UNCHANGED <<cfgVars, pwd, lastPwd, anchors, hash, env, onLine, lines, wrappers, sidecar,
                   stamp, failed, unhashed, job, faults>>

\* desiredCommandsFor and writeAnchors, which may fail unnoticed.
Load ==
    /\ at = "load" /\ cfg.content # Broken
    /\ helper' = [helper EXCEPT !.content = cfg.content]
    /\ at' = "reconcile" /\ moved' = FALSE
    /\ \/ sidecar' = Anchored[cfg.content] /\ NoFault
       \/ Fault /\ UNCHANGED sidecar
    /\ UNCHANGED <<cfg, pwd, lastPwd, anchors, hash, env, onLine, lines, wrappers, stamp,
                   marker, failed, unhashed, job>>

\* A config that does not load: anchors go, wrappers stay.
LoadBroken ==
    /\ at = "load" /\ cfg.content = Broken
    /\ sidecar' = NoAnchors
    /\ at' = "after" /\ moved' = FALSE
    /\ UNCHANGED <<cfg, pwd, lastPwd, anchors, hash, env, onLine, lines, wrappers, stamp,
                   marker, checkVars, job, faults>>

Desired == Wanted[helper.content][pwd]

\* Mutant: a wrapper that is removed is not a change.
ReconcileCountsNew(kept) ==
    /\ at = "reconcile"
    /\ kept \subseteq wrappers \ Desired
    /\ IF kept = {} THEN NoFault ELSE Fault
    /\ wrappers' = Desired \cup kept
    /\ helper' = [helper EXCEPT !.changed = ~(Desired \subseteq wrappers)]
    /\ at' = "stamp"
    /\ UNCHANGED <<cfgVars, pwd, lastPwd, anchors, hash, env, onLine, lines, sidecar, stamp,
                   marker, failed, unhashed, job>>

\* reconcile: unwanted wrappers are removed, missing ones made.  A wrapper
\* that cannot be removed is passed over.
Reconcile(kept) ==
    /\ at = "reconcile"
    /\ kept \subseteq wrappers \ Desired
    /\ IF kept = {} THEN NoFault ELSE Fault
    /\ wrappers' = Desired \cup kept
    /\ helper' = [helper EXCEPT !.changed = wrappers # Desired \cup kept]
    /\ at' = "stamp"
    /\ UNCHANGED <<cfgVars, pwd, lastPwd, anchors, hash, env, onLine, lines, sidecar, stamp,
                   marker, failed, unhashed, job>>

\* It stops half way: the helper ends with an error, not with exit code 10.
ReconcileFails(ws) ==
    /\ at = "reconcile"
    /\ wrappers \cap Desired \subseteq ws /\ ws \subseteq wrappers \cup Desired
    /\ Fault
    /\ wrappers' = ws
    /\ failed' = TRUE
    /\ unhashed' = (unhashed \/ wrappers # ws)
    /\ at' = "after"
    /\ UNCHANGED <<cfgVars, pwd, lastPwd, anchors, hash, env, onLine, lines, sidecar, stamp,
                   marker, helper, job>>

\* Everything is as the config read by the helper says.
InLine == sidecar = Anchored[helper.content] /\ wrappers = Desired

\* writeLastMtime; a failure is not an error.
Stamp ==
    /\ at = "stamp"
    /\ \/ stamp' = [value |-> helper.cur, fresh |-> TRUE, old |-> FALSE] /\ NoFault
       \/ Fault /\ UNCHANGED stamp
    /\ failed' = ~InLine
    /\ at' = "after"
    /\ UNCHANGED <<cfgVars, pwd, lastPwd, anchors, hash, env, onLine, lines, wrappers, sidecar,
                   marker, helper, unhashed, job>>

\* Mutant: exit code 10 is not looked at.
AfterKeepsHash ==
    /\ at = "after"
    /\ unhashed' = (unhashed /\ ~helper.changed)
    /\ anchors' = sidecar
    /\ lastPwd' = pwd
    /\ helper' = NoHelper
    /\ at' = "ready"
    /\ UNCHANGED <<cfgVars, pwd, hash, env, onLine, lines, dirVars, failed, job, faults>>

\* Back in the shell: `hash -r` on exit code 10, anchors, $__JITENV_LAST_PWD.
After ==
    /\ at = "after"
    /\ hash' = IF helper.changed THEN [c \in {} |-> ""] ELSE hash
    /\ unhashed' = (unhashed /\ ~helper.changed)
    /\ anchors' = sidecar
    /\ lastPwd' = pwd
    /\ helper' = NoHelper
    /\ at' = "ready"
    /\ UNCHANGED <<cfgVars, pwd, env, onLine, lines, dirVars, failed, job, faults>>

-----------------------------------------------------------------------------
(* The line: what a command is taken for.                                   *)

InShell == UNCHANGED <<pwd, lastPwd, anchors, env, dirVars, checkVars, cfgVars, faults>>

\* A name is looked up in the hash table, then on the PATH, wrappers first.
Found(cmd) == IF cmd \in DOMAIN hash THEN hash[cmd]
              ELSE IF cmd \in wrappers THEN "wrap" ELSE "real"

\* __jitenv_debug_trap: is-mapped is asked about a plausible file only.
Trapped(path) ==
    /\ Plausible(anchors, path)
    /\ cfg.content # Broken /\ IsMapped[cfg.content][path]

Program(is, first) ==
    [Idle EXCEPT !.is = is, !.top = is, !.first = first, !.typed = TRUE, !.env = env,
                 !.at = IF is = "real" THEN "running" ELSE "check",
                 !.out = IF is = "real" THEN "plain" ELSE "none"]

\* The trap searches the PATH itself, and leaves a wrapper to the shell.
BareTrapped(cmd) ==
    BareActive(anchors, BinDir) /\ cmd \notin wrappers /\ Trapped(RealPath(cmd))

\* A bare name.  A hashed wrapper that is gone is "command not found".
StartBare(cmd, first) ==
    IF BareTrapped(cmd)
    THEN job' = [job EXCEPT !["fg"] = Program("run", first)] /\ UNCHANGED hash
    ELSE IF Found(cmd) = "wrap" /\ cmd \notin wrappers
    THEN UNCHANGED <<job, hash>>
    ELSE /\ job' = [job EXCEPT !["fg"] =
                       Program(IF Found(cmd) = "wrap" THEN "shim" ELSE "real", first)]
         /\ hash' = [c \in DOMAIN hash \cup {cmd} |->
                       IF c = cmd THEN Found(cmd) ELSE hash[c]]

StartFile(path, first) ==
    /\ job' = [job EXCEPT !["fg"] = Program(IF Trapped(path) THEN "run" ELSE "real", first)]
    /\ UNCHANGED hash

StartOne(first) ==
    \/ \E cmd \in Cmds : StartBare(cmd, first)
    \/ \E path \in Files : StartFile(path, first)

TypeLine ==
    /\ at = "ready" /\ lines < MaxLines
    /\ StartOne(TRUE)
    /\ at' = "line" /\ onLine' = 1 /\ lines' = lines + 1
    /\ InShell

\* `cmd &`: the forked shell looks the name up, its table is lost.  Only a
\* wrapper has anything to do with the commands in the foreground.
TypeBackground(cmd) ==
    /\ at = "ready" /\ lines < MaxLines
    /\ job["bg"].at = "idle"
    /\ cmd \in wrappers /\ Found(cmd) = "wrap"
    /\ job' = [job EXCEPT !["bg"] = Program("shim", TRUE)]
    /\ at' = "prompt" /\ lines' = lines + 1 /\ UNCHANGED <<hash, onLine>>
    /\ InShell

\* The next command of `a && b` or `a; b`: no prompt between them.
NextOnLine ==
    /\ at = "line" /\ job["fg"].at = "idle" /\ onLine < MaxOnLine
    /\ StartOne(FALSE)
    /\ onLine' = onLine + 1 /\ UNCHANGED <<at, lines>>
    /\ InShell

EndLine ==
    /\ at = "line" /\ job["fg"].at = "idle"
    /\ at' = "prompt"
    /\ UNCHANGED <<cfgVars, pwd, lastPwd, anchors, hash, env, onLine, lines, dirVars, checkVars,
                   job, faults>>

TypeCd(d) ==
    /\ at = "ready" /\ lines < MaxLines
    /\ pwd' = d /\ at' = "prompt" /\ lines' = lines + 1
    /\ UNCHANGED <<cfgVars, lastPwd, anchors, hash, env, onLine, dirVars, checkVars, job, faults>>

TypeEnter ==
    /\ at = "ready" /\ lines < MaxLines
    /\ at' = "prompt" /\ lines' = lines + 1
    /\ UNCHANGED <<cfgVars, pwd, lastPwd, anchors, hash, env, onLine, dirVars, checkVars, job,
                   faults>>

-----------------------------------------------------------------------------
(* The shim and `jitenv run`, up to the exec of the real program.           *)

Others == UNCHANGED <<cfgVars, shellVars, checkVars, wrappers, sidecar, stamp>>
Step(j, is, phase) == job[j].is \in is /\ job[j].at = phase
Becomes(j, new) == job' = [job EXCEPT ![j] = new]

\* On to execReal or replaceProcess.  The first hop decides what the command
\* gets.
Exec(r, out) == [Calm(r) EXCEPT !.at = "exec", !.out = IF r.hops = 0 THEN out ELSE @]

\* Mutant: any marker in the environment counts, whatever its nonce.
InjectionAppliedAny(r) == r.env \cap {"inj", "stale"} # {}

\* injectionAlreadyApplied: the marker has the nonce of the session.  The
\* marker is appended to the environment, and os.Getenv takes the first.
InjectionApplied(r) == "inj" \in r.env /\ "stale" \notin r.env

\* shouldInject: the shell that typed the command is the parent, or unknown.
ShouldInject(r) == "shell" \in r.env => r.typed

\* Mutant: the marker file is not looked at.
ShimCheckEnvOnly(j) ==
    /\ Step(j, {"shim"}, "check")
    /\ Becomes(j, IF InjectionApplied(job[j]) THEN Exec(job[j], "bypassed")
                  ELSE IF ShouldInject(job[j]) /\ "warned" \notin job[j].env
                  THEN [job[j] EXCEPT !.at = "fetch"] ELSE Exec(job[j], "plain"))
    /\ Others /\ UNCHANGED <<marker, faults>>

\* markerFileSays: the directory is the one in __JITENV_WRAP_DIR or, where that
\* is lost, the one found on the PATH.
MarkerFileSays == marker # "none"

\* run of the shim, up to the fetch.
ShimCheck(j) ==
    /\ Step(j, {"shim"}, "check")
    /\ Becomes(j, IF InjectionApplied(job[j]) \/ MarkerFileSays THEN Exec(job[j], "bypassed")
                  ELSE IF ShouldInject(job[j]) /\ "warned" \notin job[j].env
                  THEN [job[j] EXCEPT !.at = "fetch"] ELSE Exec(job[j], "plain"))
    /\ Others /\ UNCHANGED <<marker, faults>>

\* It ends with an error, and the program does not run.
GivenUp(r) == [r EXCEPT !.at = "ended", !.out = IF r.hops = 0 THEN "refused" ELSE @]

\* The real program is not on the PATH, the file is gone, or there is no
\* directory for the agent's socket.
NotFound(j) ==
    /\ Step(j, {"shim", "run"}, "check")
    /\ Fault
    /\ Becomes(j, GivenUp(job[j]))
    /\ Others /\ UNCHANGED marker

Executes(j) ==
    /\ Step(j, {"shim", "run"}, "exec")
    /\ Becomes(j, [job[j] EXCEPT !.at = "running"])
    /\ Others /\ UNCHANGED <<marker, faults>>

\* The kernel refuses: a script without a shebang, or the file is gone.  The
\* marker file stays.
ExecFails(j) ==
    /\ Step(j, {"shim", "run"}, "exec")
    /\ Fault
    /\ Becomes(j, GivenUp(job[j]))
    /\ Others /\ UNCHANGED marker

\* Run of package run, up to the fetch.
RunCheck(j) ==
    /\ Step(j, {"run"}, "check")
    /\ Becomes(j, IF InjectionApplied(job[j]) THEN Exec(job[j], "bypassed")
                  ELSE [job[j] EXCEPT !.at = "fetch"])
    /\ Others /\ UNCHANGED <<marker, faults>>

\* The agent answered: the environment and the marker in it.
Injected(r) ==
    LET new == [r EXCEPT !.env = @ \cup {"inj"}, !.injected = @ + 1]
    IN  IF r.is = "shim" THEN [new EXCEPT !.at = "mark"]
        ELSE Exec(new, "injected")

\* The user goes on without the agent.  Only the shim notes that.
Continued(r) ==
    IF r.is = "shim"
    THEN [r EXCEPT !.at = "mark", !.env = @ \cup {"warned"}]
    ELSE Exec(r, "plain")

FetchOk(j) ==
    /\ Step(j, {"shim", "run"}, "fetch")
    /\ Becomes(j, Injected(job[j]))
    /\ Others /\ UNCHANGED <<marker, faults>>

\* fetchEnv failed before it asked the agent.
FetchError(j) ==
    /\ Step(j, {"shim"}, "fetch")
    /\ Fault
    /\ Becomes(j, Exec(job[j], "plain"))
    /\ Others /\ UNCHANGED marker

\* No socket, no answer in time or an error of the agent: all are "agent down".
\* Without a terminal, or a delay, nobody is asked.  (The terminal stops a
\* command in the background that wants to ask.)
FetchFails(j, terminal) ==
    /\ Step(j, {"shim", "run"}, "fetch")
    /\ j = "bg" => terminal = "none"
    /\ LET told == [job[j] EXCEPT !.warned = @ + 1]
       IN  Becomes(j, IF terminal = "none" \/ Delay = 0 THEN Continued(told)
                      ELSE IF terminal = "raw"
                      THEN [told EXCEPT !.at = "countdown", !.left = Delay]
                      ELSE [told EXCEPT !.at = "ask"])
    /\ Others /\ UNCHANGED <<marker, faults>>

\* writeMarkerFile, best effort.
Mark(j) ==
    /\ Step(j, {"shim"}, "mark")
    /\ LET out == IF "inj" \in job[j].env THEN "injected" ELSE "plain"
       IN  \/ /\ marker' = j /\ NoFault
              /\ Becomes(j, Exec(job[j], out))
           \/ /\ Fault /\ UNCHANGED marker
              /\ Becomes(j, [Exec(job[j], out) EXCEPT !.marked = FALSE])
    /\ Others

-----------------------------------------------------------------------------
(* WarnAndWait: a countdown in raw mode, or one line where that fails.       *)

Keys == {"u", "ctrl-c", "other"}

\* classifyKey
ClassifyKey(key) == CASE key = "u" -> "unlock"
                      [] key = "ctrl-c" -> "abort"
                      [] OTHER -> "continue"

\* Mutant: Ctrl+C means "go on without".
AnsweredGoesOn(r, answer) ==
    LET new == [Calm(r) EXCEPT !.answer = IF r.hops = 0 THEN answer ELSE @]
    IN  IF answer = "unlock" THEN [new EXCEPT !.at = "unlock"] ELSE Continued(new)

Answered(r, answer) ==
    LET new == [Calm(r) EXCEPT !.answer = IF r.hops = 0 THEN answer ELSE @]
    IN  CASE answer = "abort" -> GivenUp(new)
          [] answer = "unlock" -> [new EXCEPT !.at = "unlock"]
          [] answer = "continue" -> Continued(new)

\* The reader hands the first key over.
KeyPressed(j, key) ==
    /\ job[j].at = "countdown" /\ job[j].key = "none"
    /\ Becomes(j, [job[j] EXCEPT !.key = key, !.early = job[j].left > 1])
    /\ Others /\ UNCHANGED <<marker, faults>>

\* The ticker, once a second: the loop takes what is ready within a second,
\* so no tick finds a key that an earlier one was preferred to.
TickFires(j) ==
    /\ job[j].at = "countdown" /\ ~job[j].tick /\ job[j].key = "none"
    /\ Becomes(j, [job[j] EXCEPT !.tick = TRUE])
    /\ Others /\ UNCHANGED <<marker, faults>>

\* select: either of the two that are ready.
TakeKey(j) ==
    /\ job[j].at = "countdown" /\ job[j].key # "none"
    /\ Becomes(j, Answered(job[j], ClassifyKey(job[j].key)))
    /\ Others /\ UNCHANGED <<marker, faults>>

\* Mutant: the countdown starts with the last second.
TakeTickLast(j) ==
    /\ job[j].at = "countdown" /\ job[j].tick
    /\ Becomes(j, Answered(job[j], "continue"))
    /\ Others /\ UNCHANGED <<marker, faults>>

\* Mutant: the countdown does not count.
TakeTickStays(j) ==
    /\ job[j].at = "countdown" /\ job[j].tick
    /\ Becomes(j, [job[j] EXCEPT !.tick = FALSE])
    /\ Others /\ UNCHANGED <<marker, faults>>

\* Mutant: the countdown shows zero seconds.
TakeTickZero(j) ==
    /\ job[j].at = "countdown" /\ job[j].tick
    /\ Becomes(j, IF job[j].left > 0 THEN [job[j] EXCEPT !.left = @ - 1, !.tick = FALSE]
                  ELSE Answered(job[j], "continue"))
    /\ Others /\ UNCHANGED <<marker, faults>>

TakeTick(j) ==
    /\ job[j].at = "countdown" /\ job[j].tick
    /\ Becomes(j, IF job[j].left > 1 THEN [job[j] EXCEPT !.left = @ - 1, !.tick = FALSE]
                  ELSE Answered(job[j], "continue"))
    /\ Others /\ UNCHANGED <<marker, faults>>

\* linePromptFallback waits for a line, for ever.
TakeLine(j, key) ==
    /\ job[j].at = "ask"
    /\ Becomes(j, Answered(job[j], ClassifyKey(key)))
    /\ Others /\ UNCHANGED <<marker, faults>>

\* fetchAfterUnlock: the unlock and the fetch after it succeeded, or not.
AfterUnlock(j, ok) ==
    /\ job[j].at = "unlock"
    /\ Becomes(j, IF ok THEN Injected(job[j]) ELSE Continued(job[j]))
    /\ Others /\ UNCHANGED <<marker, faults>>

-----------------------------------------------------------------------------
(* The program runs: it may exec into a wrapper (a shebang), start one, or   *)
(* start one without the environment it was given; a shell passes on the     *)
(* last of two values of a variable (external).                              *)

Passed(how, given) == CASE how = "stripped" -> {}
                        [] how = "script" /\ "inj" \in given -> given \ {"stale"}
                        [] OTHER -> given

Hop(j, how) ==
    /\ job[j].at = "running" /\ job[j].hops < MaxHops[j]
    /\ wrappers # {}
    /\ Becomes(j, [job[j] EXCEPT !.is = "shim", !.at = "check", !.hops = @ + 1,
                      !.typed = how = "exec" /\ @, !.env = Passed(how, @)])
    /\ Others /\ UNCHANGED <<marker, faults>>

Exit(j) ==
    /\ job[j].at \in {"running", "ended"}
    /\ Becomes(j, Idle)
    /\ Others /\ UNCHANGED <<marker, faults>>

Prompting ==
    \/ Prompt \/ Stat \/ Load \/ LoadBroken \/ Stamp \/ After
    \/ \E ws \in SUBSET Cmds : Reconcile(ws) \/ ReconcileFails(ws)

Typing == TypeLine \/ NextOnLine \/ EndLine \/ TypeEnter
          \/ (\E cmd \in Cmds : TypeBackground(cmd)) \/ \E d \in Dirs : TypeCd(d)

Launching(j) ==
    \/ ShimCheck(j) \/ NotFound(j) \/ RunCheck(j) \/ FetchOk(j) \/ FetchError(j) \/ Mark(j)
    \/ Executes(j) \/ ExecFails(j)
    \/ \E t \in {"raw", "cooked", "none"} : FetchFails(j, t)
    \/ TickFires(j) \/ TakeKey(j) \/ TakeTick(j)
    \/ \E k \in Keys : KeyPressed(j, k) \/ TakeLine(j, k)
    \/ \E ok \in BOOLEAN : AfterUnlock(j, ok)
    \/ \E how \in {"exec", "child", "script", "stripped"} : Hop(j, how)
    \/ Exit(j)

Outside == Second \/ \E c \in Configs \cup {Broken} : EditConfig(c)

Next == Prompting \/ Typing \/ Outside \/ \E j \in Slots : Launching(j)

Spec == Init /\ [][Next]_vars

\* The ticker fires and the loop of the countdown runs.  (Only a command in the
\* foreground counts down.)
FairSpec == Spec /\ WF_vars(TickFires("fg")) /\ WF_vars(TakeTick("fg") \/ TakeKey("fg"))

-----------------------------------------------------------------------------
(* Properties.                                                             *)

Job == [is : {"none", "shim", "run", "real"}, top : {"none", "shim", "run", "real"},
        at : {"idle", "check", "fetch", "countdown", "ask", "unlock", "mark", "exec",
              "running", "ended"},
        first : BOOLEAN, typed : BOOLEAN, env : SUBSET {"shell", "inj", "stale", "warned"},
        hops : Nat,
        out : {"none", "plain", "bypassed", "injected", "refused"},
        injected : Nat, warned : Nat,
        left : 0 .. Delay, key : Keys \cup {"none"}, tick : BOOLEAN, early : BOOLEAN,
        answer : {"none", "continue", "abort", "unlock"}, marked : BOOLEAN]

\* Types of the shell, its directory, the helper and the commands; one that
\* counts down has time left, and one that has not run has no outcome.
SessionTypeOK ==
    /\ cfg.content \in Configs \cup {Broken} /\ cfg.ns \in 1 .. MaxEdits + 1
    /\ at \in {"prompt", "stat", "load", "reconcile", "stamp", "after", "ready", "line"}
    /\ pwd \in Dirs
    /\ DOMAIN hash \subseteq Cmds /\ \A c \in DOMAIN hash : hash[c] \in {"wrap", "real"}
    /\ wrappers \subseteq Cmds
    /\ marker \in Slots \cup {"none"}
    /\ job \in [Slots -> Job]
    /\ \A j \in Slots : job[j].at = "countdown" => job[j].left > 0
    /\ faults \in 0 .. MaxFaults
    /\ {moved, failed, unhashed} \subseteq BOOLEAN

\* The prompt is shown.  The config was read since its last edit, unless that
\* came after the prompt looked, or while the helper was at work or in the
\* second it ended: bash cannot tell then, and leaves it to the next cd.
Settled == at = "ready" /\ ~moved /\ ~failed /\ cfg.content # Broken

\* When the prompt is shown, the wrappers are those of the commands for which
\* the agent has variables in this directory - after a cd always, and in the
\* same directory after every edit that bash can tell from the stamp - unless
\* the config does not parse or the last reconcile failed.
WrappersCurrent == Settled => wrappers = {c \in Cmds : MappedCwd(cfg.content, pwd, c)}

\* Then the filter of the hook lets every mapped file and command through - but
\* for the file that has the name of a glob's directory, "/a" of "/a/**".
RouteComplete ==
    Settled => \A p \in Targets :
        IsMapped[cfg.content][p] /\ p \o <<"/", "**">> \notin Globs(cfg.content)
        => Plausible(anchors, p) /\ (p \in Files \/ BareActive(anchors, BinDir))

\* bash's table never hides a wrapper, nor leads to one that is gone - unless
\* a reconcile failed half way, of which the shell is not told.
HashFresh ==
    at = "ready" /\ ~unhashed =>
        \A c \in DOMAIN hash : (hash[c] = "wrap") = (c \in wrappers)

\* The first wrapper of a command is the only one to inject, and to warn, also
\* for programs that lost their environment - in the foreground, and as long as
\* the marker file could be written.  (`jitenv run` writes none.)
FirstHopWins ==
    LET r == job["fg"]
    IN  r.top # "run" /\ r.marked => r.injected <= 1 /\ r.warned <= 1

\* A command that is typed first on its line and has a wrapper asks the agent:
\* no marker of an earlier command or of an outer session is in its way - but
\* for the file a background command writes, and an inherited
\* __JITENV_AGENT_WARNED.
TypedAsks ==
    LET r == job["fg"]
    IN  r.first /\ r.top = "shim" /\ r.hops = 0 /\ r.at = "running" /\ marker # "bg"
        /\ "warned" \notin env /\ faults = 0
        => r.injected + r.warned > 0

\* A key pressed before the last second of the countdown decides.
EarlyKeyDecides ==
    [][\A j \in Slots : job[j].hops = 0 /\ job[j].early /\ job'[j].at # "countdown"
                         => job'[j].answer = ClassifyKey(job[j].key)]_vars

\* Every countdown ends.
CountdownEnds == job["fg"].at = "countdown" ~> job["fg"].at # "countdown"

\* A command as Launch sees it.
Stage(r) == IF r.at = "idle" THEN "idle"
            ELSE IF r.out = "none" \/ (r.at = "exec" /\ r.hops = 0) THEN "held"
            ELSE IF r.out = "bypassed" THEN "plain" ELSE r.out

Launched == INSTANCE Launch WITH
    Answers <- {"continue", "abort", "unlock"},
    stage <- [j \in Slots |-> Stage(job[j])],
    answer <- [j \in Slots |-> job[j].answer]

\* Whatever happens between a typed command and its program keeps the promise
\* of Launch.
KeepsPromise == Launched!Spec
=============================================================================
