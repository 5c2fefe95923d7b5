# jitenv: TLA+ models, model checking and proofs

jitenv keeps secrets encrypted in one file, `config.toml`. `jitenv unlock` starts a per-user
agent that holds them decrypted; `run`, the shims and the shell hook ask the agent over a
socket for the environment of a program; an editor that saves the file asks it to reload;
`jitenv sync` carries the file between machines. This project models the parts of that
system in which processes, goroutines, messages and machines interleave. The code under
`src/internal/` is the reference, and `PROJECT.json` maps each definition to its lines.

## The system's parts

| Part | State | Operations | Interacts with | What makes it hard | What makes it correct |
|---|---|---|---|---|---|
| agent server (`agent/server.go`, `client.go`, `protocol.go`) | resolver, semaphore, wait group, idle clock, context | accept, seven requests, idle tick, delayed lock, shutdown | clients, the config file, the resolver | reload loads without the mutex and wipes what a fetch may still use; the drain has a timeout | replies are complete, of one version, and no older than an acknowledged reload; secrets are wiped; it ends |
| resolver, local source (`agent/resolver.go`, `sources/local`) | sources, shared bag map, one lock per source | fetch, wipe | server, remote sources | one map behind several locks | no reply from a half-wiped map |
| agent lifecycle (`agent/daemonize*`, `pidfile*`, `socket*`, `lockfile`, `cli/agent_internal.go`, `cli/lock.go`) | lock file, socket path, pidfile | spawn, listen, shutdown | kernel, other unlocks | crashes, leftovers, two unlocks at once, pid reuse | one agent listens, its files are its own, and a dead one's are in nobody's way |
| config sync (`syncconfig`, `syncadapters`, `cli/sync.go`) | config, base hash, remote blob and meta | push, pull, init, status | editors, the remote, the agent (reload) | two objects, no lock, failures in between | no successful push is lost; only published configs are applied |
| config store and its commands (`config/edit.go`, `migrate.go`, `cli/clone.go`, `bag_import.go`, `config.go`) | the file, its backups, `.tui.lock` | load, migrate, edit, save, sweep | agent, sync, editor | some writers take the lock and some do not; any of them may die | locked edits survive; the migration loses nothing and can be rolled back |
| config codec (`config/encrypt.go`, `decrypt.go`, `nameid.go`) | ids and their sealed dictionary | encode, decode, validate | editor, every save | names and references change while ids must not | what was encoded loads and decodes to what it was |
| config editor (`tui`) | config in memory, screens, dirty flag, saves in flight, messages | some forty edits, save, leave, quit | store, codec, remote sources | saves run beside the loop that edits; messages arrive late | no edit lost without a prompt; ids stay; renames and toggles change nothing else |
| mapping index (`config/mapping.go`) | none | lookups, anchors | resolver, chpwd, hook | wildcards and literal prefixes | the cheap filter never hides a mapped file |
| run and shim (`run`, `shim`) | nonce in the environment, marker file | run a program | agent, unlock, warning | nested invocations, stale markers | secrets injected once, for the command that was typed |
| shell integration (`chpwd`, `shell`) | wrapper directory, anchors, time stamp, bash's hash table | prompt, reconcile, trap | index, shims, editors | partial failure, stale stamp, edits at any moment | wrappers, filter and hash table follow directory and config |
| unlock prompt, warning (`unlock`, `agentwarn`) | countdown, pending key | prompt, count down, unlock | lifecycle, run, shim | ticker against key reader | the user's key decides; the countdown ends |
| remote sources (`sources/aws`, `vault`) | client caches | fetch | resolver, editor | latency, failure | not modelled |

Crypto, git askpass, dotenv and discovery, version check and documentation renderer have no
interleaving of their own; `PROJECT.json` gives the reason for each, and lists the hazards of
the code, each at its line.

## Modules

**AgentServer** is the agent process from listening to exit. Each connection carries one
request, as `Client.call` makes it, and has a program counter `pc`, the operation `op`, the
resolver `ref` it captured or replaced, and for a fetch the variables done and the values seen.
A resolver is named by the reload that built it; `ver`, `cleared` and `wiping` are its config
version, the local sources whose bags are nil, and the source whose `Wipe` holds its lock.
A fetch reads one variable per step, so reloads and shutdown interleave with it. A read of
the bag map through one source while another source blanks it is a data race: it yields the
value, the blank, or a crash of the runtime (`BagValues`, `MapRace`). `a.mu` is `MuFree`, since
only Shutdown holds it for more than one step. `stage` follows the main goroutine: serve,
drain, wipe, down, exit; `dead` is the crash. The ghosts `acked` and `since` relate a fetch to the reloads
acknowledged before its client dialled; `overtaken` records that a reload installed its load while another
still held an older one.

**AgentLifecycle** is the life of several agents around the lock file, the socket path and the
pidfile. The unlock that forks a child names the child and its pid. Each file operation
of `Listen` and `Shutdown` is a step; a step may be the last one of a process (`Crash`, the
kill of `SpawnTimeout`). The ghost variables say why a guarantee is off: `unclean` (an agent died
without Shutdown), `stray` (a listener was closed, and its path unlinked, after its agent had
released the lock, which can happen after a failed accept); `blocked` holds the agents that gave up in `Listen`
although no other was alive, or because the path of the socket was taken.

**ConfigSync** is `sync push` and `sync pull` of several machines, one remote object per
step. A config is the set of edits it contains; different sets have different hashes, so a
set stands for its hash and its sealed blob. The variable `cas` chooses s3 (conditional put of
the blob) or file and ssh (unconditional). The ghost `acked` holds the edits of successful pushes
that no forced push gave up; `raced` records that a push read the remote in the middle of another,
`behind` that a pull died after it had replaced the config and before its sidecar was saved.
A forced push whose read fails goes on without an ETag, as the code does.

**ConfigStore** is `config.toml`, its lock, its migration backups, and the commands that write
it: the editor (`config`), `config init`, `unlock`, `bag import`, `clone` with the editor it opens
afterwards, and `sync pull`. A config is reduced to the shape of its keys, the edits it contains and
`Meta.MigratedAt`; a process (`job`) holds what it has loaded (`mem`), what it read for the
migration (`old`) and the step it is at. `AtomicSave` includes the sweep of expired backups, as in
the code; the `Save` of `InitNew` truncates and then writes, so another process may see `Torn`. Every
process may die at every step, the editor's parent (which holds the flock) also alone. `lost`
records each edit a write took out of the file, by which write and under which lock.

**ConfigCodec** holds the operators of the two forms of a config: ids assigned or kept, the
dictionary (`Translated`), references rewritten, then every value sealed (`SealConfig`): params of sources, values of bags and
each field of a var, under its own context (AAD), and opened only under the same one (`Loads`, `OpenConfig`). What is
empty or looks like an envelope is not sealed; what looks like an envelope and is none does not open, and then the whole file
does not load: a value typed as `enc:v2:...` makes the config unreadable (`Envelopes`, `HoldsEnvelope`). The checks before a save
are there as well. **ConfigTui** uses them in one session of the editor. An
edit changes `cfg` at once and posts a `dirty` message; a save (`Clone`, `Fail`, `WriteOut`, `TakeOver`)
runs beside the loop, which handles messages between key presses. The state of the screens is kept
where it decides about an edit: the open mapping form, the rows of the var tree, the stack of prompts. The ghost
variables (`overlap`, `twice`, `silent`, `failed`, `reused`) name the situations in which the
code gives a guarantee up.

**MappingIndex** holds the lookups of `config.Index` as operators on token sequences: `Match` (external, `doublestar`) with
`?`, `*`, `**`, classes and braces (the constant `Alternatives` says what each may stand for; an escaped character is a token like any other), as a way to cut the path into what the tokens stand for (`StandsFor`), `Mapped`, `CwdCommands`, `Anchors` with their literal prefixes.
**ShellSession** composes it with an interactive bash, its hook and the commands it starts. `at` follows the shell from the prompt through the helper `__chpwd` (stat, load,
reconcile, stamp) to a typed line; `job` follows one command in the foreground and one in the
background through wrapper or `jitenv run`, fetch, countdown, unlock and marker to the program, which
may meet wrappers again (`Hop`) by exec, as a child, through a script, or with a stripped environment.
Either may end with an error before it decides (`NotFound`), and the kernel may refuse the exec after it (`ExecFails`): the marker file stays then.
Time is what the stamp can tell: whether it was written in the current second, or in one before the
last edit. `moved` records an edit that came after a helper read the file and that no prompt since could tell from the stamp;
`unhashed` a failed reconcile that changed wrappers. **Launch** is the abstract specification of a command: held until jitenv has
decided and its program is executed, asked about at most once, run with its secrets or without them, and not run when the user said so
or there is nothing to run.

`MC*.tla` give the constants; `*Proofs.tla` hold the theorems. Definitions that begin
with the comment "Mutant:" are wrong variants of a mapped definition, used to show that a
property notices the corresponding bug; no specification uses them.

## Runs

| Run | Instance | Result |
|---|---|---|
| `agent_server` | 3 connections, cap 2, two of them may reload, two saves, a remote and a local variable | holds: `FetchOkGenuine`, `FetchSeesReload`, `CutOnlyAfterTimeout`, `SlotsBounded` |
| `agent_server_live` | 2 reloaders, 2 local sources, idle timeout 1 | holds: `TypeOK`, `PlaintextOwned`, `WipedOnDrainedExit`, `OneWiper`, `IdleAgentStops` |
| `agent_two_locals` | a fetch over two local sources and a reload | violated: `InFlightFetchPopulated` |
| `agent_two_reloads` | two reloads and a save | violated: `AckedReloadServed` |
| `agent_lifecycle` | 3 unlocks, 1 crash | holds: `TypeOK`, `ServingOwnsFiles`, `OneListening`, `CleanExitLeavesNothing`, `LeftoversDoNotBlock` |
| `agent_spawn` | 2 unlocks, 1 crash | violated: `SpawnOkMeansListening` |
| `config_sync` | 2 machines, 2 edits, 3 blob writes, both adapter kinds, with and without force | holds: `NoLostUpdate`, `PullAppliesLanded` |
| `config_sync_cas` | the same without force | violated: `CasKeepsUpdates` |
| `config_sync_pull` | the same without force | violated: `PullKeepsUnpublished` |
| `config_store` | 2 processes, 3 commands, 2 edits, 1 pull, 1 tick of the clock, windows of 0 and 1 | holds: `TypeOK`, `LockedEditsSurvive`, `MigrationLosesNothing`, `BackupKept` |
| `tui_session` | 2 edits, 2 saves, 1 section, 1 prompt, at most 2 mappings, one value that looks like an envelope | holds: `TuiTypeOK`, `RoundTrip`, `NoSilentLoss`, `StableIds`, `RenameKeepsValues`, `ToggleKeepsOthers` |
| `shell_session` | 2 configs and a broken one, 1 edit, 2 directories, 2 lines of up to 2 commands, 1 hop, 1 failed call or exec, 2 seconds | holds: `SessionTypeOK`, `WrappersCurrent`, `RouteComplete`, `HashFresh`, `FirstHopWins`, `TypedAsks`, `EarlyKeyDecides`, `CountdownEnds`, `KeepsPromise` |

The five violated runs state what a comment or a document of the repository says; `findings`
in `PROJECT.json` quotes it and tells what happens instead. In short:

1. A reload blanks a bag map that a fetch in flight reads through another local source, and
   the fetch is answered OK with empty values.
2. Of two overlapping reloads the older load may be swapped in last.
3. `unlock` takes the socket of a killed agent for that of its child.
4. The s3 conditional put guards the blob, the fence reads the meta: a push between the two
   objects of another passes both.
5. `pull` writes over an edit saved while it asked for the passphrase.

### What the properties leave out, and why

A property that excludes a case names it, because the code does not handle it:

- `FetchSeesReload` is about runs in which no reload installed its load while another held an older one: reloads may overlap in
  every other way. The case left out is finding 2, which `AckedReloadServed` states without that reservation.
- `NoLostUpdate` holds unless a push reads the remote in the middle of another (finding 4), or a pull
  dies between config (`cli/sync.go:362`) and sidecar (`:365`). The second case came out of
  the proof: the machine keeps its old base next to the new config, and when a forced push later puts the bytes of that base
  back on the remote, the machine's plain push passes the fence and drops what
  others had pushed on top. It takes three machines and four pushes.
- `LockedEditsSurvive` speaks of writers that hold `.tui.lock`; import, clone, pull and init do not take it.
  `MigrationLosesNothing` and `BackupKept` assume no pull (it brings the `MigratedAt` of another
  machine, by which the sweep removes the backup early) and no editor whose parent was killed.
- `CleanExitLeavesNothing` is about agents that ran Shutdown; what a crash leaves is the subject of `LeftoversDoNotBlock`.
- `NoSilentLoss` excludes edits made while a save runs, the ARN list (whose opening writes the form
  back without a `dirtyMsg`), the menu's "Save & quit" whose save failed, and a `dirtyMsg` still on its
  way; a value that looks like an envelope is in the file but does not load, which `RoundTrip` states as the exact
  condition. `StableIds` excludes edits and second saves beside a save, and the reuse of a freed name.
- `ToggleKeepsOthers` speaks of the vars the tree can show: not of those of a row still loading, or of a key its source no longer lists.
- `WrappersCurrent` excludes a config edited since the last helper read it, as long as no prompt could tell (the edit came
  after the prompt looked, or in the second of the stamp; the next cd makes up for it), one that does not parse, and a reconcile
  that failed. `HashFresh` excludes what a reconcile that stopped half way changed, which the shell is not told. `RouteComplete` excludes the file `/a`
  of the glob `/a/**`, which `doublestar` matches and the anchor `/a/` does not, although the
  comment on `Anchors` calls the prefix a necessary condition.
- `FirstHopWins` is about the foreground: `jitenv run` writes no marker file, and a marker that could
  not be written cannot stop a second hop. `TypedAsks` is about the first command of a line (`a && b`
  share the marker), and excludes a marker from the background and an inherited `__JITENV_AGENT_WARNED`.
- `EarlyKeyDecides` is about keys before the last second: then ticker and key race, and Ctrl+C may lose. (The loop is
  taken to handle what is ready within a second.) `KeepsPromise` is about the answer the loop took, so that race is out of its scope as well; and
  any failed fetch counts as an agent that is down.

Smaller disagreements between comments and code, met on the way: `InitNew` says its file is written atomically
(`config/edit.go:76`), but `Save` truncates it first; `migrate.go:170` says nothing removes the
backup automatically, but the sweep does; with a window of 0 the migration's own save removes its backup, not
"the next save"; `run.go:88` describes a variable that `run` never sets. The
environment of a program may hold two values of one variable, the inherited one first, and `getenv` takes the first.

### Bounds

Three connections give every pair of operations a third that is rejected or holds the last
slot: two reloads and the fetch that follows one of them. Two saves give every reload its own version; three versions distinguish older, current and later. Two reloaders are the
fewest that overlap, and two local sources the fewest that share the map. Three unlocks allow a
dying agent, its successor and a competitor. In `ConfigSync` three blob writes are a first push and
two competing ones, and two edits let both sides change; longer histories are the business of the proof.
In `ConfigStore` two processes are the fewest that race, and three starts let one of them die and be
retried beside the other; one tick separates inside from outside a window of one day. In
`ConfigTui` two edits allow a rename after an edit, or a deletion and a reuse of its name; two
saves, one beside the other. A session makes no more saves than edits, and a bulk import brings one value. Values are an ordinary
one, the starting ones and one that looks like an envelope. The starting config has a bag, a local and a remote source, and a var of every form. In
`ShellSession` the two configs differ in what they map by directory, by path and by glob; two lines show what a marker or
a hash entry of the first does to the second; one hop meets every marker the first command left.

`MaxSaves`, `MaxCrashes`, `MaxEdits`, `MaxPushes`, `MaxStarts`, `MaxPulls`, `MaxTime`, `MaxVisits`, `MaxModals`,
`MaxMappings`, `MaxLines`, `MaxOnLine`, `MaxHops`, `MaxFaults` and the length of `Ids` bound counters the code does not
have; the proofs do not depend on their values. Connections that can reload, machines, and
the processes of the store are symmetric, and symmetry is used in
the runs without a liveness property. Deadlock is not checked: each system may
stop, when the agent has exited, the session has ended or the bounds are used up.

### Fairness

`AgentServer`: goroutines of a live process run and its timers fire, so the ticker, the delayed
lock, the close of the listener, the shutdown, the accept loop and every handler are weakly fair. Not so
clients, editors and signals, nor a handler that waits for a remote source: `fetchVars` passes
on a context without a deadline. `IdleAgentStops` holds all the same, because the drain has a
timeout. Requests restart the idle clock, but the model has finitely many connections, so the
property speaks of an agent that clients have left alone.
`AgentLifecycle`: an agent that is stopping goes on to its end (stated for the violated run only, whose counterexample needs no
stopping agent). `ConfigSync`: a command is a straight line and goes on; it may fail at any step. `ShellSession`: the ticker of the
foreground's countdown fires and its select loop runs (a command in the background is stopped when it wants the terminal); the user
owes no key, and no program has to end.

## Proofs

tlapm proves for all values of the constants, from `ServerAssumption`,
`LifecycleAssumption`, `SyncAssumption`, `StoreAssumption`, `CodecAssumption`, `TuiAssumption`, `IdAssumption` and
`SessionAssumption` (TLC evaluates them in the runs). With them every invariant and every safety action property of the passing runs is proved:

- `AgentServerProofs`: `TypeCorrect`, `SlotsCorrect`, `CutCorrect`, `PlaintextCorrect`,
  `OneWiperCorrect`, `WipedCorrect`, `FetchSeesReloadCorrect`, and
  `FetchCorrect` for at most one source of type local.
- `AgentLifecycleProofs`: `ListeningCorrect`, `FilesCorrect`, `CleanExitCorrect`,
  `LeftoversCorrect`, `LifecycleTypeCorrect`.
- `ConfigSyncProofs`: `UpdatesKept`, `PullCorrect` (an action property) and `SyncTypeCorrect`.
- `ConfigStoreProofs`: `StoreTypes`, `EditsUnderLockSurvive`, `MigrationKeepsEdits`, `MigrationBackupKept`.
- `ConfigTuiProofs`: the action properties `RenamesKeep` and `TogglesKeep`, and the invariant
  `TuiInvariant` they rest on.
- `ConfigCodecProofs`: `DecodeEncode`, about the operators alone.
- `ConfigTuiSaveProofs`: `FileDecodes`, `NothingLost`, `IdsStable`, `TuiTypes`, and `DictInvariant` they rest on.
- `ShellSessionProofs`: `SessionTypes`, `WrappersFollow`, `FilterComplete`, `HashIsFresh`, `OneHopInjects`, `TypedCommandAsks`,
  `EarlyKeyWins` (an action property), and the refinement `PromiseKept`: `ShellSession` implements `Launch`.

*Agent server.* The invariant is built in layers, each inductive given those below.
`BasicInv` adds to the types what a handler holds at each point of its progress (`HandlerInv`),
that a resolver not installed yet is known to its reload alone (`FreshInv`), and the bound on
the idle age. Without `FreshInv` a swap could reinstall a resolver that someone wipes.
`ShutdownInv` says that handlers are gone after a drain that did not time out, and that the resolver
is dropped only at the end. On these rests `WipeInv`, the conjunction of `PlaintextOwned`,
`OneWiper` and `WipedOnDrainedExit`; none of the three is inductive alone: a resolver has exactly
one owner because it leaves `Agent.resolver` once, and it is wiped on exit because its owner was
drained. `FetchInv` describes what a fetch has collected; its step uses that the only local
source holds its lock while it blanks the map. `FetchSeesReload` follows from `OrderInv`: no version is
newer than the disk (`DiskInv`), what a reload acknowledges was installed (`PendingInv`), and as long as no load was overtaken the
versions of installed resolvers never go back, so a fetch that captured one sees no less than was acknowledged when it dialled (`ServedInv`). `SlotsBounded` counts a finite set of handlers.

*Lifecycle.* `Inv` says that the lock is held exactly from `Acquire` to `ReleaseLock` or death
(`LockInv`), and ties each file to the part of that interval in which its agent owns it
(`FileInv`, `LeftoverInv`). All removals happen inside the interval, except the late close, hence
`stray`. `PathInv` says that the holder of the lock finds the path free when it binds: it removed the leftover, and nobody else binds.

*Sync.* The action property needs `LandedInv`: the meta on the remote always belongs to a
completed push, and a pull about to write holds a published config, because the blob it
read opens only under the meta it read. `NoLostUpdate` needs four more facts (`UpdateInv`): what a command
holds is not newer than the remote (`BookInv`); a config contains what it is based on, unless
`behind` (`BaseInv`); two pushes overlap only if both are conditional, and then one of them will be refused, unless
`raced` (`MutexInv`); acknowledged edits are in both remote objects and in whatever a push that
will not be refused is about to write (`KeptInv`).

*Store.* `StoreInv` ties what a process holds to its step. `SafeInv` says that the holder of the lock has
in its memory every edit that was saved under the lock and lost to no one without it; only then can its
save lose none. `MigInv` says that while the file has the old shape no process is past the migration, that the
process about to save a migration has a whole backup of what the file still contains, and that there is one migration at most.

*Editor.* `RenameKeepsValues` and `ToggleKeepsOthers` are about single steps, but not true of every state:
the invariant `TuiInv` says that the config is well formed (`IsConfig`: no name is empty, a var is a literal or a
reference), that the form is open on a mapping that exists (`FormInv`), and that each row of an open var tree
shows what the vars of the mapping select (`TreeInv`). Without `TreeInv` a toggle of one row would write the stale
selection of another. The lemmas say what each edit makes of a config (`BagRenamed`, `KeyRenamed`,
`SourceRenamed`, `TreeVars`), then that each action keeps the invariant.

*Codec.* `GoodIds` says what an assignment of ids to the sources, bags and keys of a config has to be: injective,
every key under the id of its bag, and away from all names (`Name`), so that a name the dictionary does not know is left alone in both
directions. The lemmas show that the ids `newID` mints and those kept from a carried dictionary together are such an assignment,
also where the dictionary has two ids for one name, and that each part of the config - sources,
bags, vars - comes back as it was. Sealing is a layer of its own: ids and names never look like envelopes, so sealing and opening a translated config gives it
back, and it loads exactly if the config has no value that looks like one (`OpenSealed`, `TranslatedEnvelopes`).

*Saves.* `DictInv` says that the dictionaries in memory and in each save hold only ids that have been minted, so that a
minted id is new to all of them, and that a save in its write phase has a well formed clone. That gives `RoundTrip`,
with any number of saves beside each other. `NoSilentLoss` needs three invariants: the mapping being created is the last one
(`CreateInv`); as long as nothing is edited beside a save, either the file has what the config has
or the session has been told of a difference, a save that wrote has the current config, and a report of a save means that
the file is current - but a draft that cannot be saved (`Draft`: a new mapping that is not complete, or one whose kind was
cleared) keeps all saves from passing their checks (`SyncInv`); and at the end the file has the
edits (`EndInv`). `StableIds` needs that bags are told apart by their creation (`BornInv`), that a carried dictionary has one id per
bag (`SingleInv`), and that it knows each bag by exactly the ids it was saved under, whether it is the one in memory or
the one a finished save is about to hand back (`FitInv`).

*Shell.* The proof first shows what each step makes of the record of a command (`GoodStep`), then lifts it
over the slots. `JobInv` says where a command is and what was said about it, `FrontInv` which markers the
command in the foreground may find, `HashInv` what bash's table may hold; `HookInv` relates stamp, edits and wrappers: a stamp
equal to the config's time means the wrappers and the anchors on disk are those of its content, unless the reconcile failed, and
the shell has read those anchors; and so it is, whatever the stamp says, as long as no edit was missed (`moved`). `RouteComplete` then follows from the patterns alone: `Match` says that a path can be cut into what the tokens of a
pattern stand for, and by the least position at which a token before the first wildcard did not stand for
itself there is none (`LiteralsCut`, `MatchHasPrefix`); so the prefix lets the path through, and the directory of a command is
searched (`BareComplete`). The
refinement maps a record to its stage in `Launch`, and `Moves` lists what a step may do to it.

Only model-checked: liveness (`IdleAgentStops`, `CountdownEnds`), because fairness is outside
the prover, and the five violated runs. An induction over data is out of its reach too; where a proof needed one, the
definition was given without recursion and the proof goes by the least counterexample (`LeastNumber`).

## Assumptions about what is not in the repository

bubbletea runs the commands of a nested sequence one after the other and delivers messages in any
order; a quit from a key ends the loop at once. A command in the background that asks
the terminal is stopped by the kernel. A shell that inherits two values of a variable passes on the last.
Every command that a config names is on the `PATH`, and no pattern is empty, as `ValidateStructure` demands (`SessionAssumption`). Argon2, AEAD and SHA-256 are ideal.
`newID` never mints an id twice (`CodecAssumption`: it draws at random and checks against the dictionary at hand, and two drawings
in different saves are taken to differ), nor one that is the name of something (`Name`), and no id or name looks like an envelope. The config a session starts from was validated when it was saved
(`TuiAssumption`), and there are ids enough for it (`IdAssumption`).

## Not modelled

- Windows, zsh and PowerShell variants, and the installation into the shell's profile.
- The bytes of the protocol (a bad message is a failed read); `OpReload` without a callback, which the
  daemon always installs; `pickValue`; the garbage collection of shell directories.
- `sync init`, `status`, `list` and the wrapping of the data key: they write the sidecar once, before any
  other command. A canonical encoding of the config is assumed, and one sync command per machine at a time.
- The editor's layout, filters and cursor, `var_wizard.go` (no screen opens it), and the order of vars in a mapping (with it
  the slot in the context of a var's fields).
- Of the codec: the old form `enc:v1`, pasted envelopes that do open, extra fields of vars, and sources with several params.
- `expandTilde`, warnings about colliding mappings, the retries of the passphrase prompt.
- What remote sources cache, git askpass, discovery, dotenv, crypto, the version check and the packaging: no
  state of their own that interleaves with the rest, or pure I/O.
- The agent inside the shell's session: `ShellSession` sees a fetch that succeeds or fails, which is all that
  `AgentServer` promises a client (its reply may be lost at any step).
