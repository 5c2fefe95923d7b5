---------------------------- MODULE ConfigStore ----------------------------
(***************************************************************************)
(* config.toml and the commands that read, migrate and rewrite it: the      *)
(* `jitenv config` editor, `config init`, `unlock`, `bag import`, `clone`   *)
(* with the editor it opens afterwards, and `sync pull`.  Each is a process *)
(* of its own; some hold config.toml.tui.lock while they work, others write *)
(* without it, and any of them may die at any step.                         *)
(*                                                                         *)
(* A config is abstracted to the shape of its keys ("names" before the      *)
(* opaque-id migration, "ids" after it), the set of user edits it contains  *)
(* and Meta.MigratedAt.  Encryption keeps these and is left out.            *)
(***************************************************************************)
EXTENDS Integers, FiniteSets

CONSTANTS Procs,
          MaxEdits,     \* bound on edits made, over all processes
          MaxTime,      \* bound on the clock
          MaxStarts,    \* bound on commands started
          MaxPulls,     \* bound on pulled configs written
          Retentions,   \* values of JITENV_MIGRATION_BACKUP_RETENTION_DAYS
          Absent, Torn, \* no config.toml; one truncated and not yet written
          None

Edits == 1 .. MaxEdits
Times == 0 .. MaxTime

Shapes == {"names", "ids"}
Config == [shape : Shapes, edits : SUBSET Edits, migratedAt : Times \cup {None}]

ASSUME StoreAssumption ==
    /\ MaxEdits \in Nat /\ MaxTime \in Nat /\ MaxStarts \in Nat /\ MaxPulls \in Nat
    /\ Retentions \subseteq Int
    /\ None \notin Times /\ None \notin Procs
    /\ {Absent, Torn, None} \cap Config = {}
    /\ Absent # Torn

VARIABLES
    file,       \* config.toml: Absent, Torn or a config
    opened,     \* processes about to write through an open file of `file`
    lock,       \* holder of config.toml.tui.lock, or None
    backups,    \* *.pre-id-migration.<time>.bak next to it
    now,        \* the clock
    retention,  \* the rollback window; negative: backups are kept for ever
    job,        \* what each process is doing
    made,       \* number of edits made
    starts,     \* number of commands started
    pulls,      \* number of pulled configs written
    orphaned,   \* an editor has outlived the process that holds its lock
    acked,      \* edits saved by an editor while it held the lock
    lost,       \* edits a write removed from config.toml, and by which write
    migrations  \* migrations that were saved

counters == <<made, starts, pulls>>
history == <<orphaned, acked, lost, migrations>>
vars == <<file, opened, lock, backups, now, retention, job, counters, history>>

Fresh == [shape |-> "ids", edits |-> {}, migratedAt |-> None]
Loadable(f) == f \notin {Absent, Torn}

\* Load of an existing file: one that is truncated parses as a config that is
\* empty and has no header, which only the passphrase prompt rejects.
Parsed(f) == IF f = Torn THEN Fresh ELSE f
EditsOf(f) == IF Loadable(f) THEN f.edits ELSE {}

Ops == {"idle", "config", "init", "unlock", "import", "clone", "post", "pull"}
Steps == {"start", "load", "init", "truncate", "encode", "prompt", "probe",
          "migrate", "backup", "resave", "reload", "session", "mutate", "apply"}
Idle == [op |-> "idle", at |-> "start", mem |-> None, old |-> None,
         bak |-> None, own |-> {}, migrated |-> FALSE]

Init ==
    /\ file \in {Absent} \cup {[Fresh EXCEPT !.shape = s] : s \in Shapes}
    /\ opened = {}
    /\ lock = None
    /\ backups = {}
    /\ now = 0
    /\ retention \in Retentions
    /\ job = [p \in Procs |-> Idle]
    /\ made = 0 /\ starts = 0 /\ pulls = 0
    /\ orphaned = FALSE
    /\ acked = {}
    /\ lost = {}
    /\ migrations = {}

-----------------------------------------------------------------------------
(* Writing the file.                                                       *)

Goto(p, step) == job' = [job EXCEPT ![p].at = step]

\* The process ends, and with it the lock it holds.
Released(p) == IF lock = p THEN None ELSE lock
End(p) ==
    /\ job' = [job EXCEPT ![p] = Idle]
    /\ lock' = Released(p)
    /\ opened' = opened \ {p}

\* An edit is lost when a write removes it from the file.
Losses(p, how, new) ==
    {[edit |-> e, how |-> how, locked |-> lock = p, acked |-> e \in acked] :
        e \in EditsOf(file) \ new.edits}

\* sweepMigrationBackupIfExpired: the backups a save leaves behind.
Expired(c) ==
    /\ retention >= 0
    /\ c.migratedAt # None
    /\ now - c.migratedAt >= retention

\* Mutant: the rollback window is not looked at.
SweptBackupsAlways(c, baks) == IF c.migratedAt # None THEN {} ELSE baks

SweptBackups(c, baks) == IF Expired(c) THEN {} ELSE baks

\* atomicSave: rename of a complete sibling over the file, then the sweep.
\* A writer that has the old file open goes on writing to that one.
AtomicSave(p, how, c) ==
    /\ file' = c
    /\ opened' = {}
    /\ backups' = SweptBackups(c, backups)
    /\ lost' = lost \cup Losses(p, how, c)

-----------------------------------------------------------------------------
(* Commands up to the passphrase.                                          *)

\* runConfigTUI: the parent takes the lock, or refuses to run, and starts the
\* editor as its child.
StartConfig(p) ==
    /\ job[p].op = "idle" /\ starts < MaxStarts
    /\ lock = None
    /\ lock' = p
    /\ job' = [job EXCEPT ![p] = [Idle EXCEPT !.op = "config", !.at = "load"]]
    /\ starts' = starts + 1
    /\ UNCHANGED <<file, opened, backups, now, retention, made, pulls, history>>

\* The commands that take no lock at their start.
Start(p, op, step) ==
    /\ job[p].op = "idle" /\ starts < MaxStarts
    /\ job' = [job EXCEPT ![p] = [Idle EXCEPT !.op = op, !.at = step]]
    /\ starts' = starts + 1
    /\ UNCHANGED <<file, opened, lock, backups, now, retention, made, pulls, history>>

StartInit(p) == Start(p, "init", "init")
StartUnlock(p) == Start(p, "unlock", "load")
StartImport(p) == Start(p, "import", "load")
StartClone(p) == Start(p, "clone", "load")
StartPull(p) == Start(p, "pull", "load")

\* The config the passphrase is checked against (pull reads bytes only).
LoadConfig(p) ==
    /\ job[p].at = "load"
    /\ job[p].op \notin {"config", "post"}
    /\ Loadable(file) \/ (file = Torn /\ job[p].op = "pull")
    /\ job' = [job EXCEPT ![p].mem = Parsed(file), ![p].at = "prompt"]
    /\ UNCHANGED <<file, opened, lock, backups, now, retention, counters, history>>

\* loadOrInit of the editor: without a file it offers to create one.
LoadOrInit(p) ==
    /\ job[p].at = "load"
    /\ job[p].op = "config"
    /\ \/ /\ file = Absent
          /\ Goto(p, "init")
       \/ /\ Loadable(file)
          /\ job' = [job EXCEPT ![p].mem = file, ![p].at = "prompt"]
    /\ UNCHANGED <<file, opened, lock, backups, now, retention, counters, history>>

\* RunWithMappingTemplate: the editor of a clone has the key already.
LoadPost(p) ==
    /\ job[p].at = "load"
    /\ job[p].op = "post"
    /\ file # Absent
    /\ job' = [job EXCEPT ![p].mem = Parsed(file), ![p].at = "probe"]
    /\ UNCHANGED <<file, opened, lock, backups, now, retention, counters, history>>

\* InitNew: the file must not exist when the passphrase has been read.
InitNew(p) ==
    /\ job[p].at = "init"
    /\ file = Absent
    /\ Goto(p, "truncate")
    /\ UNCHANGED <<file, opened, lock, backups, now, retention, counters, history>>

\* Save opens the file with O_TRUNC ...
Truncate(p) ==
    /\ job[p].at = "truncate"
    /\ file' = Torn
    /\ opened' = opened \cup {p}
    /\ lost' = lost \cup Losses(p, "init", Fresh)
    /\ Goto(p, "encode")
    /\ UNCHANGED <<lock, backups, now, retention, counters, orphaned, acked, migrations>>

\* ... and writes the config into it; the editor goes on to load it.
WriteNew(p) ==
    /\ job[p].at = "encode"
    /\ file' = IF p \in opened THEN Fresh ELSE file
    /\ IF job[p].op = "config"
       THEN Goto(p, "load") /\ opened' = opened \ {p} /\ UNCHANGED lock
       ELSE End(p)
    /\ UNCHANGED <<backups, now, retention, counters, history>>

\* PromptAndDeriveKey accepted a passphrase.
Unlocked(p) ==
    /\ job[p].at = "prompt"
    /\ Goto(p, CASE job[p].op = "config" -> "migrate"
                 [] job[p].op = "pull" -> "apply"
                 [] OTHER -> "probe")
    /\ UNCHANGED <<file, opened, lock, backups, now, retention, counters, history>>

-----------------------------------------------------------------------------
(* The opaque-id migration.                                                *)

\* Mutant: the lock is taken whether or not the migration is needed, and kept.
ProbeKeepsLock(p) ==
    /\ job[p].at = "probe"
    /\ file # Absent
    /\ lock = None
    /\ lock' = p
    /\ Goto(p, IF Parsed(file).shape = "names" THEN "migrate" ELSE "reload")
    /\ UNCHANGED <<file, opened, backups, now, retention, counters, history>>

\* Mutant: the migration runs without the lock.
ProbeUnlocked(p) ==
    /\ job[p].at = "probe"
    /\ file # Absent
    /\ Goto(p, IF Parsed(file).shape = "names" THEN "migrate" ELSE "reload")
    /\ UNCHANGED <<file, opened, lock, backups, now, retention, counters, history>>

\* MigrateToOpaqueIDs: a probe without the lock; a config that needs the
\* migration is migrated under the lock, or the command fails.
Probe(p) ==
    /\ job[p].at = "probe"
    /\ file # Absent
    /\ \/ /\ Parsed(file).shape = "ids"
          /\ Goto(p, "reload") /\ UNCHANGED lock
       \/ /\ Parsed(file).shape = "names"
          /\ lock = None
          /\ lock' = p
          /\ Goto(p, "migrate")
    /\ UNCHANGED <<file, opened, backups, now, retention, counters, history>>

\* The migration returns: the lock taken by Probe is released.
LockAfterMigration(p) == IF job[p].op = "config" THEN lock ELSE Released(p)

\* MigrateToOpaqueIDsLocked: the check is made again under the lock.
Recheck(p) ==
    /\ job[p].at = "migrate"
    /\ file # Absent
    /\ IF Parsed(file).shape = "names"
       THEN job' = [job EXCEPT ![p].old = file, ![p].at = "backup"] /\ UNCHANGED lock
       ELSE Goto(p, "reload") /\ lock' = LockAfterMigration(p)
    /\ UNCHANGED <<file, opened, backups, now, retention, counters, history>>

\* writeVerbatimBackup: O_EXCL refuses a second backup of the same second,
\* and the copy is of the file as it is now.
Backup(p) ==
    /\ job[p].at = "backup"
    /\ file # Absent
    /\ \A b \in backups : b.at # now
    /\ backups' = backups \cup {[at |-> now, of |-> file, whole |-> TRUE]}
    /\ job' = [job EXCEPT ![p].bak = now, ![p].at = "resave"]
    /\ UNCHANGED <<file, opened, lock, now, retention, counters, history>>

\* The process dies while it copies.
BackupDies(p) ==
    /\ job[p].at = "backup"
    /\ file # Absent
    /\ \A b \in backups : b.at # now
    /\ backups' = backups \cup {[at |-> now, of |-> file, whole |-> FALSE]}
    /\ End(p)
    /\ UNCHANGED <<file, now, retention, counters, history>>

\* Mutant: the stamp is ahead of the clock.
MigratedAhead(c) == [c EXCEPT !.shape = "ids", !.migratedAt = now + 1]
\* Decrypt and encrypt the config read by Recheck, stamp it and save it.
Migrated(c) == [c EXCEPT !.shape = "ids", !.migratedAt = now]

MigrateSave(p) ==
    /\ job[p].at = "resave"
    /\ AtomicSave(p, "migrate", Migrated(job[p].old))
    /\ migrations' = migrations \cup
          {[at |-> now, from |-> job[p].old, bak |-> job[p].bak]}
    /\ job' = [job EXCEPT ![p].migrated = TRUE, ![p].at = "reload"]
    /\ lock' = LockAfterMigration(p)
    /\ UNCHANGED <<now, retention, counters, orphaned, acked>>

\* The two editors load the config anew only if this process migrated it.
OpenSession(p) ==
    /\ job[p].at = "reload"
    /\ job[p].op \in {"config", "post"}
    /\ file # Absent
    /\ job' = [job EXCEPT ![p].mem = IF job[p].migrated THEN Parsed(file) ELSE @,
                          ![p].at = "session"]
    /\ UNCHANGED <<file, opened, lock, backups, now, retention, counters, history>>

\* bag import and clone always do.
Reload(p) ==
    /\ job[p].at = "reload"
    /\ job[p].op \in {"import", "clone"}
    /\ file # Absent
    /\ job' = [job EXCEPT ![p].mem = Parsed(file), ![p].at = "mutate"]
    /\ UNCHANGED <<file, opened, lock, backups, now, retention, counters, history>>

\* unlock hands the key to a new agent, which reads the file itself.
SpawnAgent(p) ==
    /\ job[p].at = "reload"
    /\ job[p].op = "unlock"
    /\ file # Absent
    /\ End(p)
    /\ UNCHANGED <<file, backups, now, retention, counters, history>>

-----------------------------------------------------------------------------
(* Edits and their saves.  EncryptInPlace always writes the id shape.       *)

Encoded(c) == [c EXCEPT !.shape = "ids"]

\* A change in the editor.
Edit(p) ==
    /\ job[p].at = "session"
    /\ made < MaxEdits
    /\ made' = made + 1
    /\ job' = [job EXCEPT ![p].mem.edits = @ \cup {made + 1},
                          ![p].own = @ \cup {made + 1}]
    /\ UNCHANGED <<file, opened, lock, backups, now, retention, starts, pulls, history>>

\* Ctrl+S in the editor: no lock is taken, and none is needed if the parent
\* holds it for the session.
SaveEdits(p) ==
    /\ job[p].at = "session"
    /\ job[p].own # {}
    /\ AtomicSave(p, "save", Encoded(job[p].mem))
    /\ acked' = IF lock = p THEN acked \cup job[p].own ELSE acked
    /\ job' = [job EXCEPT ![p].mem = Encoded(@), ![p].own = {}]
    /\ UNCHANGED <<lock, now, retention, counters, orphaned, migrations>>

\* One change to the config loaded, saved without the lock.
SaveOneEdit(p) ==
    /\ job[p].at = "mutate"
    /\ made < MaxEdits
    /\ made' = made + 1
    /\ AtomicSave(p, "save",
          [Encoded(job[p].mem) EXCEPT !.edits = @ \cup {made + 1}])
    /\ UNCHANGED <<lock, now, retention, starts, pulls, orphaned, acked, migrations>>

ImportSave(p) ==
    /\ job[p].op = "import"
    /\ SaveOneEdit(p)
    /\ job' = [job EXCEPT ![p] = Idle]

\* clone then opens the editor on the file it wrote.
CloneSave(p) ==
    /\ job[p].op = "clone"
    /\ SaveOneEdit(p)
    /\ job' = [job EXCEPT ![p] = [Idle EXCEPT !.op = "post", !.at = "load"]]

\* writePulledConfig: the config of another machine, with some of the edits
\* saved here so far, which may not have been migrated, or have been migrated
\* at another time.
PulledConfig ==
    {c \in Config : /\ c.edits \subseteq EditsOf(file) \cup {l.edit : l \in lost}
                    /\ c.migratedAt \in (0 .. now) \cup {None}
                    /\ c.shape = "names" => c.migratedAt = None}

Pull(p, c) ==
    /\ job[p].at = "apply"
    /\ pulls < MaxPulls
    /\ pulls' = pulls + 1
    /\ AtomicSave(p, "pull", c)
    /\ job' = [job EXCEPT ![p] = Idle]
    /\ UNCHANGED <<lock, now, retention, made, starts, orphaned, acked, migrations>>

\* The command is over, gave up (no file, wrong passphrase, lock held, an
\* error of a call) or died.
Exit(p) ==
    /\ job[p].op # "idle"
    /\ End(p)
    /\ UNCHANGED <<file, backups, now, retention, counters, history>>

\* The parent of the editor is killed: its flock is gone, the editor is not.
ParentDies(p) ==
    /\ job[p].op = "config"
    /\ lock = p
    /\ lock' = None
    /\ orphaned' = TRUE
    /\ UNCHANGED <<file, opened, backups, now, retention, job, counters, acked, lost, migrations>>

Tick ==
    /\ now < MaxTime
    /\ now' = now + 1
    /\ UNCHANGED <<file, opened, lock, backups, retention, job, counters, history>>

Next ==
    \/ Tick
    \/ \E p \in Procs :
         \/ StartConfig(p) \/ StartInit(p) \/ StartUnlock(p) \/ StartImport(p)
         \/ StartClone(p) \/ StartPull(p)
         \/ LoadConfig(p) \/ LoadOrInit(p) \/ LoadPost(p)
         \/ InitNew(p) \/ Truncate(p) \/ WriteNew(p)
         \/ Unlocked(p) \/ Probe(p) \/ Recheck(p) \/ Backup(p) \/ BackupDies(p)
         \/ MigrateSave(p) \/ OpenSession(p) \/ Reload(p) \/ SpawnAgent(p)
         \/ Edit(p) \/ SaveEdits(p) \/ ImportSave(p) \/ CloneSave(p)
         \/ \E c \in PulledConfig : Pull(p, c)
         \/ Exit(p) \/ ParentDies(p)

Spec == Init /\ [][Next]_vars

-----------------------------------------------------------------------------
(* Properties.                                                             *)

Job == [op : Ops, at : Steps, mem : Config \cup {None}, old : Config \cup {None},
        bak : Times \cup {None}, own : SUBSET Edits, migrated : BOOLEAN]
BackupFile == [at : Times, of : Config \cup {Torn}, whole : BOOLEAN]
Loss == [edit : Edits, how : {"save", "migrate", "pull", "init"}, locked : BOOLEAN,
         acked : BOOLEAN]
Migration == [at : Times, from : Config, bak : Times]

\* Types of the file, the lock, the processes and the history of the store.
TypeOK ==
    /\ file \in Config \cup {Absent, Torn}
    /\ opened \subseteq Procs
    /\ lock \in Procs \cup {None}
    /\ backups \subseteq BackupFile
    /\ now \in Times
    /\ retention \in Retentions
    /\ job \in [Procs -> Job]
    /\ made \in 0 .. MaxEdits /\ starts \in 0 .. MaxStarts /\ pulls \in 0 .. MaxPulls
    /\ orphaned \in BOOLEAN
    /\ acked \subseteq Edits
    /\ lost \subseteq Loss
    /\ migrations \subseteq Migration

\* An edit saved by an editor that held config.toml.tui.lock is never dropped
\* by another holder of the lock, editor or migration: only a writer without
\* the lock (import, clone and its editor, pull, init, an editor whose parent
\* was killed) can take it out of the file.
LockedEditsSurvive ==
    \A l \in lost :
        l.acked /\ l.locked =>
            \E k \in lost : k.edit = l.edit /\ ~k.locked

\* The lock of every migration is really held, and no config comes from
\* another machine.
Undisturbed == pulls = 0 /\ ~orphaned

\* The migration rewrites the config it read before its backup: nothing is
\* saved in between, whichever command runs it, unless a pull or an editor
\* without its parent is in the way.
MigrationLosesNothing ==
    Undisturbed => \A l \in lost : l.how # "migrate"

Retained(t) == retention < 0 \/ now - t < retention

\* For the rollback window of every migration that was saved, a complete copy
\* of the config it replaced stays on disk, over crashes, retries and later
\* saves.  (A pulled config brings the MigratedAt of another machine, by
\* which the sweep of its save removes the backup earlier.)
BackupKept ==
    Undisturbed => \A m \in migrations :
        Retained(m.at) => [at |-> m.bak, of |-> m.from, whole |-> TRUE] \in backups

=============================================================================
