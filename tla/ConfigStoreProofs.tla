------------------------- MODULE ConfigStoreProofs --------------------------
(***************************************************************************)
(* What the store promises for any number of processes, edits, pulls and    *)
(* seconds.  First what each step makes of the record of its process, then  *)
(* the edits that are safe, then the migration.                             *)
(***************************************************************************)
EXTENDS ConfigStore, TLAPS

HasMem == {"prompt", "probe", "migrate", "backup", "resave", "reload", "session", "mutate",
           "apply"}
Migrating == {"migrate", "backup", "resave"}

\* What a process has in memory, and which commands come where.
JobInv(r) ==
    /\ r \in Job
    /\ r.at \in HasMem => r.mem \in Config
    /\ r.at \in {"backup", "resave"} => r.old \in Config
    /\ r.at = "resave" => r.bak \in Times
    /\ r.at = "session" => r.op \in {"config", "post"} /\ r.own \subseteq r.mem.edits
    /\ r.at # "session" => r.own = {}
    /\ r.at = "load" => r.op # "init"
    /\ r.at = "prompt" => r.op \in {"config", "unlock", "import", "clone", "pull"}
    /\ r.at \in {"init", "truncate", "encode"} => r.op \in {"config", "init"}
    /\ r.at = "probe" => r.op \in {"unlock", "import", "clone", "post"}
    /\ r.at \in Migrating \cup {"reload"} => r.op \in {"config", "unlock", "import", "clone", "post"}
    /\ r.at = "mutate" => r.op \in {"import", "clone"}
    /\ r.at = "apply" => r.op = "pull"
    /\ r.at = "start" <=> r.op = "idle"

\* The lock is held by an editor, or by a migration.
LockInv == \A p \in Procs : lock = p => job[p].op = "config" \/ job[p].at \in Migrating

StoreInv == TypeOK /\ (\A p \in Procs : JobInv(job[p])) /\ LockInv

-----------------------------------------------------------------------------
(* Configs and the records of processes.                                    *)

\* None stands for no config, no time and no process.
LEMMA ConfigFacts ==
    /\ Fresh \in Config /\ None \notin Config /\ Absent \notin Config /\ Torn \notin Config
    /\ Absent # Torn
    /\ \A c \in Config, s \in Shapes : [c EXCEPT !.shape = s] \in Config
    /\ \A c \in Config, e \in SUBSET Edits : [c EXCEPT !.edits = e] \in Config
    /\ \A c \in Config, t \in Times : [c EXCEPT !.migratedAt = t] \in Config
<1>1. None \notin Config /\ Absent \notin Config /\ Torn \notin Config /\ Absent # Torn
  BY StoreAssumption DEF StoreAssumption
<1>2. Fresh \in Config
  BY DEF Fresh, Config, Shapes
<1>3. \A c \in Config, s \in Shapes : [c EXCEPT !.shape = s] \in Config
  BY DEF Config
<1>4. \A c \in Config, e \in SUBSET Edits : [c EXCEPT !.edits = e] \in Config
  BY DEF Config
<1>5. \A c \in Config, t \in Times : [c EXCEPT !.migratedAt = t] \in Config
  BY DEF Config
<1> QED
  BY <1>1, <1>2, <1>3, <1>4, <1>5

\* Each field of a record takes the values of its type.
LEMMA Updates ==
    ASSUME NEW r \in Job
    PROVE  /\ \A x \in Steps : [r EXCEPT !.at = x] \in Job
           /\ \A x \in Config : [r EXCEPT !.mem = x] \in Job
           /\ \A x \in Config : [r EXCEPT !.old = x] \in Job
           /\ \A x \in Times : [r EXCEPT !.bak = x] \in Job
           /\ \A x \in SUBSET Edits : [r EXCEPT !.own = x] \in Job
           /\ [r EXCEPT !.migrated = TRUE] \in Job
<1> USE DEF Job
<1>1. \A x \in Steps : [r EXCEPT !.at = x] \in Job
  OBVIOUS
<1>2. \A x \in Config : [r EXCEPT !.mem = x] \in Job
  OBVIOUS
<1>3. \A x \in Config : [r EXCEPT !.old = x] \in Job
  OBVIOUS
<1>4. \A x \in Times : [r EXCEPT !.bak = x] \in Job
  OBVIOUS
<1>5. \A x \in SUBSET Edits : [r EXCEPT !.own = x] \in Job
  OBVIOUS
<1>6. [r EXCEPT !.migrated = TRUE] \in Job
  OBVIOUS
<1> HIDE DEF Job
<1> QED
  BY <1>1, <1>2, <1>3, <1>4, <1>5, <1>6

\* A process that does nothing, or has just started.
LEMMA StartFacts ==
    /\ JobInv(Idle)
    /\ \A op \in Ops \ {"idle"}, at \in {"load", "init"} :
          (at = "init" <=> op = "init") =>
          /\ JobInv([Idle EXCEPT !.op = op, !.at = at])
          /\ [Idle EXCEPT !.op = op, !.at = at].op = op
          /\ [Idle EXCEPT !.op = op, !.at = at].at = at
<1>1. Idle \in Job
  BY DEF Idle, Job, Ops, Steps
<1>2. \A op \in Ops, at \in Steps : [Idle EXCEPT !.op = op, !.at = at] \in Job
  BY DEF Idle, Job
<1>3. JobInv(Idle)
  BY <1>1 DEF JobInv, Idle, HasMem, Migrating
<1>4. ASSUME NEW op \in Ops \ {"idle"}, NEW at \in {"load", "init"}, at = "init" <=> op = "init"
      PROVE  JobInv([Idle EXCEPT !.op = op, !.at = at])
  <2>1. [Idle EXCEPT !.op = op, !.at = at] \in Job
    BY <1>2 DEF Steps
  <2> QED
    BY <1>4, <2>1 DEF JobInv, Idle, HasMem, Migrating
<1> QED
  BY <1>3, <1>4 DEF Idle

\* Parsed is a config, unless there is no file.
LEMMA ParsedFacts ==
    ASSUME file \in Config \cup {Absent, Torn}
    PROVE  /\ file # Absent => Parsed(file) \in Config
           /\ Loadable(file) <=> file \in Config
           /\ EditsOf(file) = IF file \in Config THEN file.edits ELSE {}
           /\ EditsOf(file) \in SUBSET Edits
           /\ file # Absent => Parsed(file).edits = EditsOf(file)
<1>1. Loadable(file) <=> file \in Config
  BY ConfigFacts DEF Loadable
<1>2. file # Absent => Parsed(file) \in Config
  BY ConfigFacts DEF Parsed
<1>3. EditsOf(file) = IF file \in Config THEN file.edits ELSE {}
  BY <1>1 DEF EditsOf
<1>4. file \in Config => file.edits \in SUBSET Edits
  BY DEF Config
<1>5. file # Absent => Parsed(file).edits = EditsOf(file)
  BY <1>3, ConfigFacts DEF Parsed, Fresh
<1> QED
  BY <1>1, <1>2, <1>3, <1>4, <1>5

-----------------------------------------------------------------------------
(* What each step makes of the record of its process.                        *)

\* Only the record of p changes, and it stays a record.
Moved(p) ==
    /\ job' \in [Procs -> Job] /\ JobInv(job'[p])
    /\ \A q \in Procs \ {p} : job'[q] = job[q]

\* r becomes s, but for the fields named elsewhere.
Kept(r, s) ==
    s.op = r.op /\ s.mem = r.mem /\ s.old = r.old /\ s.bak = r.bak /\ s.own = r.own

\* A record that replaces the one of p.
LEMMA Replaced ==
    ASSUME NEW p \in Procs, NEW s, job \in [Procs -> Job], JobInv(s),
           job' = [job EXCEPT ![p] = s]
    PROVE  Moved(p) /\ job'[p] = s
<1>1. s \in Job
  BY DEF JobInv
<1> QED
  BY <1>1 DEF Moved

\* Goto changes the step only.
LEMMA GotoFacts ==
    ASSUME NEW p \in Procs, NEW step \in Steps, job \in [Procs -> Job], Goto(p, step)
    PROVE  /\ job' = [job EXCEPT ![p] = job'[p]]
           /\ job'[p] \in Job /\ job'[p].at = step /\ Kept(job[p], job'[p])
<1>1. job' = [job EXCEPT ![p] = [job[p] EXCEPT !.at = step]]
  BY DEF Goto
<1>2. [job[p] EXCEPT !.at = step] \in Job
  BY Updates
<1>3. job'[p] = [job[p] EXCEPT !.at = step]
  BY <1>1
<1> QED
  BY <1>1, <1>2, <1>3 DEF Kept, Job

\* The process is over.
LEMMA EndFacts ==
    ASSUME StoreInv, NEW p \in Procs, job' = [job EXCEPT ![p] = Idle]
    PROVE  Moved(p) /\ job'[p] = Idle /\ job'[p].op = "idle" /\ job'[p].at = "start"
<1>1. Moved(p) /\ job'[p] = Idle
  BY StartFacts, Replaced DEF StoreInv, TypeOK
<1> QED
  BY <1>1 DEF Idle

\* A command starts.
LEMMA BeginFacts ==
    ASSUME StoreInv, NEW p \in Procs, NEW op \in Ops \ {"idle"}, NEW step \in {"load", "init"},
           step = "init" <=> op = "init",
           job' = [job EXCEPT ![p] = [Idle EXCEPT !.op = op, !.at = step]]
    PROVE  Moved(p) /\ job'[p].op = op /\ job'[p].at = step
<1>1. /\ JobInv([Idle EXCEPT !.op = op, !.at = step])
      /\ [Idle EXCEPT !.op = op, !.at = step].op = op
      /\ [Idle EXCEPT !.op = op, !.at = step].at = step
  BY StartFacts
<1>2. Moved(p) /\ job'[p] = [Idle EXCEPT !.op = op, !.at = step]
  BY <1>1, Replaced DEF StoreInv, TypeOK
<1> QED
  BY <1>1, <1>2

\* A step that is only a Goto.
LEMMA GotoMoves ==
    ASSUME StoreInv, NEW p \in Procs, NEW step \in Steps \ {"start", "session", "resave", "backup"},
           Goto(p, step), job[p].at # "session",
           step \in HasMem => job[p].at \in HasMem,
           step = "load" => job[p].op # "init",
           step = "prompt" => job[p].op \in {"config", "unlock", "import", "clone", "pull"},
           step \in {"init", "truncate", "encode"} => job[p].op \in {"config", "init"},
           step = "probe" => job[p].op \in {"unlock", "import", "clone", "post"},
           step \in {"migrate", "reload"} =>
              job[p].op \in {"config", "unlock", "import", "clone", "post"},
           step = "mutate" => job[p].op \in {"import", "clone"},
           step = "apply" => job[p].op = "pull",
           job[p].op # "idle"
    PROVE  Moved(p) /\ job'[p].at = step /\ Kept(job[p], job'[p])
<1> DEFINE r == job[p]
           s == job'[p]
<1>1. JobInv(r) /\ job \in [Procs -> Job]
  BY DEF StoreInv, TypeOK
<1>2. job' = [job EXCEPT ![p] = s] /\ s \in Job /\ s.at = step /\ Kept(r, s)
  BY <1>1, GotoFacts
<1> HIDE DEF r, s
<1>3. JobInv(s)
  BY <1>1, <1>2 DEF JobInv, Kept, Migrating, r
<1> QED
  BY <1>1, <1>2, <1>3, Replaced DEF r, s

\* A config is loaded, by whichever command.
LEMMA LoadMoves ==
    ASSUME StoreInv, NEW p \in Procs, NEW c \in Config,
           NEW step \in {"prompt", "probe", "mutate"}, job[p].at \in {"load", "reload"},
           step = "prompt" => job[p].op \in {"config", "unlock", "import", "clone", "pull"},
           step = "probe" => job[p].op \in {"unlock", "import", "clone", "post"},
           step = "mutate" => job[p].op \in {"import", "clone"},
           job' = [job EXCEPT ![p].mem = c, ![p].at = step]
    PROVE  Moved(p) /\ job'[p].at = step /\ job'[p].mem = c /\ job'[p].op = job[p].op
<1> DEFINE r == job[p]
           a == [r EXCEPT !.mem = c]
           s == [a EXCEPT !.at = step]
<1>1. JobInv(r) /\ r \in Job /\ job \in [Procs -> Job]
  BY DEF StoreInv, TypeOK
<1>2. job' = [job EXCEPT ![p] = s]
  BY <1>1 DEF Job
<1>3. a \in Job
  BY <1>1, Updates
<1>4. s \in Job
  BY <1>3, Updates DEF Steps
<1>5. s.at = step /\ s.mem = c /\ s.op = r.op /\ s.own = r.own
  BY <1>1 DEF Job
<1> HIDE DEF a, s
<1>6. JobInv(s)
  BY <1>1, <1>4, <1>5 DEF JobInv, Migrating
<1> QED
  BY <1>1, <1>2, <1>5, <1>6, Replaced

\* The commands that start.
LEMMA StartsMove ==
    ASSUME StoreInv, NEW p \in Procs,
           StartConfig(p) \/ StartInit(p) \/ StartUnlock(p) \/ StartImport(p)
           \/ StartClone(p) \/ StartPull(p)
    PROVE  /\ Moved(p) /\ job'[p].at \in {"load", "init"} /\ job'[p].op \notin {"idle", "post"}
           /\ job'[p].op = "config" => StartConfig(p)
           /\ job[p].op = "idle"
<1>1. ASSUME NEW op \in Ops \ {"idle"}, NEW step \in {"load", "init"},
             step = "init" <=> op = "init", op # "post",
             job' = [job EXCEPT ![p] = [Idle EXCEPT !.op = op, !.at = step]]
      PROVE  /\ Moved(p) /\ job'[p].at \in {"load", "init"} /\ job'[p].op = op
             /\ job'[p].op \notin {"idle", "post"}
  <2>1. Moved(p) /\ job'[p].op = op /\ job'[p].at = step
    BY <1>1, BeginFacts
  <2> QED
    BY <1>1, <2>1
<1>2. \A op \in {"config", "init", "unlock", "import", "clone", "pull"} : op \in Ops \ {"idle"}
  BY DEF Ops
<1>3. CASE StartConfig(p)
  <2>1. job' = [job EXCEPT ![p] = [Idle EXCEPT !.op = "config", !.at = "load"]] /\ job[p].op = "idle"
    BY <1>3 DEF StartConfig
  <2>2. "config" \in Ops \ {"idle"} /\ "load" \in {"load", "init"}
    BY <1>2
  <2> QED
    BY <1>1, <1>3, <2>1, <2>2
<1>4. CASE StartInit(p)
  <2>1. job' = [job EXCEPT ![p] = [Idle EXCEPT !.op = "init", !.at = "init"]] /\ job[p].op = "idle"
    BY <1>4 DEF StartInit, Start
  <2>2. "init" \in Ops \ {"idle"} /\ "init" \in {"load", "init"}
    BY <1>2
  <2> QED
    BY <1>1, <1>4, <2>1, <2>2
<1>5. CASE StartUnlock(p)
  <2>1. job' = [job EXCEPT ![p] = [Idle EXCEPT !.op = "unlock", !.at = "load"]] /\ job[p].op = "idle"
    BY <1>5 DEF StartUnlock, Start
  <2>2. "unlock" \in Ops \ {"idle"} /\ "load" \in {"load", "init"}
    BY <1>2
  <2> QED
    BY <1>1, <1>5, <2>1, <2>2
<1>6. CASE StartImport(p)
  <2>1. job' = [job EXCEPT ![p] = [Idle EXCEPT !.op = "import", !.at = "load"]] /\ job[p].op = "idle"
    BY <1>6 DEF StartImport, Start
  <2>2. "import" \in Ops \ {"idle"} /\ "load" \in {"load", "init"}
    BY <1>2
  <2> QED
    BY <1>1, <1>6, <2>1, <2>2
<1>7. CASE StartClone(p)
  <2>1. job' = [job EXCEPT ![p] = [Idle EXCEPT !.op = "clone", !.at = "load"]] /\ job[p].op = "idle"
    BY <1>7 DEF StartClone, Start
  <2>2. "clone" \in Ops \ {"idle"} /\ "load" \in {"load", "init"}
    BY <1>2
  <2> QED
    BY <1>1, <1>7, <2>1, <2>2
<1>8. CASE StartPull(p)
  <2>1. job' = [job EXCEPT ![p] = [Idle EXCEPT !.op = "pull", !.at = "load"]] /\ job[p].op = "idle"
    BY <1>8 DEF StartPull, Start
  <2>2. "pull" \in Ops \ {"idle"} /\ "load" \in {"load", "init"}
    BY <1>2
  <2> QED
    BY <1>1, <1>8, <2>1, <2>2
<1> QED
  BY <1>3, <1>4, <1>5, <1>6, <1>7, <1>8

\* The loads before the passphrase.
LEMMA LoadsMove ==
    ASSUME StoreInv, NEW p \in Procs, LoadConfig(p) \/ LoadOrInit(p) \/ LoadPost(p)
    PROVE  /\ Moved(p) /\ job[p].at = "load" /\ job'[p].op = job[p].op
           /\ job'[p].at \in {"init", "prompt", "probe"}
           /\ job'[p].at = "init" => file = Absent /\ job[p].op = "config"
           /\ job'[p].at # "init" => file # Absent /\ job'[p].mem = Parsed(file)
<1>1. /\ JobInv(job[p]) /\ file \in Config \cup {Absent, Torn}
      /\ file # Absent => Parsed(file) \in Config
      /\ Loadable(file) => file = Parsed(file) /\ file # Absent
      /\ job[p].at = "load" => job[p].op \notin {"idle", "init"} /\ job[p].op \in Ops
      /\ Torn # Absent
  BY ParsedFacts, ConfigFacts DEF StoreInv, TypeOK, Loadable, Parsed, JobInv, Job
<1>2. CASE LoadConfig(p)
  BY <1>1, <1>2, LoadMoves DEF LoadConfig, Ops
<1>3. CASE LoadPost(p)
  BY <1>1, <1>3, LoadMoves DEF LoadPost
<1>4. CASE LoadOrInit(p)
  <2>1. CASE file = Absent /\ Goto(p, "init")
    <3>1. job[p].at = "load" /\ job[p].op = "config"
      BY <1>4 DEF LoadOrInit
    <3>2. Moved(p) /\ job'[p].at = "init" /\ Kept(job[p], job'[p])
      BY <2>1, <3>1, GotoMoves DEF Steps, HasMem
    <3> QED
      BY <2>1, <3>1, <3>2 DEF Kept
  <2>2. CASE Loadable(file) /\ job' = [job EXCEPT ![p].mem = file, ![p].at = "prompt"]
    BY <1>1, <1>4, <2>2, LoadMoves DEF LoadOrInit
  <2> QED
    BY <1>4, <2>1, <2>2 DEF LoadOrInit
<1> QED
  BY <1>2, <1>3, <1>4

\* A new file is made.
LEMMA InitMoves ==
    ASSUME StoreInv, NEW p \in Procs
    PROVE  /\ InitNew(p) => /\ Moved(p) /\ job[p].at = "init" /\ job'[p].at = "truncate"
                            /\ job'[p].op = job[p].op
           /\ Truncate(p) => /\ Moved(p) /\ job[p].at = "truncate" /\ job'[p].at = "encode"
                             /\ job'[p].op = job[p].op
           /\ WriteNew(p) => /\ Moved(p) /\ job[p].at = "encode"
                             /\ job'[p].at \in {"start", "load"}
                             /\ job'[p].at = "start" => job'[p].op = "idle" /\ lock' = Released(p)
                             /\ job'[p].at = "load" =>
                                   job'[p].op = "config" /\ job[p].op = "config" /\ lock' = lock
                             /\ opened' = opened \ {p}
<1>1. JobInv(job[p])
  BY DEF StoreInv
<1>2. ASSUME InitNew(p)
      PROVE  Moved(p) /\ job[p].at = "init" /\ job'[p].at = "truncate" /\ Kept(job[p], job'[p])
  <2>1. /\ Goto(p, "truncate") /\ job[p].at = "init" /\ job[p].op \in {"config", "init"}
    BY <1>1, <1>2 DEF InitNew, JobInv
  <2> QED
    BY <2>1, GotoMoves DEF Steps, HasMem
<1>3. ASSUME Truncate(p)
      PROVE  Moved(p) /\ job[p].at = "truncate" /\ job'[p].at = "encode" /\ Kept(job[p], job'[p])
  <2>1. /\ Goto(p, "encode") /\ job[p].at = "truncate" /\ job[p].op \in {"config", "init"}
    BY <1>1, <1>3 DEF Truncate, JobInv
  <2> QED
    BY <2>1, GotoMoves DEF Steps, HasMem
<1>4. ASSUME WriteNew(p)
      PROVE  /\ Moved(p) /\ job[p].at = "encode" /\ job'[p].at \in {"start", "load"}
             /\ job'[p].at = "start" => job'[p].op = "idle" /\ lock' = Released(p)
             /\ job'[p].at = "load" =>
                   job'[p].op = "config" /\ job[p].op = "config" /\ lock' = lock
             /\ opened' = opened \ {p}
  <2>1. CASE job[p].op = "config"
    <3>1. Goto(p, "load") /\ job[p].at = "encode" /\ opened' = opened \ {p} /\ lock' = lock
      BY <1>4, <2>1 DEF WriteNew
    <3>2. Moved(p) /\ job'[p].at = "load" /\ Kept(job[p], job'[p])
      BY <2>1, <3>1, GotoMoves DEF Steps, HasMem
    <3> QED
      BY <2>1, <3>1, <3>2 DEF Kept
  <2>2. CASE job[p].op # "config"
    BY <1>4, <2>2, EndFacts DEF WriteNew, End
  <2> QED
    BY <2>1, <2>2
<1> QED
  BY <1>2, <1>3, <1>4 DEF Kept

\* The passphrase, and the probe of the file.
LEMMA ProbesMove ==
    ASSUME StoreInv, NEW p \in Procs
    PROVE  /\ Unlocked(p) => /\ Moved(p) /\ job[p].at = "prompt" /\ Kept(job[p], job'[p])
                             /\ job'[p].at \in {"migrate", "apply", "probe"}
                             /\ job'[p].at = "migrate" => job[p].op = "config"
           /\ Probe(p) => /\ Moved(p) /\ job[p].at = "probe" /\ Kept(job[p], job'[p])
                          /\ job[p].op \in {"unlock", "import", "clone", "post"}
                          /\ \/ /\ job'[p].at = "reload" /\ lock' = lock
                                /\ Parsed(file).shape = "ids"
                             \/ /\ job'[p].at = "migrate" /\ lock = None /\ lock' = p
                                /\ Parsed(file).shape = "names"
<1>1. JobInv(job[p])
  BY DEF StoreInv
<1>2. ASSUME Unlocked(p)
      PROVE  /\ Moved(p) /\ job[p].at = "prompt" /\ Kept(job[p], job'[p])
             /\ job'[p].at \in {"migrate", "apply", "probe"}
             /\ job'[p].at = "migrate" => job[p].op = "config"
  <2>1. /\ job[p].at = "prompt" /\ job[p].op \in {"config", "unlock", "import", "clone", "pull"}
    BY <1>1, <1>2 DEF Unlocked, JobInv
  <2>2. PICK step \in {"migrate", "apply", "probe"} :
           /\ Goto(p, step)
           /\ step = "migrate" => job[p].op = "config"
           /\ step = "apply" => job[p].op = "pull"
           /\ step = "probe" => job[p].op \in {"unlock", "import", "clone"}
    BY <1>2, <2>1 DEF Unlocked
  <2>3. step \in Steps \ {"start", "session", "resave", "backup"}
    BY DEF Steps
  <2>4. Moved(p) /\ job'[p].at = step /\ Kept(job[p], job'[p])
    BY <2>1, <2>2, <2>3, GotoMoves DEF HasMem
  <2> QED
    BY <2>1, <2>2, <2>4
<1>3. ASSUME Probe(p)
      PROVE  /\ Moved(p) /\ job[p].at = "probe" /\ Kept(job[p], job'[p])
             /\ job[p].op \in {"unlock", "import", "clone", "post"}
             /\ \/ /\ job'[p].at = "reload" /\ lock' = lock
                   /\ Parsed(file).shape = "ids"
                \/ /\ job'[p].at = "migrate" /\ lock = None /\ lock' = p
                   /\ Parsed(file).shape = "names"
  <2>1. /\ job[p].at = "probe" /\ job[p].op \in {"unlock", "import", "clone", "post"}
    BY <1>1, <1>3 DEF Probe, JobInv
  <2>2. CASE Goto(p, "reload") /\ lock' = lock /\ Parsed(file).shape = "ids"
    <3>1. Moved(p) /\ job'[p].at = "reload" /\ Kept(job[p], job'[p])
      BY <2>1, <2>2, GotoMoves DEF Steps, HasMem
    <3> QED
      BY <2>1, <2>2, <3>1
  <2>3. CASE Goto(p, "migrate") /\ lock = None /\ lock' = p /\ Parsed(file).shape = "names"
    <3>1. Moved(p) /\ job'[p].at = "migrate" /\ Kept(job[p], job'[p])
      BY <2>1, <2>3, GotoMoves DEF Steps, HasMem
    <3> QED
      BY <2>1, <2>3, <3>1
  <2> QED
    BY <1>3, <2>2, <2>3 DEF Probe
<1> QED
  BY <1>2, <1>3

\* The migration up to its save.
LEMMA RecheckMoves ==
    ASSUME StoreInv, NEW p \in Procs, Recheck(p)
    PROVE  /\ Moved(p) /\ job[p].at = "migrate" /\ file # Absent /\ job'[p].op = job[p].op
           /\ job'[p].mem = job[p].mem
           /\ \/ /\ job'[p].at = "backup" /\ job'[p].old = file /\ lock' = lock
                 /\ file \in Config /\ file.shape = "names"
              \/ /\ job'[p].at = "reload" /\ Parsed(file).shape = "ids"
                 /\ lock' = LockAfterMigration(p) /\ job'[p].old = job[p].old
<1> DEFINE r == job[p]
<1>1. /\ JobInv(r) /\ r \in Job /\ job \in [Procs -> Job] /\ r.at = "migrate" /\ file # Absent
      /\ r.op \in {"config", "unlock", "import", "clone", "post"}
  BY DEF StoreInv, TypeOK, JobInv, Recheck, Migrating
<1>2. CASE Parsed(file).shape = "names"
  <2> DEFINE a == [r EXCEPT !.old = file]
             s == [a EXCEPT !.at = "backup"]
  <2>1. file \in Config /\ file.shape = "names"
    BY <1>1, <1>2, ConfigFacts DEF StoreInv, TypeOK, Parsed, Fresh
  <2>2. job' = [job EXCEPT ![p] = s] /\ lock' = lock
    BY <1>1, <1>2 DEF Recheck, Job
  <2>3. a \in Job
    BY <1>1, <2>1, Updates
  <2>4. s \in Job
    BY <2>3, Updates DEF Steps
  <2>5. s.at = "backup" /\ s.old = file /\ s.op = r.op /\ s.mem = r.mem /\ s.own = r.own
    BY <1>1 DEF Job
  <2> HIDE DEF a, s
  <2>6. JobInv(s)
    BY <1>1, <2>1, <2>4, <2>5 DEF JobInv, Migrating, HasMem
  <2> QED
    BY <1>1, <2>1, <2>2, <2>5, <2>6, Replaced
<1>3. CASE Parsed(file).shape # "names"
  <2>1. Goto(p, "reload") /\ lock' = LockAfterMigration(p)
    BY <1>3 DEF Recheck
  <2>2. Parsed(file).shape = "ids"
    BY <1>1, <1>3, ParsedFacts DEF StoreInv, TypeOK, Config, Shapes
  <2>3. Moved(p) /\ job'[p].at = "reload" /\ Kept(r, job'[p])
    BY <1>1, <2>1, GotoMoves DEF Steps, HasMem
  <2> QED
    BY <1>1, <2>1, <2>2, <2>3 DEF Kept
<1> QED
  BY <1>2, <1>3

\* The config is copied.
LEMMA BackupMoves ==
    ASSUME StoreInv, NEW p \in Procs, Backup(p)
    PROVE  /\ Moved(p) /\ job[p].at = "backup" /\ job'[p].at = "resave" /\ job'[p].bak = now
           /\ job'[p].old = job[p].old /\ job'[p].op = job[p].op /\ job'[p].mem = job[p].mem
<1> DEFINE r == job[p]
           a == [r EXCEPT !.bak = now]
           s == [a EXCEPT !.at = "resave"]
<1>1. JobInv(r) /\ r \in Job /\ job \in [Procs -> Job] /\ r.at = "backup" /\ now \in Times
  BY DEF StoreInv, TypeOK, JobInv, Backup
<1>2. job' = [job EXCEPT ![p] = s]
  BY <1>1 DEF Backup, Job
<1>3. a \in Job
  BY <1>1, Updates
<1>4. s \in Job
  BY <1>3, Updates DEF Steps
<1>5. s.at = "resave" /\ s.old = r.old /\ s.op = r.op /\ s.mem = r.mem /\ s.own = r.own
      /\ s.bak = now
  BY <1>1 DEF Job
<1> HIDE DEF a, s
<1>6. JobInv(s)
  BY <1>1, <1>4, <1>5 DEF JobInv, Migrating, HasMem
<1> QED
  BY <1>1, <1>2, <1>5, <1>6, Replaced

\* The migrated config is saved.
LEMMA MigrateSaveMoves ==
    ASSUME StoreInv, NEW p \in Procs, MigrateSave(p)
    PROVE  /\ Moved(p) /\ job[p].at = "resave" /\ job'[p].at = "reload"
           /\ job'[p].old = job[p].old /\ job'[p].op = job[p].op /\ job'[p].mem = job[p].mem
           /\ job[p].old \in Config /\ job[p].bak \in Times
           /\ Migrated(job[p].old) \in Config
           /\ Migrated(job[p].old).edits = job[p].old.edits
           /\ Migrated(job[p].old).shape = "ids" /\ Migrated(job[p].old).migratedAt = now
<1> DEFINE r == job[p]
           a == [r EXCEPT !.migrated = TRUE]
           s == [a EXCEPT !.at = "reload"]
           m == [r.old EXCEPT !.shape = "ids"]
<1>1. /\ JobInv(r) /\ r \in Job /\ job \in [Procs -> Job] /\ r.at = "resave" /\ now \in Times
      /\ r.old \in Config /\ r.bak \in Times
  BY DEF StoreInv, TypeOK, JobInv, MigrateSave
<1>2. job' = [job EXCEPT ![p] = s]
  BY <1>1 DEF MigrateSave, Job
<1>3. a \in Job
  BY <1>1, Updates
<1>4. s \in Job
  BY <1>3, Updates DEF Steps
<1>5. s.at = "reload" /\ s.old = r.old /\ s.op = r.op /\ s.mem = r.mem /\ s.own = r.own
  BY <1>1 DEF Job
<1> HIDE DEF a, s
<1>6. JobInv(s)
  BY <1>1, <1>4, <1>5 DEF JobInv, Migrating, HasMem
<1>7. Migrated(r.old) = [m EXCEPT !.migratedAt = now]
  BY DEF Migrated
<1>8. m \in Config
  BY <1>1, ConfigFacts DEF Shapes
<1>9. Migrated(r.old) \in Config
  BY <1>1, <1>7, <1>8, ConfigFacts
<1>10. /\ Migrated(r.old).edits = r.old.edits
       /\ Migrated(r.old).shape = "ids" /\ Migrated(r.old).migratedAt = now
  BY <1>1 DEF Migrated, Config
<1> QED
  BY <1>1, <1>2, <1>5, <1>6, <1>9, <1>10, Replaced

\* The config is loaded again, or not, and the editor opens.
LEMMA OpenSessionMoves ==
    ASSUME StoreInv, NEW p \in Procs, OpenSession(p)
    PROVE  /\ Moved(p) /\ job[p].at = "reload" /\ job'[p].at = "session" /\ file # Absent
           /\ job'[p].op = job[p].op /\ job'[p].mem \in {job[p].mem, Parsed(file)}
           /\ job'[p].old = job[p].old
<1> DEFINE r == job[p]
           c == IF r.migrated THEN Parsed(file) ELSE r.mem
           a == [r EXCEPT !.mem = c]
           s == [a EXCEPT !.at = "session"]
<1>1. /\ JobInv(r) /\ r \in Job /\ job \in [Procs -> Job] /\ r.at = "reload"
      /\ r.op \in {"config", "post"} /\ file # Absent /\ r.mem \in Config /\ r.own = {}
  BY DEF StoreInv, TypeOK, JobInv, OpenSession, HasMem
<1>2. c \in Config
  BY <1>1, ParsedFacts DEF StoreInv, TypeOK
<1>3. job' = [job EXCEPT ![p] = s]
  BY <1>1 DEF OpenSession, Job
<1>4. a \in Job
  BY <1>1, <1>2, Updates
<1>5. s \in Job
  BY <1>4, Updates DEF Steps
<1>6. s.at = "session" /\ s.old = r.old /\ s.op = r.op /\ s.mem = c /\ s.own = r.own
  BY <1>1 DEF Job
<1> HIDE DEF a, s
<1>7. JobInv(s)
  BY <1>1, <1>2, <1>5, <1>6 DEF JobInv, Migrating, HasMem
<1> QED
  BY <1>1, <1>3, <1>6, <1>7, Replaced

\* Import and clone load the config again.
LEMMA ReloadMoves ==
    ASSUME StoreInv, NEW p \in Procs, Reload(p)
    PROVE  /\ Moved(p) /\ job[p].at = "reload" /\ job'[p].at = "mutate" /\ file # Absent
           /\ job'[p].op = job[p].op /\ job'[p].mem = Parsed(file)
<1>1. /\ job[p].at = "reload" /\ job[p].op \in {"import", "clone"} /\ file # Absent
      /\ Parsed(file) \in Config
      /\ job' = [job EXCEPT ![p].mem = Parsed(file), ![p].at = "mutate"]
  BY ParsedFacts DEF StoreInv, TypeOK, Reload
<1> QED
  BY <1>1, LoadMoves

\* A change in the editor.
LEMMA EditMoves ==
    ASSUME StoreInv, NEW p \in Procs, Edit(p)
    PROVE  /\ Moved(p) /\ job[p].at = "session" /\ job'[p].at = "session"
           /\ job'[p].op = job[p].op /\ job'[p].old = job[p].old
           /\ job[p].mem.edits \subseteq job'[p].mem.edits
           /\ job'[p].mem.migratedAt = job[p].mem.migratedAt
           /\ made + 1 \in Edits
<1> DEFINE r == job[p]
           e == r.mem.edits \cup {made + 1}
           o == r.own \cup {made + 1}
           c == [r.mem EXCEPT !.edits = e]
           a == [r EXCEPT !.mem = c]
           s == [a EXCEPT !.own = o]
<1>1. /\ JobInv(r) /\ r \in Job /\ job \in [Procs -> Job] /\ r.at = "session" /\ r.mem \in Config
      /\ r.own \subseteq r.mem.edits
  BY DEF StoreInv, TypeOK, JobInv, Edit, HasMem
<1>2. made + 1 \in Edits
  BY StoreAssumption DEF StoreInv, TypeOK, Edit, Edits, StoreAssumption
<1>3. e \in SUBSET Edits /\ o \in SUBSET Edits /\ o \subseteq e
  BY <1>1, <1>2 DEF Config, Job
<1>4. c \in Config
  BY <1>1, <1>3, ConfigFacts
<1>5. c.edits = e /\ c.migratedAt = r.mem.migratedAt
  BY <1>1 DEF Config
<1>6. job' = [job EXCEPT ![p] = s]
  BY <1>1 DEF Edit, Job
<1> HIDE DEF c, o
<1>7. a \in Job
  BY <1>1, <1>4, Updates
<1>8. s \in Job
  BY <1>3, <1>7, Updates
<1>9. s.at = r.at /\ s.old = r.old /\ s.op = r.op /\ s.mem = c /\ s.own = o
  BY <1>1 DEF Job
<1> HIDE DEF a, s
<1>10. JobInv(s)
  BY <1>1, <1>3, <1>4, <1>5, <1>8, <1>9 DEF JobInv, Migrating, HasMem
<1> QED
  BY <1>1, <1>2, <1>5, <1>6, <1>9, <1>10, Replaced

\* Encoding keeps the edits.
LEMMA EncodedFacts ==
    ASSUME NEW c \in Config
    PROVE  /\ Encoded(c) \in Config /\ Encoded(c).edits = c.edits
           /\ Encoded(c).shape = "ids" /\ Encoded(c).migratedAt = c.migratedAt
<1>1. Encoded(c) \in Config
  BY ConfigFacts DEF Encoded, Shapes
<1> QED
  BY <1>1 DEF Encoded, Config

\* The editor saves its config.
LEMMA SaveEditsMoves ==
    ASSUME StoreInv, NEW p \in Procs, SaveEdits(p)
    PROVE  /\ Moved(p) /\ job[p].at = "session" /\ job'[p].at = "session"
           /\ job'[p].op = job[p].op /\ job'[p].old = job[p].old
           /\ job[p].mem \in Config /\ job[p].own \subseteq job[p].mem.edits
           /\ job[p].op \in {"config", "post"}
           /\ job'[p].mem = Encoded(job[p].mem)
<1> DEFINE r == job[p]
           c == Encoded(r.mem)
           a == [r EXCEPT !.mem = c]
           s == [a EXCEPT !.own = {}]
<1>1. /\ JobInv(r) /\ r \in Job /\ job \in [Procs -> Job] /\ r.at = "session" /\ r.mem \in Config
      /\ r.own \subseteq r.mem.edits /\ r.op \in {"config", "post"}
  BY DEF StoreInv, TypeOK, JobInv, SaveEdits, HasMem
<1>2. c \in Config
  BY <1>1, EncodedFacts
<1>3. job' = [job EXCEPT ![p] = s]
  BY <1>1 DEF SaveEdits, Job
<1> HIDE DEF c
<1>4. a \in Job
  BY <1>1, <1>2, Updates
<1>5. s \in Job
  BY <1>4, Updates
<1>6. s.at = r.at /\ s.old = r.old /\ s.op = r.op /\ s.mem = c /\ s.own = {}
  BY <1>1 DEF Job
<1> HIDE DEF a, s
<1>7. JobInv(s)
  BY <1>1, <1>2, <1>5, <1>6 DEF JobInv, Migrating, HasMem
<1> QED
  BY <1>1, <1>3, <1>6, <1>7, Replaced DEF c

\* The config that import and clone write.
LEMMA OneEditFacts ==
    ASSUME StoreInv, NEW p \in Procs, SaveOneEdit(p)
    PROVE  LET c == [Encoded(job[p].mem) EXCEPT !.edits = @ \cup {made + 1}] IN
           /\ c \in Config /\ c.shape = "ids" /\ c.migratedAt = job[p].mem.migratedAt
           /\ AtomicSave(p, "save", c) /\ made + 1 \in Edits /\ made' = made + 1
           /\ job[p].at = "mutate" /\ job[p].op \in {"import", "clone"}
<1> DEFINE m == Encoded(job[p].mem)
           e == m.edits \cup {made + 1}
<1>1. job[p].mem \in Config /\ job[p].at = "mutate" /\ job[p].op \in {"import", "clone"}
  BY DEF StoreInv, JobInv, SaveOneEdit, HasMem
<1>2. /\ m \in Config /\ m.shape = "ids" /\ m.migratedAt = job[p].mem.migratedAt
  BY <1>1, EncodedFacts
<1>3. made + 1 \in Edits
  BY StoreAssumption DEF StoreInv, TypeOK, SaveOneEdit, Edits, StoreAssumption
<1> HIDE DEF m
<1>4. e \in SUBSET Edits
  BY <1>2, <1>3 DEF Config
<1>5. [m EXCEPT !.edits = e] \in Config
  BY <1>2, <1>4, ConfigFacts
<1>6. [m EXCEPT !.edits = e].shape = "ids" /\ [m EXCEPT !.edits = e].migratedAt = m.migratedAt
      /\ [m EXCEPT !.edits = e] = [m EXCEPT !.edits = @ \cup {made + 1}]
  BY <1>2 DEF Config
<1> QED
  BY <1>1, <1>2, <1>3, <1>5, <1>6 DEF SaveOneEdit, m

-----------------------------------------------------------------------------
(* Types, and who holds the lock.                                           *)

\* The types of everything but the processes.
TypeRest ==
    /\ file \in Config \cup {Absent, Torn} /\ opened \subseteq Procs /\ lock \in Procs \cup {None}
    /\ backups \subseteq BackupFile /\ now \in Times /\ retention \in Retentions
    /\ made \in 0 .. MaxEdits /\ starts \in 0 .. MaxStarts /\ pulls \in 0 .. MaxPulls
    /\ orphaned \in BOOLEAN /\ acked \subseteq Edits /\ lost \subseteq Loss
    /\ migrations \subseteq Migration

\* A step of one process keeps the invariant, if it keeps the other types and
\* the holder of the lock.
LEMMA StoreFrom ==
    ASSUME StoreInv, NEW p \in Procs, Moved(p), TypeRest',
           \A q \in Procs \ {p} : lock' = q => lock = q,
           lock' = p => job'[p].op = "config" \/ job'[p].at \in Migrating
    PROVE  StoreInv'
<1>1. TypeOK'
  BY DEF TypeOK, TypeRest, Moved
<1>2. \A q \in Procs : JobInv(job'[q])
  BY DEF StoreInv, Moved
<1>3. LockInv'
  BY DEF StoreInv, LockInv, Moved
<1> QED
  BY <1>1, <1>2, <1>3 DEF StoreInv

\* The types after a save.
LEMMA SaveTypes ==
    ASSUME StoreInv, NEW p \in Procs, NEW c \in Config,
           NEW how \in {"save", "migrate", "pull", "init"}
    PROVE  /\ AtomicSave(p, how, c) =>
                 /\ file' = c /\ opened' = {} /\ backups' \subseteq BackupFile
                 /\ lost' \subseteq Loss
           /\ Losses(p, how, c) \subseteq Loss
<1>1. EditsOf(file) \in SUBSET Edits
  BY ParsedFacts DEF StoreInv, TypeOK
<1>2. Losses(p, how, c) \subseteq Loss
  <2>1. \A e \in Edits : [edit |-> e, how |-> how, locked |-> lock = p, acked |-> e \in acked] \in Loss
    BY DEF Loss
  <2> QED
    BY <1>1, <2>1 DEF Losses
<1>3. SweptBackups(c, backups) \subseteq BackupFile
  BY DEF SweptBackups, StoreInv, TypeOK
<1> QED
  BY <1>2, <1>3 DEF AtomicSave, StoreInv, TypeOK

\* A process that is not the holder writes or ends without the lock.
LEMMA ReleasedFacts ==
    ASSUME StoreInv, NEW p \in Procs
    PROVE  /\ Released(p) # p /\ Released(p) \in Procs \cup {None}
           /\ \A q \in Procs \ {p} : Released(p) = q => lock = q
           /\ LockAfterMigration(p) \in Procs \cup {None}
           /\ \A q \in Procs \ {p} : LockAfterMigration(p) = q => lock = q
           /\ LockAfterMigration(p) = p => job[p].op = "config" /\ lock = p
<1>1. None \notin Procs
  BY StoreAssumption DEF StoreAssumption
<1> QED
  BY <1>1 DEF Released, LockAfterMigration, StoreInv, TypeOK

\* Every step keeps the types, the records and the holder of the lock.
LEMMA StoreStep ==
    ASSUME StoreInv, [Next]_vars
    PROVE  StoreInv'
<1> USE DEF counters, history
<1>0. TypeRest /\ None \notin Procs
  BY StoreAssumption DEF StoreInv, TypeOK, TypeRest, StoreAssumption
<1>1. CASE UNCHANGED vars
  BY <1>1 DEF vars, StoreInv, TypeOK, LockInv
<1>2. CASE Tick
  <2>1. now + 1 \in Times
    BY <1>2, StoreAssumption DEF Tick, StoreInv, TypeOK, Times, StoreAssumption
  <2> QED
    BY <1>2, <2>1 DEF Tick, StoreInv, TypeOK, LockInv
<1>3. ASSUME NEW p \in Procs,
             StartConfig(p) \/ StartInit(p) \/ StartUnlock(p) \/ StartImport(p)
             \/ StartClone(p) \/ StartPull(p)
      PROVE  StoreInv'
  <2>1. /\ Moved(p) /\ job[p].op = "idle"
        /\ job'[p].op = "config" => StartConfig(p)
    BY <1>3, StartsMove
  <2>2. TypeRest'
    BY <1>0, <1>3, StoreAssumption DEF TypeRest, StartConfig, StartInit, StartUnlock, StartImport,
       StartClone, StartPull, Start, StoreAssumption
  <2>3. CASE StartConfig(p)
    <3>1. lock = None /\ lock' = p /\ job'[p].op = "config"
      <4>1. "config" \in Ops \ {"idle"} /\ "load" \in {"load", "init"}
        BY DEF Ops
      <4> QED
        BY <2>3, <4>1, BeginFacts DEF StartConfig
    <3> QED
      BY <2>1, <2>2, <3>1, StoreFrom
  <2>4. CASE ~StartConfig(p)
    <3>1. lock' = lock /\ lock # p
      BY <1>3, <2>1, <2>4 DEF StartInit, StartUnlock, StartImport, StartClone, StartPull, Start,
         StoreInv, LockInv, JobInv, Migrating
    <3> QED
      BY <2>1, <2>2, <3>1, StoreFrom
  <2> QED
    BY <2>3, <2>4
<1>4. ASSUME NEW p \in Procs, LoadConfig(p) \/ LoadOrInit(p) \/ LoadPost(p)
      PROVE  StoreInv'
  <2>1. Moved(p) /\ job'[p].op = job[p].op /\ job[p].at = "load"
    BY <1>4, LoadsMove
  <2>2. TypeRest' /\ lock' = lock
    BY <1>0, <1>4 DEF TypeRest, LoadConfig, LoadOrInit, LoadPost
  <2>3. lock = p => job[p].op = "config"
    BY <2>1 DEF StoreInv, LockInv, Migrating
  <2> QED
    BY <2>1, <2>2, <2>3, StoreFrom
<1>5. ASSUME NEW p \in Procs, InitNew(p) \/ Truncate(p)
      PROVE  StoreInv'
  <2>1. Moved(p) /\ job'[p].op = job[p].op /\ job[p].at \in {"init", "truncate"}
    BY <1>5, InitMoves
  <2>2. Losses(p, "init", Fresh) \subseteq Loss
    BY SaveTypes, ConfigFacts
  <2>3. TypeRest' /\ lock' = lock
    BY <1>0, <1>5, <2>2 DEF TypeRest, InitNew, Truncate
  <2>4. lock = p => job[p].op = "config"
    BY <2>1 DEF StoreInv, LockInv, Migrating
  <2> QED
    BY <2>1, <2>3, <2>4, StoreFrom
<1>6. ASSUME NEW p \in Procs, WriteNew(p)
      PROVE  StoreInv'
  <2>1. /\ Moved(p) /\ job'[p].at \in {"start", "load"}
        /\ job'[p].at = "start" => job'[p].op = "idle" /\ lock' = Released(p)
        /\ job'[p].at = "load" => job'[p].op = "config" /\ job[p].op = "config" /\ lock' = lock
        /\ opened' = opened \ {p}
    BY <1>6, InitMoves
  <2>2. TypeRest'
    BY <1>0, <1>6, <2>1, ReleasedFacts, ConfigFacts DEF TypeRest, WriteNew
  <2> QED
    BY <2>1, <2>2, ReleasedFacts, StoreFrom
<1>7. ASSUME NEW p \in Procs, Unlocked(p)
      PROVE  StoreInv'
  <2>1. Moved(p) /\ Kept(job[p], job'[p]) /\ job[p].at = "prompt"
    BY <1>7, ProbesMove
  <2>2. TypeRest' /\ lock' = lock
    BY <1>0, <1>7 DEF TypeRest, Unlocked
  <2>3. lock = p => job[p].op = "config"
    BY <2>1 DEF StoreInv, LockInv, Migrating
  <2> QED
    BY <2>1, <2>2, <2>3, StoreFrom DEF Kept
<1>8. ASSUME NEW p \in Procs, Probe(p)
      PROVE  StoreInv'
  <2>1. /\ Moved(p) /\ Kept(job[p], job'[p]) /\ job[p].at = "probe"
        /\ job[p].op \in {"unlock", "import", "clone", "post"}
        /\ \/ job'[p].at = "reload" /\ lock' = lock
           \/ job'[p].at = "migrate" /\ lock = None /\ lock' = p
    BY <1>8, ProbesMove
  <2>2. TypeRest'
    BY <1>0, <1>8, <2>1 DEF TypeRest, Probe
  <2>3. lock # p
    BY <2>1 DEF StoreInv, LockInv, Migrating
  <2> QED
    BY <1>0, <2>1, <2>2, <2>3, StoreFrom DEF Migrating
<1>9. ASSUME NEW p \in Procs, Recheck(p)
      PROVE  StoreInv'
  <2>1. /\ Moved(p) /\ job'[p].op = job[p].op
        /\ \/ job'[p].at = "backup" /\ lock' = lock
           \/ job'[p].at = "reload" /\ lock' = LockAfterMigration(p)
    BY <1>9, RecheckMoves
  <2>2. TypeRest'
    BY <1>0, <1>9, <2>1, ReleasedFacts DEF TypeRest, Recheck
  <2> QED
    BY <2>1, <2>2, ReleasedFacts, StoreFrom DEF Migrating
<1>10. ASSUME NEW p \in Procs, Backup(p)
      PROVE  StoreInv'
  <2>1. Moved(p) /\ job'[p].at = "resave"
    BY <1>10, BackupMoves
  <2>2. [at |-> now, of |-> file, whole |-> TRUE] \in BackupFile
    BY <1>0, <1>10 DEF TypeRest, Backup, BackupFile
  <2>3. TypeRest' /\ lock' = lock
    BY <1>0, <1>10, <2>2 DEF TypeRest, Backup
  <2> QED
    BY <2>1, <2>3, StoreFrom DEF Migrating
<1>11. ASSUME NEW p \in Procs, BackupDies(p) \/ SpawnAgent(p) \/ Exit(p)
      PROVE  StoreInv'
  <2>1. /\ job' = [job EXCEPT ![p] = Idle] /\ lock' = Released(p) /\ opened' = opened \ {p}
    BY <1>11 DEF BackupDies, SpawnAgent, Exit, End
  <2>2. Moved(p)
    BY <2>1, EndFacts
  <2>3. [at |-> now, of |-> file, whole |-> FALSE] \in BackupFile \/ ~BackupDies(p)
    BY <1>0 DEF TypeRest, BackupDies, BackupFile
  <2>4. TypeRest'
    BY <1>0, <1>11, <2>1, <2>3, ReleasedFacts DEF TypeRest, BackupDies, SpawnAgent, Exit
  <2> QED
    BY <2>1, <2>2, <2>4, ReleasedFacts, StoreFrom
<1>12. ASSUME NEW p \in Procs, MigrateSave(p)
      PROVE  StoreInv'
  <2>1. /\ Moved(p) /\ job'[p].op = job[p].op
        /\ job[p].old \in Config /\ job[p].bak \in Times /\ Migrated(job[p].old) \in Config
    BY <1>12, MigrateSaveMoves
  <2>2. file' \in Config /\ opened' = {} /\ backups' \subseteq BackupFile /\ lost' \subseteq Loss
    BY <1>12, <2>1, SaveTypes DEF MigrateSave
  <2>3. [at |-> now, from |-> job[p].old, bak |-> job[p].bak] \in Migration
    BY <1>0, <2>1 DEF TypeRest, Migration
  <2>4. TypeRest' /\ lock' = LockAfterMigration(p)
    BY <1>0, <1>12, <2>2, <2>3, ReleasedFacts DEF TypeRest, MigrateSave
  <2> QED
    BY <2>1, <2>4, ReleasedFacts, StoreFrom
<1>13. ASSUME NEW p \in Procs, OpenSession(p) \/ Reload(p)
      PROVE  StoreInv'
  <2>1. Moved(p) /\ job'[p].op = job[p].op /\ job[p].at = "reload"
    BY <1>13, OpenSessionMoves, ReloadMoves
  <2>2. TypeRest' /\ lock' = lock
    BY <1>0, <1>13 DEF TypeRest, OpenSession, Reload
  <2>3. lock = p => job[p].op = "config"
    BY <2>1 DEF StoreInv, LockInv, Migrating
  <2> QED
    BY <2>1, <2>2, <2>3, StoreFrom
<1>14. ASSUME NEW p \in Procs, Edit(p)
      PROVE  StoreInv'
  <2>1. Moved(p) /\ job'[p].op = job[p].op /\ job[p].at = "session"
    BY <1>14, EditMoves
  <2>2. TypeRest' /\ lock' = lock
    BY <1>0, <1>14, StoreAssumption DEF TypeRest, Edit, StoreAssumption
  <2>3. lock = p => job[p].op = "config"
    BY <2>1 DEF StoreInv, LockInv, Migrating
  <2> QED
    BY <2>1, <2>2, <2>3, StoreFrom
<1>15. ASSUME NEW p \in Procs, SaveEdits(p)
      PROVE  StoreInv'
  <2>1. /\ Moved(p) /\ job'[p].op = job[p].op /\ job[p].at = "session" /\ job[p].mem \in Config
    BY <1>15, SaveEditsMoves
  <2>2. Encoded(job[p].mem) \in Config /\ job[p].own \subseteq Edits
    BY <2>1, EncodedFacts DEF StoreInv, JobInv, Job
  <2>3. file' \in Config /\ opened' = {} /\ backups' \subseteq BackupFile /\ lost' \subseteq Loss
    BY <1>15, <2>2, SaveTypes DEF SaveEdits
  <2>4. TypeRest' /\ lock' = lock
    BY <1>0, <1>15, <2>2, <2>3 DEF TypeRest, SaveEdits
  <2>5. lock = p => job[p].op = "config"
    BY <2>1 DEF StoreInv, LockInv, Migrating
  <2> QED
    BY <2>1, <2>4, <2>5, StoreFrom
<1>16. ASSUME NEW p \in Procs, ImportSave(p) \/ CloneSave(p)
      PROVE  StoreInv'
  <2> DEFINE c == [Encoded(job[p].mem) EXCEPT !.edits = @ \cup {made + 1}]
  <2>1. /\ c \in Config /\ AtomicSave(p, "save", c) /\ made + 1 \in Edits /\ made' = made + 1
        /\ job[p].at = "mutate" /\ job[p].op \in {"import", "clone"}
    BY <1>16, OneEditFacts DEF ImportSave, CloneSave
  <2> HIDE DEF c
  <2>2. file' \in Config /\ opened' = {} /\ backups' \subseteq BackupFile /\ lost' \subseteq Loss
    BY <2>1, SaveTypes
  <2>3. TypeRest' /\ lock' = lock
    BY <1>0, <1>16, <2>1, <2>2 DEF TypeRest, ImportSave, CloneSave, SaveOneEdit, Edits
  <2>4. lock # p
    BY <2>1 DEF StoreInv, LockInv, Migrating
  <2>5. Moved(p)
    <3>1. CASE ImportSave(p)
      BY <3>1, EndFacts DEF ImportSave
    <3>2. CASE CloneSave(p)
      <4>1. "post" \in Ops \ {"idle"} /\ "load" \in {"load", "init"}
        BY DEF Ops
      <4> QED
        BY <3>2, <4>1, BeginFacts DEF CloneSave
    <3> QED
      BY <1>16, <3>1, <3>2
  <2> QED
    BY <2>3, <2>4, <2>5, StoreFrom
<1>17. ASSUME NEW p \in Procs, NEW c \in PulledConfig, Pull(p, c)
      PROVE  StoreInv'
  <2>1. c \in Config /\ Moved(p) /\ job[p].at = "apply" /\ job[p].op = "pull"
    BY <1>17, EndFacts DEF PulledConfig, Pull, StoreInv, JobInv
  <2>2. file' \in Config /\ opened' = {} /\ backups' \subseteq BackupFile /\ lost' \subseteq Loss
    BY <1>17, <2>1, SaveTypes DEF Pull
  <2>3. TypeRest' /\ lock' = lock
    BY <1>0, <1>17, <2>2, StoreAssumption DEF TypeRest, Pull, StoreAssumption
  <2>4. lock # p
    BY <2>1 DEF StoreInv, LockInv, Migrating
  <2> QED
    BY <2>1, <2>3, <2>4, StoreFrom
<1>18. ASSUME NEW p \in Procs, ParentDies(p)
      PROVE  StoreInv'
  BY <1>0, <1>18 DEF ParentDies, StoreInv, TypeOK, LockInv
<1> QED
  BY <1>1, <1>2, <1>3, <1>4, <1>5, <1>6, <1>7, <1>8, <1>9, <1>10, <1>11, <1>12, <1>13, <1>14,
     <1>15, <1>16, <1>17, <1>18 DEF Next

\* They hold at the start.
LEMMA StoreInit == Init => StoreInv
<1> SUFFICES ASSUME Init PROVE StoreInv
  OBVIOUS
<1>1. file \in Config \cup {Absent, Torn}
  BY ConfigFacts DEF Init, Shapes
<1>2. job \in [Procs -> Job] /\ \A p \in Procs : JobInv(job[p])
  <2>1. JobInv(Idle) /\ Idle \in Job
    BY StartFacts DEF JobInv
  <2>2. job = [p \in Procs |-> Idle]
    BY DEF Init
  <2> QED
    BY <2>1, <2>2
<1>3. TypeOK
  <2>1. 0 \in Times /\ 0 \in 0 .. MaxEdits /\ 0 \in 0 .. MaxStarts /\ 0 \in 0 .. MaxPulls
    BY StoreAssumption DEF StoreAssumption, Times
  <2>2. /\ opened = {} /\ lock = None /\ backups = {} /\ now = 0 /\ retention \in Retentions
        /\ made = 0 /\ starts = 0 /\ pulls = 0 /\ orphaned = FALSE /\ acked = {} /\ lost = {}
        /\ migrations = {}
    BY DEF Init
  <2> QED
    BY <1>1, <1>2, <2>1, <2>2 DEF TypeOK
<1>4. LockInv
  BY StoreAssumption DEF Init, LockInv, StoreAssumption
<1> QED
  BY <1>2, <1>3, <1>4 DEF StoreInv

\* Processes, their memory and the lock agree in every state.
THEOREM StoreInvariant == Spec => []StoreInv
<1>1. StoreInv /\ [Next]_vars => StoreInv'
  BY StoreStep
<1> QED
  BY <1>1, StoreInit, PTL DEF Spec

\* The file, the lock, the processes and the history have their types.
THEOREM StoreTypes == Spec => []TypeOK
<1>1. StoreInv => TypeOK
  BY DEF StoreInv
<1> QED
  BY <1>1, StoreInvariant, PTL

-----------------------------------------------------------------------------
(* Edits saved under the lock.                                              *)

\* Acknowledged, and not yet taken out by a writer without the lock.
Safe == {e \in acked : \A k \in lost : k.edit = e => k.locked}

\* The holder of the lock has every safe edit in its hands; if it is about to
\* create the file, there are none.
Held(r, S) ==
    /\ r.op = "config" /\ r.at \in {"prompt", "migrate", "backup", "resave", "reload", "session"}
       => S \subseteq r.mem.edits
    /\ r.at \in {"backup", "resave"} => S \subseteq r.old.edits
    /\ r.at \in {"init", "truncate", "encode"} => S = {}

HeldInv == \A p \in Procs : lock = p => Held(job[p], Safe)

SafeInv ==
    /\ Safe \subseteq EditsOf(file)
    /\ opened # {} => EditsOf(file) = {}
    /\ HeldInv
    /\ LockedEditsSurvive

\* The edits in a file of each kind.
LEMMA FileEdits ==
    /\ \A c \in Config : EditsOf(c) = c.edits
    /\ EditsOf(Torn) = {} /\ EditsOf(Absent) = {} /\ EditsOf(Fresh) = {} /\ Fresh.edits = {}
<1>1. \A c \in Config : EditsOf(c) = c.edits
  BY ConfigFacts DEF EditsOf, Loadable
<1>2. EditsOf(Torn) = {} /\ EditsOf(Absent) = {}
  BY DEF EditsOf, Loadable
<1>3. Fresh.edits = {}
  BY DEF Fresh
<1> QED
  BY <1>1, <1>2, <1>3, ConfigFacts

\* A step that neither writes the file nor acknowledges an edit.
LEMMA SafeQuiet ==
    ASSUME StoreInv, SafeInv, NEW p \in Procs, Moved(p),
           file' = file, acked' = acked, lost' = lost, opened' \subseteq opened,
           \A q \in Procs \ {p} : lock' = q => lock = q,
           lock' = p => Held(job'[p], Safe)
    PROVE  SafeInv'
<1>1. Safe' = Safe /\ EditsOf(file)' = EditsOf(file)
  BY DEF Safe, EditsOf, Loadable
<1>2. HeldInv'
  BY <1>1 DEF SafeInv, HeldInv, Moved
<1>3. LockedEditsSurvive'
  BY DEF SafeInv, LockedEditsSurvive
<1> QED
  BY <1>1, <1>2, <1>3 DEF SafeInv

\* What a write does to the safe edits.
LEMMA SafeLosses ==
    ASSUME StoreInv, SafeInv, NEW p \in Procs, NEW c \in Config, NEW how,
           lost' = lost \cup Losses(p, how, c), acked \subseteq acked',
           lock = p => Safe \subseteq c.edits
    PROVE  /\ Safe' \cap acked \subseteq Safe \cap c.edits
           /\ LockedEditsSurvive'
<1>1. ASSUME NEW e \in Safe', e \in acked
      PROVE  e \in Safe /\ e \in c.edits
  <2>1. e \in Safe
    BY <1>1 DEF Safe
  <2>2. CASE lock = p
    BY <2>1, <2>2
  <2>3. CASE lock # p /\ e \notin c.edits
    <3> DEFINE k == [edit |-> e, how |-> how, locked |-> lock = p, acked |-> e \in acked]
    <3>1. e \in EditsOf(file) \ c.edits
      BY <2>1, <2>3 DEF SafeInv
    <3>2. k \in lost'
      BY <3>1 DEF Losses
    <3>3. k.edit = e /\ ~k.locked
      BY <2>3
    <3> HIDE DEF k
    <3> QED
      BY <1>1, <3>2, <3>3 DEF Safe
  <2> QED
    BY <2>1, <2>2, <2>3
<1>2. ASSUME NEW l \in lost', l.acked, l.locked
      PROVE  \E k \in lost' : k.edit = l.edit /\ ~k.locked
  <2>1. CASE l \in lost
    BY <1>2, <2>1 DEF SafeInv, LockedEditsSurvive
  <2>2. CASE l \in Losses(p, how, c)
    <3>1. PICK e \in EditsOf(file) \ c.edits :
             l = [edit |-> e, how |-> how, locked |-> lock = p, acked |-> e \in acked]
      BY <2>2 DEF Losses
    <3>2. lock = p /\ e \in acked /\ l.edit = e
      BY <1>2, <3>1
    <3>3. e \notin Safe
      BY <3>1, <3>2
    <3>4. PICK k \in lost : k.edit = e /\ ~k.locked
      BY <3>2, <3>3 DEF Safe
    <3> QED
      BY <3>2, <3>4
  <2> QED
    BY <2>1, <2>2
<1> QED
  BY <1>1, <1>2 DEF LockedEditsSurvive

\* A complete config is renamed over the file.
LEMMA SafeSave ==
    ASSUME StoreInv, SafeInv, NEW p \in Procs, NEW c \in Config, NEW how, Moved(p),
           AtomicSave(p, how, c), acked \subseteq acked', acked' \subseteq acked \cup c.edits,
           lock # p => acked' = acked,
           lock = p => Safe \subseteq c.edits,
           \A q \in Procs \ {p} : lock' = q => lock = q,
           lock' = p => Held(job'[p], Safe')
    PROVE  SafeInv'
<1>1. lost' = lost \cup Losses(p, how, c) /\ file' = c /\ opened' = {}
  BY DEF AtomicSave
<1>2. Safe' \cap acked \subseteq Safe \cap c.edits /\ LockedEditsSurvive'
  BY <1>1, SafeLosses
<1>3. Safe' \subseteq c.edits
  BY <1>2 DEF Safe
<1>4. EditsOf(file)' = c.edits
  BY <1>1, FileEdits
<1>5. HeldInv'
  <2>1. SUFFICES ASSUME NEW q \in Procs \ {p}, lock' = q
                 PROVE  Held(job'[q], Safe')
    BY DEF HeldInv
  <2>2. lock = q /\ job'[q] = job[q] /\ lock # p
    BY <2>1 DEF Moved
  <2>3. Safe' \subseteq Safe
    BY <1>2, <2>2 DEF Safe
  <2>4. Held(job[q], Safe)
    BY <2>2 DEF SafeInv, HeldInv
  <2> QED
    BY <2>2, <2>3, <2>4 DEF Held
<1> QED
  BY <1>1, <1>2, <1>3, <1>4, <1>5 DEF SafeInv

\* Every step keeps the safe edits.
LEMMA SafeStep ==
    ASSUME StoreInv, SafeInv, [Next]_vars
    PROVE  SafeInv'
<1> USE DEF counters, history
<1>0. None \notin Procs /\ \A p \in Procs : lock = p => Held(job[p], Safe)
  BY StoreAssumption DEF SafeInv, HeldInv, StoreAssumption
<1>1. CASE UNCHANGED vars \/ Tick
  <2>1. UNCHANGED <<file, opened, lock, job, acked, lost>>
    BY <1>1 DEF vars, Tick
  <2>2. Safe' = Safe /\ EditsOf(file)' = EditsOf(file)
    BY <2>1 DEF Safe, EditsOf, Loadable
  <2> QED
    BY <2>1, <2>2 DEF SafeInv, HeldInv, LockedEditsSurvive
<1>2. ASSUME NEW p \in Procs,
             StartConfig(p) \/ StartInit(p) \/ StartUnlock(p) \/ StartImport(p)
             \/ StartClone(p) \/ StartPull(p)
      PROVE  SafeInv'
  <2>1. /\ Moved(p) /\ job'[p].at \in {"load", "init"} /\ job[p].op = "idle"
    BY <1>2, StartsMove
  <2>2. lock # p
    BY <2>1 DEF StoreInv, LockInv, JobInv, Migrating
  <2>3. CASE StartConfig(p)
    <3>1. job'[p].at = "load"
      <4>1. "config" \in Ops \ {"idle"} /\ "load" \in {"load", "init"}
        BY DEF Ops
      <4> QED
        BY <2>3, <4>1, BeginFacts DEF StartConfig
    <3>2. Held(job'[p], Safe)
      BY <3>1 DEF Held
    <3> QED
      BY <1>0, <2>1, <2>3, <3>2, SafeQuiet DEF StartConfig
  <2>4. CASE ~StartConfig(p)
    <3>1. lock' = lock /\ UNCHANGED <<file, opened, acked, lost>>
      BY <1>2, <2>4 DEF StartInit, StartUnlock, StartImport, StartClone, StartPull, Start
    <3> QED
      BY <2>1, <2>2, <3>1, SafeQuiet
  <2> QED
    BY <2>3, <2>4
<1>3. ASSUME NEW p \in Procs, LoadConfig(p) \/ LoadOrInit(p) \/ LoadPost(p)
      PROVE  SafeInv'
  <2>1. /\ Moved(p) /\ job'[p].op = job[p].op /\ job[p].at = "load"
        /\ job'[p].at \in {"init", "prompt", "probe"}
        /\ job'[p].at = "init" => file = Absent
        /\ job'[p].at # "init" => file # Absent /\ job'[p].mem = Parsed(file)
    BY <1>3, LoadsMove
  <2>2. UNCHANGED <<lock, file, opened, acked, lost>>
    BY <1>3 DEF LoadConfig, LoadOrInit, LoadPost
  <2>3. file # Absent => Parsed(file).edits = EditsOf(file)
    BY ParsedFacts DEF StoreInv, TypeOK
  <2>4. Held(job'[p], Safe)
    BY <2>1, <2>3, FileEdits DEF Held, SafeInv
  <2> QED
    BY <2>1, <2>2, <2>4, SafeQuiet
<1>4. ASSUME NEW p \in Procs, InitNew(p)
      PROVE  SafeInv'
  <2>1. Moved(p) /\ job'[p].op = job[p].op /\ job[p].at = "init" /\ job'[p].at = "truncate"
    BY <1>4, InitMoves
  <2>2. lock = p => Held(job'[p], Safe)
    BY <1>0, <2>1 DEF Held
  <2> QED
    BY <1>4, <2>1, <2>2, SafeQuiet DEF InitNew
<1>5. ASSUME NEW p \in Procs, Truncate(p)
      PROVE  SafeInv'
  <2>1. Moved(p) /\ job'[p].op = job[p].op /\ job[p].at = "truncate" /\ job'[p].at = "encode"
    BY <1>5, InitMoves
  <2>2. lock = p => Safe = {}
    BY <1>0, <2>1 DEF Held
  <2>3. /\ lost' = lost \cup Losses(p, "init", Fresh) /\ file' = Torn /\ acked' = acked
        /\ lock' = lock
    BY <1>5 DEF Truncate
  <2>4. Fresh \in Config /\ Fresh.edits = {}
    BY ConfigFacts, FileEdits
  <2>5. Safe' \cap acked \subseteq Safe \cap Fresh.edits /\ LockedEditsSurvive'
    BY <2>2, <2>3, <2>4, SafeLosses
  <2>6. Safe' = {}
    BY <2>3, <2>4, <2>5 DEF Safe
  <2>7. EditsOf(file)' = {}
    BY <2>3, FileEdits
  <2>8. HeldInv'
    <3>1. SUFFICES ASSUME NEW q \in Procs, lock' = q
                   PROVE  Held(job'[q], {})
      BY <2>6 DEF HeldInv
    <3> QED
      BY DEF Held
  <2> QED
    BY <2>5, <2>6, <2>7, <2>8 DEF SafeInv
<1>6. ASSUME NEW p \in Procs, WriteNew(p)
      PROVE  SafeInv'
  <2>1. /\ Moved(p) /\ job'[p].at \in {"start", "load"}
        /\ job'[p].at = "start" => lock' = Released(p)
        /\ job'[p].at = "load" => lock' = lock
        /\ opened' = opened \ {p}
    BY <1>6, InitMoves
  <2>2. /\ acked' = acked /\ lost' = lost /\ file' = IF p \in opened THEN Fresh ELSE file
    BY <1>6 DEF WriteNew
  <2>3. EditsOf(file)' = EditsOf(file)
    <3>1. CASE p \in opened
      BY <2>2, <3>1, FileEdits DEF SafeInv
    <3>2. CASE p \notin opened
      BY <2>2, <3>2
    <3> QED
      BY <3>1, <3>2
  <2>4. Safe' = Safe
    BY <2>2 DEF Safe
  <2>5. HeldInv'
    <3>1. SUFFICES ASSUME NEW q \in Procs, lock' = q
                   PROVE  Held(job'[q], Safe)
      BY <2>4 DEF HeldInv
    <3>2. CASE q = p
      BY <2>1, <3>2 DEF Held
    <3>3. CASE q # p
      <4>1. lock = q /\ job'[q] = job[q]
        BY <2>1, <3>1, <3>3, ReleasedFacts DEF Moved
      <4> QED
        BY <1>0, <4>1
    <3> QED
      BY <3>2, <3>3
  <2>6. LockedEditsSurvive'
    BY <2>2 DEF SafeInv, LockedEditsSurvive
  <2>7. opened' # {} => EditsOf(file)' = {}
    BY <2>1, <2>3 DEF SafeInv
  <2> QED
    BY <2>3, <2>4, <2>5, <2>6, <2>7 DEF SafeInv
<1>7. ASSUME NEW p \in Procs, Unlocked(p)
      PROVE  SafeInv'
  <2>1. /\ Moved(p) /\ Kept(job[p], job'[p]) /\ job[p].at = "prompt"
        /\ job'[p].at \in {"migrate", "apply", "probe"}
    BY <1>7, ProbesMove
  <2>2. lock = p => Held(job'[p], Safe)
    BY <1>0, <2>1 DEF Held, Kept
  <2> QED
    BY <1>7, <2>1, <2>2, SafeQuiet DEF Unlocked
<1>8. ASSUME NEW p \in Procs, Probe(p)
      PROVE  SafeInv'
  <2>1. /\ Moved(p) /\ Kept(job[p], job'[p]) /\ job[p].at = "probe"
        /\ job[p].op \in {"unlock", "import", "clone", "post"}
        /\ \/ job'[p].at = "reload" /\ lock' = lock
           \/ job'[p].at = "migrate" /\ lock = None /\ lock' = p
    BY <1>8, ProbesMove
  <2>2. Held(job'[p], Safe)
    BY <2>1 DEF Held, Kept
  <2>3. UNCHANGED <<file, opened, acked, lost>>
    BY <1>8 DEF Probe
  <2> QED
    BY <1>0, <2>1, <2>2, <2>3, SafeQuiet
<1>9. ASSUME NEW p \in Procs, Recheck(p)
      PROVE  SafeInv'
  <2>1. /\ Moved(p) /\ job'[p].op = job[p].op /\ job[p].at = "migrate"
        /\ job'[p].mem = job[p].mem
        /\ \/ job'[p].at = "backup" /\ lock' = lock /\ file \in Config /\ job'[p].old = file
           \/ job'[p].at = "reload" /\ lock' = LockAfterMigration(p)
    BY <1>9, RecheckMoves
  <2>2. lock = p => Held(job'[p], Safe)
    BY <1>0, <2>1, FileEdits DEF Held, SafeInv
  <2>3. UNCHANGED <<file, opened, acked, lost>>
    BY <1>9 DEF Recheck
  <2> QED
    BY <2>1, <2>2, <2>3, ReleasedFacts, SafeQuiet
<1>10. ASSUME NEW p \in Procs, Backup(p)
      PROVE  SafeInv'
  <2>1. /\ Moved(p) /\ job[p].at = "backup" /\ job'[p].at = "resave"
        /\ job'[p].old = job[p].old /\ job'[p].op = job[p].op /\ job'[p].mem = job[p].mem
    BY <1>10, BackupMoves
  <2>2. lock = p => Held(job'[p], Safe)
    BY <1>0, <2>1 DEF Held
  <2> QED
    BY <1>10, <2>1, <2>2, SafeQuiet DEF Backup
<1>11. ASSUME NEW p \in Procs, BackupDies(p) \/ SpawnAgent(p) \/ Exit(p)
      PROVE  SafeInv'
  <2>1. /\ job' = [job EXCEPT ![p] = Idle] /\ lock' = Released(p) /\ opened' = opened \ {p}
        /\ UNCHANGED <<file, acked, lost>>
    BY <1>11 DEF BackupDies, SpawnAgent, Exit, End
  <2>2. Moved(p)
    BY <2>1, EndFacts
  <2> QED
    BY <2>1, <2>2, ReleasedFacts, SafeQuiet
<1>12. ASSUME NEW p \in Procs, MigrateSave(p)
      PROVE  SafeInv'
  <2>1. /\ Moved(p) /\ job[p].at = "resave" /\ job'[p].at = "reload"
        /\ job'[p].op = job[p].op /\ job'[p].mem = job[p].mem
        /\ Migrated(job[p].old) \in Config /\ Migrated(job[p].old).edits = job[p].old.edits
    BY <1>12, MigrateSaveMoves
  <2> DEFINE c == Migrated(job[p].old)
  <2>2. AtomicSave(p, "migrate", c) /\ acked' = acked /\ lock' = LockAfterMigration(p)
    BY <1>12 DEF MigrateSave
  <2>3. lock = p => Safe \subseteq c.edits
    BY <1>0, <2>1 DEF Held
  <2>4. Safe' \subseteq Safe
    BY <2>2 DEF AtomicSave, Safe
  <2>5. lock' = p => Held(job'[p], Safe')
    BY <1>0, <2>1, <2>2, <2>4, ReleasedFacts DEF Held
  <2> HIDE DEF c
  <2>6. c \in Config
    BY <2>1 DEF c
  <2> QED
    BY <2>1, <2>2, <2>3, <2>5, <2>6, ReleasedFacts, SafeSave
<1>13. ASSUME NEW p \in Procs, OpenSession(p)
      PROVE  SafeInv'
  <2>1. /\ Moved(p) /\ job[p].at = "reload" /\ job'[p].at = "session" /\ file # Absent
        /\ job'[p].op = job[p].op /\ job'[p].mem \in {job[p].mem, Parsed(file)}
    BY <1>13, OpenSessionMoves
  <2>2. Parsed(file).edits = EditsOf(file)
    BY <2>1, ParsedFacts DEF StoreInv, TypeOK
  <2>3. lock = p => Held(job'[p], Safe)
    BY <1>0, <2>1, <2>2 DEF Held, SafeInv
  <2> QED
    BY <1>13, <2>1, <2>3, SafeQuiet DEF OpenSession
<1>14. ASSUME NEW p \in Procs, Reload(p)
      PROVE  SafeInv'
  <2>1. Moved(p) /\ job'[p].at = "mutate"
    BY <1>14, ReloadMoves
  <2>2. Held(job'[p], Safe)
    BY <2>1 DEF Held
  <2> QED
    BY <1>14, <2>1, <2>2, SafeQuiet DEF Reload
<1>15. ASSUME NEW p \in Procs, Edit(p)
      PROVE  SafeInv'
  <2>1. /\ Moved(p) /\ job[p].at = "session" /\ job'[p].at = "session" /\ job'[p].op = job[p].op
        /\ job[p].mem.edits \subseteq job'[p].mem.edits
    BY <1>15, EditMoves
  <2>2. lock = p => Held(job'[p], Safe)
    BY <1>0, <2>1 DEF Held
  <2> QED
    BY <1>15, <2>1, <2>2, SafeQuiet DEF Edit
<1>16. ASSUME NEW p \in Procs, SaveEdits(p)
      PROVE  SafeInv'
  <2>1. /\ Moved(p) /\ job[p].at = "session" /\ job'[p].at = "session"
        /\ job'[p].op = job[p].op /\ job[p].mem \in Config
        /\ job[p].own \subseteq job[p].mem.edits
        /\ job'[p].mem = Encoded(job[p].mem)
    BY <1>16, SaveEditsMoves
  <2> DEFINE c == Encoded(job[p].mem)
  <2>2. c \in Config /\ c.edits = job[p].mem.edits
    BY <2>1, EncodedFacts
  <2>3. /\ AtomicSave(p, "save", c) /\ lock' = lock
        /\ acked' = IF lock = p THEN acked \cup job[p].own ELSE acked
    BY <1>16 DEF SaveEdits
  <2> HIDE DEF c
  <2>4. lock = p => job[p].op = "config"
    BY <2>1 DEF StoreInv, LockInv, Migrating
  <2>5. lock = p => Safe \subseteq c.edits
    BY <1>0, <2>1, <2>2, <2>4 DEF Held
  <2>6. Safe' \subseteq Safe \cup (IF lock = p THEN job[p].own ELSE {})
    BY <2>3 DEF AtomicSave, Safe
  <2>7. lock' = p => Held(job'[p], Safe')
    BY <2>1, <2>2, <2>3, <2>5, <2>6 DEF Held, c
  <2>8. acked \subseteq acked' /\ acked' \subseteq acked \cup c.edits /\ (lock # p => acked' = acked)
    BY <2>1, <2>2, <2>3
  <2> QED
    BY <2>1, <2>2, <2>3, <2>5, <2>7, <2>8, SafeSave
<1>17. ASSUME NEW p \in Procs, ImportSave(p) \/ CloneSave(p)
      PROVE  SafeInv'
  <2> DEFINE c == [Encoded(job[p].mem) EXCEPT !.edits = @ \cup {made + 1}]
  <2>1. /\ c \in Config /\ AtomicSave(p, "save", c)
        /\ job[p].at = "mutate" /\ job[p].op \in {"import", "clone"}
    BY <1>17, OneEditFacts DEF ImportSave, CloneSave
  <2> HIDE DEF c
  <2>2. lock # p /\ lock' = lock /\ acked' = acked
    BY <1>17, <2>1 DEF StoreInv, LockInv, Migrating, ImportSave, CloneSave, SaveOneEdit
  <2>3. Moved(p)
    <3>1. CASE ImportSave(p)
      BY <3>1, EndFacts DEF ImportSave
    <3>2. CASE CloneSave(p)
      <4>1. "post" \in Ops \ {"idle"} /\ "load" \in {"load", "init"}
        BY DEF Ops
      <4> QED
        BY <3>2, <4>1, BeginFacts DEF CloneSave
    <3> QED
      BY <1>17, <3>1, <3>2
  <2> QED
    BY <2>1, <2>2, <2>3, SafeSave
<1>18. ASSUME NEW p \in Procs, NEW c \in PulledConfig, Pull(p, c)
      PROVE  SafeInv'
  <2>1. c \in Config /\ Moved(p) /\ job[p].at = "apply" /\ job[p].op = "pull"
    BY <1>18, EndFacts DEF PulledConfig, Pull, StoreInv, JobInv
  <2>2. lock # p /\ lock' = lock /\ acked' = acked /\ AtomicSave(p, "pull", c)
    BY <1>18, <2>1 DEF StoreInv, LockInv, Migrating, Pull
  <2> QED
    BY <2>1, <2>2, SafeSave
<1>19. ASSUME NEW p \in Procs, ParentDies(p)
      PROVE  SafeInv'
  <2>1. UNCHANGED <<file, opened, job, acked, lost>> /\ lock' = None
    BY <1>19 DEF ParentDies
  <2>2. Safe' = Safe /\ EditsOf(file)' = EditsOf(file)
    BY <2>1 DEF Safe, EditsOf, Loadable
  <2> QED
    BY <1>0, <2>1, <2>2 DEF SafeInv, HeldInv, LockedEditsSurvive
<1> QED
  BY <1>1, <1>2, <1>3, <1>4, <1>5, <1>6, <1>7, <1>8, <1>9, <1>10, <1>11, <1>12, <1>13, <1>14,
     <1>15, <1>16, <1>17, <1>18, <1>19 DEF Next

\* An edit saved under the lock leaves the file only by a write without the lock,
\* for any number of processes, commands and edits.
THEOREM EditsUnderLockSurvive == Spec => []LockedEditsSurvive
<1>1. Init => SafeInv
  <2>1. SUFFICES ASSUME Init PROVE SafeInv
    OBVIOUS
  <2>2. acked = {} /\ lost = {} /\ opened = {} /\ lock = None /\ None \notin Procs
    BY <2>1, StoreAssumption DEF Init, StoreAssumption
  <2> QED
    BY <2>2 DEF SafeInv, Safe, HeldInv, LockedEditsSurvive
<1>2. StoreInv /\ SafeInv /\ [Next]_vars => SafeInv'
  BY SafeStep
<1>3. SafeInv => LockedEditsSurvive
  BY DEF SafeInv
<1> QED
  BY <1>1, <1>2, <1>3, StoreInvariant, PTL DEF Spec

-----------------------------------------------------------------------------
(* The migration, with no pull and no orphaned editor in the way.            *)

Names == file \in Config /\ file.shape = "names"
StampOK(c) == c.migratedAt \in {None} \cup {m.at : m \in migrations}
BackupOf(t, c) == [at |-> t, of |-> c, whole |-> TRUE]

\* Steps that no process has reached while the file has the old shape.
Later == {"reload", "mutate", "session", "truncate", "encode"}

\* What a process may be doing, given the lock, the file and the backups.
MigJob(p, r) ==
    /\ r.op = "config" \/ r.at \in Migrating => lock = p
    /\ Names => r.at \notin Later /\ r.op # "post"
    /\ r.at \in {"backup", "resave"} => Names /\ file = r.old
    /\ r.at = "resave" => BackupOf(r.bak, r.old) \in backups
    /\ r.at \in HasMem => StampOK(r.mem)

\* One migration at most, and it left its backup.
MigStore ==
    /\ Names => migrations = {}
    /\ \A m, n \in migrations : m = n
    /\ file \in Config => StampOK(file)
    /\ \A l \in lost : l.how # "migrate"
    /\ \A m \in migrations : Retained(m.at) => BackupOf(m.bak, m.from) \in backups

MigCore == (\A p \in Procs : MigJob(p, job[p])) /\ MigStore
MigInv == Undisturbed => MigCore

\* What the editors and the reloads take from the file carries its stamp.
LEMMA ParsedStamp ==
    ASSUME StoreInv, MigStore, file # Absent
    PROVE  StampOK(Parsed(file))
<1>1. CASE file = Torn
  BY <1>1 DEF Parsed, StampOK, Fresh
<1>2. CASE file # Torn
  <2>1. file \in Config /\ Parsed(file) = file
    BY <1>2 DEF StoreInv, TypeOK, Parsed
  <2> QED
    BY <2>1 DEF MigStore
<1> QED
  BY <1>1, <1>2

\* A step that does not write the file.
LEMMA MigQuiet ==
    ASSUME MigCore, NEW p \in Procs, Moved(p),
           UNCHANGED <<file, lost, migrations, now, retention>>, backups \subseteq backups',
           \A q \in Procs \ {p} : lock = q => lock' = q,
           MigJob(p, job[p])'
    PROVE  MigCore'
<1>1. ASSUME NEW q \in Procs
      PROVE  MigJob(q, job[q])'
  <2>1. CASE q = p
    BY <2>1
  <2>2. CASE q # p
    <3>1. job'[q] = job[q] /\ MigJob(q, job[q])
      BY <2>2 DEF Moved, MigCore
    <3>2. lock = q => lock' = q
      BY <2>2
    <3> QED
      BY <3>1, <3>2 DEF MigJob, Names, StampOK
  <2> QED
    BY <2>1, <2>2
<1>2. MigStore'
  BY DEF MigCore, MigStore, Names, StampOK, Retained
<1> QED
  BY <1>1, <1>2 DEF MigCore

\* The sweep of a save keeps the backup of a migration in its window.
LEMMA SweepKeeps ==
    ASSUME StoreInv, MigStore, NEW c \in Config, StampOK(c), NEW m \in migrations, Retained(m.at)
    PROVE  SweptBackups(c, backups) = backups
<1>1. m.at \in Int /\ now \in Int /\ retention \in Int
  BY StoreAssumption DEF StoreInv, TypeOK, Migration, Times, StoreAssumption
<1>2. c.migratedAt # None => c.migratedAt = m.at
  BY DEF StampOK, MigStore
<1>3. ~Expired(c)
  BY <1>1, <1>2 DEF Expired, Retained
<1> QED
  BY <1>3 DEF SweptBackups

\* Nobody migrates a file that has the new shape.
LEMMA NotNames ==
    ASSUME MigCore, NEW p \in Procs, job[p].at \in Later
    PROVE  ~Names /\ \A q \in Procs : job[q].at \notin {"backup", "resave"}
BY DEF MigCore, MigJob

\* A save of an editor, an import or a clone.
LEMMA MigSave ==
    ASSUME StoreInv, MigCore, NEW p \in Procs, Moved(p), NEW c \in Config,
           AtomicSave(p, "save", c), c.shape = "ids", StampOK(c), job[p].at \in Later,
           UNCHANGED <<lock, migrations, now, retention>>,
           job'[p].op = "config" => lock = p, job'[p].at \notin Migrating,
           job'[p].at \in HasMem => StampOK(job'[p].mem)
    PROVE  MigCore'
<1>1. ~Names /\ \A q \in Procs : job[q].at \notin {"backup", "resave"}
  BY NotNames
<1>2. /\ file' = c /\ backups' = SweptBackups(c, backups)
      /\ lost' = lost \cup Losses(p, "save", c)
  BY DEF AtomicSave
<1>3. ~Names'
  BY <1>2 DEF Names
<1>4. ASSUME NEW q \in Procs
      PROVE  MigJob(q, job[q])'
  <2>1. CASE q = p
    BY <1>3, <2>1 DEF MigJob, Migrating, StampOK
  <2>2. CASE q # p
    <3>1. job'[q] = job[q] /\ MigJob(q, job[q])
      BY <2>2 DEF Moved, MigCore
    <3> QED
      BY <1>1, <1>3, <3>1 DEF MigJob, StampOK
  <2> QED
    BY <2>1, <2>2
<1>5. MigStore'
  <2>1. \A l \in lost' : l.how # "migrate"
    BY <1>2 DEF MigCore, MigStore, Losses
  <2>2. ASSUME NEW m \in migrations', Retained(m.at)'
        PROVE  BackupOf(m.bak, m.from) \in backups'
    <3>1. m \in migrations /\ Retained(m.at)
      BY <2>2 DEF Retained
    <3>2. backups' = backups
      BY <1>2, <3>1, SweepKeeps DEF MigCore
    <3> QED
      BY <3>1, <3>2 DEF MigCore, MigStore
  <2>3. file' \in Config => StampOK(file)'
    BY <1>2 DEF StampOK
  <2> QED
    BY <1>3, <2>1, <2>2, <2>3 DEF MigCore, MigStore
<1> QED
  BY <1>4, <1>5 DEF MigCore

\* A new file is truncated or written.
LEMMA MigNew ==
    ASSUME StoreInv, MigCore, NEW p \in Procs, Truncate(p) \/ WriteNew(p)
    PROVE  MigCore'
<1> USE DEF counters, history
<1>1. /\ Moved(p) /\ job[p].at \in Later
      /\ job'[p].at \in {"encode", "start", "load"}
      /\ job'[p].op = "config" => job[p].op = "config" /\ lock' = lock
      /\ \A q \in Procs \ {p} : lock = q => lock' = q
  <2>1. CASE Truncate(p)
    BY <2>1, InitMoves DEF Truncate, Later
  <2>2. CASE WriteNew(p)
    BY <2>2, InitMoves DEF Released, Later
  <2> QED
    BY <2>1, <2>2
<1>2. ~Names /\ \A q \in Procs : job[q].at \notin {"backup", "resave"}
  BY <1>1, NotNames
<1>3. /\ file' \in {Torn, Fresh, file} /\ UNCHANGED <<backups, migrations, now, retention>>
      /\ lost' \subseteq lost \cup Losses(p, "init", Fresh)
  BY DEF Truncate, WriteNew
<1>4. ~Names' /\ (file' \in Config => StampOK(file)')
  BY <1>2, <1>3, ConfigFacts DEF Names, MigCore, MigStore, StampOK, Fresh
<1>5. ASSUME NEW q \in Procs
      PROVE  MigJob(q, job[q])'
  <2>1. CASE q = p
    BY <1>1, <1>4, <2>1 DEF MigJob, MigCore, Migrating, HasMem
  <2>2. CASE q # p
    <3>1. job'[q] = job[q] /\ MigJob(q, job[q]) /\ (lock = q => lock' = q)
      BY <1>1, <2>2 DEF Moved, MigCore
    <3> QED
      BY <1>2, <1>3, <1>4, <3>1 DEF MigJob, StampOK
  <2> QED
    BY <2>1, <2>2
<1>6. MigStore'
  <2>1. \A l \in lost' : l.how # "migrate"
    BY <1>3 DEF MigCore, MigStore, Losses
  <2> QED
    BY <1>3, <1>4, <2>1 DEF MigCore, MigStore, Retained
<1> QED
  BY <1>5, <1>6 DEF MigCore

\* The migration itself: the file is still the one that was read, and the
\* backup is a copy of it.
LEMMA MigMigrates ==
    ASSUME StoreInv, MigCore, NEW p \in Procs, MigrateSave(p)
    PROVE  MigCore'
<1> DEFINE o == job[p].old
           c == Migrated(o)
           new == [at |-> now, from |-> o, bak |-> job[p].bak]
<1>1. /\ Moved(p) /\ job[p].at = "resave" /\ job'[p].at = "reload"
      /\ job'[p].op = job[p].op /\ job'[p].mem = job[p].mem
      /\ o \in Config /\ c \in Config /\ c.edits = o.edits
      /\ c.shape = "ids" /\ c.migratedAt = now
  BY MigrateSaveMoves
<1>2. /\ Names /\ file = o /\ lock = p /\ BackupOf(job[p].bak, o) \in backups /\ migrations = {}
  BY <1>1 DEF MigCore, MigJob, MigStore, Migrating
<1>3. /\ file' = c /\ backups' = SweptBackups(c, backups)
      /\ lost' = lost \cup Losses(p, "migrate", c)
      /\ migrations' = migrations \cup {new} /\ lock' = LockAfterMigration(p)
      /\ now' = now /\ retention' = retention
  BY DEF MigrateSave, AtomicSave
<1> HIDE DEF c
<1>4. lost' = lost
  <2>1. EditsOf(file) = c.edits
    BY <1>1, <1>2, FileEdits
  <2>2. Losses(p, "migrate", c) = {}
    BY <2>1 DEF Losses
  <2> QED
    BY <1>3, <2>2
<1>5. ~Names' /\ migrations' = {new} /\ new.at = now
  BY <1>1, <1>2, <1>3 DEF Names
<1>6. ASSUME NEW q \in Procs
      PROVE  MigJob(q, job[q])'
  <2>1. MigJob(q, job[q])
    BY DEF MigCore
  <2>2. CASE q = p
    <3>1. job'[q].op = "config" => lock' = p
      BY <1>1, <1>2, <1>3, <2>2 DEF LockAfterMigration
    <3>2. job'[q].mem.migratedAt = None
      BY <1>1, <1>2, <2>1, <2>2 DEF MigJob, HasMem, StampOK
    <3> QED
      BY <1>1, <1>5, <2>2, <3>1, <3>2 DEF MigJob, Migrating, StampOK
  <2>3. CASE q # p
    <3>1. job'[q] = job[q] /\ lock # q
      BY <1>1, <1>2, <2>3 DEF Moved
    <3>2. job[q].op # "config" /\ job[q].at \notin Migrating
      BY <2>1, <3>1 DEF MigJob
    <3>3. job'[q].at \in HasMem => job'[q].mem.migratedAt = None
      BY <1>2, <2>1, <3>1 DEF MigJob, StampOK
    <3> QED
      BY <1>5, <3>1, <3>2, <3>3 DEF MigJob, Migrating, StampOK
  <2> QED
    BY <2>2, <2>3
<1>7. MigStore'
  <2>1. StampOK(file)'
    BY <1>1, <1>3, <1>5 DEF StampOK
  <2>2. ASSUME Retained(now)'
        PROVE  BackupOf(job[p].bak, o) \in backups'
    <3>1. now \in Int /\ retention \in Int
      BY StoreAssumption DEF StoreInv, TypeOK, Times, StoreAssumption
    <3>2. ~Expired(c)
      BY <1>1, <1>3, <2>2, <3>1 DEF Expired, Retained
    <3> QED
      BY <1>2, <1>3, <3>2 DEF SweptBackups
  <2>3. new.bak = job[p].bak /\ new.from = o
    OBVIOUS
  <2>4. \A m \in migrations' : Retained(m.at)' => BackupOf(m.bak, m.from) \in backups'
    BY <1>3, <1>5, <2>2, <2>3
  <2> QED
    BY <1>4, <1>5, <2>1, <2>4 DEF MigCore, MigStore
<1> QED
  BY <1>6, <1>7 DEF MigCore

\* Every step keeps the facts about the migration.
LEMMA MigStep ==
    ASSUME StoreInv, MigInv, [Next]_vars
    PROVE  MigInv'
<1> USE DEF counters, history
<1>1. SUFFICES ASSUME Undisturbed'
               PROVE  MigCore'
  BY DEF MigInv
<1>2. pulls' = 0 /\ ~orphaned'
  BY <1>1 DEF Undisturbed
<1>3. ASSUME NEW p \in Procs, NEW c \in PulledConfig, Pull(p, c)
      PROVE  FALSE
  BY <1>2, <1>3 DEF Pull, StoreInv, TypeOK
<1>4. ASSUME NEW p \in Procs, ParentDies(p)
      PROVE  FALSE
  BY <1>2, <1>4 DEF ParentDies
<1>5. UNCHANGED <<pulls, orphaned>>
  BY <1>3, <1>4 DEF Next, vars, Tick, StartConfig, StartInit, StartUnlock, StartImport, StartClone,
     StartPull, Start, LoadConfig, LoadOrInit, LoadPost, InitNew, Truncate, WriteNew, Unlocked, Probe,
     Recheck, Backup, BackupDies, MigrateSave, OpenSession, Reload, SpawnAgent, Edit, SaveEdits,
     ImportSave, CloneSave, SaveOneEdit, Exit
<1>6. MigCore /\ None \notin Procs /\ \A p \in Procs : MigJob(p, job[p]) /\ JobInv(job[p])
  BY <1>2, <1>5, StoreAssumption DEF MigInv, Undisturbed, MigCore, StoreInv, StoreAssumption
<1>7. Names => file # Absent /\ Parsed(file) = file
  BY ConfigFacts DEF Names, Parsed
<1>8. CASE UNCHANGED vars
  BY <1>6, <1>8 DEF vars, MigCore, MigJob, MigStore, Names, StampOK, Retained
<1>9. CASE Tick
  <2>1. /\ UNCHANGED <<file, lock, backups, retention, job, lost, migrations>> /\ now' = now + 1
    BY <1>9 DEF Tick
  <2>2. \A q \in Procs : MigJob(q, job[q])'
    BY <1>6, <2>1 DEF MigJob, Names, StampOK
  <2>3. ASSUME NEW m \in migrations, Retained(m.at)'
        PROVE  Retained(m.at)
    <3>1. m.at \in Int /\ now \in Int /\ retention \in Int
      BY StoreAssumption DEF StoreInv, TypeOK, Migration, Times, StoreAssumption
    <3> QED
      BY <2>1, <2>3, <3>1 DEF Retained
  <2>4. MigStore'
    BY <1>6, <2>1, <2>3 DEF MigCore, MigStore, Names, StampOK
  <2> QED
    BY <2>2, <2>4 DEF MigCore
<1>10. ASSUME NEW p \in Procs,
              StartConfig(p) \/ StartInit(p) \/ StartUnlock(p) \/ StartImport(p)
              \/ StartClone(p) \/ StartPull(p)
       PROVE  MigCore'
  <2>1. /\ Moved(p) /\ job'[p].at \in {"load", "init"} /\ job'[p].op \notin {"idle", "post"}
        /\ job'[p].op = "config" => StartConfig(p)
    BY <1>10, StartsMove
  <2>2. UNCHANGED <<file, lost, migrations, now, retention, backups>>
    BY <1>10 DEF StartConfig, StartInit, StartUnlock, StartImport, StartClone, StartPull, Start
  <2>3. /\ StartConfig(p) => lock = None /\ lock' = p
        /\ ~StartConfig(p) => lock' = lock
    BY <1>10 DEF StartConfig, StartInit, StartUnlock, StartImport, StartClone, StartPull, Start
  <2>4. MigJob(p, job[p])'
    BY <2>1, <2>3 DEF MigJob, Later, Migrating, HasMem
  <2> QED
    BY <1>6, <2>1, <2>2, <2>3, <2>4, MigQuiet
<1>11. ASSUME NEW p \in Procs, LoadConfig(p) \/ LoadOrInit(p) \/ LoadPost(p)
       PROVE  MigCore'
  <2>1. /\ Moved(p) /\ job'[p].op = job[p].op
        /\ job'[p].at \in {"init", "prompt", "probe"}
        /\ job'[p].at # "init" => file # Absent /\ job'[p].mem = Parsed(file)
    BY <1>11, LoadsMove
  <2>2. UNCHANGED <<file, lost, migrations, now, retention, backups, lock>>
    BY <1>11 DEF LoadConfig, LoadOrInit, LoadPost
  <2>3. file # Absent => StampOK(Parsed(file))
    BY <1>6, ParsedStamp DEF MigCore
  <2>4. MigJob(p, job[p])'
    BY <1>6, <2>1, <2>2, <2>3 DEF MigJob, Later, Migrating, HasMem, Names, StampOK
  <2> QED
    BY <1>6, <2>1, <2>2, <2>4, MigQuiet
<1>12. ASSUME NEW p \in Procs, InitNew(p)
       PROVE  MigCore'
  <2>1. Moved(p) /\ job'[p].op = job[p].op /\ job'[p].at = "truncate"
    BY <1>12, InitMoves
  <2>2. UNCHANGED <<file, lost, migrations, now, retention, backups, lock>> /\ file = Absent
    BY <1>12 DEF InitNew
  <2>3. MigJob(p, job[p])'
    BY <1>6, <2>1, <2>2, ConfigFacts DEF MigJob, Migrating, HasMem, Names
  <2> QED
    BY <1>6, <2>1, <2>2, <2>3, MigQuiet
<1>13. ASSUME NEW p \in Procs, Truncate(p) \/ WriteNew(p)
       PROVE  MigCore'
  BY <1>6, <1>13, MigNew
<1>14. ASSUME NEW p \in Procs, Unlocked(p)
       PROVE  MigCore'
  <2>1. /\ Moved(p) /\ job[p].at = "prompt" /\ Kept(job[p], job'[p])
        /\ job'[p].at \in {"migrate", "apply", "probe"}
        /\ job'[p].at = "migrate" => job[p].op = "config"
    BY <1>14, ProbesMove
  <2>2. UNCHANGED <<file, lost, migrations, now, retention, backups, lock>>
    BY <1>14 DEF Unlocked
  <2>3. MigJob(p, job[p])'
    BY <1>6, <2>1, <2>2 DEF MigJob, Later, Migrating, HasMem, Names, StampOK, Kept
  <2> QED
    BY <1>6, <2>1, <2>2, <2>3, MigQuiet
<1>15. ASSUME NEW p \in Procs, Probe(p)
       PROVE  MigCore'
  <2>1. /\ Moved(p) /\ job[p].at = "probe" /\ Kept(job[p], job'[p])
        /\ job[p].op \in {"unlock", "import", "clone", "post"}
        /\ \/ /\ job'[p].at = "reload" /\ lock' = lock
              /\ Parsed(file).shape = "ids"
           \/ /\ job'[p].at = "migrate" /\ lock = None /\ lock' = p
              /\ Parsed(file).shape = "names"
    BY <1>15, ProbesMove
  <2>2. UNCHANGED <<file, lost, migrations, now, retention, backups>>
    BY <1>15 DEF Probe
  <2>3. Names => job'[p].at = "migrate"
    BY <1>7, <2>1 DEF Names
  <2>4. MigJob(p, job[p])'
    BY <1>6, <2>1, <2>2, <2>3 DEF MigJob, Later, Migrating, HasMem, Names, StampOK, Kept
  <2> QED
    BY <1>6, <2>1, <2>2, <2>4, MigQuiet
<1>16. ASSUME NEW p \in Procs, Recheck(p)
       PROVE  MigCore'
  <2>1. /\ Moved(p) /\ job[p].at = "migrate" /\ job'[p].op = job[p].op
        /\ job'[p].mem = job[p].mem
        /\ \/ /\ job'[p].at = "backup" /\ job'[p].old = file /\ lock' = lock
              /\ file \in Config /\ file.shape = "names"
           \/ /\ job'[p].at = "reload" /\ Parsed(file).shape = "ids"
              /\ lock' = LockAfterMigration(p)
    BY <1>16, RecheckMoves
  <2>2. UNCHANGED <<file, lost, migrations, now, retention, backups>>
    BY <1>16 DEF Recheck
  <2>3. lock = p
    BY <1>6, <2>1 DEF MigJob, Migrating
  <2>4. job'[p].at = "reload" => ~Names /\ (job[p].op = "config" => lock' = p)
    BY <1>7, <2>1, <2>3 DEF Names, LockAfterMigration
  <2>5. MigJob(p, job[p])'
    BY <1>6, <2>1, <2>2, <2>3, <2>4 DEF MigJob, Later, Migrating, HasMem, Names, StampOK
  <2> QED
    BY <1>6, <2>1, <2>2, <2>3, <2>5, MigQuiet
<1>17. ASSUME NEW p \in Procs, Backup(p)
       PROVE  MigCore'
  <2>1. /\ Moved(p) /\ job[p].at = "backup" /\ job'[p].at = "resave" /\ job'[p].bak = now
        /\ job'[p].old = job[p].old /\ job'[p].op = job[p].op /\ job'[p].mem = job[p].mem
    BY <1>17, BackupMoves
  <2>2. /\ UNCHANGED <<file, lost, migrations, now, retention, lock>>
        /\ backups' = backups \cup {BackupOf(now, file)}
    BY <1>17 DEF Backup, BackupOf
  <2>3. MigJob(p, job[p])'
    BY <1>6, <2>1, <2>2 DEF MigJob, Later, Migrating, HasMem, Names, StampOK
  <2> QED
    BY <1>6, <2>1, <2>2, <2>3, MigQuiet
<1>18. ASSUME NEW p \in Procs, BackupDies(p) \/ SpawnAgent(p) \/ Exit(p)
       PROVE  MigCore'
  <2>1. /\ job' = [job EXCEPT ![p] = Idle] /\ lock' = Released(p) /\ backups \subseteq backups'
        /\ UNCHANGED <<file, lost, migrations, now, retention>>
    BY <1>18 DEF BackupDies, SpawnAgent, Exit, End
  <2>2. Moved(p) /\ job'[p].op = "idle" /\ job'[p].at = "start"
    BY <2>1, EndFacts
  <2>3. MigJob(p, job[p])'
    BY <2>2 DEF MigJob, Later, Migrating, HasMem
  <2> QED
    BY <1>6, <2>1, <2>2, <2>3, MigQuiet DEF Released
<1>19. ASSUME NEW p \in Procs, MigrateSave(p)
       PROVE  MigCore'
  BY <1>6, <1>19, MigMigrates
<1>20. ASSUME NEW p \in Procs, OpenSession(p)
       PROVE  MigCore'
  <2>1. /\ Moved(p) /\ job[p].at = "reload" /\ job'[p].at = "session" /\ file # Absent
        /\ job'[p].op = job[p].op /\ job'[p].mem \in {job[p].mem, Parsed(file)}
    BY <1>20, OpenSessionMoves
  <2>2. UNCHANGED <<file, lost, migrations, now, retention, backups, lock>>
    BY <1>20 DEF OpenSession
  <2>3. StampOK(Parsed(file))
    BY <1>6, <2>1, ParsedStamp DEF MigCore
  <2>4. MigJob(p, job[p])'
    BY <1>6, <2>1, <2>2, <2>3 DEF MigJob, Later, Migrating, HasMem, Names, StampOK
  <2> QED
    BY <1>6, <2>1, <2>2, <2>4, MigQuiet
<1>21. ASSUME NEW p \in Procs, Reload(p)
       PROVE  MigCore'
  <2>1. /\ Moved(p) /\ job[p].at = "reload" /\ job'[p].at = "mutate" /\ file # Absent
        /\ job'[p].op = job[p].op /\ job'[p].mem = Parsed(file)
    BY <1>21, ReloadMoves
  <2>2. UNCHANGED <<file, lost, migrations, now, retention, backups, lock>>
    BY <1>21 DEF Reload
  <2>3. StampOK(Parsed(file))
    BY <1>6, <2>1, ParsedStamp DEF MigCore
  <2>4. MigJob(p, job[p])'
    BY <1>6, <2>1, <2>2, <2>3 DEF MigJob, Later, Migrating, HasMem, Names, StampOK
  <2> QED
    BY <1>6, <2>1, <2>2, <2>4, MigQuiet
<1>22. ASSUME NEW p \in Procs, Edit(p)
       PROVE  MigCore'
  <2>1. /\ Moved(p) /\ job[p].at = "session" /\ job'[p].at = "session" /\ job'[p].op = job[p].op
        /\ job'[p].mem.migratedAt = job[p].mem.migratedAt
    BY <1>22, EditMoves
  <2>2. UNCHANGED <<file, lost, migrations, now, retention, backups, lock>>
    BY <1>22 DEF Edit
  <2>3. MigJob(p, job[p])'
    BY <1>6, <2>1, <2>2 DEF MigJob, Later, Migrating, HasMem, Names, StampOK
  <2> QED
    BY <1>6, <2>1, <2>2, <2>3, MigQuiet
<1>23. ASSUME NEW p \in Procs, SaveEdits(p)
       PROVE  MigCore'
  <2>1. /\ Moved(p) /\ job[p].at = "session" /\ job'[p].at = "session"
        /\ job'[p].op = job[p].op /\ job[p].mem \in Config
        /\ job'[p].mem = Encoded(job[p].mem)
    BY <1>23, SaveEditsMoves
  <2> DEFINE c == Encoded(job[p].mem)
  <2>2. c \in Config /\ c.shape = "ids" /\ c.migratedAt = job[p].mem.migratedAt
    BY <2>1, EncodedFacts
  <2>3. AtomicSave(p, "save", c) /\ UNCHANGED <<lock, migrations, now, retention>>
    BY <1>23 DEF SaveEdits
  <2>4. job'[p].mem = c
    BY <2>1
  <2> HIDE DEF c
  <2>5. StampOK(c) /\ job[p].at \in Later
    BY <1>6, <2>1, <2>2 DEF MigJob, HasMem, StampOK, Later
  <2>6. /\ job'[p].op = "config" => lock = p
        /\ job'[p].at \notin Migrating
        /\ job'[p].at \in HasMem => StampOK(job'[p].mem)
    BY <1>6, <2>1, <2>4, <2>5 DEF MigJob, Migrating
  <2> QED
    BY <1>6, <2>1, <2>2, <2>3, <2>5, <2>6, MigSave
<1>24. ASSUME NEW p \in Procs, ImportSave(p) \/ CloneSave(p)
       PROVE  MigCore'
  <2> DEFINE c == [Encoded(job[p].mem) EXCEPT !.edits = @ \cup {made + 1}]
  <2>1. /\ c \in Config /\ c.shape = "ids" /\ c.migratedAt = job[p].mem.migratedAt
        /\ AtomicSave(p, "save", c) /\ job[p].at = "mutate"
    BY <1>24, OneEditFacts DEF ImportSave, CloneSave
  <2> HIDE DEF c
  <2>2. UNCHANGED <<lock, migrations, now, retention>>
    BY <1>24 DEF ImportSave, CloneSave, SaveOneEdit
  <2>3. StampOK(c) /\ job[p].at \in Later
    BY <1>6, <2>1 DEF MigJob, HasMem, StampOK, Later
  <2>4. Moved(p) /\ job'[p].op # "config" /\ job'[p].at \in {"start", "load"}
    <3>1. CASE ImportSave(p)
      BY <3>1, EndFacts DEF ImportSave
    <3>2. CASE CloneSave(p)
      <4>1. "post" \in Ops \ {"idle"} /\ "load" \in {"load", "init"}
        BY DEF Ops
      <4>2. Moved(p) /\ job'[p].op = "post" /\ job'[p].at = "load"
        BY <3>2, <4>1, BeginFacts DEF CloneSave
      <4> QED
        BY <4>2
    <3> QED
      BY <1>24, <3>1, <3>2
  <2>5. job'[p].at \notin Migrating /\ job'[p].at \notin HasMem
    BY <2>4 DEF Migrating, HasMem
  <2> QED
    BY <1>6, <2>1, <2>2, <2>3, <2>4, <2>5, MigSave
<1> QED
  BY <1>3, <1>4, <1>8, <1>9, <1>10, <1>11, <1>12, <1>13, <1>14, <1>15, <1>16, <1>17, <1>18,
     <1>19, <1>20, <1>21, <1>22, <1>23, <1>24 DEF Next

\* What the migrations rest on holds in every state.
THEOREM MigrationInvariant == Spec => []MigInv
<1>1. Init => MigInv
  <2>1. SUFFICES ASSUME Init PROVE MigCore
    BY DEF MigInv
  <2>2. \A p \in Procs : job[p] = Idle
    BY <2>1 DEF Init
  <2>3. \A p \in Procs : MigJob(p, job[p])
    BY <2>2 DEF MigJob, Idle, Migrating, Later, HasMem
  <2>4. file \in Config => file.migratedAt = None
    BY <2>1, ConfigFacts DEF Init, Fresh
  <2>5. MigStore
    BY <2>1, <2>4 DEF MigStore, Init, StampOK
  <2> QED
    BY <2>3, <2>5 DEF MigCore
<1>2. StoreInv /\ MigInv /\ [Next]_vars => MigInv'
  BY MigStep
<1> QED
  BY <1>1, <1>2, StoreInvariant, PTL DEF Spec

\* A migration saves what it read, and nothing was saved since: whichever
\* command runs it, it takes no edit out of the file, for any number of
\* processes, edits and seconds.
THEOREM MigrationKeepsEdits == Spec => []MigrationLosesNothing
<1>1. MigInv => MigrationLosesNothing
  BY DEF MigInv, MigCore, MigStore, MigrationLosesNothing
<1> QED
  BY <1>1, MigrationInvariant, PTL

\* The backup of a migration stays for its rollback window, over crashes,
\* retries and the sweeps of all later saves.
THEOREM MigrationBackupKept == Spec => []BackupKept
<1>1. MigInv => BackupKept
  BY DEF MigInv, MigCore, MigStore, BackupKept, BackupOf
<1> QED
  BY <1>1, MigrationInvariant, PTL

=============================================================================
