----------------------------- MODULE ConfigSync -----------------------------
(***************************************************************************)
(* `jitenv sync push` and `jitenv sync pull` of several machines against    *)
(* one remote.  The remote keeps two objects, the sealed blob and its meta, *)
(* which are read and written one after the other; the s3 adapter puts the  *)
(* blob conditionally on the ETag its Pull saw, file and ssh do not.        *)
(*                                                                         *)
(* A config is the set of edits it contains; hashing and sealing keep       *)
(* different configs apart, so a config stands for its own hash, and a blob *)
(* opens under a meta only if it was sealed with the same hash.  All        *)
(* machines hold the same data key (a copied sidecar).  A machine runs one  *)
(* sync command at a time; an editor may save the config at any moment.     *)
(***************************************************************************)
EXTENDS Naturals, FiniteSets

CONSTANTS Machines,
          MaxEdits,    \* bound on edits, over all machines
          MaxPushes,   \* bound on blobs written
          Forces,      \* values of --force and --adopt the users give
          None

Configs == SUBSET (1 .. MaxEdits)

ASSUME SyncAssumption ==
    /\ MaxEdits \in Nat /\ MaxPushes \in Nat
    /\ Forces \subseteq BOOLEAN
    /\ \A c \in Configs : c # None
    /\ None \notin 1 .. MaxPushes /\ None \notin [config : Configs, etag : 1 .. MaxPushes]

VARIABLES
    cfg,      \* config.toml of each machine
    base,     \* Adapter.BaseHash in the sidecar of each machine, or None
    job,      \* the sync command a machine runs
    cas,      \* the adapter puts the blob conditionally (s3)
    blob,     \* remote blob: config and ETag, or None
    meta,     \* remote meta: the hash, or None
    edits,    \* number of edits made
    landed,   \* configs whose blob and meta were both written
    acked,    \* edits of successful pushes that no forced push gave up
    raced,    \* a push read the remote while another was half way
    behind    \* a pull replaced a config and did not record its base

remoteVars == <<blob, meta, landed, acked>>
ghostVars == <<raced, behind>>
vars == <<cfg, base, job, cas, blob, meta, edits, landed, acked, raced, behind>>

Idle == [op |-> "idle", at |-> "start", forced |-> FALSE, local |-> {},
         base |-> None, blob |-> None, meta |-> None, cond |-> FALSE]
Steps == {"start", "blob", "meta", "put", "putmeta", "write", "save"}
Blobs == [config : Configs, etag : 1 .. MaxPushes]

Init ==
    /\ cfg = [m \in Machines |-> {}]
    /\ base = [m \in Machines |-> None]
    /\ job = [m \in Machines |-> Idle]
    /\ cas \in BOOLEAN
    /\ blob = None
    /\ meta = None
    /\ edits = 0
    /\ landed = {}
    /\ acked = {}
    /\ raced = FALSE /\ behind = FALSE

-----------------------------------------------------------------------------
\* An editor saves one more change to the config of m.
Edit(m) ==
    /\ edits < MaxEdits
    /\ edits' = edits + 1
    /\ cfg' = [cfg EXCEPT ![m] = @ \cup {edits + 1}]
    /\ UNCHANGED <<base, job, cas, remoteVars, ghostVars>>

\* The command reads the sidecar and the config; then it asks for the
\* passphrase.  forced is --force of push and --adopt of pull.
Start(m, op, forced) ==
    /\ job[m].op = "idle"
    /\ job' = [job EXCEPT ![m] = [Idle EXCEPT !.op = op, !.at = "blob",
                 !.forced = forced, !.local = cfg[m], !.base = base[m],
                 !.cond = (op = "push" /\ cas)]]
    /\ UNCHANGED <<cfg, base, cas, remoteVars, edits, ghostVars>>

Goto(m, at) == job' = [job EXCEPT ![m].at = at]
Done(m) == job' = [job EXCEPT ![m] = Idle]

\* The remote is read by m while the push of another machine is half way:
\* between blob and meta if both puts are conditional, anywhere if not.
Races(m, conditional) ==
    \E n \in Machines \ {m} :
        /\ job[n].op = "push"
        /\ job[n].at \in (IF conditional /\ job[n].cond THEN {"putmeta"}
                          ELSE {"meta", "put", "putmeta"})

\* Adapter.Pull, first object: the blob with its ETag.
ReadBlob(m) ==
    /\ job[m].at = "blob"
    /\ job' = [job EXCEPT ![m].blob = blob, ![m].at = "meta"]
    /\ raced' = (raced \/ (job[m].op = "push" /\ Races(m, job[m].cond)))
    /\ UNCHANGED <<cfg, base, cas, remoteVars, edits, behind>>

\* The read of the blob fails.  A forced push goes on without an ETag, so its
\* put is unconditional; every other command stops (Abort).
ReadBlobFails(m) ==
    /\ job[m].at = "blob"
    /\ job[m].op = "push" /\ job[m].forced
    /\ job' = [job EXCEPT ![m].cond = FALSE, ![m].at = "meta"]
    /\ raced' = (raced \/ Races(m, FALSE))
    /\ UNCHANGED <<cfg, base, cas, remoteVars, edits, behind>>

\* Adapter.Pull, second object: the command as it stands with the meta read.
ReadMeta(m) == [job[m] EXCEPT !.meta = meta]

NoRemote(j) == j.blob = None /\ j.meta = None
Incomplete(j) == (j.blob = None) # (j.meta = None)

\* The process ends before the command does, or a call of it fails.
Abort(m) ==
    /\ job[m].op # "idle"
    /\ Done(m)
    /\ behind' = (behind \/ (/\ job[m].op = "pull" /\ job[m].at = "save"
                             /\ base[m] # job[m].meta))
    /\ UNCHANGED <<cfg, base, cas, remoteVars, edits, raced>>

-----------------------------------------------------------------------------
(* PushConfig                                                              *)

\* Mutant: the fence lets a machine without a base push.
FenceNoBase(j) ==
    \/ j.forced
    \/ NoRemote(j)
    \/ ~Incomplete(j) /\ (j.base = None \/ j.meta \in {j.base, j.local})

\* The divergence fence.
Fence(j) ==
    \/ j.forced
    \/ NoRemote(j)
    \/ ~Incomplete(j) /\ j.meta \in {j.local} \cup ({j.base} \ {None})

PushDecide(m) ==
    /\ job[m].op = "push"
    /\ job[m].at = "meta"
    /\ IF Fence(ReadMeta(m)) THEN Goto(m, "put") ELSE Done(m)
    /\ UNCHANGED <<cfg, base, cas, remoteVars, edits, ghostVars>>

ETag(b) == IF b = None THEN None ELSE b.etag
NextETag == IF blob = None THEN 1 ELSE blob.etag + 1

\* Adapter.Push, first object.  If-Match / If-None-Match refuses a put when
\* the blob is not the one the Pull saw.  A forced push gives up the edits it
\* does not contain.
PutBlob(m) ==
    /\ job[m].op = "push"
    /\ job[m].at = "put"
    /\ \/ /\ job[m].cond /\ ETag(blob) # ETag(job[m].blob)
          /\ Done(m)
          /\ UNCHANGED remoteVars
       \/ /\ job[m].cond => ETag(blob) = ETag(job[m].blob)
          /\ NextETag <= MaxPushes
          /\ blob' = [config |-> job[m].local, etag |-> NextETag]
          /\ acked' = IF job[m].forced THEN acked \cap job[m].local ELSE acked
          /\ Goto(m, "putmeta")
          /\ UNCHANGED <<meta, landed>>
    /\ UNCHANGED <<cfg, base, cas, edits, ghostVars>>

\* Second object, unconditionally: the push has succeeded.
PutMeta(m) ==
    /\ job[m].op = "push"
    /\ job[m].at = "putmeta"
    /\ meta' = job[m].local
    /\ landed' = landed \cup {job[m].local}
    /\ acked' = acked \cup job[m].local
    /\ Goto(m, "save")
    /\ UNCHANGED <<cfg, base, cas, blob, edits, ghostVars>>

\* The sidecar records the new base.
PushSave(m) ==
    /\ job[m].op = "push"
    /\ job[m].at = "save"
    /\ base' = [base EXCEPT ![m] = job[m].local]
    /\ Done(m)
    /\ UNCHANGED <<cfg, cas, remoteVars, edits, ghostVars>>

-----------------------------------------------------------------------------
(* PullConfig and writePulledConfig                                        *)

\* Decide compares three hashes; the remote is there.
Decide(local, remote, anchor) ==
    CASE local = remote -> "noop"
      [] local # remote /\ anchor = None -> "nobase"
      [] local # remote /\ anchor # None /\ local = anchor -> "fastforward"
      [] local # remote /\ anchor # None /\ remote = anchor -> "pushneeded"
      [] OTHER -> "diverged"

\* Mutant: the blob is not bound to its meta.
OpensUnbound(j) == j.blob # None

\* OpenBlob: the associated data and the hash of the plaintext match the meta.
Opens(j) == j.blob.config = j.meta

PullDecide(m) ==
    LET j == ReadMeta(m)
        d == Decide(j.local, j.meta, j.base)
    IN  /\ j.op = "pull"
        /\ j.at = "meta"
        /\ \/ /\ \/ NoRemote(j) \/ Incomplete(j)
                 \/ d \in {"pushneeded", "diverged"}
                 \/ d = "nobase" /\ ~j.forced
              /\ Done(m)
           \/ /\ ~NoRemote(j) /\ ~Incomplete(j) /\ d = "noop"
              /\ job' = [job EXCEPT ![m] = [j EXCEPT !.at = "save"]]
           \/ /\ ~NoRemote(j) /\ ~Incomplete(j)
              /\ d = "fastforward" \/ (d = "nobase" /\ j.forced)
              /\ IF Opens(j)
                 THEN job' = [job EXCEPT ![m] = [j EXCEPT !.at = "write"]]
                 ELSE Done(m)
        /\ UNCHANGED <<cfg, base, cas, remoteVars, edits, ghostVars>>

\* The decrypted config replaces the file, whatever the file holds by now.
PullWrite(m) ==
    /\ job[m].at = "write"
    /\ cfg' = [cfg EXCEPT ![m] = job[m].blob.config]
    /\ Goto(m, "save")
    /\ UNCHANGED <<base, cas, remoteVars, edits, ghostVars>>

\* The sidecar records the hash of the remote as the new base.
PullSave(m) ==
    /\ job[m].op = "pull"
    /\ job[m].at = "save"
    /\ base' = [base EXCEPT ![m] = job[m].meta]
    /\ Done(m)
    /\ UNCHANGED <<cfg, cas, remoteVars, edits, ghostVars>>

-----------------------------------------------------------------------------
Next ==
    \E m \in Machines :
        \/ Edit(m)
        \/ \E op \in {"push", "pull"}, forced \in Forces : Start(m, op, forced)
        \/ ReadBlob(m) \/ ReadBlobFails(m) \/ Abort(m)
        \/ PushDecide(m) \/ PutBlob(m) \/ PutMeta(m) \/ PushSave(m)
        \/ PullDecide(m) \/ PullWrite(m) \/ PullSave(m)

Spec == Init /\ [][Next]_vars

\* The steps a command takes by itself.
Advance(m) ==
    \/ ReadBlob(m) \/ PushDecide(m) \/ PutBlob(m) \/ PutMeta(m)
    \/ PushSave(m) \/ PullDecide(m) \/ PullWrite(m) \/ PullSave(m)

\* A command that runs goes on until it ends: it is a straight line of code.
FairSpec == Spec /\ \A m \in Machines : WF_vars(Advance(m))

-----------------------------------------------------------------------------
(* Properties                                                              *)

\* Hashes are of configs the edits can make, ETags and counters in their bounds,
\* and a command is at a step it can be at.
TypeOK ==
    /\ cfg \in [Machines -> Configs]
    /\ base \in [Machines -> {None} \cup Configs]
    /\ job \in [Machines ->
          [op : {"idle", "push", "pull"}, at : Steps, forced : BOOLEAN,
           local : Configs, base : {None} \cup Configs,
           blob : {None} \cup Blobs, meta : {None} \cup Configs,
           cond : BOOLEAN]]
    /\ cas \in BOOLEAN
    /\ blob \in {None} \cup Blobs
    /\ meta \in {None} \cup Configs
    /\ edits \in 0 .. MaxEdits
    /\ landed \subseteq Configs
    /\ acked \subseteq 1 .. MaxEdits
    /\ raced \in BOOLEAN /\ behind \in BOOLEAN

RemoteEdits == IF blob = None THEN {} ELSE blob.config

\* No edit of a successful push disappears from the remote unless a forced
\* push gives it up, whatever commands fail half way and whatever else runs,
\* as long as no push reads the remote in the middle of another (PushConfig),
\* and no pull dies between the config and the sidecar: its machine then takes
\* a later config with the hash of the old base for what its own is based on.
NoLostUpdate == raced \/ behind \/ acked \subseteq RemoteEdits

\* What the engine says of the s3 adapter: two concurrent pushers cannot both
\* land, so the conditional put alone keeps every successful push.
CasKeepsUpdates == cas => acked \subseteq RemoteEdits

\* Nothing but the edits made on the machine and configs that were published
\* completely ever reach a config file: a blob without its meta, or one read
\* with the meta of another, is never applied (OpenBlob, PullConfig).
PullAppliesLanded ==
    [][\A m \in Machines : cfg'[m] # cfg[m] =>
          edits' # edits \/ cfg'[m] \in landed]_vars

\* The command's documentation: when both sides changed, pull aborts.  A pull
\* that was not told to adopt never drops an edit that is not in the base.
PullKeepsUnpublished ==
    [][\A m \in Machines : cfg[m] \ cfg'[m] # {} =>
          job[m].forced \/ cfg[m] = job[m].base]_vars
=============================================================================
