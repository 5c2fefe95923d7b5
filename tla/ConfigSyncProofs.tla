-------------------------- MODULE ConfigSyncProofs --------------------------
(***************************************************************************)
(* What ConfigSync promises for every number of machines, edits and pushes. *)
(***************************************************************************)
EXTENDS ConfigSync, TLAPS

Jobs == [op : {"idle", "push", "pull"}, at : Steps, forced : BOOLEAN,
         local : Configs, base : {None} \cup Configs,
         blob : {None} \cup Blobs, meta : {None} \cup Configs,
         cond : BOOLEAN]

\* The remote meta was published with its blob, and a pull that is about to
\* write holds a config that was published.
LandedInv ==
    /\ meta # None => meta \in landed
    /\ \A m \in Machines : job[m].at = "write" => job[m].blob.config \in landed

Inv == TypeOK /\ LandedInv

\* The initial state satisfies the invariant: nothing is published.
LEMMA SyncInit == Init => Inv
<1> SUFFICES ASSUME Init PROVE Inv
  OBVIOUS
<1> USE SyncAssumption
<1>1. Idle \in Jobs /\ Idle.at = "start"
  BY DEF Idle, Jobs, Steps, Configs
<1>2. TypeOK
  <2>1. {} \in Configs
    BY DEF Configs
  <2>2. job \in [Machines -> Jobs]
    BY <1>1 DEF Init
  <2>3. cfg \in [Machines -> Configs] /\ base \in [Machines -> {None} \cup Configs]
    BY <2>1 DEF Init
  <2>4. edits \in 0 .. MaxEdits /\ acked \subseteq 1 .. MaxEdits /\ landed \subseteq Configs
    BY DEF Init
  <2>5. cas \in BOOLEAN /\ raced \in BOOLEAN /\ behind \in BOOLEAN
    BY DEF Init
  <2>6. blob \in {None} \cup Blobs /\ meta \in {None} \cup Configs
    BY DEF Init
  <2> QED
    BY <2>2, <2>3, <2>4, <2>5, <2>6 DEF TypeOK, Jobs
<1>3. LandedInv
  BY <1>1 DEF Init, LandedInv
<1> QED
  BY <1>2, <1>3 DEF Inv

\* A command that moves on, or ends, keeps the types and what it may write.
LEMMA JobMove ==
    ASSUME Inv, NEW m \in Machines, NEW j \in Jobs,
           job' = [job EXCEPT ![m] = j],
           landed \subseteq landed',
           j.at = "write" => j.blob.config \in landed
    PROVE  /\ job' \in [Machines -> Jobs]
           /\ \A n \in Machines : job'[n].at = "write" => job'[n].blob.config \in landed'
<1>1. job \in [Machines -> Jobs]
  BY DEF Inv, TypeOK, Jobs
<1> QED
  BY <1>1 DEF Inv, LandedInv

\* A command that ends leaves nothing to write.
LEMMA IdleJob == Idle \in Jobs /\ Idle.at # "write"
BY SyncAssumption DEF Idle, Jobs, Steps, Configs

\* Every step of a command or an editor keeps the invariant.
LEMMA SyncStep == Inv /\ [Next]_vars => Inv'
<1> SUFFICES ASSUME Inv, [Next]_vars PROVE Inv'
  OBVIOUS
<1> USE SyncAssumption
<1>0. job \in [Machines -> Jobs]
  BY DEF Inv, TypeOK, Jobs
<1> SUFFICES TypeOK' /\ LandedInv'
  BY DEF Inv
<1>1. ASSUME NEW m \in Machines, Edit(m) PROVE TypeOK' /\ LandedInv'
  <2>1. edits + 1 \in 1 .. MaxEdits /\ edits + 1 \in 0 .. MaxEdits
    BY <1>1 DEF Inv, TypeOK, Edit
  <2>2. cfg' \in [Machines -> Configs]
    BY <2>1, <1>1 DEF Inv, TypeOK, Edit, Configs
  <2> QED
    BY <2>1, <2>2, <1>1 DEF Inv, TypeOK, LandedInv, Edit, remoteVars, ghostVars
<1>2. ASSUME NEW m \in Machines, NEW op \in {"push", "pull"}, NEW forced \in Forces,
             Start(m, op, forced)
      PROVE  TypeOK' /\ LandedInv'
  <2> DEFINE j == [Idle EXCEPT !.op = op, !.at = "blob", !.forced = forced,
                     !.local = cfg[m], !.base = base[m], !.cond = (op = "push" /\ cas)]
  <2>1. j \in Jobs /\ j.at # "write"
    BY IdleJob DEF Inv, TypeOK, Jobs, Steps, Idle
  <2>2. job' = [job EXCEPT ![m] = j]
    BY <1>2 DEF Start
  <2> HIDE DEF j
  <2> QED
    BY <2>1, <2>2, <1>2, JobMove DEF Inv, TypeOK, LandedInv, Start, remoteVars, ghostVars, Jobs
<1>3. ASSUME NEW m \in Machines, ReadBlob(m) PROVE TypeOK' /\ LandedInv'
  <2> DEFINE j == [job[m] EXCEPT !.blob = blob, !.at = "meta"]
  <2>1. j \in Jobs /\ j.at # "write"
    BY <1>0 DEF Inv, TypeOK, Jobs, Steps
  <2>2. job' = [job EXCEPT ![m] = j]
    BY <1>3, <1>0 DEF ReadBlob, Jobs
  <2>3. raced' \in BOOLEAN
    BY <1>3 DEF ReadBlob
  <2> HIDE DEF j
  <2> QED
    BY <2>1, <2>2, <2>3, <1>3, JobMove DEF Inv, TypeOK, LandedInv, ReadBlob, remoteVars, ghostVars, Jobs
<1>4. ASSUME NEW m \in Machines, ReadBlobFails(m) PROVE TypeOK' /\ LandedInv'
  <2> DEFINE j == [job[m] EXCEPT !.cond = FALSE, !.at = "meta"]
  <2>1. j \in Jobs /\ j.at # "write"
    BY <1>0 DEF Inv, TypeOK, Jobs, Steps
  <2>2. job' = [job EXCEPT ![m] = j]
    BY <1>4, <1>0 DEF ReadBlobFails, Jobs
  <2>3. raced' \in BOOLEAN
    BY <1>4 DEF ReadBlobFails
  <2> HIDE DEF j
  <2> QED
    BY <2>1, <2>2, <2>3, <1>4, JobMove DEF Inv, TypeOK, LandedInv, ReadBlobFails, remoteVars, ghostVars, Jobs
<1>5. ASSUME NEW m \in Machines, Abort(m) PROVE TypeOK' /\ LandedInv'
  BY <1>5, JobMove, IdleJob DEF Inv, TypeOK, LandedInv, Abort, Done, remoteVars, ghostVars, Jobs
<1>6. ASSUME NEW m \in Machines, PushDecide(m) PROVE TypeOK' /\ LandedInv'
  <2>1. [job[m] EXCEPT !.at = "put"] \in Jobs
    BY <1>0 DEF Jobs, Steps
  <2>2. PICK j \in Jobs : j.at # "write" /\ job' = [job EXCEPT ![m] = j]
    <3>1. CASE Fence(ReadMeta(m))
      <4>1. job' = [job EXCEPT ![m] = [job[m] EXCEPT !.at = "put"]]
        BY <3>1, <1>6, <1>0 DEF PushDecide, Goto
      <4>2. [job[m] EXCEPT !.at = "put"].at # "write"
        BY <1>0 DEF Jobs
      <4> QED
        BY <4>1, <4>2, <2>1
    <3>2. CASE ~Fence(ReadMeta(m))
      BY <3>2, <1>6, IdleJob DEF PushDecide, Done
    <3> QED
      BY <3>1, <3>2
  <2> QED
    BY <2>2, <1>6, JobMove DEF Inv, TypeOK, LandedInv, PushDecide, remoteVars, ghostVars, Jobs
<1>7. ASSUME NEW m \in Machines, PutBlob(m) PROVE TypeOK' /\ LandedInv'
  <2>1. [job[m] EXCEPT !.at = "putmeta"] \in Jobs /\ [job[m] EXCEPT !.at = "putmeta"].at # "write"
    BY <1>0 DEF Jobs, Steps
  <2>2. CASE Done(m) /\ UNCHANGED remoteVars
    BY <2>2, <1>7, JobMove, IdleJob DEF Inv, TypeOK, LandedInv, PutBlob, Done, remoteVars, ghostVars, Jobs
  <2>3. CASE /\ NextETag <= MaxPushes
             /\ blob' = [config |-> job[m].local, etag |-> NextETag]
             /\ acked' = IF job[m].forced THEN acked \cap job[m].local ELSE acked
             /\ Goto(m, "putmeta")
             /\ UNCHANGED <<meta, landed>>
    <3>1. blob' \in Blobs
      <4>1. NextETag \in 1 .. MaxPushes
        BY <2>3 DEF Inv, TypeOK, NextETag, Blobs
      <4> QED
        BY <4>1, <2>3, <1>0 DEF Jobs, Blobs
    <3>2. job' = [job EXCEPT ![m] = [job[m] EXCEPT !.at = "putmeta"]]
      BY <2>3, <1>0 DEF Goto
    <3>3. acked' \subseteq 1 .. MaxEdits
      BY <2>3 DEF Inv, TypeOK
    <3> QED
      BY <3>1, <3>2, <3>3, <2>1, <2>3, <1>7, JobMove DEF Inv, TypeOK, LandedInv, PutBlob, ghostVars, Jobs
  <2> QED
    BY <2>2, <2>3, <1>7 DEF PutBlob
<1>8. ASSUME NEW m \in Machines, PutMeta(m) PROVE TypeOK' /\ LandedInv'
  <2>1. [job[m] EXCEPT !.at = "save"] \in Jobs /\ [job[m] EXCEPT !.at = "save"].at # "write"
    BY <1>0 DEF Jobs, Steps
  <2>2. job' = [job EXCEPT ![m] = [job[m] EXCEPT !.at = "save"]]
    BY <1>8, <1>0 DEF PutMeta, Goto
  <2>3. job[m].local \in Configs /\ job[m].local \subseteq 1 .. MaxEdits
    BY <1>0 DEF Jobs, Configs
  <2>4. landed' = landed \cup {job[m].local} /\ meta' = job[m].local
    BY <1>8 DEF PutMeta
  <2>5. acked' \subseteq 1 .. MaxEdits
    BY <1>8, <2>3 DEF PutMeta, Inv, TypeOK
  <2> QED
    BY <2>1, <2>2, <2>3, <2>4, <2>5, <1>8, JobMove DEF Inv, TypeOK, LandedInv, PutMeta, ghostVars, Jobs
<1>9. ASSUME NEW m \in Machines, PushSave(m) PROVE TypeOK' /\ LandedInv'
  <2>1. job[m].local \in Configs
    BY <1>0 DEF Jobs
  <2> QED
    BY <2>1, <1>9, JobMove, IdleJob DEF Inv, TypeOK, LandedInv, PushSave, Done, remoteVars, ghostVars, Jobs
<1>10. ASSUME NEW m \in Machines, PullDecide(m) PROVE TypeOK' /\ LandedInv'
  <2> DEFINE j == ReadMeta(m)
  <2>1. j \in Jobs /\ j.meta = meta /\ j.blob = job[m].blob
    BY <1>0 DEF Inv, TypeOK, ReadMeta, Jobs
  <2>2. PICK k \in Jobs : /\ job' = [job EXCEPT ![m] = k]
                          /\ k.at = "write" => k.blob.config \in landed
    <3>1. CASE Done(m)
      BY <3>1, IdleJob DEF Done
    <3>2. CASE job' = [job EXCEPT ![m] = [j EXCEPT !.at = "save"]]
      <4>1. [j EXCEPT !.at = "save"] \in Jobs /\ [j EXCEPT !.at = "save"].at # "write"
        BY <2>1 DEF Jobs, Steps
      <4> HIDE DEF j
      <4> QED
        BY <4>1, <3>2
    <3>3. CASE /\ ~NoRemote(j) /\ ~Incomplete(j) /\ Opens(j)
               /\ job' = [job EXCEPT ![m] = [j EXCEPT !.at = "write"]]
      <4>1. [j EXCEPT !.at = "write"] \in Jobs /\ [j EXCEPT !.at = "write"].blob = j.blob
        BY <2>1 DEF Jobs, Steps
      <4>2. j.meta # None
        BY <3>3 DEF NoRemote, Incomplete
      <4>3. j.blob.config \in landed
        BY <4>2, <2>1, <3>3 DEF Opens, Inv, LandedInv
      <4> HIDE DEF j
      <4> QED
        BY <4>1, <4>3, <3>3
    <3> QED
      BY <3>1, <3>2, <3>3, <1>10 DEF PullDecide
  <2> QED
    BY <2>2, <1>10, JobMove DEF Inv, TypeOK, LandedInv, PullDecide, remoteVars, ghostVars, Jobs
<1>11. ASSUME NEW m \in Machines, PullWrite(m) PROVE TypeOK' /\ LandedInv'
  <2>1. [job[m] EXCEPT !.at = "save"] \in Jobs /\ [job[m] EXCEPT !.at = "save"].at # "write"
    BY <1>0 DEF Jobs, Steps
  <2>2. job' = [job EXCEPT ![m] = [job[m] EXCEPT !.at = "save"]]
    BY <1>11, <1>0 DEF PullWrite, Goto
  <2>3. job[m].blob.config \in Configs
    BY <1>11 DEF PullWrite, Inv, LandedInv, TypeOK
  <2>4. cfg' \in [Machines -> Configs]
    BY <2>3, <1>11 DEF PullWrite, Inv, TypeOK
  <2> QED
    BY <2>1, <2>2, <2>4, <1>11, JobMove DEF Inv, TypeOK, LandedInv, PullWrite, remoteVars, ghostVars, Jobs
<1>12. ASSUME NEW m \in Machines, PullSave(m) PROVE TypeOK' /\ LandedInv'
  <2>1. job[m].meta \in {None} \cup Configs
    BY <1>0 DEF Jobs
  <2> QED
    BY <2>1, <1>12, JobMove, IdleJob DEF Inv, TypeOK, LandedInv, PullSave, Done, remoteVars, ghostVars, Jobs
<1>13. CASE UNCHANGED vars
  BY <1>13 DEF Inv, TypeOK, LandedInv, vars
<1> QED
  BY <1>1, <1>2, <1>3, <1>4, <1>5, <1>6, <1>7, <1>8, <1>9, <1>10, <1>11, <1>12, <1>13
  DEF Next

\* The types of the machines and the remote hold throughout.
THEOREM SyncTypeCorrect == Spec => []TypeOK
<1>1. Inv => TypeOK
  BY DEF Inv
<1> QED
  BY <1>1, SyncInit, SyncStep, PTL DEF Spec

\* Whatever pushes fail half way and whatever machines do at the same time, a
\* pull writes only a config that was published completely.
THEOREM PullCorrect == Spec => PullAppliesLanded
<1> DEFINE Applies == \A m \in Machines : cfg'[m] # cfg[m] =>
                          edits' # edits \/ cfg'[m] \in landed
<1>1. Inv /\ [Next]_vars => [Applies]_vars
  <2> SUFFICES ASSUME Inv, Next PROVE Applies
    OBVIOUS
  <2>1. ASSUME NEW n \in Machines, Edit(n) PROVE Applies
    BY <2>1 DEF Edit, Inv, TypeOK
  <2>2. ASSUME NEW n \in Machines, PullWrite(n) PROVE Applies
    BY <2>2 DEF PullWrite, Inv, TypeOK, LandedInv
  <2>3. CASE cfg' = cfg
    BY <2>3
  <2> QED
    BY <2>1, <2>2, <2>3
    DEF Next, Start, ReadBlob, ReadBlobFails, Abort, PushDecide, PutBlob,
        PutMeta, PushSave, PullDecide, PullSave
<1> QED
  BY <1>1, SyncInit, SyncStep, PTL DEF Spec, PullAppliesLanded

-----------------------------------------------------------------------------
(* No successful push is lost.                                              *)

Pushing(j) == j.op = "push" /\ j.at \in {"meta", "put", "putmeta"}
Pulled(j) == j.op = "pull" /\ j.at = "save"

\* ETags in their order; the remote without a blob comes first.
Num(b) == IF b = None THEN 0 ELSE b.etag
MetaEdits == IF meta = None THEN {} ELSE meta

\* What a command holds on a machine with config c while the remote has blob b,
\* whatever other machines do.
Book(j, c, b) ==
    /\ Num(j.blob) <= Num(b)
    /\ j.at = "write" => j.op = "pull" /\ j.blob.config = j.meta
    /\ j.op # "idle" /\ ~Pulled(j) => j.local \subseteq c
    /\ Pulled(j) => j.meta # None /\ j.meta \subseteq c

BookInv == \A m \in Machines : Book(job[m], cfg[m], blob)

\* A config contains what it is based on.
Based(j, c, a) ==
    /\ Pulled(j) \/ a = None \/ a \subseteq c
    /\ j.op = "push" => j.base = None \/ j.base \subseteq j.local

BaseInv == behind \/ \A m \in Machines : Based(job[m], cfg[m], base[m])

\* Two pushes overlap only if both are conditional, and the one that is not
\* first to put the blob will be refused.
Apart(i, j, b) ==
    Pushing(i) /\ Pushing(j) =>
        /\ i.cond /\ j.cond
        /\ i.at = "putmeta" => j.at # "putmeta" /\ Num(j.blob) # Num(b)
        /\ j.at = "putmeta" => Num(i.blob) # Num(b)

MutexInv == raced \/ \A m, n \in Machines : m # n => Apart(job[m], job[n], blob)

\* What a push that will not be refused is about to write, or has written,
\* contains the acknowledged edits.
Kept(j, a, b) ==
    j.op = "push" =>
        /\ j.at = "put" /\ ~j.forced /\ (j.cond => Num(j.blob) = Num(b)) => a \subseteq j.local
        /\ j.at = "putmeta" => a \subseteq j.local /\ b # None /\ b.config = j.local

\* Acknowledged edits are in both objects.
KeptInv ==
    raced \/ behind \/
        /\ acked \subseteq RemoteEdits /\ acked \subseteq MetaEdits
        /\ \A m \in Machines : Kept(job[m], acked, blob)

UpdateInv == Inv /\ BookInv /\ BaseInv /\ MutexInv /\ KeptInv

\* Only the command of m changes, and becomes j.
Becomes(m, j) ==
    /\ j \in Jobs /\ job' = [job EXCEPT ![m] = j] /\ job'[m] = j
    /\ \A n \in Machines \ {m} : job'[n] = job[n]

\* j is i at another step.
Onward(i, j) ==
    /\ j.op = i.op /\ j.forced = i.forced /\ j.local = i.local /\ j.base = i.base
    /\ j.cond = i.cond /\ j.blob = i.blob

\* A command that moves on.
LEMMA BecomesFacts ==
    ASSUME Inv, NEW m \in Machines, NEW j \in Jobs, job' = [job EXCEPT ![m] = j]
    PROVE  Becomes(m, j)
<1>1. job \in [Machines -> Jobs]
  BY DEF Inv, TypeOK, Jobs
<1> QED
  BY <1>1 DEF Becomes

\* Goto and Done.
LEMMA MoveFacts ==
    ASSUME Inv, NEW m \in Machines
    PROVE  /\ Done(m) => Becomes(m, job'[m]) /\ job'[m] = Idle /\ job'[m].op = "idle"
                         /\ job'[m].at = "start" /\ job'[m].blob = None
           /\ \A at \in Steps : Goto(m, at) =>
                 /\ Becomes(m, job'[m]) /\ job'[m].at = at /\ Onward(job[m], job'[m])
                 /\ job'[m].meta = job[m].meta
<1>1. job \in [Machines -> Jobs]
  BY DEF Inv, TypeOK, Jobs
<1>2. ASSUME Done(m)
      PROVE  Becomes(m, job'[m]) /\ job'[m] = Idle
  BY <1>2, IdleJob, BecomesFacts, <1>1 DEF Done
<1>3. ASSUME NEW at \in Steps, Goto(m, at)
      PROVE  /\ Becomes(m, job'[m]) /\ job'[m].at = at /\ Onward(job[m], job'[m])
             /\ job'[m].meta = job[m].meta
  <2> DEFINE j == [job[m] EXCEPT !.at = at]
  <2>1. j \in Jobs
    BY <1>1 DEF Jobs
  <2>2. job' = [job EXCEPT ![m] = j]
    BY <1>3 DEF Goto
  <2>3. job'[m] = j
    BY <1>1, <2>2
  <2>4. j.at = at /\ Onward(job[m], j) /\ j.meta = job[m].meta
    BY <1>1 DEF Jobs, Onward
  <2> HIDE DEF j
  <2> QED
    BY <2>1, <2>2, <2>3, <2>4, BecomesFacts
<1> QED
  BY <1>2, <1>3 DEF Idle

\* What each step makes of the command.
LEMMA CommandSteps ==
    ASSUME Inv, NEW m \in Machines
    PROVE  /\ \A op \in {"push", "pull"}, forced \in Forces : Start(m, op, forced) =>
                 /\ Becomes(m, job'[m]) /\ job'[m].op = op /\ job'[m].at = "blob"
                 /\ job'[m].local = cfg[m] /\ job'[m].base = base[m] /\ job'[m].blob = None
           /\ ReadBlob(m) => /\ Becomes(m, job'[m]) /\ job'[m].op = job[m].op
                             /\ job'[m].at = "meta" /\ job'[m].local = job[m].local
                             /\ job'[m].base = job[m].base /\ job'[m].blob = blob
                             /\ job'[m].cond = job[m].cond
           /\ ReadBlobFails(m) => /\ Becomes(m, job'[m]) /\ job'[m].op = job[m].op
                                  /\ job'[m].at = "meta" /\ job'[m].local = job[m].local
                                  /\ job'[m].base = job[m].base /\ job'[m].blob = job[m].blob
<1>1. job \in [Machines -> Jobs] /\ SyncAssumption
  BY SyncAssumption DEF Inv, TypeOK, Jobs
<1>2. ASSUME NEW op \in {"push", "pull"}, NEW forced \in Forces, Start(m, op, forced)
      PROVE  /\ Becomes(m, job'[m]) /\ job'[m].op = op /\ job'[m].at = "blob"
             /\ job'[m].local = cfg[m] /\ job'[m].base = base[m] /\ job'[m].blob = None
  <2> DEFINE j == [Idle EXCEPT !.op = op, !.at = "blob", !.forced = forced,
                     !.local = cfg[m], !.base = base[m], !.cond = (op = "push" /\ cas)]
  <2>1. j \in Jobs
    BY <1>1, IdleJob DEF Inv, TypeOK, Jobs, Steps, Idle, SyncAssumption
  <2>2. job' = [job EXCEPT ![m] = j]
    BY <1>2 DEF Start
  <2>3. job'[m] = j
    BY <1>1, <2>2
  <2>4. j.op = op /\ j.at = "blob" /\ j.local = cfg[m] /\ j.base = base[m] /\ j.blob = None
    BY DEF Idle
  <2> HIDE DEF j
  <2> QED
    BY <2>1, <2>2, <2>3, <2>4, BecomesFacts
<1>3. ASSUME ReadBlob(m)
      PROVE  /\ Becomes(m, job'[m]) /\ job'[m].op = job[m].op
             /\ job'[m].at = "meta" /\ job'[m].local = job[m].local
             /\ job'[m].base = job[m].base /\ job'[m].blob = blob
             /\ job'[m].cond = job[m].cond
  <2> DEFINE j == [job[m] EXCEPT !.blob = blob, !.at = "meta"]
  <2>1. j \in Jobs
    BY <1>1 DEF Inv, TypeOK, Jobs, Steps
  <2>2. job' = [job EXCEPT ![m] = j]
    BY <1>1, <1>3 DEF ReadBlob, Jobs
  <2>3. job'[m] = j
    BY <1>1, <2>2
  <2>4. /\ j.op = job[m].op /\ j.at = "meta" /\ j.local = job[m].local /\ j.base = job[m].base
        /\ j.blob = blob /\ j.cond = job[m].cond
    BY <1>1 DEF Jobs
  <2> HIDE DEF j
  <2> QED
    BY <2>1, <2>2, <2>3, <2>4, BecomesFacts
<1>4. ASSUME ReadBlobFails(m)
      PROVE  /\ Becomes(m, job'[m]) /\ job'[m].op = job[m].op
             /\ job'[m].at = "meta" /\ job'[m].local = job[m].local
             /\ job'[m].base = job[m].base /\ job'[m].blob = job[m].blob
  <2> DEFINE j == [job[m] EXCEPT !.cond = FALSE, !.at = "meta"]
  <2>1. j \in Jobs
    BY <1>1 DEF Inv, TypeOK, Jobs, Steps
  <2>2. job' = [job EXCEPT ![m] = j]
    BY <1>1, <1>4 DEF ReadBlobFails, Jobs
  <2>3. job'[m] = j
    BY <1>1, <2>2
  <2>4. /\ j.op = job[m].op /\ j.at = "meta" /\ j.local = job[m].local /\ j.base = job[m].base
        /\ j.blob = job[m].blob
    BY <1>1 DEF Jobs
  <2> HIDE DEF j
  <2> QED
    BY <2>1, <2>2, <2>3, <2>4, BecomesFacts
<1> QED
  BY <1>2, <1>3, <1>4

\* A pull decides.
LEMMA PullSteps ==
    ASSUME Inv, NEW m \in Machines, PullDecide(m)
    PROVE  /\ Becomes(m, job'[m]) /\ job[m].op = "pull" /\ job[m].at = "meta"
           /\ \/ job'[m].op = "idle" /\ job'[m].at = "start" /\ job'[m].blob = None
              \/ /\ Onward(job[m], job'[m]) /\ job'[m].at = "save"
                 /\ job'[m].meta = job[m].local /\ job'[m].meta # None
              \/ /\ Onward(job[m], job'[m]) /\ job'[m].at = "write"
                 /\ job'[m].blob.config = job'[m].meta
<1> DEFINE i == ReadMeta(m)
<1>1. job \in [Machines -> Jobs] /\ i \in Jobs /\ Onward(job[m], i)
  BY DEF Inv, TypeOK, ReadMeta, Jobs, Onward
<1>2. i.op = "pull" /\ i.at = "meta" /\ i.at = job[m].at /\ i.op = job[m].op
  BY <1>1 DEF PullDecide, ReadMeta, Jobs
<1>3. CASE Done(m)
  BY <1>2, <1>3, MoveFacts
<1>4. ASSUME NEW at \in {"save", "write"}, job' = [job EXCEPT ![m] = [i EXCEPT !.at = at]]
      PROVE  /\ Becomes(m, job'[m]) /\ Onward(job[m], job'[m]) /\ job'[m].at = at
             /\ job'[m].meta = i.meta
  <2> DEFINE j == [i EXCEPT !.at = at]
  <2>1. j \in Jobs /\ j.at = at /\ j.meta = i.meta /\ Onward(i, j)
    BY <1>1 DEF Jobs, Steps, Onward
  <2>2. job'[m] = j /\ job' = [job EXCEPT ![m] = j]
    BY <1>1, <1>4
  <2> HIDE DEF j, i
  <2> QED
    BY <1>1, <2>1, <2>2, BecomesFacts DEF Onward
<1>5. CASE /\ Decide(i.local, i.meta, i.base) = "noop" /\ ~NoRemote(i) /\ ~Incomplete(i)
           /\ job' = [job EXCEPT ![m] = [i EXCEPT !.at = "save"]]
  <2>1. i.local = i.meta
    BY <1>5 DEF Decide
  <2>2. i.meta # None
    BY <1>5 DEF NoRemote, Incomplete
  <2>3. job'[m].meta = i.meta /\ job'[m].at = "save" /\ Becomes(m, job'[m]) /\ Onward(job[m], job'[m])
    BY <1>4, <1>5
  <2>4. i.local = job[m].local
    BY <1>1 DEF Onward
  <2> HIDE DEF i
  <2> QED
    BY <1>2, <2>1, <2>2, <2>3, <2>4
<1>6. CASE Opens(i) /\ job' = [job EXCEPT ![m] = [i EXCEPT !.at = "write"]]
  <2>1. job'[m].meta = i.meta /\ job'[m].at = "write" /\ Becomes(m, job'[m]) /\ Onward(job[m], job'[m])
    BY <1>4, <1>6
  <2>2. i.blob.config = i.meta /\ i.blob = job[m].blob
    BY <1>1, <1>6 DEF Opens, Onward
  <2> HIDE DEF i
  <2> QED
    BY <1>2, <2>1, <2>2 DEF Onward
<1> QED
  BY <1>3, <1>5, <1>6 DEF PullDecide

\* ETags are compared as their numbers are, and a put takes the next one.
LEMMA TagFacts ==
    ASSUME Inv
    PROVE  /\ Num(blob) \in Nat /\ NextETag = Num(blob) + 1
           /\ \A m \in Machines : /\ Num(job[m].blob) \in Nat
                                  /\ ETag(blob) = ETag(job[m].blob) <=> Num(blob) = Num(job[m].blob)
           /\ \A c \in Configs : NextETag <= MaxPushes =>
                 /\ Num([config |-> c, etag |-> NextETag]) = Num(blob) + 1
                 /\ [config |-> c, etag |-> NextETag] # None
           /\ Num(None) = 0
<1>1. /\ blob \in {None} \cup Blobs /\ None \notin Blobs /\ None \notin 1 .. MaxPushes
      /\ \A m \in Machines : job[m].blob \in {None} \cup Blobs
  BY SyncAssumption DEF SyncAssumption, Inv, TypeOK, Blobs
<1>2. \A b \in Blobs : b.etag \in 1 .. MaxPushes
  BY DEF Blobs
<1>3. Num(None) = 0 /\ MaxPushes \in Nat
  BY SyncAssumption DEF Num, SyncAssumption
<1>4. \A b \in {None} \cup Blobs : Num(b) \in Nat /\ (b # None => Num(b) = b.etag)
  BY <1>2, <1>3 DEF Num
<1>5. NextETag = Num(blob) + 1
  BY <1>1, <1>4 DEF NextETag, Num
<1>6. \A b, d \in {None} \cup Blobs : ETag(b) = ETag(d) <=> Num(b) = Num(d)
  BY <1>1, <1>2, <1>3 DEF ETag, Num
<1>7. ASSUME NEW c \in Configs, NextETag <= MaxPushes
      PROVE  /\ Num([config |-> c, etag |-> NextETag]) = Num(blob) + 1
             /\ [config |-> c, etag |-> NextETag] # None
  <2>1. NextETag \in 1 .. MaxPushes
    BY <1>1, <1>3, <1>4, <1>5, <1>7
  <2>2. [config |-> c, etag |-> NextETag] \in Blobs
    BY <2>1 DEF Blobs
  <2> QED
    BY <1>1, <1>4, <1>5, <2>2
<1> QED
  BY <1>1, <1>3, <1>4, <1>5, <1>6, <1>7

\* The put of the blob is refused, or the blob is the one the push has read.
LEMMA PutSteps ==
    ASSUME Inv, NEW m \in Machines, PutBlob(m)
    PROVE  /\ job[m].op = "push" /\ job[m].at = "put" /\ Becomes(m, job'[m])
           /\ UNCHANGED <<cfg, base, meta, raced, behind>>
           /\ \/ /\ job[m].cond /\ Num(job[m].blob) # Num(blob)
                 /\ job'[m].op = "idle" /\ job'[m].at = "start" /\ job'[m].blob = None
                 /\ blob' = blob /\ acked' = acked
              \/ /\ job[m].cond => Num(job[m].blob) = Num(blob)
                 /\ job'[m].at = "putmeta" /\ Onward(job[m], job'[m])
                 /\ Num(blob') = Num(blob) + 1 /\ blob' # None /\ blob'.config = job[m].local
                 /\ acked' = IF job[m].forced THEN acked \cap job[m].local ELSE acked
<1>1. /\ job[m].op = "push" /\ job[m].at = "put" /\ UNCHANGED <<cfg, base, raced, behind>>
      /\ job[m].local \in Configs
  BY DEF PutBlob, ghostVars, Inv, TypeOK
<1>2. ETag(blob) = ETag(job[m].blob) <=> Num(blob) = Num(job[m].blob)
  BY TagFacts
<1>3. CASE job[m].cond /\ ETag(blob) # ETag(job[m].blob) /\ Done(m) /\ UNCHANGED remoteVars
  <2>1. /\ Becomes(m, job'[m]) /\ job'[m].op = "idle" /\ job'[m].at = "start" /\ job'[m].blob = None
    BY <1>3, MoveFacts
  <2> QED
    BY <1>1, <1>2, <1>3, <2>1 DEF remoteVars
<1>4. CASE /\ job[m].cond => ETag(blob) = ETag(job[m].blob)
           /\ NextETag <= MaxPushes
           /\ blob' = [config |-> job[m].local, etag |-> NextETag]
           /\ acked' = IF job[m].forced THEN acked \cap job[m].local ELSE acked
           /\ Goto(m, "putmeta")
           /\ UNCHANGED <<meta, landed>>
  <2>1. Becomes(m, job'[m]) /\ job'[m].at = "putmeta" /\ Onward(job[m], job'[m])
    BY <1>4, MoveFacts DEF Steps
  <2>2. Num(blob') = Num(blob) + 1 /\ blob' # None
    BY <1>1, <1>4, TagFacts
  <2>3. blob'.config = job[m].local
    BY <1>4
  <2> QED
    BY <1>1, <1>2, <1>4, <2>1, <2>2, <2>3
<1> QED
  BY <1>3, <1>4 DEF PutBlob

\* The steps that only end a command, or move it on.
LEMMA PlainSteps ==
    ASSUME Inv, NEW m \in Machines
    PROVE  /\ Abort(m) \/ PushSave(m) \/ PullSave(m) =>
                 /\ Becomes(m, job'[m]) /\ job'[m].op = "idle" /\ job'[m].at = "start"
                 /\ job'[m].blob = None /\ UNCHANGED <<cfg, blob, meta, acked, raced>>
           /\ PushDecide(m) =>
                 /\ Becomes(m, job'[m]) /\ job[m].op = "push" /\ job[m].at = "meta"
                 /\ \/ job'[m].op = "idle" /\ job'[m].at = "start" /\ job'[m].blob = None
                    \/ job'[m].at = "put" /\ Onward(job[m], job'[m]) /\ Fence(ReadMeta(m))
                 /\ UNCHANGED <<cfg, base, blob, meta, acked, raced, behind>>
           /\ PutMeta(m) =>
                 /\ Becomes(m, job'[m]) /\ job[m].op = "push" /\ job[m].at = "putmeta"
                 /\ job'[m].at = "save" /\ Onward(job[m], job'[m])
                 /\ meta' = job[m].local /\ acked' = acked \cup job[m].local
                 /\ UNCHANGED <<cfg, base, blob, raced, behind>>
           /\ PullWrite(m) =>
                 /\ Becomes(m, job'[m]) /\ job[m].at = "write"
                 /\ job'[m].at = "save" /\ Onward(job[m], job'[m]) /\ job'[m].meta = job[m].meta
                 /\ cfg' = [cfg EXCEPT ![m] = job[m].blob.config]
                 /\ UNCHANGED <<base, blob, meta, acked, raced, behind>>
<1> USE DEF remoteVars, ghostVars
<1>1. ASSUME Abort(m) \/ PushSave(m) \/ PullSave(m)
      PROVE  /\ Becomes(m, job'[m]) /\ job'[m].op = "idle" /\ job'[m].at = "start"
             /\ job'[m].blob = None /\ UNCHANGED <<cfg, blob, meta, acked, raced>>
  <2>1. Done(m) /\ UNCHANGED <<cfg, blob, meta, acked, raced>>
    BY <1>1 DEF Abort, PushSave, PullSave
  <2> QED
    BY <2>1, MoveFacts
<1>2. ASSUME PushDecide(m)
      PROVE  /\ Becomes(m, job'[m]) /\ job[m].op = "push" /\ job[m].at = "meta"
             /\ \/ job'[m].op = "idle" /\ job'[m].at = "start" /\ job'[m].blob = None
                \/ job'[m].at = "put" /\ Onward(job[m], job'[m]) /\ Fence(ReadMeta(m))
             /\ UNCHANGED <<cfg, base, blob, meta, acked, raced, behind>>
  <2>1. CASE Done(m)
    BY <1>2, <2>1, MoveFacts DEF PushDecide
  <2>2. CASE Goto(m, "put") /\ Fence(ReadMeta(m))
    BY <1>2, <2>2, MoveFacts DEF PushDecide, Steps
  <2> QED
    BY <1>2, <2>1, <2>2 DEF PushDecide
<1>3. ASSUME PutMeta(m)
      PROVE  /\ Becomes(m, job'[m]) /\ job[m].op = "push" /\ job[m].at = "putmeta"
             /\ job'[m].at = "save" /\ Onward(job[m], job'[m])
             /\ meta' = job[m].local /\ acked' = acked \cup job[m].local
             /\ UNCHANGED <<cfg, base, blob, raced, behind>>
  BY <1>3, MoveFacts DEF PutMeta, Steps
<1>4. ASSUME PullWrite(m)
      PROVE  /\ Becomes(m, job'[m]) /\ job[m].at = "write"
             /\ job'[m].at = "save" /\ Onward(job[m], job'[m]) /\ job'[m].meta = job[m].meta
             /\ cfg' = [cfg EXCEPT ![m] = job[m].blob.config]
             /\ UNCHANGED <<base, blob, meta, acked, raced, behind>>
  BY <1>4, MoveFacts DEF PullWrite, Steps
<1> QED
  BY <1>1, <1>2, <1>3, <1>4

\* Only the command and the config of m change, and the blob gets no older.
LEMMA BookMove ==
    ASSUME Inv, BookInv, NEW m \in Machines, Becomes(m, job'[m]),
           Num(blob') = Num(blob) \/ Num(blob') = Num(blob) + 1,
           \A n \in Machines \ {m} : cfg'[n] = cfg[n],
           Book(job'[m], cfg'[m], blob')
    PROVE  BookInv'
<1>1. SUFFICES ASSUME NEW n \in Machines \ {m}
               PROVE  Book(job'[n], cfg'[n], blob')
  BY DEF BookInv
<1>2. job'[n] = job[n] /\ cfg'[n] = cfg[n] /\ Book(job[n], cfg[n], blob)
  BY DEF Becomes, BookInv
<1>3. Num(job[n].blob) \in Nat /\ Num(blob) \in Nat
  BY TagFacts
<1> QED
  BY <1>2, <1>3 DEF Book

\* Every step keeps what the commands hold.
LEMMA BookStep ==
    ASSUME Inv, BookInv, [Next]_vars
    PROVE  BookInv'
<1> USE DEF remoteVars, ghostVars
<1>0. /\ \A m \in Machines : Book(job[m], cfg[m], blob) /\ Num(job[m].blob) \in Nat
      /\ Num(blob) \in Nat /\ Num(None) = 0
  BY TagFacts DEF BookInv
<1>1. CASE UNCHANGED vars
  BY <1>1 DEF vars, BookInv
<1>2. ASSUME NEW m \in Machines, Edit(m)
      PROVE  BookInv'
  <2>1. SUFFICES ASSUME NEW n \in Machines
                 PROVE  Book(job'[n], cfg'[n], blob')
    BY DEF BookInv
  <2>2. job'[n] = job[n] /\ blob' = blob /\ cfg[n] \subseteq cfg'[n]
    BY <1>2 DEF Edit, Inv, TypeOK
  <2> QED
    BY <1>0, <2>2 DEF Book
<1>3. ASSUME NEW m \in Machines, NEW op \in {"push", "pull"}, NEW forced \in Forces,
             Start(m, op, forced)
      PROVE  BookInv'
  <2>1. /\ Becomes(m, job'[m]) /\ job'[m].op = op /\ job'[m].at = "blob"
        /\ job'[m].local = cfg[m] /\ job'[m].blob = None
    BY <1>3, CommandSteps
  <2>2. cfg' = cfg /\ blob' = blob
    BY <1>3 DEF Start
  <2>3. Book(job'[m], cfg'[m], blob')
    BY <1>0, <2>1, <2>2 DEF Book, Pulled
  <2> QED
    BY <2>1, <2>2, <2>3, BookMove
<1>4. ASSUME NEW m \in Machines, ReadBlob(m) \/ ReadBlobFails(m)
      PROVE  BookInv'
  <2>1. /\ Becomes(m, job'[m]) /\ job'[m].op = job[m].op /\ job'[m].at = "meta"
        /\ job'[m].local = job[m].local /\ job'[m].blob \in {blob, job[m].blob}
        /\ job[m].at = "blob"
    BY <1>4, CommandSteps DEF ReadBlob, ReadBlobFails
  <2>2. cfg' = cfg /\ blob' = blob
    BY <1>4 DEF ReadBlob, ReadBlobFails
  <2>3. Book(job[m], cfg[m], blob)
    BY <1>0
  <2>4. Book(job'[m], cfg'[m], blob')
    BY <1>0, <2>1, <2>2, <2>3 DEF Book, Pulled
  <2> QED
    BY <2>1, <2>2, <2>4, BookMove
<1>5. ASSUME NEW m \in Machines, Becomes(m, job'[m]), job'[m].op = "idle", job'[m].at = "start",
             job'[m].blob = None, cfg' = cfg, blob' = blob
      PROVE  BookInv'
  <2>1. Book(job'[m], cfg'[m], blob')
    BY <1>0, <1>5 DEF Book, Pulled
  <2> QED
    BY <1>5, <2>1, BookMove
<1>6. ASSUME NEW m \in Machines, Abort(m) \/ PushSave(m) \/ PullSave(m)
      PROVE  BookInv'
  BY <1>5, <1>6, PlainSteps
<1>7. ASSUME NEW m \in Machines, PushDecide(m)
      PROVE  BookInv'
  <2>1. /\ Becomes(m, job'[m]) /\ job[m].op = "push" /\ job[m].at = "meta"
        /\ UNCHANGED <<cfg, blob>>
        /\ \/ job'[m].op = "idle" /\ job'[m].at = "start" /\ job'[m].blob = None
           \/ job'[m].at = "put" /\ Onward(job[m], job'[m])
    BY <1>7, PlainSteps
  <2>2. CASE job'[m].op = "idle" /\ job'[m].at = "start" /\ job'[m].blob = None
    BY <1>5, <2>1, <2>2
  <2>3. CASE job'[m].at = "put" /\ Onward(job[m], job'[m])
    <3>1. Book(job'[m], cfg'[m], blob')
      BY <1>0, <2>1, <2>3 DEF Book, Pulled, Onward
    <3> QED
      BY <2>1, <3>1, BookMove
  <2> QED
    BY <2>1, <2>2, <2>3
<1>8. ASSUME NEW m \in Machines, PutBlob(m)
      PROVE  BookInv'
  <2>1. /\ Becomes(m, job'[m]) /\ job[m].op = "push" /\ job[m].at = "put" /\ cfg' = cfg
        /\ \/ /\ job'[m].op = "idle" /\ job'[m].at = "start" /\ job'[m].blob = None
              /\ blob' = blob
           \/ /\ job'[m].at = "putmeta" /\ Onward(job[m], job'[m])
              /\ Num(blob') = Num(blob) + 1
    BY <1>8, PutSteps
  <2>2. CASE job'[m].op = "idle" /\ job'[m].at = "start" /\ job'[m].blob = None /\ blob' = blob
    BY <1>5, <2>1, <2>2
  <2>3. CASE job'[m].at = "putmeta" /\ Onward(job[m], job'[m]) /\ Num(blob') = Num(blob) + 1
    <3>1. Book(job'[m], cfg'[m], blob')
      BY <1>0, <2>1, <2>3 DEF Book, Pulled, Onward
    <3> QED
      BY <2>1, <2>3, <3>1, BookMove
  <2> QED
    BY <2>1, <2>2, <2>3
<1>9. ASSUME NEW m \in Machines, PutMeta(m)
      PROVE  BookInv'
  <2>1. /\ Becomes(m, job'[m]) /\ job[m].op = "push" /\ job[m].at = "putmeta"
        /\ job'[m].at = "save" /\ Onward(job[m], job'[m]) /\ UNCHANGED <<cfg, blob>>
    BY <1>9, PlainSteps
  <2>2. Book(job'[m], cfg'[m], blob')
    BY <1>0, <2>1 DEF Book, Pulled, Onward
  <2> QED
    BY <2>1, <2>2, BookMove
<1>10. ASSUME NEW m \in Machines, PullDecide(m)
       PROVE  BookInv'
  <2>1. /\ Becomes(m, job'[m]) /\ job[m].op = "pull" /\ job[m].at = "meta"
        /\ \/ job'[m].op = "idle" /\ job'[m].at = "start" /\ job'[m].blob = None
           \/ /\ Onward(job[m], job'[m]) /\ job'[m].at = "save"
              /\ job'[m].meta = job[m].local /\ job'[m].meta # None
           \/ /\ Onward(job[m], job'[m]) /\ job'[m].at = "write"
              /\ job'[m].blob.config = job'[m].meta
    BY <1>10, PullSteps
  <2>2. cfg' = cfg /\ blob' = blob
    BY <1>10 DEF PullDecide
  <2>3. CASE job'[m].op = "idle" /\ job'[m].at = "start" /\ job'[m].blob = None
    BY <1>5, <2>1, <2>2, <2>3
  <2>4. CASE job'[m].op # "idle"
    <3>1. Book(job'[m], cfg'[m], blob')
      BY <1>0, <2>1, <2>2, <2>4 DEF Book, Pulled, Onward
    <3> QED
      BY <2>1, <2>2, <3>1, BookMove
  <2> QED
    BY <2>1, <2>3, <2>4 DEF Onward
<1>11. ASSUME NEW m \in Machines, PullWrite(m)
       PROVE  BookInv'
  <2>1. /\ Becomes(m, job'[m]) /\ job[m].at = "write" /\ job'[m].at = "save"
        /\ Onward(job[m], job'[m]) /\ job'[m].meta = job[m].meta
        /\ cfg' = [cfg EXCEPT ![m] = job[m].blob.config] /\ blob' = blob
    BY <1>11, PlainSteps
  <2>2. Book(job[m], cfg[m], blob)
    BY <1>0
  <2>3. job[m].op = "pull" /\ job[m].blob.config = job[m].meta
    BY <2>1, <2>2 DEF Book
  <2>4. cfg'[m] = job[m].meta /\ \A n \in Machines \ {m} : cfg'[n] = cfg[n]
    BY <2>1, <2>3 DEF Inv, TypeOK
  <2>5. job[m].meta # None
    <3>1. job[m].meta \in landed /\ landed \subseteq Configs
      BY <2>1, <2>3 DEF Inv, LandedInv, TypeOK
    <3> QED
      BY <3>1, SyncAssumption DEF SyncAssumption
  <2>6. Book(job'[m], cfg'[m], blob')
    BY <2>1, <2>2, <2>3, <2>4, <2>5 DEF Book, Pulled, Onward
  <2> QED
    BY <2>1, <2>4, <2>6, BookMove
<1> QED
  BY <1>1, <1>2, <1>3, <1>4, <1>6, <1>7, <1>8, <1>9, <1>10, <1>11 DEF Next

\* Every step keeps the bases, unless it leaves one behind.
LEMMA BaseStep ==
    ASSUME Inv, BookInv, BaseInv, [Next]_vars
    PROVE  BaseInv'
<1> USE DEF remoteVars, ghostVars
<1>1. SUFFICES ASSUME ~behind'
               PROVE  \A m \in Machines : Based(job'[m], cfg'[m], base'[m])
  BY DEF BaseInv
<1>2. ~behind
  BY <1>1 DEF Next, vars, Edit, Start, ReadBlob, ReadBlobFails, Abort, PushDecide, PutBlob, PutMeta,
     PushSave, PullDecide, PullWrite, PullSave
<1>3. \A m \in Machines : Based(job[m], cfg[m], base[m]) /\ Book(job[m], cfg[m], blob)
  BY <1>2 DEF BaseInv, BookInv
<1>4. ASSUME NEW m \in Machines, Becomes(m, job'[m]), Based(job'[m], cfg'[m], base'[m]),
             \A n \in Machines \ {m} : cfg'[n] = cfg[n] /\ base'[n] = base[n]
      PROVE  \A n \in Machines : Based(job'[n], cfg'[n], base'[n])
  BY <1>3, <1>4 DEF Becomes
<1>5. CASE UNCHANGED vars
  BY <1>3, <1>5 DEF vars
<1>6. ASSUME NEW m \in Machines, Edit(m)
      PROVE  \A n \in Machines : Based(job'[n], cfg'[n], base'[n])
  <2>1. SUFFICES ASSUME NEW n \in Machines
                 PROVE  Based(job'[n], cfg'[n], base'[n])
    OBVIOUS
  <2>2. job'[n] = job[n] /\ base'[n] = base[n] /\ cfg[n] \subseteq cfg'[n]
    BY <1>6 DEF Edit, Inv, TypeOK
  <2> QED
    BY <1>3, <2>2 DEF Based
<1>7. ASSUME NEW m \in Machines, NEW op \in {"push", "pull"}, NEW forced \in Forces,
             Start(m, op, forced)
      PROVE  \A n \in Machines : Based(job'[n], cfg'[n], base'[n])
  <2>1. /\ Becomes(m, job'[m]) /\ job'[m].at = "blob"
        /\ job'[m].local = cfg[m] /\ job'[m].base = base[m]
    BY <1>7, CommandSteps
  <2>2. cfg' = cfg /\ base' = base /\ job[m].op = "idle"
    BY <1>7 DEF Start
  <2>3. Based(job'[m], cfg'[m], base'[m])
    BY <1>3, <2>1, <2>2 DEF Based, Pulled
  <2> QED
    BY <1>4, <2>1, <2>2, <2>3
<1>8. ASSUME NEW m \in Machines, ReadBlob(m) \/ ReadBlobFails(m)
      PROVE  \A n \in Machines : Based(job'[n], cfg'[n], base'[n])
  <2>1. /\ Becomes(m, job'[m]) /\ job'[m].op = job[m].op /\ job'[m].at = "meta"
        /\ job'[m].local = job[m].local /\ job'[m].base = job[m].base /\ job[m].at = "blob"
        /\ cfg' = cfg /\ base' = base
    BY <1>8, CommandSteps DEF ReadBlob, ReadBlobFails
  <2>2. Based(job'[m], cfg'[m], base'[m])
    BY <1>3, <2>1 DEF Based, Pulled
  <2> QED
    BY <1>4, <2>1, <2>2
<1>9. ASSUME NEW m \in Machines, Abort(m)
      PROVE  \A n \in Machines : Based(job'[n], cfg'[n], base'[n])
  <2>1. Becomes(m, job'[m]) /\ job'[m].op = "idle" /\ cfg' = cfg
    BY <1>9, PlainSteps
  <2>2. base' = base /\ (Pulled(job[m]) => base[m] = job[m].meta)
    BY <1>1, <1>9 DEF Abort, Pulled
  <2>3. Based(job'[m], cfg'[m], base'[m])
    BY <1>3, <2>1, <2>2 DEF Based, Book, Pulled
  <2> QED
    BY <1>4, <2>1, <2>2, <2>3
<1>10. ASSUME NEW m \in Machines, PushSave(m) \/ PullSave(m)
       PROVE  \A n \in Machines : Based(job'[n], cfg'[n], base'[n])
  <2>1. Becomes(m, job'[m]) /\ job'[m].op = "idle" /\ cfg' = cfg
    BY <1>10, PlainSteps
  <2>2. /\ \A n \in Machines \ {m} : base'[n] = base[n]
        /\ \/ job[m].op = "push" /\ base'[m] = job[m].local
           \/ Pulled(job[m]) /\ base'[m] = job[m].meta
    BY <1>10 DEF PushSave, PullSave, Pulled, Inv, TypeOK
  <2>3. Based(job'[m], cfg'[m], base'[m])
    BY <1>3, <2>1, <2>2 DEF Based, Book, Pulled
  <2> QED
    BY <1>4, <2>1, <2>2, <2>3
<1>11. ASSUME NEW m \in Machines, PushDecide(m) \/ PutBlob(m) \/ PutMeta(m)
       PROVE  \A n \in Machines : Based(job'[n], cfg'[n], base'[n])
  <2>1. /\ Becomes(m, job'[m]) /\ job[m].op = "push" /\ cfg' = cfg /\ base' = base
        /\ job'[m].op = "idle" \/ Onward(job[m], job'[m])
    BY <1>11, PlainSteps, PutSteps
  <2>2. Based(job'[m], cfg'[m], base'[m])
    BY <1>3, <2>1 DEF Based, Pulled, Onward
  <2> QED
    BY <1>4, <2>1, <2>2
<1>12. ASSUME NEW m \in Machines, PullDecide(m)
       PROVE  \A n \in Machines : Based(job'[n], cfg'[n], base'[n])
  <2>1. /\ Becomes(m, job'[m]) /\ job[m].op = "pull" /\ job[m].at = "meta"
        /\ job'[m].op = "idle" \/ Onward(job[m], job'[m])
    BY <1>12, PullSteps
  <2>2. cfg' = cfg /\ base' = base
    BY <1>12 DEF PullDecide
  <2>3. Based(job'[m], cfg'[m], base'[m])
    BY <1>3, <2>1, <2>2 DEF Based, Pulled, Onward
  <2> QED
    BY <1>4, <2>1, <2>2, <2>3
<1>13. ASSUME NEW m \in Machines, PullWrite(m)
       PROVE  \A n \in Machines : Based(job'[n], cfg'[n], base'[n])
  <2>1. /\ Becomes(m, job'[m]) /\ job'[m].at = "save" /\ Onward(job[m], job'[m])
        /\ job[m].at = "write" /\ cfg' = [cfg EXCEPT ![m] = job[m].blob.config] /\ base' = base
    BY <1>13, PlainSteps
  <2>2. job[m].op = "pull"
    BY <1>3, <2>1 DEF Book
  <2>3. Based(job'[m], cfg'[m], base'[m])
    BY <2>1, <2>2 DEF Based, Pulled, Onward
  <2>4. \A n \in Machines \ {m} : cfg'[n] = cfg[n]
    BY <2>1 DEF Inv, TypeOK
  <2> QED
    BY <1>4, <2>1, <2>3, <2>4
<1> QED
  BY <1>5, <1>6, <1>7, <1>8, <1>9, <1>10, <1>11, <1>12, <1>13 DEF Next

\* The remote has not been given up on: the ghosts only ever become true.
LEMMA GhostStep ==
    ASSUME [Next]_vars
    PROVE  (raced => raced') /\ (behind => behind')
<1> USE DEF ghostVars
<1>1. CASE UNCHANGED vars
  BY <1>1 DEF vars
<1>2. ASSUME NEW m \in Machines, Edit(m)
      PROVE  UNCHANGED ghostVars
  BY <1>2 DEF Edit
<1>3. ASSUME NEW m \in Machines, NEW op \in {"push", "pull"}, NEW forced \in Forces,
             Start(m, op, forced)
      PROVE  UNCHANGED ghostVars
  BY <1>3 DEF Start
<1>4. ASSUME NEW m \in Machines, ReadBlob(m) \/ ReadBlobFails(m)
      PROVE  (raced => raced') /\ (behind => behind')
  <2>1. CASE ReadBlob(m)
    BY <2>1, Zenon DEF ReadBlob
  <2>2. CASE ReadBlobFails(m)
    BY <2>2, Zenon DEF ReadBlobFails
  <2> QED
    BY <1>4, <2>1, <2>2
<1>5. ASSUME NEW m \in Machines, Abort(m)
      PROVE  (raced => raced') /\ (behind => behind')
  BY <1>5, Zenon DEF Abort
<1>6. ASSUME NEW m \in Machines, PushDecide(m) \/ PutBlob(m) \/ PutMeta(m) \/ PushSave(m)
      PROVE  UNCHANGED ghostVars
  BY <1>6 DEF PushDecide, PutBlob, PutMeta, PushSave
<1>7. ASSUME NEW m \in Machines, PullDecide(m) \/ PullWrite(m) \/ PullSave(m)
      PROVE  UNCHANGED ghostVars
  BY <1>7 DEF PullDecide, PullWrite, PullSave
<1> QED
  BY <1>1, <1>2, <1>3, <1>4, <1>5, <1>6, <1>7 DEF Next

\* Every step keeps the pushes apart, unless it races.
LEMMA MutexStep ==
    ASSUME Inv, BookInv, MutexInv, [Next]_vars
    PROVE  MutexInv'
<1> USE DEF remoteVars, ghostVars
<1>1. SUFFICES ASSUME ~raced'
               PROVE  \A m, n \in Machines : m # n => Apart(job'[m], job'[n], blob')
  BY DEF MutexInv
<1> DEFINE Goal == \A m, n \in Machines : m # n => Apart(job'[m], job'[n], blob')
<1>2. \A m, n \in Machines : m # n => Apart(job[m], job[n], blob)
  BY <1>1, GhostStep DEF MutexInv
<1>3. \A m \in Machines : Num(job[m].blob) <= Num(blob) /\ Num(job[m].blob) \in Nat /\ Num(blob) \in Nat
  BY TagFacts DEF BookInv, Book
<1>4. ASSUME NEW m \in Machines, Becomes(m, job'[m]),
             blob' = blob \/ Num(blob') = Num(blob) + 1,
             \A n \in Machines \ {m} : Apart(job'[m], job[n], blob')
      PROVE  Goal
  <2>1. SUFFICES ASSUME NEW k \in Machines, NEW n \in Machines, k # n
                 PROVE  Apart(job'[k], job'[n], blob')
    OBVIOUS
  <2>2. CASE k = m
    BY <1>4, <2>1, <2>2 DEF Becomes
  <2>3. CASE n = m
    <3>1. Apart(job'[m], job'[k], blob')
      BY <1>4, <2>1, <2>3 DEF Becomes
    <3> QED
      BY <2>3, <3>1 DEF Apart
  <2>4. CASE k # m /\ n # m
    <3>1. job'[k] = job[k] /\ job'[n] = job[n] /\ Apart(job[k], job[n], blob)
      BY <1>2, <1>4, <2>1, <2>4 DEF Becomes
    <3>2. CASE blob' = blob
      BY <3>1, <3>2
    <3>3. CASE Num(blob') = Num(blob) + 1
      <4>1. Num(job[k].blob) # Num(blob') /\ Num(job[n].blob) # Num(blob')
        BY <1>3, <3>3
      <4> QED
        BY <3>1, <4>1 DEF Apart
    <3> QED
      BY <1>4, <3>2, <3>3
  <2> QED
    BY <2>2, <2>3, <2>4
<1>5. ASSUME NEW m \in Machines, Becomes(m, job'[m]), blob' = blob, ~Pushing(job'[m])
      PROVE  Goal
  <2>1. \A n \in Machines \ {m} : Apart(job'[m], job[n], blob')
    BY <1>5 DEF Apart
  <2> QED
    BY <1>4, <1>5, <2>1
<1>6. CASE UNCHANGED vars
  BY <1>2, <1>6 DEF vars
<1>7. ASSUME NEW m \in Machines, Edit(m)
      PROVE  Goal
  BY <1>2, <1>7 DEF Edit
<1>8. ASSUME NEW m \in Machines, NEW op \in {"push", "pull"}, NEW forced \in Forces,
             Start(m, op, forced)
      PROVE  Goal
  <2>1. Becomes(m, job'[m]) /\ job'[m].at = "blob"
    BY <1>8, CommandSteps
  <2> QED
    BY <1>5, <1>8, <2>1 DEF Start, Pushing
<1>9. ASSUME NEW m \in Machines, ReadBlob(m)
      PROVE  Goal
  <2>1. /\ Becomes(m, job'[m]) /\ job'[m].op = job[m].op /\ job'[m].at = "meta"
        /\ job'[m].cond = job[m].cond /\ blob' = blob
    BY <1>9, CommandSteps DEF ReadBlob
  <2>2. job[m].op = "push" => ~Races(m, job[m].cond)
    BY <1>1, <1>9 DEF ReadBlob
  <2>3. ASSUME NEW n \in Machines \ {m}
        PROVE  Apart(job'[m], job[n], blob')
    <3>1. SUFFICES ASSUME Pushing(job'[m]), Pushing(job[n])
                   PROVE  job'[m].cond /\ job[n].cond /\ job[n].at # "putmeta"
      BY <2>1 DEF Apart
    <3>2. job[m].op = "push" /\ ~Races(m, job[m].cond)
      BY <2>1, <2>2, <3>1 DEF Pushing
    <3> QED
      BY <2>1, <3>1, <3>2 DEF Races, Pushing
  <2> QED
    BY <1>4, <2>1, <2>3
<1>10. ASSUME NEW m \in Machines, ReadBlobFails(m)
       PROVE  Goal
  <2>1. Becomes(m, job'[m]) /\ blob' = blob
    BY <1>10, CommandSteps DEF ReadBlobFails
  <2>2. ~Races(m, FALSE)
    BY <1>1, <1>10 DEF ReadBlobFails
  <2>3. \A n \in Machines \ {m} : ~Pushing(job[n])
    BY <2>2 DEF Races, Pushing
  <2>4. \A n \in Machines \ {m} : Apart(job'[m], job[n], blob')
    BY <2>3 DEF Apart
  <2> QED
    BY <1>4, <2>1, <2>4
<1>11. ASSUME NEW m \in Machines, Abort(m) \/ PushSave(m) \/ PullSave(m)
       PROVE  Goal
  <2>1. Becomes(m, job'[m]) /\ job'[m].op = "idle" /\ blob' = blob
    BY <1>11, PlainSteps
  <2> QED
    BY <1>5, <2>1 DEF Pushing
<1>12. ASSUME NEW m \in Machines, PushDecide(m)
       PROVE  Goal
  <2>1. /\ Becomes(m, job'[m]) /\ blob' = blob /\ job[m].op = "push" /\ job[m].at = "meta"
        /\ \/ job'[m].op = "idle"
           \/ job'[m].at = "put" /\ Onward(job[m], job'[m])
    BY <1>12, PlainSteps
  <2>2. CASE job'[m].op = "idle"
    BY <1>5, <2>1, <2>2 DEF Pushing
  <2>3. CASE job'[m].at = "put" /\ Onward(job[m], job'[m])
    <3>1. \A n \in Machines \ {m} : Apart(job'[m], job[n], blob')
      BY <1>2, <2>1, <2>3 DEF Apart, Pushing, Onward
    <3> QED
      BY <1>4, <2>1, <3>1
  <2> QED
    BY <2>1, <2>2, <2>3
<1>13. ASSUME NEW m \in Machines, PutBlob(m)
       PROVE  Goal
  <2>1. /\ Becomes(m, job'[m]) /\ job[m].op = "push" /\ job[m].at = "put"
        /\ \/ job'[m].op = "idle" /\ blob' = blob
           \/ /\ job[m].cond => Num(job[m].blob) = Num(blob)
              /\ job'[m].at = "putmeta" /\ Onward(job[m], job'[m])
              /\ Num(blob') = Num(blob) + 1
    BY <1>13, PutSteps
  <2>2. CASE job'[m].op = "idle" /\ blob' = blob
    BY <1>5, <2>1, <2>2 DEF Pushing
  <2>3. CASE /\ job[m].cond => Num(job[m].blob) = Num(blob)
             /\ job'[m].at = "putmeta" /\ Onward(job[m], job'[m])
             /\ Num(blob') = Num(blob) + 1
    <3>1. ASSUME NEW n \in Machines \ {m}
          PROVE  Apart(job'[m], job[n], blob')
      <4>1. Apart(job[m], job[n], blob) /\ Pushing(job[m])
        BY <1>2, <2>1 DEF Pushing
      <4>2. Pushing(job[n]) => job[m].cond /\ job[n].cond /\ job[n].at # "putmeta"
        BY <2>3, <4>1 DEF Apart
      <4>3. Num(job[n].blob) # Num(blob')
        BY <1>3, <2>3
      <4>4. job'[m].cond = job[m].cond
        BY <2>3 DEF Onward
      <4> QED
        BY <4>2, <4>3, <4>4 DEF Apart
    <3> QED
      BY <1>4, <2>1, <2>3, <3>1
  <2> QED
    BY <2>1, <2>2, <2>3
<1>14. ASSUME NEW m \in Machines, PutMeta(m)
       PROVE  Goal
  <2>1. Becomes(m, job'[m]) /\ job'[m].at = "save" /\ blob' = blob
    BY <1>14, PlainSteps
  <2> QED
    BY <1>5, <2>1 DEF Pushing
<1>15. ASSUME NEW m \in Machines, PullDecide(m)
       PROVE  Goal
  <2>1. Becomes(m, job'[m]) /\ job'[m].at \in {"start", "save", "write"}
    BY <1>15, PullSteps
  <2> QED
    BY <1>5, <1>15, <2>1 DEF Pushing, PullDecide
<1>16. ASSUME NEW m \in Machines, PullWrite(m)
       PROVE  Goal
  <2>1. Becomes(m, job'[m]) /\ job'[m].at = "save" /\ blob' = blob
    BY <1>16, PlainSteps
  <2> QED
    BY <1>5, <2>1 DEF Pushing
<1> QED
  BY <1>6, <1>7, <1>8, <1>9, <1>10, <1>11, <1>12, <1>13, <1>14, <1>15, <1>16 DEF Next

\* Every step keeps the acknowledged edits.
LEMMA KeptStep ==
    ASSUME UpdateInv, [Next]_vars
    PROVE  KeptInv'
<1> USE DEF remoteVars, ghostVars
<1>0. Inv /\ BookInv /\ BaseInv /\ MutexInv
  BY DEF UpdateInv
<1>1. SUFFICES ASSUME ~raced', ~behind'
               PROVE  /\ acked' \subseteq RemoteEdits' /\ acked' \subseteq MetaEdits'
                      /\ \A m \in Machines : Kept(job'[m], acked', blob')
  BY DEF KeptInv
<1> DEFINE Goal == /\ acked' \subseteq RemoteEdits' /\ acked' \subseteq MetaEdits'
                   /\ \A m \in Machines : Kept(job'[m], acked', blob')
<1>2. /\ acked \subseteq RemoteEdits /\ acked \subseteq MetaEdits
      /\ \A m \in Machines : Kept(job[m], acked, blob) /\ Based(job[m], cfg[m], base[m])
      /\ \A m, n \in Machines : m # n => Apart(job[m], job[n], blob)
  BY <1>1, GhostStep DEF UpdateInv, KeptInv, BaseInv, MutexInv
<1>3. \A m \in Machines : Num(job[m].blob) <= Num(blob) /\ Num(job[m].blob) \in Nat /\ Num(blob) \in Nat
  BY <1>0, TagFacts DEF BookInv, Book
<1>4. ASSUME NEW m \in Machines, Becomes(m, job'[m]), UNCHANGED <<blob, meta, acked>>,
             Kept(job'[m], acked, blob)
      PROVE  Goal
  BY <1>2, <1>4 DEF Becomes, RemoteEdits, MetaEdits
<1>5. ASSUME NEW m \in Machines, Becomes(m, job'[m]), UNCHANGED <<blob, meta, acked>>,
             job'[m].at \notin {"put", "putmeta"}
      PROVE  Goal
  BY <1>4, <1>5 DEF Kept
<1>6. CASE UNCHANGED vars
  BY <1>2, <1>6 DEF vars, RemoteEdits, MetaEdits
<1>7. ASSUME NEW m \in Machines, Edit(m)
      PROVE  Goal
  BY <1>2, <1>7 DEF Edit, RemoteEdits, MetaEdits
<1>8. ASSUME NEW m \in Machines, NEW op \in {"push", "pull"}, NEW forced \in Forces,
             Start(m, op, forced)
      PROVE  Goal
  <2>1. Becomes(m, job'[m]) /\ job'[m].at = "blob"
    BY <1>0, <1>8, CommandSteps
  <2> QED
    BY <1>5, <1>8, <2>1 DEF Start
<1>9. ASSUME NEW m \in Machines, ReadBlob(m) \/ ReadBlobFails(m)
      PROVE  Goal
  <2>1. Becomes(m, job'[m]) /\ job'[m].at = "meta"
    BY <1>0, <1>9, CommandSteps
  <2> QED
    BY <1>5, <1>9, <2>1 DEF ReadBlob, ReadBlobFails
<1>10. ASSUME NEW m \in Machines, Abort(m) \/ PushSave(m) \/ PullSave(m)
       PROVE  Goal
  <2>1. Becomes(m, job'[m]) /\ job'[m].at = "start" /\ UNCHANGED <<blob, meta, acked>>
    BY <1>0, <1>10, PlainSteps
  <2> QED
    BY <1>5, <2>1
<1>11. ASSUME NEW m \in Machines, PullDecide(m)
       PROVE  Goal
  <2>1. Becomes(m, job'[m]) /\ job'[m].at \in {"start", "save", "write"}
    BY <1>0, <1>11, PullSteps
  <2> QED
    BY <1>5, <1>11, <2>1 DEF PullDecide
<1>12. ASSUME NEW m \in Machines, PullWrite(m)
       PROVE  Goal
  <2>1. Becomes(m, job'[m]) /\ job'[m].at = "save" /\ UNCHANGED <<blob, meta, acked>>
    BY <1>0, <1>12, PlainSteps
  <2> QED
    BY <1>5, <2>1
<1>13. ASSUME NEW m \in Machines, PushDecide(m)
       PROVE  Goal
  <2>1. /\ Becomes(m, job'[m]) /\ job[m].op = "push" /\ UNCHANGED <<blob, meta, acked>>
        /\ \/ job'[m].at = "start"
           \/ job'[m].at = "put" /\ Onward(job[m], job'[m]) /\ Fence(ReadMeta(m))
    BY <1>0, <1>13, PlainSteps
  <2>2. CASE job'[m].at = "start"
    BY <1>5, <2>1, <2>2
  <2>3. CASE job'[m].at = "put" /\ Onward(job[m], job'[m]) /\ Fence(ReadMeta(m))
    <3>1. /\ ReadMeta(m).meta = meta /\ ReadMeta(m).forced = job[m].forced
          /\ ReadMeta(m).local = job[m].local /\ ReadMeta(m).base = job[m].base
      BY <1>0 DEF ReadMeta, Inv, TypeOK
    <3>2. job[m].forced \/ meta = None \/ meta = job[m].local
          \/ (meta = job[m].base /\ job[m].base # None)
      BY <2>3, <3>1 DEF Fence, NoRemote
    <3>3. meta = job[m].base /\ job[m].base # None => meta \subseteq job[m].local
      BY <1>2, <2>1 DEF Based
    <3>4. ~job[m].forced => acked \subseteq job[m].local
      BY <1>2, <3>2, <3>3 DEF MetaEdits
    <3>5. Kept(job'[m], acked, blob)
      BY <2>3, <3>4 DEF Kept, Onward
    <3> QED
      BY <1>4, <2>1, <3>5
  <2> QED
    BY <2>1, <2>2, <2>3
<1>14. ASSUME NEW m \in Machines, PutBlob(m)
       PROVE  Goal
  <2>1. /\ Becomes(m, job'[m]) /\ job[m].op = "push" /\ job[m].at = "put" /\ meta' = meta
        /\ \/ job'[m].at = "start" /\ UNCHANGED <<blob, acked>>
           \/ /\ job[m].cond => Num(job[m].blob) = Num(blob)
              /\ job'[m].at = "putmeta" /\ Onward(job[m], job'[m])
              /\ Num(blob') = Num(blob) + 1 /\ blob' # None /\ blob'.config = job[m].local
              /\ acked' = IF job[m].forced THEN acked \cap job[m].local ELSE acked
    BY <1>0, <1>14, PutSteps
  <2>2. CASE job'[m].at = "start" /\ UNCHANGED <<blob, acked>>
    BY <1>5, <2>1, <2>2
  <2>3. CASE /\ job[m].cond => Num(job[m].blob) = Num(blob)
             /\ job'[m].at = "putmeta" /\ Onward(job[m], job'[m])
             /\ Num(blob') = Num(blob) + 1 /\ blob' # None /\ blob'.config = job[m].local
             /\ acked' = IF job[m].forced THEN acked \cap job[m].local ELSE acked
    <3>1. Kept(job[m], acked, blob)
      BY <1>2
    <3>2. acked' \subseteq acked /\ acked' \subseteq job[m].local
      BY <2>1, <2>3, <3>1 DEF Kept
    <3>3. acked' \subseteq RemoteEdits' /\ acked' \subseteq MetaEdits'
      BY <1>2, <2>1, <2>3, <3>2 DEF RemoteEdits, MetaEdits
    <3>4. Kept(job'[m], acked', blob')
      BY <2>3, <3>2 DEF Kept, Onward
    <3>5. ASSUME NEW n \in Machines \ {m}
          PROVE  Kept(job'[n], acked', blob')
      <4>1. job'[n] = job[n] /\ Kept(job[n], acked, blob) /\ Apart(job[m], job[n], blob)
        BY <1>2, <2>1 DEF Becomes
      <4>2. Pushing(job[m])
        BY <2>1 DEF Pushing
      <4>3. Pushing(job[n]) => job[n].cond /\ job[n].at # "putmeta"
        BY <2>3, <4>1, <4>2 DEF Apart
      <4>4. Num(job[n].blob) # Num(blob')
        BY <1>3, <2>3
      <4> QED
        BY <4>1, <4>3, <4>4 DEF Kept, Pushing
    <3> QED
      BY <3>3, <3>4, <3>5
  <2> QED
    BY <2>1, <2>2, <2>3
<1>15. ASSUME NEW m \in Machines, PutMeta(m)
       PROVE  Goal
  <2>1. /\ Becomes(m, job'[m]) /\ job[m].op = "push" /\ job[m].at = "putmeta"
        /\ job'[m].at = "save" /\ blob' = blob
        /\ meta' = job[m].local /\ acked' = acked \cup job[m].local
    BY <1>0, <1>15, PlainSteps
  <2>2. acked \subseteq job[m].local /\ blob # None /\ blob.config = job[m].local
    BY <1>2, <2>1 DEF Kept
  <2>3. acked' = job[m].local
    BY <2>1, <2>2
  <2>4. acked' \subseteq RemoteEdits' /\ acked' \subseteq MetaEdits'
    <3>1. RemoteEdits' = job[m].local
      BY <2>1, <2>2 DEF RemoteEdits
    <3>2. job[m].local # None
      BY <1>0, SyncAssumption DEF Inv, TypeOK
    <3>3. MetaEdits' = job[m].local
      BY <2>1, <3>2 DEF MetaEdits
    <3> QED
      BY <2>3, <3>1, <3>3
  <2>5. Kept(job'[m], acked', blob')
    BY <2>1 DEF Kept
  <2>6. ASSUME NEW n \in Machines \ {m}
        PROVE  Kept(job'[n], acked', blob')
    <3>1. job'[n] = job[n] /\ Apart(job[m], job[n], blob) /\ Pushing(job[m])
      BY <1>2, <2>1 DEF Becomes, Pushing
    <3>2. Pushing(job[n]) => job[n].cond /\ job[n].at # "putmeta" /\ Num(job[n].blob) # Num(blob)
      BY <2>1, <3>1 DEF Apart
    <3> QED
      BY <2>1, <3>1, <3>2 DEF Kept, Pushing
  <2> QED
    BY <2>4, <2>5, <2>6
<1> QED
  BY <1>6, <1>7, <1>8, <1>9, <1>10, <1>11, <1>12, <1>13, <1>14, <1>15 DEF Next

\* What commands hold, what configs are based on, how pushes exclude each other
\* and where acknowledged edits are, in every state.
THEOREM UpdateInvariant == Spec => []UpdateInv
<1>1. Init => UpdateInv
  <2>1. SUFFICES ASSUME Init PROVE BookInv /\ BaseInv /\ MutexInv /\ KeptInv
    BY SyncInit DEF UpdateInv
  <2>2. \A m \in Machines : job[m] = Idle /\ base[m] = None
    BY <2>1 DEF Init
  <2>3. Idle.op = "idle" /\ Idle.at = "start" /\ Idle.blob = None
    BY DEF Idle
  <2>4. blob = None /\ acked = {} /\ Num(None) = 0
    BY <2>1 DEF Init, Num
  <2>5. BookInv
    BY <2>2, <2>3, <2>4 DEF BookInv, Book, Pulled
  <2>6. BaseInv
    BY <2>2, <2>3 DEF BaseInv, Based
  <2>7. MutexInv
    BY <2>2, <2>3 DEF MutexInv, Apart, Pushing
  <2>8. KeptInv
    BY <2>2, <2>3, <2>4 DEF KeptInv, Kept
  <2> QED
    BY <2>5, <2>6, <2>7, <2>8
<1>2. UpdateInv /\ [Next]_vars => UpdateInv'
  BY SyncStep, BookStep, BaseStep, MutexStep, KeptStep DEF UpdateInv
<1> QED
  BY <1>1, <1>2, PTL DEF Spec

\* For any number of machines, edits and pushes, with conditional and
\* unconditional adapters, no edit of a successful push leaves the remote.
THEOREM UpdatesKept == Spec => []NoLostUpdate
<1>1. UpdateInv => NoLostUpdate
  BY DEF UpdateInv, KeptInv, NoLostUpdate
<1> QED
  BY <1>1, UpdateInvariant, PTL
=============================================================================
