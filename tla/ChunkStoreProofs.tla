-------------------------- MODULE ChunkStoreProofs --------------------------
(***************************************************************************)
(* Theorems about ChunkStore, for all values of its constants: any number  *)
(* of clients, contents, chunks, plans and failures.                       *)
(***************************************************************************)
EXTENDS ChunkStore, TLAPS

-----------------------------------------------------------------------------
(* The upload of one client after a step.                                  *)

\* An upload that is in progress is a record with all its fields.
LEMMA UploadInProgress ==
    ASSUME TypeOK, NEW u \in Clients, upload[u].phase # "idle"
    PROVE  upload[u] \in Upload
BY DEF TypeOK, Upload, Idle

\* What an upload begins with is one.
LEMMA BegunIsUpload ==
    ASSUME NEW p \in Paths, NEW base \in Nat, NEW c \in Contents,
           NEW recorded \in BOOLEAN
    PROVE  Begun(p, base, c, recorded) \in Upload
BY ChunkAssumption DEF Begun, Upload

\* An upload that begins again keeps what it uploads.
LEMMA AgainIsUpload ==
    ASSUME TypeOK, NEW u \in Clients, upload[u].phase # "idle"
    PROVE  Again(u) \in Upload
<1>1. upload[u] \in Upload
  BY UploadInProgress
<1>2. upload[u].path \in Paths /\ upload[u].base \in Nat
      /\ upload[u].content \in Contents /\ upload[u].recorded \in BOOLEAN
  BY <1>1 DEF Upload
<1> QED BY <1>2, BegunIsUpload DEF Again

\* Each step of an upload leaves all others alone and is one of the uploads.
UploadTyped == upload' \in [Clients -> Upload \cup {Idle}]

\* A step that puts an upload, or none, in the place of one keeps the type.
LEMMA UploadReplaced ==
    ASSUME TypeOK, NEW u \in Clients, NEW w \in Upload \cup {Idle},
           upload' = [upload EXCEPT ![u] = w]
    PROVE  UploadTyped
BY DEF TypeOK, UploadTyped

\* Every step of an upload does so.
LEMMA StepTyped ==
    ASSUME TypeOK, NEW u \in Clients, UploadStep(u)
    PROVE  UploadTyped
<1>1. ASSUME NEW h \in Chunks, MissingChunks(u, h)
      PROVE  UploadTyped
  <2> DEFINE w == [upload[u] EXCEPT
                     !.left = @ \ {h},
                     !.missing = IF Present(h) THEN @ ELSE @ \cup {h},
                     !.phase = IF upload[u].left = {h} THEN "put" ELSE @]
  <2>1. upload[u] \in Upload
    BY <1>1, UploadInProgress DEF MissingChunks
  <2>2. w \in Upload
    BY <2>1 DEF Upload
  <2>3. upload' = [upload EXCEPT ![u] = w]
    BY <1>1, <2>1 DEF MissingChunks, TypeOK, Upload
  <2> QED BY <2>2, <2>3, UploadReplaced
<1>2. ASSUME NEW h \in Chunks, PutChunkRead(u, h)
      PROVE  UploadTyped
  <2> DEFINE w == IF h \in stored
                  THEN [upload[u] EXCEPT !.existing = @ \cup {h}]
                  ELSE [upload[u] EXCEPT !.installing = @ \cup {h}]
  <2>1. upload[u] \in Upload
    BY <1>2, UploadInProgress DEF PutChunkRead
  <2>2. w \in Upload
    BY <2>1 DEF Upload
  <2>3. upload' = [upload EXCEPT ![u] = w]
    BY <1>2, <2>1 DEF PutChunkRead, TypeOK, Upload
  <2> QED BY <2>2, <2>3, UploadReplaced
<1>3. ASSUME NEW h \in Chunks, PutChunkInstall(u, h)
      PROVE  UploadTyped
  <2> DEFINE w == [upload[u] EXCEPT !.installing = @ \ {h},
                                    !.existing = @ \cup {h}]
  <2>1. upload[u] \in Upload
    BY <1>3, UploadInProgress DEF PutChunkInstall
  <2>2. w \in Upload
    BY <2>1 DEF Upload
  <2>3. upload' = [upload EXCEPT ![u] = w]
    BY <1>3, <2>1 DEF PutChunkInstall, TypeOK, Upload
  <2> QED BY <2>2, <2>3, UploadReplaced
<1>4. ASSUME NEW h \in Chunks, PutChunkRecord(u, h)
      PROVE  UploadTyped
  <2> DEFINE w == [upload[u] EXCEPT !.existing = @ \ {h},
                                    !.missing = @ \ {h}]
  <2>1. upload[u] \in Upload
    BY <1>4, UploadInProgress DEF PutChunkRecord
  <2>2. w \in Upload
    BY <2>1 DEF Upload
  <2>3. upload' = [upload EXCEPT ![u] = w]
    BY <1>4, <2>1 DEF PutChunkRecord, TypeOK, Upload
  <2> QED BY <2>2, <2>3, UploadReplaced
<1>5. ASSUME NEW h \in Chunks, AssembleRead(u, h)
      PROVE  UploadTyped
  <2> DEFINE w == IF Readable(h)
                  THEN [upload[u] EXCEPT
                          !.left = @ \ {h},
                          !.phase = IF upload[u].left = {h} THEN "manifest" ELSE @]
                  ELSE Again(u)
  <2>1. upload[u] \in Upload /\ Again(u) \in Upload
    BY <1>5, UploadInProgress, AgainIsUpload DEF AssembleRead
  <2>2. w \in Upload
    BY <2>1 DEF Upload
  <2>3. upload' = [upload EXCEPT ![u] = w]
    BY <1>5, <2>1 DEF AssembleRead, TypeOK, Upload
  <2> QED BY <2>2, <2>3, UploadReplaced
<1>6. ASSUME CommitManifest(u)
      PROVE  UploadTyped
  <2> DEFINE w == [upload[u] EXCEPT !.phase = "assemble",
                                    !.left = ChunksOf[upload[u].content]]
  <2>1. upload[u] \in Upload
    BY <1>6, UploadInProgress DEF CommitManifest
  <2>2. w \in Upload
    BY <2>1, ChunkAssumption DEF Upload
  <2>3. upload' = [upload EXCEPT ![u] = w]
    BY <1>6, <2>1 DEF CommitManifest, TypeOK, Upload
  <2> QED BY <2>2, <2>3, UploadReplaced
<1>7. ASSUME RecordManifest(u)
      PROVE  UploadTyped
  <2> DEFINE w == [upload[u] EXCEPT !.phase = "write"]
  <2>1. upload[u] \in Upload
    BY <1>7, UploadInProgress DEF RecordManifest
  <2>2. w \in Upload
    BY <2>1 DEF Upload
  <2>3. upload' = [upload EXCEPT ![u] = w]
    BY <1>7, <2>1 DEF RecordManifest, TypeOK, Upload
  <2> QED BY <2>2, <2>3, UploadReplaced
<1>8. ASSUME WriteFile(u)
      PROVE  UploadTyped
  <2>1. upload[u] \in Upload
    BY <1>8, UploadInProgress DEF WriteFile
  <2>2. PICK recorded \in BOOLEAN :
          upload' = [upload EXCEPT ![u].phase = "answer", ![u].recorded = recorded]
    BY <1>8, <2>1 DEF WriteFile, Upload
  <2> DEFINE w == [upload[u] EXCEPT !.phase = "answer", !.recorded = recorded]
  <2>3. w \in Upload
    BY <2>1 DEF Upload
  <2>4. upload' = [upload EXCEPT ![u] = w]
    BY <2>1, <2>2 DEF TypeOK, Upload
  <2> QED BY <2>3, <2>4, UploadReplaced
<1>9. ASSUME Answer(u)
      PROVE  UploadTyped
  BY <1>9, UploadReplaced DEF Answer
<1> QED
  BY <1>1, <1>2, <1>3, <1>4, <1>5, <1>6, <1>7, <1>8, <1>9 DEF UploadStep

\* So do the steps that begin an upload, begin it again or give it up.
LEMMA ClientTyped ==
    ASSUME TypeOK, NEW u \in Clients,
           StartUpload(u) \/ LoseConnection(u) \/ Abandon(u)
    PROVE  UploadTyped
<1>1. CASE StartUpload(u)
  <2>1. PICK p \in Paths, c \in Contents :
          upload' = [upload EXCEPT ![u] = Begun(p, files[p].rev, c, FALSE)]
    BY <1>1 DEF StartUpload
  <2>2. Begun(p, files[p].rev, c, FALSE) \in Upload
    BY BegunIsUpload DEF TypeOK
  <2> QED BY <2>1, <2>2, UploadReplaced
<1>2. CASE LoseConnection(u)
  BY <1>2, AgainIsUpload, UploadReplaced DEF LoseConnection
<1>3. CASE Abandon(u)
  BY <1>3, UploadReplaced DEF Abandon
<1> QED BY <1>1, <1>2, <1>3

\* A crash makes each upload in progress begin again.
LEMMA CrashTyped ==
    ASSUME TypeOK, Crash
    PROVE  UploadTyped
<1>1. \A u \in Clients : upload[u].phase # "idle" => Again(u) \in Upload
  BY AgainIsUpload
<1> QED BY <1>1 DEF Crash, UploadTyped

-----------------------------------------------------------------------------
(* Type correctness.                                                       *)

\* A mutation gives a path a new revision.
LEMMA NewRevisionTyped ==
    ASSUME TypeOK, NEW p \in Paths, NEW c \in Content, NewRevision(p, c)
    PROVE  /\ seq' \in Nat
           /\ changes' \subseteq Change
           /\ files' \in [Paths -> [rev : Nat, content : Content]]
BY DEF TypeOK, NewRevision, Change

\* The queries of BuildGCPlan fill in a plan, part by part.
LEMMA PlanTyped ==
    ASSUME TypeOK,
           PlanRevisions \/ PlanContents \/ PlanManifests \/ PlanOrphans
    PROVE  builder' \in Builder /\ plans' \subseteq Plan
<1>1. CASE PlanRevisions
  <2>1. PICK safe \in 1..seq :
          builder' = [phase |-> "revisions", used |-> {},
                      plan |-> [revs |-> {c.rev : c \in Collectable(safe)},
                                paths |-> {c.path : c \in Tombstones(safe)},
                                contents |-> {}, chunks |-> {}]]
    BY <1>1 DEF PlanRevisions
  <2>2. {c.rev : c \in Collectable(safe)} \subseteq Nat
        /\ {c.path : c \in Tombstones(safe)} \subseteq Paths
    BY DEF TypeOK, Change, Collectable, Tombstones
  <2> DEFINE revs == {c.rev : c \in Collectable(safe)}
             paths == {c.path : c \in Tombstones(safe)}
  <2> HIDE DEF revs, paths
  <2>3. [revs |-> revs, paths |-> paths, contents |-> {}, chunks |-> {}] \in Plan
    BY <2>2 DEF Plan, revs, paths
  <2>4. builder' \in Builder
    BY <2>1, <2>3 DEF Builder, revs, paths
  <2> QED BY <1>1, <2>4 DEF PlanRevisions, TypeOK
<1>2. CASE PlanContents
  <2> DEFINE xs == OnlyIn(builder.plan.revs)
  <2>1. builder \in Builder /\ builder.phase # "idle"
    BY <1>2 DEF PlanContents, TypeOK
  <2>2. xs \subseteq Contents
    BY DEF OnlyIn
  <2>3. builder' = [builder EXCEPT !.phase = "contents", !.plan.contents = xs]
    BY <1>2 DEF PlanContents
  <2> DEFINE plan == [builder.plan EXCEPT !.contents = xs]
  <2> HIDE DEF xs
  <2>4. builder \in [phase : {"revisions", "contents", "manifests"},
                     plan : Plan, used : SUBSET Chunks]
    BY <2>1 DEF Builder, Idle
  <2>5. plan \in Plan
    BY <2>2, <2>4 DEF Plan
  <2>6. builder' = [phase |-> "contents", plan |-> plan, used |-> builder.used]
    BY <2>3, <2>4
  <2>7. builder' \in Builder
    BY <2>4, <2>5, <2>6 DEF Builder
  <2> QED BY <1>2, <2>7 DEF PlanContents, TypeOK
<1>3. CASE PlanManifests
  <2>1. builder \in Builder /\ builder.phase # "idle"
    BY <1>3 DEF PlanManifests, TypeOK
  <2>2. ChunksIn(manifests) \subseteq Chunks
    BY ChunkAssumption DEF ChunksIn, TypeOK
  <2> DEFINE cs == ChunksIn(manifests) \ ChunksIn(manifests \ builder.plan.contents)
             plan == [builder.plan EXCEPT !.chunks = cs]
  <2>3. builder \in [phase : {"revisions", "contents", "manifests"},
                     plan : Plan, used : SUBSET Chunks]
    BY <2>1 DEF Builder, Idle
  <2>4. cs \subseteq Chunks
    BY <2>2
  <2>5. builder' = [builder EXCEPT !.phase = "manifests",
                                   !.used = ChunksIn(manifests),
                                   !.plan.chunks = cs]
    BY <1>3 DEF PlanManifests
  <2> HIDE DEF cs
  <2>6. plan \in Plan
    BY <2>3, <2>4 DEF Plan
  <2>7. builder' = [phase |-> "manifests", plan |-> plan,
                    used |-> ChunksIn(manifests)]
    BY <2>3, <2>5
  <2>8. builder' \in Builder
    BY <2>2, <2>6, <2>7 DEF Builder
  <2> QED BY <1>3, <2>8 DEF PlanManifests, TypeOK
<1>4. CASE PlanOrphans
  <2>1. builder \in Builder /\ builder.phase = "manifests"
    BY <1>4 DEF PlanOrphans, TypeOK
  <2>2. builder.plan \in Plan
    BY <2>1 DEF Builder, Idle
  <2>3. [builder.plan EXCEPT !.chunks = @ \cup (aged \ builder.used)] \in Plan
    BY <2>2 DEF Plan, TypeOK
  <2>4. builder' \in Builder
    BY <1>4 DEF PlanOrphans, Builder
  <2> QED BY <1>4, <2>3, <2>4 DEF PlanOrphans, TypeOK
<1> QED BY <1>1, <1>2, <1>3, <1>4

\* TypeOK is inductive.
LEMMA TypeStep ==
    ASSUME TypeOK, [Next]_vars
    PROVE  TypeOK'
<1>1. CASE UNCHANGED vars
  BY <1>1 DEF TypeOK, vars
<1>2. ASSUME NEW u \in Clients,
             StartUpload(u) \/ LoseConnection(u) \/ Abandon(u)
      PROVE  TypeOK'
  <2>1. UploadTyped
    BY <1>2, ClientTyped
  <2>2. failures' = failures \/ failures' = failures + 1
    BY <1>2, Zenon DEF StartUpload, LoseConnection, Abandon
  <2>3. failures' \in Nat
    BY <2>2 DEF TypeOK
  <2> QED BY <1>2, <2>1, <2>3 DEF TypeOK, UploadTyped, StartUpload,
            LoseConnection, Abandon, logVars, gcVars, chunkVars
<1>3. ASSUME NEW u \in Clients, UploadStep(u)
      PROVE  TypeOK'
  <2>1. UploadTyped
    BY <1>3, StepTyped
  <2>2. ASSUME NEW h \in Chunks,
               \/ MissingChunks(u, h) \/ PutChunkRead(u, h) \/ AssembleRead(u, h)
        PROVE  TypeOK'
    BY <2>1, <2>2 DEF TypeOK, UploadTyped, MissingChunks, PutChunkRead,
                      AssembleRead, logVars, gcVars, chunkVars
  <2>3. ASSUME NEW h \in Chunks, PutChunkInstall(u, h) \/ PutChunkRecord(u, h)
        PROVE  TypeOK'
    BY <2>1, <2>3 DEF TypeOK, UploadTyped, PutChunkInstall, PutChunkRecord,
                      logVars, gcVars
  <2>4. CASE CommitManifest(u) \/ Answer(u)
    BY <2>1, <2>4 DEF TypeOK, UploadTyped, CommitManifest, Answer, logVars,
                      gcVars, chunkVars
  <2>5. CASE RecordManifest(u)
    <3>1. upload[u].content \in Contents
      BY <2>5, UploadInProgress DEF RecordManifest, Upload
    <3> QED BY <2>1, <2>5, <3>1 DEF TypeOK, UploadTyped, RecordManifest, logVars,
                                    gcVars, chunkVars
  <2>6. CASE WriteFile(u)
    <3>1. upload[u].path \in Paths /\ upload[u].content \in Content
      BY <2>6, UploadInProgress DEF WriteFile, Upload, Content
    <3>2. UNCHANGED logVars \/ NewRevision(upload[u].path, upload[u].content)
      BY <2>6 DEF WriteFile
    <3>3. /\ seq' \in Nat
          /\ changes' \subseteq Change
          /\ files' \in [Paths -> [rev : Nat, content : Content]]
      BY <3>1, <3>2, NewRevisionTyped DEF TypeOK, logVars
    <3> QED BY <2>1, <2>6, <3>3 DEF TypeOK, UploadTyped, WriteFile, gcVars, chunkVars
  <2> QED BY <1>3, <2>2, <2>3, <2>4, <2>5, <2>6 DEF UploadStep
<1>4. ASSUME NEW p \in Paths, Mutate(p)
      PROVE  TypeOK'
  <2>1. PICK c \in Content : NewRevision(p, c)
    BY <1>4 DEF Mutate, DeleteFile, Restore, Content, TypeOK, Change
  <2>2. /\ seq' \in Nat
        /\ changes' \subseteq Change
        /\ files' \in [Paths -> [rev : Nat, content : Content]]
    BY <2>1, NewRevisionTyped
  <2> QED BY <1>4, <2>2 DEF TypeOK, Mutate, DeleteFile, Restore, gcVars, chunkVars
<1>5. CASE WeekPasses
  BY <1>5 DEF TypeOK, WeekPasses, logVars, gcVars
<1>6. CASE PlanRevisions \/ PlanContents \/ PlanManifests \/ PlanOrphans
  <2>1. builder' \in Builder /\ plans' \subseteq Plan
    BY <1>6, PlanTyped
  <2>2. built' \in Nat
    BY <1>6 DEF TypeOK, PlanRevisions, PlanContents, PlanManifests, PlanOrphans
  <2> QED BY <1>6, <2>1, <2>2 DEF TypeOK, PlanRevisions, PlanContents,
            PlanManifests, PlanOrphans, logVars, chunkVars
<1>7. ASSUME NEW plan \in plans, ExecuteGCPlan(plan)
      PROVE  TypeOK'
  <2>1. files' \in [Paths -> [rev : Nat, content : Content]]
    BY <1>7 DEF TypeOK, ExecuteGCPlan, NoRow, Content
  <2>2. RowsAfter(plan) \subseteq rows
    BY DEF RowsAfter
  <2>3. ReliedOn \subseteq Chunks
    <3>1. ASSUME NEW u \in Clients, upload[u].phase \in {"assemble", "manifest"}
          PROVE  ChunksOf[upload[u].content] \subseteq Chunks
      BY <3>1, UploadInProgress, ChunkAssumption DEF Upload
    <3> QED BY <3>1 DEF ReliedOn
  <2> QED BY <1>7, <2>1, <2>2, <2>3 DEF TypeOK, ExecuteGCPlan, Survivors,
            ManifestsAfter, AgedAfter
<1>8. ASSUME NEW h \in Chunks, RemoveChunkFile(h)
      PROVE  TypeOK'
  BY <1>8 DEF TypeOK, RemoveChunkFile, logVars
<1>9. CASE SnapshotDatabase
  BY <1>9 DEF TypeOK, SnapshotDatabase, Backup, logVars, gcVars, chunkVars
<1>10. ASSUME NEW h \in Chunks, CopyChunkFile(h)
       PROVE  TypeOK'
  BY <1>10 DEF TypeOK, CopyChunkFile, Backup, logVars, gcVars, chunkVars
<1>11. CASE Crash
  <2>1. UploadTyped
    BY <1>11, CrashTyped
  <2> QED BY <1>11, <2>1 DEF TypeOK, UploadTyped, Crash, Builder, Backup, NoBackup,
            logVars, chunkVars
<1> QED
  BY <1>1, <1>2, <1>3, <1>4, <1>5, <1>6, <1>7, <1>8, <1>9, <1>10, <1>11
     DEF Next, Maintain

\* Every table and every call in progress keeps its type.
THEOREM TypeCorrect == Spec => []TypeOK
<1>1. Init => TypeOK
  BY DEF Init, TypeOK, NoRow, Content, Builder, Backup, NoBackup
<1> QED BY <1>1, TypeStep, PTL DEF Spec

-----------------------------------------------------------------------------
(* Manifests, rows and files.                                              *)

\* What a put has found or installed is in onDisk, what a commit has read is in
\* inTable, and before the query has ended nothing is put.
Backed(w, onDisk, inTable) ==
    /\ w.phase = "query" => w.existing = {}
    /\ w.phase = "put" => w.existing \subseteq onDisk
    /\ w.phase \in {"assemble", "manifest"} =>
          ChunksOf[w.content] \ w.left \subseteq inTable
    /\ w.phase = "manifest" => w.left = {}

\* The files and the rows that uploads rely on are there, or were collected
\* under them.
UploadsBacked ==
    \A u \in Clients : Backed(upload[u], stored \cup raced, rows \cup raced)

\* No file is removed while a backup copies them: the maintenance mutex.
BackupAlone == backup.left # {} => removing = {}

\* A backup has the file of each row that it took, or will come to it.
BackupOnTheWay ==
    backup.taken =>
        backup.rows \subseteq
            backup.files \cup backup.lacking \cup (backup.left \cap stored)

\* The inductive invariant.
ChunksSafe ==
    /\ rows \ stored \subseteq raced
    /\ \A m \in manifests : ChunksOf[m] \subseteq rows \cup raced
    /\ UploadsBacked
    /\ BackupAlone
    /\ BackupOnTheWay

\* A step of an upload adds a file or a row at most, and so takes nothing from
\* the others.
LEMMA UploadKeepsSafe ==
    ASSUME TypeOK, ChunksSafe, NEW u \in Clients,
           NEW w, upload' = [upload EXCEPT ![u] = w],
           Backed(w, stored' \cup raced', rows' \cup raced'),
           stored \subseteq stored', raced \subseteq stored' \cup raced',
           rows \subseteq rows', raced \subseteq rows' \cup raced',
           rows' \ stored' \subseteq raced',
           \A m \in manifests' : ChunksOf[m] \subseteq rows' \cup raced',
           UNCHANGED <<removing, backup>>
    PROVE  ChunksSafe'
<1>1. UploadsBacked'
  <2> SUFFICES ASSUME NEW v \in Clients
               PROVE  Backed(upload'[v], stored' \cup raced', rows' \cup raced')
    BY DEF UploadsBacked
  <2>1. CASE v = u
    BY <2>1 DEF TypeOK
  <2>2. CASE v # u
    <3>1. upload'[v] = upload[v]
      BY <2>2 DEF TypeOK
    <3>2. Backed(upload[v], stored \cup raced, rows \cup raced)
      BY DEF ChunksSafe, UploadsBacked
    <3> QED BY <3>1, <3>2 DEF Backed
  <2> QED BY <2>1, <2>2
<1>2. BackupAlone' /\ BackupOnTheWay'
  BY DEF ChunksSafe, BackupAlone, BackupOnTheWay
<1> QED BY <1>1, <1>2 DEF ChunksSafe

\* An upload that begins relies on nothing yet, nor does one that has ended.
LEMMA BegunIsBacked ==
    ASSUME NEW p, NEW base, NEW c, NEW recorded, NEW S, NEW T
    PROVE  Backed(Begun(p, base, c, recorded), S, T) /\ Backed(Idle, S, T)
BY DEF Backed, Begun, Idle

\* No step of an upload breaks the invariant: a row is written after its file,
\* a manifest after each of its chunks was read.
LEMMA UploadStepSafe ==
    ASSUME TypeOK, ChunksSafe, NEW u \in Clients, UploadStep(u)
    PROVE  ChunksSafe'
<1>0. Backed(upload[u], stored \cup raced, rows \cup raced)
  BY DEF ChunksSafe, UploadsBacked
<1>1. ASSUME NEW h \in Chunks, MissingChunks(u, h)
      PROVE  ChunksSafe'
  <2> DEFINE w == [upload[u] EXCEPT
                     !.left = @ \ {h},
                     !.missing = IF Present(h) THEN @ ELSE @ \cup {h},
                     !.phase = IF upload[u].left = {h} THEN "put" ELSE @]
  <2>1. upload[u] \in Upload
    BY <1>1, UploadInProgress DEF MissingChunks
  <2>2. upload' = [upload EXCEPT ![u] = w]
    BY <1>1, <2>1 DEF MissingChunks, TypeOK, Upload
  <2>3. w.existing = {} /\ w.phase \in {"query", "put"}
    BY <1>0, <1>1, <2>1 DEF MissingChunks, Backed, Upload
  <2> HIDE DEF w
  <2>4. Backed(w, stored \cup raced, rows \cup raced)
    BY <2>3 DEF Backed
  <2>5. UNCHANGED <<manifests, rows, stored, removing, backup, raced>>
    BY <1>1 DEF MissingChunks, chunkVars, gcVars
  <2> QED BY <2>2, <2>4, <2>5, UploadKeepsSafe DEF ChunksSafe
<1>2. ASSUME NEW h \in Chunks, PutChunkRead(u, h)
      PROVE  ChunksSafe'
  <2> DEFINE w == IF h \in stored
                  THEN [upload[u] EXCEPT !.existing = @ \cup {h}]
                  ELSE [upload[u] EXCEPT !.installing = @ \cup {h}]
  <2>1. upload[u] \in Upload
    BY <1>2, UploadInProgress DEF PutChunkRead
  <2>2. upload' = [upload EXCEPT ![u] = w]
    BY <1>2, <2>1 DEF PutChunkRead, TypeOK, Upload
  <2>3. w.phase = "put" /\ w.existing \subseteq stored \cup raced
    BY <1>0, <1>2, <2>1 DEF PutChunkRead, Backed, Upload
  <2> HIDE DEF w
  <2>4. Backed(w, stored \cup raced, rows \cup raced)
    BY <2>3 DEF Backed
  <2>5. UNCHANGED <<manifests, rows, stored, removing, backup, raced>>
    BY <1>2 DEF PutChunkRead, chunkVars, gcVars
  <2> QED BY <2>2, <2>4, <2>5, UploadKeepsSafe DEF ChunksSafe
<1>3. ASSUME NEW h \in Chunks, PutChunkInstall(u, h)
      PROVE  ChunksSafe'
  <2> DEFINE w == [upload[u] EXCEPT !.installing = @ \ {h},
                                    !.existing = @ \cup {h}]
  <2>1. upload[u] \in Upload
    BY <1>3, UploadInProgress DEF PutChunkInstall
  <2>2. upload' = [upload EXCEPT ![u] = w]
    BY <1>3, <2>1 DEF PutChunkInstall, TypeOK, Upload
  <2>3. /\ stored' = stored \cup {h}
        /\ UNCHANGED <<manifests, rows, removing, backup, raced>>
    BY <1>3 DEF PutChunkInstall, gcVars
  <2>4. w.phase = "put" /\ w.existing \subseteq stored' \cup raced
    BY <1>0, <1>3, <2>1, <2>3 DEF PutChunkInstall, Backed, Upload
  <2> HIDE DEF w
  <2>5. Backed(w, stored' \cup raced, rows' \cup raced)
    BY <2>4 DEF Backed
  <2> QED BY <2>2, <2>3, <2>5, UploadKeepsSafe DEF ChunksSafe
<1>4. ASSUME NEW h \in Chunks, PutChunkRecord(u, h)
      PROVE  ChunksSafe'
  <2> DEFINE w == [upload[u] EXCEPT !.existing = @ \ {h},
                                    !.missing = @ \ {h}]
  <2>1. upload[u] \in Upload
    BY <1>4, UploadInProgress DEF PutChunkRecord
  <2>2. upload' = [upload EXCEPT ![u] = w]
    BY <1>4, <2>1 DEF PutChunkRecord, TypeOK, Upload
  <2>3. /\ rows' = rows \cup {h}
        /\ raced' = raced \ ({h} \cap stored)
        /\ UNCHANGED <<manifests, stored, removing, backup>>
    BY <1>4 DEF PutChunkRecord, gcVars
  <2>4. h \in stored \cup raced
    BY <1>0, <1>4 DEF PutChunkRecord, Recordable, Backed
  <2>5. w.phase = "put" /\ w.existing \subseteq stored \cup raced
    BY <1>0, <1>4, <2>1 DEF PutChunkRecord, Backed, Upload
  <2>6. raced \subseteq stored' \cup raced' /\ raced \subseteq rows' \cup raced'
    BY <2>3
  <2> HIDE DEF w
  <2>7. Backed(w, stored' \cup raced', rows' \cup raced')
    BY <2>3, <2>5, <2>6 DEF Backed
  <2>8. rows' \ stored' \subseteq raced'
    BY <2>3, <2>4 DEF ChunksSafe
  <2>9. \A m \in manifests' : ChunksOf[m] \subseteq rows' \cup raced'
    BY <2>3 DEF ChunksSafe
  <2> QED BY <2>2, <2>3, <2>6, <2>7, <2>8, <2>9, UploadKeepsSafe
<1>5. ASSUME NEW h \in Chunks, AssembleRead(u, h)
      PROVE  ChunksSafe'
  <2>1. upload[u] \in Upload
    BY <1>5, UploadInProgress DEF AssembleRead
  <2>2. UNCHANGED <<manifests, rows, stored, removing, backup, raced>>
    BY <1>5 DEF AssembleRead, chunkVars, gcVars
  <2>3. CASE Readable(h)
    <3> DEFINE w == [upload[u] EXCEPT
                       !.left = @ \ {h},
                       !.phase = IF upload[u].left = {h} THEN "manifest" ELSE @]
    <3>1. upload' = [upload EXCEPT ![u] = w]
      BY <1>5, <2>1, <2>3 DEF AssembleRead, TypeOK, Upload
    <3>2. /\ w.phase = IF upload[u].left = {h} THEN "manifest" ELSE "assemble"
          /\ w.content = upload[u].content
          /\ w.left = upload[u].left \ {h}
      BY <1>5, <2>1 DEF AssembleRead, Upload
    <3> HIDE DEF w
    <3>3. ChunksOf[w.content] \ w.left \subseteq rows \cup raced
      BY <1>0, <1>5, <2>3, <3>2 DEF AssembleRead, Backed, Readable
    <3>4. Backed(w, stored \cup raced, rows \cup raced)
      BY <3>2, <3>3 DEF Backed
    <3> QED BY <2>2, <3>1, <3>4, UploadKeepsSafe DEF ChunksSafe
  <2>4. CASE ~Readable(h)
    <3>1. upload' = [upload EXCEPT ![u] = Again(u)]
      BY <1>5, <2>4 DEF AssembleRead
    <3>2. Backed(Again(u), stored \cup raced, rows \cup raced)
      BY BegunIsBacked DEF Again
    <3> QED BY <2>2, <3>1, <3>2, UploadKeepsSafe DEF ChunksSafe
  <2> QED BY <2>3, <2>4
<1>6. ASSUME CommitManifest(u)
      PROVE  ChunksSafe'
  <2> DEFINE w == [upload[u] EXCEPT !.phase = "assemble",
                                    !.left = ChunksOf[upload[u].content]]
  <2>1. upload[u] \in Upload
    BY <1>6, UploadInProgress DEF CommitManifest
  <2>2. upload' = [upload EXCEPT ![u] = w]
    BY <1>6, <2>1 DEF CommitManifest, TypeOK, Upload
  <2>3. w.phase = "assemble" /\ w.left = ChunksOf[w.content]
    BY <2>1 DEF Upload
  <2> HIDE DEF w
  <2>4. Backed(w, stored \cup raced, rows \cup raced)
    BY <2>3 DEF Backed
  <2>5. UNCHANGED <<manifests, rows, stored, removing, backup, raced>>
    BY <1>6 DEF CommitManifest, chunkVars, gcVars
  <2> QED BY <2>2, <2>4, <2>5, UploadKeepsSafe DEF ChunksSafe
<1>7. ASSUME RecordManifest(u)
      PROVE  ChunksSafe'
  <2> DEFINE w == [upload[u] EXCEPT !.phase = "write"]
  <2>1. upload[u] \in Upload
    BY <1>7, UploadInProgress DEF RecordManifest
  <2>2. upload' = [upload EXCEPT ![u] = w]
    BY <1>7, <2>1 DEF RecordManifest, TypeOK, Upload
  <2>3. w.phase = "write"
    BY <2>1 DEF Upload
  <2> HIDE DEF w
  <2>4. Backed(w, stored \cup raced, rows \cup raced)
    BY <2>3 DEF Backed
  <2>5. /\ manifests' = manifests \cup {upload[u].content}
        /\ UNCHANGED <<rows, stored, removing, backup, raced>>
    BY <1>7 DEF RecordManifest, chunkVars, gcVars
  <2>6. ChunksOf[upload[u].content] \subseteq rows \cup raced
    BY <1>0, <1>7 DEF RecordManifest, Backed
  <2> QED BY <2>2, <2>4, <2>5, <2>6, UploadKeepsSafe DEF ChunksSafe
<1>8. ASSUME WriteFile(u)
      PROVE  ChunksSafe'
  <2>1. upload[u] \in Upload
    BY <1>8, UploadInProgress DEF WriteFile
  <2>2. PICK recorded \in BOOLEAN :
          upload' = [upload EXCEPT ![u].phase = "answer", ![u].recorded = recorded]
    BY <1>8, <2>1 DEF WriteFile, Upload
  <2> DEFINE w == [upload[u] EXCEPT !.phase = "answer", !.recorded = recorded]
  <2>3. upload' = [upload EXCEPT ![u] = w]
    BY <2>1, <2>2 DEF TypeOK, Upload
  <2>4. w.phase = "answer"
    BY <2>1 DEF Upload
  <2> HIDE DEF w
  <2>5. Backed(w, stored \cup raced, rows \cup raced)
    BY <2>4 DEF Backed
  <2>6. UNCHANGED <<manifests, rows, stored, removing, backup, raced>>
    BY <1>8 DEF WriteFile, chunkVars, gcVars
  <2> QED BY <2>3, <2>5, <2>6, UploadKeepsSafe DEF ChunksSafe
<1>9. ASSUME Answer(u)
      PROVE  ChunksSafe'
  <2>1. UNCHANGED <<manifests, rows, stored, removing, backup, raced>>
    BY <1>9 DEF Answer, chunkVars, gcVars
  <2>2. upload' = [upload EXCEPT ![u] = Idle]
    BY <1>9 DEF Answer
  <2> QED BY <2>1, <2>2, BegunIsBacked, UploadKeepsSafe DEF ChunksSafe
<1> QED
  BY <1>1, <1>2, <1>3, <1>4, <1>5, <1>6, <1>7, <1>8, <1>9 DEF UploadStep

\* A step that leaves the chunks, what relies on them and the backup alone.
LEMMA UnchangedSafe ==
    ASSUME ChunksSafe,
           UNCHANGED <<manifests, rows, stored, upload, removing, backup, raced>>
    PROVE  ChunksSafe'
BY DEF ChunksSafe, UploadsBacked, Backed, BackupAlone, BackupOnTheWay

\* A collection takes no row from a manifest that stays, and records those it
\* takes from a commit.
LEMMA ExecuteSafe ==
    ASSUME TypeOK, ChunksSafe, NEW plan \in plans, ExecuteGCPlan(plan)
    PROVE  ChunksSafe'
<1>1. /\ manifests' = ManifestsAfter(plan) /\ rows' = RowsAfter(plan)
      /\ raced' = raced \cup (ReliedOn \ RowsAfter(plan))
      /\ backup.left = {} /\ UNCHANGED <<stored, upload, backup>>
  BY DEF ExecuteGCPlan, Unlocked
<1>2. RowsAfter(plan) \subseteq rows
  BY DEF RowsAfter
<1>3. rows' \ stored' \subseteq raced'
  BY <1>1, <1>2 DEF ChunksSafe
<1>4. ASSUME NEW m \in manifests'
      PROVE  ChunksOf[m] \subseteq rows' \cup raced'
  <2>1. m \in manifests /\ ChunksOf[m] \subseteq ChunksIn(ManifestsAfter(plan))
    BY <1>1, <1>4 DEF ManifestsAfter, ChunksIn
  <2>2. ChunksOf[m] \subseteq rows \cup raced
    BY <2>1 DEF ChunksSafe
  <2> QED BY <1>1, <2>1, <2>2 DEF RowsAfter
<1>5. UploadsBacked'
  <2> SUFFICES ASSUME NEW u \in Clients
               PROVE  Backed(upload[u], stored \cup raced', rows' \cup raced')
    BY <1>1 DEF UploadsBacked
  <2>1. Backed(upload[u], stored \cup raced, rows \cup raced)
    BY DEF ChunksSafe, UploadsBacked
  <2>2. ASSUME upload[u].phase \in {"assemble", "manifest"}
        PROVE  ChunksOf[upload[u].content] \ upload[u].left \subseteq ReliedOn
    BY <2>2 DEF ReliedOn
  <2>3. ASSUME upload[u].phase \in {"assemble", "manifest"}
        PROVE  ChunksOf[upload[u].content] \ upload[u].left
                  \subseteq rows' \cup raced'
    BY <1>1, <2>2, <2>3
  <2>4. raced \subseteq raced'
    BY <1>1
  <2> QED BY <2>1, <2>3, <2>4 DEF Backed
<1>6. BackupAlone'
  BY <1>1 DEF BackupAlone
<1>7. BackupOnTheWay'
  BY <1>1 DEF ChunksSafe, BackupOnTheWay
<1> QED BY <1>3, <1>4, <1>5, <1>6, <1>7 DEF ChunksSafe

\* The removal of a file is recorded if a row or a put counts on it.
LEMMA RemoveSafe ==
    ASSUME TypeOK, ChunksSafe, NEW h \in Chunks, RemoveChunkFile(h)
    PROVE  ChunksSafe'
<1>1. /\ h \in removing /\ stored' = stored \ {h} /\ removing' = removing \ {h}
      /\ raced' = raced \cup ({h} \cap Recorded)
      /\ UNCHANGED <<manifests, rows, upload, backup>>
  BY DEF RemoveChunkFile
<1>2. rows' \ stored' \subseteq raced'
  BY <1>1 DEF ChunksSafe, Recorded
<1>3. \A m \in manifests' : ChunksOf[m] \subseteq rows' \cup raced'
  BY <1>1 DEF ChunksSafe
<1>4. UploadsBacked'
  <2> SUFFICES ASSUME NEW u \in Clients
               PROVE  Backed(upload[u], stored' \cup raced', rows \cup raced')
    BY <1>1 DEF UploadsBacked
  <2>1. Backed(upload[u], stored \cup raced, rows \cup raced)
    BY DEF ChunksSafe, UploadsBacked
  <2>2. ASSUME upload[u].phase = "put"
        PROVE  upload[u].existing \subseteq Recorded
    BY <2>2 DEF Recorded
  <2>3. ASSUME upload[u].phase = "put"
        PROVE  upload[u].existing \subseteq stored' \cup raced'
    BY <1>1, <2>1, <2>2, <2>3 DEF Backed
  <2>4. raced \subseteq raced'
    BY <1>1
  <2> QED BY <2>1, <2>3, <2>4 DEF Backed
<1>5. backup.left = {}
  BY <1>1 DEF ChunksSafe, BackupAlone
<1>6. BackupAlone' /\ BackupOnTheWay'
  BY <1>1, <1>5 DEF ChunksSafe, BackupAlone, BackupOnTheWay
<1> QED BY <1>2, <1>3, <1>4, <1>6 DEF ChunksSafe

\* A snapshot starts a backup, and the copies carry it on.
LEMMA BackupSafe ==
    ASSUME TypeOK, ChunksSafe,
           SnapshotDatabase \/ \E h \in Chunks : CopyChunkFile(h)
    PROVE  ChunksSafe'
<1>1. UNCHANGED <<manifests, rows, stored, upload, removing, raced>>
  BY DEF SnapshotDatabase, CopyChunkFile, chunkVars, gcVars
<1>2. CASE SnapshotDatabase
  <2>1. BackupAlone'
    BY <1>1, <1>2 DEF SnapshotDatabase, Unlocked, BackupAlone
  <2>2. BackupOnTheWay'
    BY <1>1, <1>2 DEF SnapshotDatabase, BackupOnTheWay, TypeOK
  <2> QED BY <1>1, <2>1, <2>2 DEF ChunksSafe, UploadsBacked, Backed
<1>3. ASSUME NEW h \in Chunks, CopyChunkFile(h)
      PROVE  ChunksSafe'
  <2>1. /\ h \in backup.left
        /\ backup'.taken = backup.taken /\ backup'.rows = backup.rows
        /\ backup'.lacking = backup.lacking
        /\ backup'.left = backup.left \ {h}
        /\ backup'.files = IF h \in stored THEN backup.files \cup {h}
                           ELSE backup.files
    BY <1>3 DEF CopyChunkFile, TypeOK, Backup
  <2>2. BackupAlone'
    BY <1>1, <2>1 DEF ChunksSafe, BackupAlone
  <2>3. BackupOnTheWay'
    BY <1>1, <2>1 DEF ChunksSafe, BackupOnTheWay
  <2> QED BY <1>1, <2>2, <2>3 DEF ChunksSafe, UploadsBacked, Backed
<1> QED BY <1>2, <1>3

\* After a crash every upload begins again.
LEMMA CrashSafe ==
    ASSUME TypeOK, ChunksSafe, Crash
    PROVE  ChunksSafe'
<1>1. /\ UNCHANGED <<manifests, rows, stored, raced>> /\ removing' = {}
      /\ backup' = IF backup.left = {} THEN backup ELSE NoBackup
  BY DEF Crash, chunkVars
<1>2. UploadsBacked'
  <2> SUFFICES ASSUME NEW u \in Clients
               PROVE  Backed(upload'[u], stored' \cup raced', rows' \cup raced')
    BY DEF UploadsBacked
  <2>1. upload'[u] = IF upload[u].phase = "idle" THEN Idle ELSE Again(u)
    BY DEF Crash
  <2> QED BY <2>1, BegunIsBacked DEF Again
<1>3. BackupAlone' /\ BackupOnTheWay'
  BY <1>1 DEF ChunksSafe, BackupAlone, BackupOnTheWay, NoBackup
<1> QED BY <1>1, <1>2, <1>3 DEF ChunksSafe

\* An upload relies on nothing yet when it begins, begins again or ends.
LEMMA ClientSafe ==
    ASSUME TypeOK, ChunksSafe, NEW u \in Clients,
           StartUpload(u) \/ LoseConnection(u) \/ Abandon(u)
    PROVE  ChunksSafe'
<1>1. UNCHANGED <<manifests, rows, stored, removing, backup, raced>>
  BY DEF StartUpload, LoseConnection, Abandon, chunkVars, gcVars
<1>2. CASE StartUpload(u)
  <2>1. PICK p \in Paths, c \in Contents :
          upload' = [upload EXCEPT ![u] = Begun(p, files[p].rev, c, FALSE)]
    BY <1>2 DEF StartUpload
  <2> QED BY <1>1, <2>1, BegunIsBacked, UploadKeepsSafe DEF ChunksSafe
<1>3. CASE LoseConnection(u)
  <2>1. upload' = [upload EXCEPT ![u] = Again(u)]
    BY <1>3 DEF LoseConnection
  <2>2. Backed(Again(u), stored \cup raced, rows \cup raced)
    BY BegunIsBacked DEF Again
  <2> QED BY <1>1, <2>1, <2>2, UploadKeepsSafe DEF ChunksSafe
<1>4. CASE Abandon(u)
  <2>1. upload' = [upload EXCEPT ![u] = Idle]
    BY <1>4 DEF Abandon
  <2> QED BY <1>1, <2>1, BegunIsBacked, UploadKeepsSafe DEF ChunksSafe
<1> QED BY <1>2, <1>3, <1>4

\* ChunksSafe is inductive, given the types.
LEMMA SafeStep ==
    ASSUME TypeOK, ChunksSafe, [Next]_vars
    PROVE  ChunksSafe'
<1>1. CASE UNCHANGED vars
  BY <1>1, UnchangedSafe DEF vars
<1>2. ASSUME NEW u \in Clients,
             StartUpload(u) \/ UploadStep(u) \/ LoseConnection(u) \/ Abandon(u)
      PROVE  ChunksSafe'
  BY <1>2, ClientSafe, UploadStepSafe
<1>3. ASSUME NEW p \in Paths, Mutate(p)
      PROVE  ChunksSafe'
  BY <1>3, UnchangedSafe DEF Mutate, DeleteFile, Restore, chunkVars, gcVars
<1>4. CASE WeekPasses
  BY <1>4, UnchangedSafe DEF WeekPasses, gcVars
<1>5. CASE PlanRevisions \/ PlanContents \/ PlanManifests \/ PlanOrphans
  BY <1>5, UnchangedSafe
     DEF PlanRevisions, PlanContents, PlanManifests, PlanOrphans, chunkVars
<1>6. CASE Maintain
  BY <1>5, <1>6, ExecuteSafe, RemoveSafe, BackupSafe DEF Maintain
<1>7. CASE Crash
  BY <1>7, CrashSafe
<1> QED BY <1>1, <1>2, <1>3, <1>4, <1>6, <1>7 DEF Next

\* Both hold of the empty store.
LEMMA InitSafe == Init => TypeOK /\ ChunksSafe
<1> SUFFICES ASSUME Init
             PROVE  TypeOK /\ ChunksSafe
  OBVIOUS
<1>1. TypeOK
  BY DEF Init, TypeOK, NoRow, Content, Builder, Backup, NoBackup
<1>2. UploadsBacked
  BY BegunIsBacked DEF Init, UploadsBacked
<1>3. BackupAlone /\ BackupOnTheWay
  BY DEF Init, BackupAlone, BackupOnTheWay, NoBackup
<1> QED BY <1>1, <1>2, <1>3 DEF Init, ChunksSafe

\* Every chunk of a manifest has its row and its file, unless a collection took
\* it while a commit or a put relied on it.
THEOREM ManifestsAreWhole == Spec => []ManifestsWhole
<1>1. ChunksSafe => ManifestsWhole
  BY DEF ChunksSafe, ManifestsWhole
<1> QED BY <1>1, InitSafe, TypeStep, SafeStep, PTL DEF Spec

\* A row has its file, unless a collection removed it after a put had found it.
THEOREM NoChunkIsMissing == Spec => []NoMissingChunk
<1>1. ChunksSafe => NoMissingChunk
  BY DEF ChunksSafe, NoMissingChunk, MissingChunkHashes
<1> QED BY <1>1, InitSafe, TypeStep, SafeStep, PTL DEF Spec

\* A complete backup has every file that its database names and the server had.
THEOREM BackupIsComplete == Spec => []BackupComplete
<1>1. ChunksSafe => BackupComplete
  BY DEF ChunksSafe, BackupComplete, BackupOnTheWay
<1> QED BY <1>1, InitSafe, TypeStep, SafeStep, PTL DEF Spec

-----------------------------------------------------------------------------
(* What the document says of current files holds on a quiet server.        *)

\* While a collection removes chunks, no client uploads.
QuietStep ==
    removing # {} \/ removing' # {} =>
        \A u \in Clients : upload[u].phase = "idle" /\ upload'[u].phase = "idle"

\* Then nothing is collected under anyone, and what is removed has no row.
QuietInv == raced = {} /\ removing \cap rows = {}

\* Only a put adds a row, and only a collection removes chunks.
LEMMA QuietKept ==
    ASSUME TypeOK, ChunksSafe, QuietInv, [Next /\ QuietStep]_vars
    PROVE  QuietInv'
<1>1. CASE UNCHANGED vars
  BY <1>1 DEF QuietInv, vars
<1>2. ASSUME QuietStep, NEW u \in Clients, UploadStep(u)
      PROVE  QuietInv'
  <2>1. removing' = removing /\ raced' \subseteq raced
    BY <1>2 DEF UploadStep, MissingChunks, PutChunkRead, PutChunkInstall,
       PutChunkRecord, AssembleRead, CommitManifest, RecordManifest, WriteFile,
       Answer, gcVars
  <2>2. upload[u].phase # "idle"
    BY <1>2 DEF UploadStep, MissingChunks, PutChunkRead, PutChunkInstall,
       PutChunkRecord, AssembleRead, CommitManifest, RecordManifest, WriteFile,
       Answer
  <2>3. removing = {}
    BY <1>2, <2>2 DEF QuietStep
  <2> QED BY <2>1, <2>3 DEF QuietInv
<1>3. ASSUME QuietStep, NEW plan \in plans, ExecuteGCPlan(plan)
      PROVE  QuietInv'
  <2>1. /\ rows' = RowsAfter(plan) /\ removing' = rows \ RowsAfter(plan)
        /\ raced' = raced \cup (ReliedOn \ RowsAfter(plan))
    BY <1>3 DEF ExecuteGCPlan
  <2>2. ReliedOn \subseteq rows
    <3> SUFFICES ASSUME NEW u \in Clients,
                        upload[u].phase \in {"assemble", "manifest"}
                 PROVE  ChunksOf[upload[u].content] \ upload[u].left \subseteq rows
      BY DEF ReliedOn
    <3>1. Backed(upload[u], stored \cup raced, rows \cup raced)
      BY DEF ChunksSafe, UploadsBacked
    <3> QED BY <3>1 DEF Backed, QuietInv
  <2>3. CASE removing' = {}
    BY <2>1, <2>2, <2>3 DEF QuietInv
  <2>4. CASE removing' # {}
    <3>1. ReliedOn = {}
      BY <1>3, <2>4 DEF QuietStep, ReliedOn
    <3> QED BY <2>1, <3>1 DEF QuietInv
  <2> QED BY <2>3, <2>4
<1>4. ASSUME QuietStep, NEW h \in Chunks, RemoveChunkFile(h)
      PROVE  QuietInv'
  <2>1. /\ h \in removing /\ removing' = removing \ {h} /\ rows' = rows
        /\ raced' = raced \cup ({h} \cap Recorded)
    BY <1>4 DEF RemoveChunkFile
  <2>2. Recorded = rows
    BY <1>4, <2>1 DEF QuietStep, Recorded
  <2> QED BY <2>1, <2>2 DEF QuietInv
<1>5. ASSUME NEW u \in Clients,
             StartUpload(u) \/ LoseConnection(u) \/ Abandon(u)
      PROVE  QuietInv'
  BY <1>5 DEF QuietInv, StartUpload, LoseConnection, Abandon, gcVars, chunkVars
<1>6. ASSUME NEW p \in Paths, Mutate(p)
      PROVE  QuietInv'
  BY <1>6 DEF QuietInv, Mutate, DeleteFile, Restore, gcVars, chunkVars
<1>7. CASE WeekPasses \/ Crash
  BY <1>7 DEF QuietInv, WeekPasses, Crash, gcVars, chunkVars
<1>8. CASE \/ PlanRevisions \/ PlanContents \/ PlanManifests \/ PlanOrphans
           \/ SnapshotDatabase \/ \E h \in Chunks : CopyChunkFile(h)
  BY <1>8 DEF QuietInv, PlanRevisions, PlanContents, PlanManifests, PlanOrphans,
     SnapshotDatabase, CopyChunkFile, gcVars, chunkVars
<1> QED
  BY <1>1, <1>2, <1>3, <1>4, <1>5, <1>6, <1>7, <1>8 DEF Next, Maintain

\* The chunks that a current file refers to are kept, whatever plans wait and
\* whatever is lost or crashes, if no client uploads while chunks are removed.
THEOREM CurrentChunksAreKeptIfQuiet ==
    Spec /\ [][QuietStep]_vars => []CurrentChunksKept
<1>1. Init => QuietInv
  BY DEF Init, QuietInv
<1>2. TypeOK /\ ChunksSafe /\ QuietInv /\ [Next]_vars /\ [QuietStep]_vars
        => QuietInv'
  BY QuietKept
<1>3. TypeOK /\ ChunksSafe /\ QuietInv => CurrentChunksKept
  <2> SUFFICES ASSUME TypeOK, ChunksSafe, QuietInv, NEW p \in Paths,
                      files[p].content \in manifests
               PROVE  ChunksOf[files[p].content] \subseteq rows \cap stored
    BY DEF CurrentChunksKept
  <2> QED BY DEF ChunksSafe, QuietInv
<1> QED BY <1>1, <1>2, <1>3, InitSafe, TypeStep, SafeStep, PTL DEF Spec

=============================================================================
