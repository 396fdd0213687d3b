----------------------------- MODULE ChunkStore -----------------------------
(***************************************************************************)
(* The chunk store of the server (internal/store/chunks.go): a large file  *)
(* is uploaded as chunks, each a file on disk and a row of the database,   *)
(* and committed with a manifest that lists them.  Garbage collection      *)
(* takes manifests, rows and files away, a backup copies them.             *)
(*                                                                         *)
(* A statement or a transaction of SQLite is one action (one connection),  *)
(* and so is a step on the file tree.  An upload, the building of a plan,  *)
(* its execution and a backup are made of many of these and hold no lock   *)
(* in common: the maintenance mutex orders plans, executions and backups,  *)
(* and no upload takes it.                                                 *)
(*                                                                         *)
(* VaultStore has the change log in full.  Here it is what the chunks need *)
(* of it: which contents it refers to, and which revisions a plan may take *)
(* when everything up to some revision is old and acknowledged.            *)
(***************************************************************************)
EXTENDS Naturals, FiniteSets

CONSTANTS
    Clients,        \* devices that upload
    Paths,          \* paths of large files
    Contents,       \* contents larger than one chunk
    Deleted,        \* the content of a tombstone
    Chunks,         \* SHA-256 of chunks
    ChunksOf,       \* the chunks that a content splits into
    KeepVersions,   \* keep_versions of a GC plan
    MaxRevision,    \* bound: revisions issued in a behaviour
    MaxPlans,       \* bound: plans built in a behaviour
    MaxFailures     \* bound: calls that fail, and crashes, in a behaviour

ASSUME ChunkAssumption ==
    /\ IsFiniteSet(Chunks)
    /\ ChunksOf \in [Contents -> (SUBSET Chunks) \ {{}}]
    /\ Deleted \notin Contents
    /\ KeepVersions \in Nat \ {0}
    /\ MaxRevision \in Nat
    /\ MaxPlans \in Nat
    /\ MaxFailures \in Nat

VARIABLES
    seq,        \* last value given out by changes.seq AUTOINCREMENT
    changes,    \* table changes: path and content of the retained revisions
    files,      \* table files
    manifests,  \* table manifests: the contents that have one
    rows,       \* table chunks: the hashes that have a row
    aged,       \* rows whose created_at is more than seven days ago
    stored,     \* intact files in the chunk tree; a corrupt one counts as none
    upload,     \* per client, the upload in progress
    builder,    \* the call of BuildGCPlan in progress
    plans,      \* table gc_plans: the pending plans
    built,      \* plans built so far
    removing,   \* chunks whose files ExecuteGCPlan has still to remove
    backup,     \* the backup made or in progress
    failures,   \* failures so far
    raced       \* history: chunks collected while an upload relied on them, and
                \* not put in order since

vars == <<seq, changes, files, manifests, rows, aged, stored, upload, builder,
          plans, built, removing, backup, failures, raced>>

logVars == <<seq, changes, files>>
gcVars == <<builder, plans, built, removing>>
chunkVars == <<rows, aged, stored>>

-----------------------------------------------------------------------------

Content == Contents \cup {Deleted}

Change == [rev : Nat, path : Paths, content : Content]

NoRow == [rev |-> 0, content |-> Deleted]

\* phase: idle; query (missingChunks); put (putChunk, several at once);
\* assemble (commitManifest reads the chunks); manifest, write (its INSERT and
\* its mutation); answer.  left: the chunks still to be looked up or read.
\* missing: those to be sent; existing, installing: those whose PutChunk found
\* an intact file or none.  recorded: the operation has its result stored.
Upload == [phase : {"query", "put", "assemble", "manifest", "write", "answer"},
           path : Paths, base : Nat, content : Contents, left : SUBSET Chunks,
           missing : SUBSET Chunks, existing : SUBSET Chunks,
           installing : SUBSET Chunks, recorded : BOOLEAN]

Idle == [phase |-> "idle"]

Plan == [revs : SUBSET Nat, paths : SUBSET Paths, contents : SUBSET Contents,
         chunks : SUBSET Chunks]

Builder == [phase : {"revisions", "contents", "manifests"}, plan : Plan,
            used : SUBSET Chunks] \cup {Idle}

\* lacking is history: the rows that had no file when the snapshot was taken.
Backup == [taken : BOOLEAN, rows : SUBSET Chunks, files : SUBSET Chunks,
           left : SUBSET Chunks, lacking : SUBSET Chunks]

NoBackup == [taken |-> FALSE, rows |-> {}, files |-> {}, left |-> {},
             lacking |-> {}]

Init ==
    /\ seq = 0
    /\ changes = {}
    /\ files = [p \in Paths |-> NoRow]
    /\ manifests = {}
    /\ rows = {}
    /\ aged = {}
    /\ stored = {}
    /\ upload = [u \in Clients |-> Idle]
    /\ builder = Idle
    /\ plans = {}
    /\ built = 0
    /\ removing = {}
    /\ backup = NoBackup
    /\ failures = 0
    /\ raced = {}

\* The uploads in progress that may still need a revision.
Pending == {u \in Clients : upload[u].phase # "idle" /\ ~upload[u].recorded}

Room == seq + Cardinality(Pending) < MaxRevision

NewRevision(p, c) ==
    /\ seq' = seq + 1
    /\ changes' = changes \cup {[rev |-> seq + 1, path |-> p, content |-> c]}
    /\ files' = [files EXCEPT ![p] = [rev |-> seq + 1, content |-> c]]

-----------------------------------------------------------------------------
(* An upload: the client's calls and the server's steps of each.           *)

\* What an upload that starts, or starts again after a failure, has before it.
Begun(p, base, c, recorded) ==
    [phase |-> "query", path |-> p, base |-> base, content |-> c,
     left |-> ChunksOf[c], missing |-> {}, existing |-> {}, installing |-> {},
     recorded |-> recorded]

Again(u) ==
    Begun(upload[u].path, upload[u].base, upload[u].content, upload[u].recorded)

StartUpload(u) ==
    /\ upload[u].phase = "idle"
    /\ Room
    /\ \E p \in Paths, c \in Contents :
          /\ files[p].content # c
          /\ upload' = [upload EXCEPT ![u] = Begun(p, files[p].rev, c, FALSE)]
    /\ UNCHANGED <<logVars, manifests, chunkVars, gcVars, backup, failures, raced>>

\* Mutant: a chunk with a row is not missing, whatever is on disk.
PresentByRow(h) == h \in rows

\* GetChunk: the row is there, and an intact file.
Readable(h) == h \in rows /\ h \in stored

\* MissingChunks takes the same view: the row is there, and an intact file.
Present(h) == h \in rows /\ h \in stored

\* MissingChunks looks at one hash after the other.
MissingChunks(u, h) ==
    /\ upload[u].phase = "query"
    /\ h \in upload[u].left
    /\ upload' = [upload EXCEPT
          ![u].left = @ \ {h},
          ![u].missing = IF Present(h) THEN @ ELSE @ \cup {h},
          ![u].phase = IF upload[u].left = {h} THEN "put" ELSE @]
    /\ UNCHANGED <<logVars, manifests, chunkVars, gcVars, backup, failures, raced>>

Unsent(u) == upload[u].missing \ (upload[u].existing \cup upload[u].installing)

\* PutChunk reads the file that may be there.
PutChunkRead(u, h) ==
    /\ upload[u].phase = "put"
    /\ h \in Unsent(u)
    /\ upload' = IF h \in stored
                 THEN [upload EXCEPT ![u].existing = @ \cup {h}]
                 ELSE [upload EXCEPT ![u].installing = @ \cup {h}]
    /\ UNCHANGED <<logVars, manifests, chunkVars, gcVars, backup, failures, raced>>

\* PutChunk writes a temporary file and renames it to its place.
PutChunkInstall(u, h) ==
    /\ upload[u].phase = "put"
    /\ h \in upload[u].installing
    /\ stored' = stored \cup {h}
    /\ upload' = [upload EXCEPT ![u].installing = @ \ {h},
                                ![u].existing = @ \cup {h}]
    /\ UNCHANGED <<logVars, manifests, rows, aged, gcVars, backup, failures, raced>>

\* Mutant: the row is written before the file is in its place.
RecordableEarly(u) == upload[u].existing \cup upload[u].installing

Recordable(u) == upload[u].existing

\* recordChunk; the created_at of a row that exists stays what it was.
PutChunkRecord(u, h) ==
    /\ upload[u].phase = "put"
    /\ h \in Recordable(u)
    /\ rows' = rows \cup {h}
    /\ upload' = [upload EXCEPT ![u].existing = @ \ {h},
                                ![u].missing = @ \ {h}]
    /\ raced' = raced \ ({h} \cap stored)
    /\ UNCHANGED <<logVars, manifests, aged, stored, gcVars, backup, failures>>

\* commitManifest.  The limits of CheckCommitAllowed are not set here.
CommitManifest(u) ==
    /\ upload[u].phase = "put"
    /\ upload[u].missing = {}
    /\ upload' = [upload EXCEPT ![u].phase = "assemble",
                                ![u].left = ChunksOf[upload[u].content]]
    /\ UNCHANGED <<logVars, manifests, chunkVars, gcVars, backup, failures, raced>>

\* AssembleChunks reads the chunks one by one.  One that it cannot read ends
\* the call and the client's run, and a later run starts the upload again.
AssembleRead(u, h) ==
    /\ upload[u].phase = "assemble"
    /\ h \in upload[u].left
    /\ upload' = IF Readable(h)
                 THEN [upload EXCEPT
                         ![u].left = @ \ {h},
                         ![u].phase = IF upload[u].left = {h} THEN "manifest" ELSE @]
                 ELSE [upload EXCEPT ![u] = Again(u)]
    /\ UNCHANGED <<logVars, manifests, chunkVars, gcVars, backup, failures, raced>>

\* AssembleChunks, INSERT INTO manifests ... DO NOTHING: a statement of its own,
\* before the transaction of the mutation.
RecordManifest(u) ==
    /\ upload[u].phase = "manifest"
    /\ manifests' = manifests \cup {upload[u].content}
    /\ upload' = [upload EXCEPT ![u].phase = "write"]
    /\ UNCHANGED <<logVars, chunkVars, gcVars, backup, failures, raced>>

\* PutWithOperation: the result of an earlier try, a path that already has the
\* content, a conflict (the client goes on with the other version), or a new
\* revision.
WriteFile(u) ==
    LET w == upload[u]
        so == w.recorded \/ files[w.path].content = w.content
    IN  /\ w.phase = "write"
        /\ \/ /\ so \/ files[w.path].rev # w.base
              /\ UNCHANGED logVars
              /\ upload' = [upload EXCEPT ![u].phase = "answer",
                                          ![u].recorded = so]
           \/ /\ ~so /\ files[w.path].rev = w.base
              /\ NewRevision(w.path, w.content)
              /\ upload' = [upload EXCEPT ![u].phase = "answer",
                                          ![u].recorded = TRUE]
    /\ UNCHANGED <<manifests, chunkVars, gcVars, backup, failures, raced>>

Answer(u) ==
    /\ upload[u].phase = "answer"
    /\ upload' = [upload EXCEPT ![u] = Idle]
    /\ UNCHANGED <<logVars, manifests, chunkVars, gcVars, backup, failures, raced>>

\* The connection is lost: the handlers' contexts are cancelled, wherever they
\* are, and the client starts again in a later run.
LoseConnection(u) ==
    /\ upload[u].phase # "idle"
    /\ failures < MaxFailures
    /\ failures' = failures + 1
    /\ upload' = [upload EXCEPT ![u] = Again(u)]
    /\ UNCHANGED <<logVars, manifests, chunkVars, gcVars, backup, raced>>

\* At the start of a later run the file has another content, or is gone.
Abandon(u) ==
    /\ upload[u].phase = "query"
    /\ upload[u].left = ChunksOf[upload[u].content]
    /\ upload' = [upload EXCEPT ![u] = Idle]
    /\ UNCHANGED <<logVars, manifests, chunkVars, gcVars, backup, failures, raced>>

-----------------------------------------------------------------------------
(* Other mutations: they write no chunk and no manifest.                   *)

DeleteFile(p) ==
    /\ Room
    /\ files[p].content # Deleted
    /\ NewRevision(p, Deleted)
    /\ UNCHANGED <<manifests, chunkVars, upload, gcVars, backup, failures, raced>>

\* A restore, and in the same way a rename, refers again to a retained content.
Restore(p) ==
    /\ Room
    /\ \E c \in changes : /\ c.path = p
                          /\ c.content \notin {Deleted, files[p].content}
                          /\ NewRevision(p, c.content)
    /\ UNCHANGED <<manifests, chunkVars, upload, gcVars, backup, failures, raced>>

\* Seven days pass: the client may be away for that long, no call takes so long.
WeekPasses ==
    /\ \A u \in Clients : upload[u].phase \in {"idle", "query"}
    /\ builder = Idle /\ removing = {} /\ backup.left = {}
    /\ aged # rows
    /\ aged' = rows
    /\ UNCHANGED <<logVars, manifests, rows, stored, upload, gcVars, backup,
                   failures, raced>>

-----------------------------------------------------------------------------
(* Garbage collection and backup (maintenance.go).                         *)

\* Mutant: plans are executed while a backup copies the files.
UnlockedByBackup == builder = Idle /\ removing = {}

\* The maintenance mutex is free.
Unlocked == builder = Idle /\ backup.left = {} /\ removing = {}

Newer(c) == {e \in changes : e.path = c.path /\ e.rev > c.rev}

Tombstones(safe) ==
    {c \in changes : c.rev <= safe /\ Newer(c) = {} /\ c.content = Deleted}

\* The rows of the ranked query and the history of the deleted paths.  safe:
\* what every device acknowledged and is older than the retention time.
Collectable(safe) ==
    {c \in changes :
        /\ c.rev <= safe
        /\ \/ Cardinality(Newer(c)) >= KeepVersions
           \/ \E t \in Tombstones(safe) : t.path = c.path}

\* BuildGCPlan, the queries for revisions: VaultStore has them one by one.
PlanRevisions ==
    /\ Unlocked
    /\ built < MaxPlans
    /\ built' = built + 1
    /\ \E safe \in 1..seq :
          builder' = [phase |-> "revisions", used |-> {},
                      plan |-> [revs |-> {c.rev : c \in Collectable(safe)},
                                paths |-> {c.path : c \in Tombstones(safe)},
                                contents |-> {}, chunks |-> {}]]
    /\ UNCHANGED <<logVars, manifests, chunkVars, upload, plans, removing, backup,
                   failures, raced>>

\* Mutant: the query takes the changes that have no content, the tombstones.
OnlyInWithTombstones(revs) ==
    {x \in Content : /\ \E c \in changes : c.content = x
                     /\ \A c \in changes : c.content = x => c.rev \in revs}

\* The contents all of whose changes are in the plan.
OnlyIn(revs) ==
    {x \in Contents : /\ \E c \in changes : c.content = x
                      /\ \A c \in changes : c.content = x => c.rev \in revs}

PlanContents ==
    /\ builder.phase = "revisions"
    /\ builder' = [builder EXCEPT
          !.phase = "contents", !.plan.contents = OnlyIn(builder.plan.revs)]
    /\ UNCHANGED <<logVars, manifests, chunkVars, upload, plans, built, removing,
                   backup, failures, raced>>

ChunksIn(ms) == UNION {ChunksOf[m] : m \in ms}

\* SELECT ... FROM manifests: the chunks of the plan's manifests alone.
PlanManifests ==
    /\ builder.phase = "contents"
    /\ builder' = [builder EXCEPT
          !.phase = "manifests",
          !.used = ChunksIn(manifests),
          !.plan.chunks = ChunksIn(manifests)
                            \ ChunksIn(manifests \ builder.plan.contents)]
    /\ UNCHANGED <<logVars, manifests, chunkVars, upload, plans, built, removing,
                   backup, failures, raced>>

\* SELECT ... FROM chunks WHERE created_at<?, and saveGCPlan.
PlanOrphans ==
    /\ builder.phase = "manifests"
    /\ plans' = plans \cup
          {[builder.plan EXCEPT !.chunks = @ \cup (aged \ builder.used)]}
    /\ builder' = Idle
    /\ UNCHANGED <<logVars, manifests, chunkVars, upload, built, removing, backup,
                   failures, raced>>

Survivors(plan) == {c \in changes : c.rev \notin plan.revs}

\* DELETE FROM manifests ... AND NOT EXISTS(a change that refers to it).
ManifestsAfter(plan) ==
    {m \in manifests : m \in plan.contents =>
                          \E c \in Survivors(plan) : c.content = m}

\* Mutant: the chunks of the plan go without looking for manifests again.
RowsUnguarded(plan) == rows \ plan.chunks

\* DELETE FROM chunks ... AND NOT EXISTS(a manifest that lists it).
RowsAfter(plan) == rows \ (plan.chunks \ ChunksIn(ManifestsAfter(plan)))

\* The age goes with the row.
AgedAfter(plan) == aged \cap RowsAfter(plan)

\* The chunks that a commit in progress has read and relies on.
ReliedOn ==
    UNION {ChunksOf[upload[u].content] \ upload[u].left :
              u \in {v \in Clients : upload[v].phase \in {"assemble", "manifest"}}}

\* ExecuteGCPlan up to COMMIT.
ExecuteGCPlan(plan) ==
    /\ Unlocked
    /\ plan \in plans
    /\ plans' = plans \ {plan}
    /\ changes' = Survivors(plan)
    /\ files' = [p \in Paths |->
                    IF p \in plan.paths /\ files[p].content = Deleted
                    THEN NoRow ELSE files[p]]
    /\ manifests' = ManifestsAfter(plan)
    /\ rows' = RowsAfter(plan)
    /\ aged' = AgedAfter(plan)
    /\ removing' = rows \ RowsAfter(plan)
    /\ raced' = raced \cup (ReliedOn \ RowsAfter(plan))
    /\ UNCHANGED <<seq, stored, upload, builder, built, backup, failures>>

\* The chunks whose row was written, or is about to be, on account of a file.
Recorded == rows \cup UNION {upload[u].existing :
                                u \in {v \in Clients : upload[v].phase = "put"}}

\* ExecuteGCPlan after COMMIT: os.Remove, one file after the other.
RemoveChunkFile(h) ==
    /\ h \in removing
    /\ stored' = stored \ {h}
    /\ removing' = removing \ {h}
    /\ raced' = raced \cup ({h} \cap Recorded)
    /\ UNCHANGED <<logVars, manifests, rows, aged, upload, builder, plans, built,
                   backup, failures>>

\* Backup, VACUUM INTO.
SnapshotDatabase ==
    /\ Unlocked
    /\ ~backup.taken
    /\ backup' = [taken |-> TRUE, rows |-> rows, files |-> {}, left |-> Chunks,
                  lacking |-> rows \ stored]
    /\ UNCHANGED <<logVars, manifests, chunkVars, upload, gcVars, failures, raced>>

\* Backup, copyTree: each file that the walk comes to.
CopyChunkFile(h) ==
    /\ h \in backup.left
    /\ backup' = [backup EXCEPT
          !.left = @ \ {h},
          !.files = IF h \in stored THEN @ \cup {h} ELSE @]
    /\ UNCHANGED <<logVars, manifests, chunkVars, upload, gcVars, failures, raced>>

\* The server stops and starts again: no call survives it, and a backup that
\* was not complete has no backup.json.
Crash ==
    /\ failures < MaxFailures
    /\ failures' = failures + 1
    /\ upload' = [u \in Clients |->
                     IF upload[u].phase = "idle" THEN Idle ELSE Again(u)]
    /\ builder' = Idle
    /\ removing' = {}
    /\ backup' = IF backup.left = {} THEN backup ELSE NoBackup
    /\ UNCHANGED <<logVars, manifests, chunkVars, plans, built, raced>>

-----------------------------------------------------------------------------

\* The steps of an upload that its client and the server keep taking.
UploadStep(u) ==
    \/ \E h \in Chunks :
          \/ MissingChunks(u, h)
          \/ PutChunkRead(u, h) \/ PutChunkInstall(u, h) \/ PutChunkRecord(u, h)
          \/ AssembleRead(u, h)
    \/ CommitManifest(u)
    \/ RecordManifest(u)
    \/ WriteFile(u)
    \/ Answer(u)

Mutate(p) == DeleteFile(p) \/ Restore(p)

Maintain ==
    \/ PlanRevisions \/ PlanContents \/ PlanManifests \/ PlanOrphans
    \/ \E plan \in plans : ExecuteGCPlan(plan)
    \/ SnapshotDatabase
    \/ \E h \in Chunks : RemoveChunkFile(h) \/ CopyChunkFile(h)

Next ==
    \/ \E u \in Clients :
          StartUpload(u) \/ UploadStep(u) \/ LoseConnection(u) \/ Abandon(u)
    \/ \E p \in Paths : Mutate(p)
    \/ WeekPasses
    \/ Maintain
    \/ Crash

Spec == Init /\ [][Next]_vars

FairSpec == Spec /\ \A u \in Clients : WF_vars(UploadStep(u))

-----------------------------------------------------------------------------
(* Doctor, on a server at rest.                                            *)

MissingChunkHashes == rows \ stored

OrphanChunkFiles == stored \ rows

-----------------------------------------------------------------------------
(* Properties.                                                             *)

TypeOK ==
    /\ seq \in Nat
    /\ changes \subseteq Change
    /\ files \in [Paths -> [rev : Nat, content : Content]]
    /\ manifests \subseteq Contents
    /\ rows \subseteq Chunks
    /\ aged \subseteq rows
    /\ stored \subseteq Chunks
    /\ upload \in [Clients -> Upload \cup {Idle}]
    /\ builder \in Builder
    /\ plans \subseteq Plan
    /\ built \in Nat
    /\ removing \subseteq Chunks
    /\ backup \in Backup
    /\ failures \in Nat
    /\ raced \subseteq Chunks

\* Every chunk that a manifest lists has its row and its file, so what has a
\* manifest can be downloaded through it, unless a collection took that chunk
\* while a commit that had read it, or a put that had found its file, was under
\* way, and nobody has uploaded it since: losses of connection, crashes, stale
\* plans and shared chunks do no harm.
ManifestsWhole ==
    \A m \in manifests : ChunksOf[m] \subseteq (rows \cap stored) \cup raced

\* The doctor of a server at rest finds no row without its file, unless a
\* collection removed the file after a put had found it: a put or a collection
\* that is cut short at any step leaves at most a file without a row.
NoMissingChunk == MissingChunkHashes \subseteq raced

\* A complete backup has the file of every chunk whose row is in its copy of
\* the database, if the server had it at the snapshot, though chunks arrive and
\* plans wait to be executed while the tree is copied.
BackupComplete ==
    backup.taken /\ backup.left = {} =>
        backup.rows \subseteq backup.files \cup backup.lacking

\* An upload that the client goes on with comes to an end, also when the
\* collector takes its chunks between the query and the commit: what the commit
\* cannot read, the query of the next run reports as missing.
UploadsEnd ==
    \A u \in Clients : upload[u].phase # "idle" ~> upload[u].phase = "idle"

-----------------------------------------------------------------------------
(* What a document says, and the code does not hold to.                    *)

\* ARCHITECTURE.md: a plan considers the Blob, the Manifest and the Chunks that
\* a current file still refers to.
CurrentChunksKept ==
    \A p \in Paths : files[p].content \in manifests =>
        ChunksOf[files[p].content] \subseteq rows \cap stored

=============================================================================
