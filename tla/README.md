# Formal verification of Sync Tunnel

TLA+ models of this repository's synchronisation service and client, the TLC
configurations that check them and TLAPS proofs of the properties that matter
most. Paths below are relative to the repository.

## 1. The system

A server (Go, SQLite) keeps one change log per vault. An Obsidian plugin
(TypeScript) on each device pushes local changes with the revision they are
based on, pulls the log from its cursor, and acknowledges what it has saved.
An administrator pairs and retires devices, collects garbage, makes backups.

| Component | State | Operations | Hard behaviour |
|---|---|---|---|
| Vault store (`internal/store/store.go`, `rename.go`, `batch.go`) | tables `files`, `changes`, `blobs`, `operations` | PUT, DELETE, rename, batch delete; changes, snapshot, blob, operation lookup | optimistic locking, retries, several revisions in one transaction |
| History (`history.go`) | a mark in `changes` | list, restore | restore is three steps: read, put, mark |
| Garbage collection (`maintenance.go`) | table `gc_plans` | build a plan, execute it | three queries without a transaction; a plan is executed any time later |
| Devices and identity (`identity.go`) | `devices`, `auth_tokens`, `pairing_codes`, `audit_events` | pair, authenticate, rotate, retire, revoke, acknowledge | a request authenticated before a revocation; a lost answer to a rotation |
| Chunk store (`chunks.go`) | `chunks`, `manifests`, files on disk | put, get, missing, assemble, commit manifest | files and rows are not written together; collection and backup run beside uploads |
| Limits (`limits.go`) | none of its own | check before a write | checked outside the transaction, and before the lookup of a retry |
| Backup and doctor (`maintenance.go`) | `backup_runs`, files | backup, verify, restore, doctor | database and chunk tree are copied one after the other |
| Public API (`internal/httpapi`) | rate limiter's buckets | one store operation per request | the limiter's window |
| Admin API (`internal/httpapi/admin*.go`) | doctor's result cache | one store operation per request | many callers, one run |
| Scanner (`plugin/src/vault-scanner.ts`, `path.ts`) | the cache of hashes, queued paths, the rules of the last run | full or partial scan, reuse of hashes, exclusion by pattern and profile | a file is examined and read at two moments; rules change during a run; a scan passes by whole folders |
| Plugin lifecycle (`plugin/src/main.ts`, `data.ts`, `initial-sync*.ts`) | `data.json`, the secret storage, the run in progress, the request to cancel | load, unload, migrate, pair, rotate, preview, approve, pause, cancel, run | unloading stops no run; pairing and rotation beside a run; an old preview approved |
| Sync engine (`plugin/src/sync-engine.ts`) | file states, cursor, outbox, inbox, queued paths and renames | one run: recover, reconcile, rename, push, pull, acknowledge | user edits and crashes between any two steps, lost answers |
| API client (`plugin/src/api-client.ts`) | none | requests, three attempts | the answer to a committed request may be lost; an attempt may be served after the client gave it up |

The parts interact through calls only. The plugin's requests become store
operations, each a transaction on the one connection of the pool
(`SetMaxOpenConns(1)`); the maintenance mutex keeps planning, execution and
backup apart from each other but not from the requests.

What makes each part correct:

* store: no update is lost between a base revision and the new one; a retry has
  no second effect; revisions are unique; the table of files is what the log says;
* collection: nothing current, referenced or unsettled is removed, however late
  a plan is executed;
* history: what is marked as a restore is the version it names;
* chunk store: what has a manifest can be downloaded, whatever is collected; a
  backup has the files its database names;
* identity: a pairing code pairs one device, a device has one live token, and
  none once it is retired or revoked;
* lifecycle: the stored credential stays alive; a run works only for a device
  whose preview was confirmed, and writes only into that pairing's state; a
  confirmed first synchronization ends;
* scanner: a cached hash is the file's; a file is deleted elsewhere only if it
  was away here; every edit is found in the end, whatever the events, the cache
  and the rules did;
* engine: no edit is lost without a conflict copy, the cursor never passes a
  change that is not applied, devices at rest converge.

## 2. Modules

| Module | Content |
|---|---|
| `VaultStore` | the store, history and garbage collection of one vault, with the devices' watermarks |
| `VersionedMap` | the abstract promise about a vault's current state |
| `MCVaultStore` | `VaultStore` for TLC, with the symmetry of its model values |
| `VaultStoreProofs` | types, the safety of collection, the refinement of `VersionedMap`, results, retries, lost updates, restores, what a collection takes and what it leaves (TLAPS) |
| `ChunkStore` | uploads in chunks, their rows, files and manifests, against collection, backup and crashes |
| `MCChunkStore` | `ChunkStore` for TLC |
| `ChunkStoreProofs` | types, manifests, backup (TLAPS) |
| `SyncServer` | the server as one device sees it: log, current rows, kept results, acknowledged revision; other devices and collection act by themselves |
| `SyncEngine` | extends `SyncServer`: the plugin's data, the vault's files, the user, and the run of the sync engine step by step |
| `SyncEngineProofs` | types, what is acknowledged is saved, files of downloads are tracked (TLAPS) |
| `SyncEngineResults` | the refinement of `VersionedMap`, what the cursor covers, rivals of conflict copies, queued events (TLAPS) |
| `SyncEngineSeen` | what the user has seen of a file that the device deletes (TLAPS) |
| `SyncEngineKept` | what the user has written is never lost (TLAPS) |
| `MCSyncEngine` | `SyncEngine` for TLC, with the symmetry of its model values |
| `PluginSession` | pairing codes, devices and tokens of the server; calls of the API with their attempts; the plugin's instances, data, secrets, previews and runs |
| `MCPluginSession` | `PluginSession` for TLC |
| `PluginSessionProofs` | types, tokens and codes, confirmed work, one pairing per state, the credential (TLAPS) |
| `VaultScanner` | the rules, the cache of hashes, queued paths, and what push and pull make of a scan |
| `MCVaultScanner` | `VaultScanner` for TLC: two files, three sets of rules, examples of patterns and profiles |
| `VaultScannerProofs` | types, the cache, deletions (TLAPS) |

### How `VaultStore` corresponds to the code

A transaction is one action. `ApplyTx` is `apply` in `store.go` from the lookup
of an earlier result to the commit; `Rename` and `BatchDelete` are the
transactions of `rename.go` and `batch.go`. A refused request (conflict, reused
operation id) changes nothing and is a stuttering step. `restoring[d]` holds the
local variables of a call of `RestoreVersion` between its steps, `builder` those
of `BuildGCPlan`; the mutex makes the latter one record, and `ExecuteGCPlan`
waits for it. `answers` is not in the code: it records every result that was
ever returned, so that properties can speak of it after the record is collected.
`audience` of a plan is likewise history.

Abstractions: one vault; contents are told apart by their hash, so a blob is its
content; sizes, modification times and device names are left out; the clock
counts days and does not move while a plan is built; the limit of 100 items in a
batch is left out; paths are already normalised. The bound `MaxRevision` is in
the guard of `Commit`, `MaxClock` in that of `DayPasses`.

`AcknowledgeDevice` reads the newest revision and updates the device in two
statements; the model lets it have read any value between the present one and
the last revision given out, which covers a collection in between.

### How `ChunkStore` corresponds to the code

Chunks are neither written nor removed in one transaction, so an action is one
statement, one transaction or one operation on the file tree.

| `ChunkStore` | Code |
|---|---|
| `StartUpload`, `Again`, `Abandon` | `pushLocalChanges`, and `resumeOutbox` in a later run, which uploads all over or gives up a file that changed |
| `MissingChunks` | the loop of `MissingChunks`, one hash at a time |
| `PutChunkRead`, `PutChunkInstall`, `PutChunkRecord` | `PutChunk`: read what is there, rename a temporary file, `recordChunk`; several at once |
| `CommitManifest`, `AssembleRead`, `RecordManifest`, `WriteFile`, `Answer` | `commitManifest`: `AssembleChunks` chunk by chunk, its INSERT, `PutWithOperation`, the answer |
| `PlanRevisions`, `PlanContents`, `PlanManifests`, `PlanOrphans` | the queries of `BuildGCPlan`, with `saveGCPlan` in the last |
| `ExecuteGCPlan`, `RemoveChunkFile` | `ExecuteGCPlan` up to its commit, and each `os.Remove` after it |
| `SnapshotDatabase`, `CopyChunkFile` | `Backup`: `VACUUM INTO`, and each file of `copyTree` |
| `LoseConnection`, `Crash` | a request cut short; the end of the server's process |

`upload[u]` holds the local variables of the plugin's upload and of the handler
that serves it, `builder` those of `BuildGCPlan`, `removing` the files that
`ExecuteGCPlan` has still to remove, `backup` the copy. `raced` is not in the code:
it names the chunks that a collection took while a commit had read them, or while
a put had found or written their file, until they are put in order again.
`ManifestsWhole` and `NoMissingChunk` say that nothing else ever takes a chunk from
a manifest or a file from its row; `CurrentChunksKept`, without the exception, is
violated. `lacking` of a backup is history likewise.

Abstractions: the order of the chunks of a file and their sizes are left out; a
corrupt file counts as none, as `GetChunk` and `MissingChunks` treat it; the limits
of `CheckCommitAllowed` are not set; of the change log there is what refers to
contents, and any revision may be what is old and acknowledged (`VaultStore` has the
watermarks). Mutations without chunks are deletions and restores; a rename refers
to a content again as a restore does. The seven days of the orphan query pass
between calls, never during one. A handler whose connection is lost does no more
work in the database after the client has begun again, as its context is cancelled.
The backup is that of the admin API, which shares the mutex with the collector; the
command `backup` opens the database in a process of its own, and the mutant of
`BackupComplete`, which drops that mutex, shows what it can then miss.

### How `SyncServer` and `SyncEngine` correspond to the code

`SyncServer` is a smaller model of the store, for composition: one vault, the
results of this device's operations only, revisions that are positions of the
log. `ServerKeepsMap` checks that its rows keep the promise of `VersionedMap`
that `VaultStore` is shown to implement, so that both are models of one thing.
The log is never shortened, as a device never asks for a change below its
acknowledged revision; that the row of a settled tombstone disappears, which a
device does notice, is `Collect`.

`SyncEngine` follows `run()` in `plugin/src/sync-engine.ts`. The plugin runs on
one thread and gives way only at an `await`; `pc` names the await the run has
reached, and everything else (user, server, timers, crashes) happens between two
steps.

| `pc` | Code |
|---|---|
| `idle` | between runs; `StartRun` is `runSync` of `main.ts` |
| `inbox` | `resumeInbox`: `InboxInstalled`, `InboxReady`, `InboxLost`, `InboxDone` |
| `outbox` | `resumeOutbox`: the operation was committed, is sent again, or abandoned |
| `snapshot`, `preserve`, `discard`, `merge` | `reconcileSnapshot`, `preserveLocalOnlyFiles` |
| `renames` | `processPendingRenames` |
| `plan`, `scan` | the choice of paths and the scanner |
| `push`, `deletes` | `pushLocalChanges`, `pushBatchDeletes` |
| `send`, `answer`, `refused` | a mutation at the server, its result, its conflict |
| `pull`, `page` | `pullRemoteChanges` |
| `apply`, `remove`, `download` | `applyRemoteChange`, `stageDownload` |
| `install`, `swap`, `verify`, `record`, `save` | `installDownload`, `finishDownload` |
| `finish`, `ack`, `end` | the end of `run()` |

`mem` is `PersistedData` in memory, `saved` what `saveData` last wrote; a crash
sets the first to the second. `SaveEvents` is the save that vault events trigger
at any moment: it writes whatever the run has in memory. `run` holds the local
variables of `run()` and of the procedures it calls, and `run.ret` where a shared
procedure returns to. `run.noted` stands for the timestamps of the copy of
`pendingPaths` that a run acknowledges: an event after it replaces the timestamp,
here it takes the path out of `noted`. The outbox never holds more than one
operation, nor the inbox more than one download, because a run that is cut short
leaves them to the next, which begins with them.

Abstractions: a file is its content, told apart by hash; sizes and times are left
out, and with them the cache of hashes: a scan finds what is on disk
(`VaultScanner` has the cache). Conflict copies have names that are used only
once; they are collected in `copies` and never uploaded. No path is excluded and
the filter does not change (again `VaultScanner`). The snapshot comes in one
page. The three attempts of a request are one, and an answer that does not come
is a run that fails at `answer` (`RunFails`); `PluginSession` has the attempts of
requests that no operation id protects. That the engine's own
file operations raise events too is covered by `PlanFull`, which may scan every
path in any run. A batch holds all the missing paths, fewer than the code's 100.

`Exposed` lists where an edit is not protected: between the comparison of the
file and the end of its replacement or removal; while a request about the path is
staged or sent; while a download waits for the next run to install it; on a path
that the engine remembers, in memory or on disk, or is about to record, as deleted;
in a first run of mode "local", on a path that its push passes by; and between the
copy and the removal of a local-only file. `NoSilentLoss` is about all other edits and
says that these windows are all there are, which `NoEditIsLost` proves; `ConcurrentEditsKept`, without the
exception, is violated.

### How `PluginSession` corresponds to the code

JavaScript runs one callback at a time, so an action is what happens between two
awaits. A call of the API is three things: a request in `net`, which the server
executes at any later moment, the call in `calls`, which awaits one attempt of
it, and the rest of `pairDevice` or `rotateCredential`, which takes the answer.

| `PluginSession` | Code |
|---|---|
| `PairDevice`, `RotateToken`, `SetDeviceStatus` | the transactions of `identity.go` |
| `AuthenticateToken` | `AuthenticateToken`, a statement before the handler's transaction |
| `StartPairing`, `StartRotation`, `AttemptFails`, `Refused` | the loop of `request` in `api-client.ts` |
| `Paired`, `Rotated` | what `pairDevice` and `rotateCredential` do with the answer |
| `PreviewInitialSync`, `PreviewEnds`, `ApproveInitialSync` | the modal of the first synchronization and its approval |
| `StartRun`, `RunWorks`, `RunCompletes`, `RunStops`, `RunRefused`, `RunFails` | `runSync` and the checkpoints of `run()` |
| `Pause`, `Resume`, `CancelSync`, `SavePluginData` | the settings, the status bar, saves by events |
| `Reload`, `Restart` | `onunload` and `onload`, the end of Obsidian and `onload` |

`onunload` clears timers and nothing else, so a reload leaves what the old
instance awaits to go on with its own copy of the data: `mem`, `run`, `cancel` and
`preview` are functions of the instance, and `alive` names the instances whose
callbacks still come. `source` stands for the cursor, the file states and the
outbox: the devices as which they were written since they were last reset.
`confirmed`, `crossed` and `unheard` are not in the code. `crossed` names devices
paired while the instance had a run, a preview or a rotation under way, `unheard`
those whose new token reached no storage; the properties say that these are the
only ways to work unconfirmed, to mix two pairings, and to lose a credential.

Abstractions: one server and one vault; scopes and labels are left out; a run's
requests are answered or refused as a whole, and what it does is in `SyncEngine`;
the settings are those that guard something. A modal that outlives its instance is
left out: it would approve for an object that no run reads.

### How `VaultScanner` corresponds to the code

A path is the sequence of its names, and a pattern a sequence of sets of names, of
which the empty one is the segment `**`; `GlobMatches` is `globMatches` on these.
`IsExcluded`, `IsDirectoryExcluded` and the two operators for profiles are those of
`vault-scanner.ts`, and `IsListed` says which files `listAllFiles` reaches. A file
has a content and a `stat`, which stands for size and time.

The run is that of `run()` again, coarser than in `SyncEngine` where that module is
fine (a request and its answer, a download and its installation are one action, and
there are no crashes), and finer where that module is coarse: `ScanStat` and
`ScanRead` are the two awaits of `scan`, with the user between them;
`RenameCommitted` and `RenameRecorded` are the request of a rename and
`acceptRenameResult`. `StartRun` makes the scanner, with the rules of that moment,
and reconciles when they are not those of the last run. `PlanScan` chooses between
a full and a partial scan, `UpdateScanCache`, `Push`, `PushDone`, `Delete` are the
parts of `pushLocalChanges`, and `Pull` takes what the rules of the run let through
and ends the run.

Events come with an edit or not (`Noticed`): for the file, for its folder, or none,
as for files that Obsidian does not watch. An edit may keep the file's time and
size. Three things are history: `gone`, the paths that had no file at some moment
since the scan began; `veiled`, the files whose `stat` tells nothing; `forgotten`,
the paths whose tombstone was collected before the device took it.

Abstractions: `**` inside a name, the engine's temporary files, and paths that
differ in case or normalization only. A downloaded file has the time of the other
device, on disk (`downloadToTemporaryFile`) and in the cache (`finishDownload`); the
model takes it as a time that no file here has had.

## 3. Runs

| Run | Configuration | Shows |
|---|---|---|
| `store_writes` | 2 paths, 2 contents, 3 revisions, 2 operation ids that mutations and restores share, no collection | types, `NoLostUpdate`, `RetryReturnsOriginal`, `RestoreFaithful`, refinement of `VersionedMap` |
| `store_gc` | 1 path, 3 revisions of which 1 is kept, 2 devices, 1 plan, 2 days, 1 operation id with 2 answers (`RetriesApart`) | the inductive invariant `CollectionSafe` and its parts, `GCRemovesOnlySettled`, `GCKeepsNewest`, `LateRetriesAreHarmless` |
| `store_plan_race` | 1 device, 1 plan | violated: an acknowledgement between two queries leaves an old live version behind a collected tombstone, and a snapshot shows the deleted file |
| `chunk_uploads` | 1 client, 1 path, 2 contents that share a chunk, 3 revisions of which 1 is kept, 1 plan, 1 backup, 1 crash or lost connection | types, `ManifestsWhole`, `NoMissingChunk`, `BackupComplete`, `UploadsEnd` |
| `chunk_torn` | the same without failures | violated: chunks of a current file are collected under its commit (ARCHITECTURE.md says that a plan takes them into account) |
| `engine_edits` | 1 path, with or without a file; 2 user edits, 1 change of another device, 1 fault, 1 collected tombstone, every initial mode; rename replaces | types, `NoSilentLoss`, `CursorCovers`, `AckIsSaved`, `ConflictNeedsRival`, `ArtifactsAreTracked`, `ServerKeepsMap`, `Converges` |
| `engine_renames` | 2 paths with files; 2 user edits, 1 change of another device, 1 fault, pages of 3 | `NoSilentLoss`, `CursorCovers`, `DeletionsAreTheUsers`, `NewerEventsKept` over renames, batches, partial scans |
| `engine_moves` | 2 paths, one or both with a file; 2 user edits, 1 fault; rename replaces | `Converges` over renames and deletions, also unseen ones |
| `engine_lost_edit` | 1 path, no faults, rename refuses | violated: an edit between comparison and replacement is lost without a copy (ARCHITECTURE.md says never) |
| `engine_stuck` | 1 path, no faults, rename refuses | violated: a file created between backup and installation makes the installation fail in every later run |
| `plugin_session` | 2 pairing codes, 2 devices, 3 tokens, 3 calls of 2 attempts, 2 loads, 4 events | types, `OneLiveToken`, `CodePairsOnce`, `CredentialLives`, `WorkIsConfirmed`, `StateIsOfOnePairing`, `InitialSyncEnds` |
| `vault_scanner` | a note and a file in a folder, 2 contents, 3 sets of rules (none, `d/**`, `d`), 2 events | types, `CacheHonest`, `DeletionIsReal`, `EditsArrive` |

The bounds of the store. Two paths are needed for a rename and a batch, three
revisions for two writes with a conflicting one in between. A plan that keeps one
version needs a version and its tombstone to have something to keep and something
to take, and a third revision to bring the path to life again; the proof of
`CollectionIsSafe` is for any number of kept versions. Two devices let one hold
the watermark of the other. Two days are the retention and one more. Deadlock is
not checked: with the revisions and days used up the bounded model stops.

Two more statements of `docs/ARCHITECTURE.md` differ from the code by what the
models contain, and have no run of their own. Line 393 says that a plan is refused
when the data changed after it was made; `ExecuteGCPlan` compares only the status
and the hash of the plan itself, and `CollectionIsSafe` and `ManifestsAreWhole` are
what makes a stale plan harmless. Line 239 says that a retry returns the original
result; a plan collects operation records by age, and a retry after that executes
again. `RetryReturnsOriginal` is therefore checked without collection, and with it
`LateRetriesAreHarmless`: an operation is executed again only when its first answer
is past the retention period, and it changes something again only where a collection
has forgotten the path, so what was written meanwhile stays. In `store_gc` a put, a
delete and their collection come between an operation and its retry; the constraint
`RetriesApart` of `MCVaultStore` gives an operation two answers and keeps it out of
the behaviours that restore a version, which `store_writes` mixes with operations.
`AcknowledgeDevice` refuses a revision newer than the newest change; when that
change is a tombstone, its collection makes the newest revision fall, and a device
that acknowledges again what it had acknowledged is refused.

Other differences that the models of the plugin contain are exceptions in their
properties:

* A pattern such as `d` or `a/*` excludes no file below the folders that it
  matches, but `isDirectoryExcluded` (`vault-scanner.ts:127`) makes the scan pass
  by them. Their files are recorded, within the scope of a full scan, not excluded
  and not found, so `pushLocalChanges` deletes them on the server
  (`sync-engine.ts:273`). ARCHITECTURE.md says that the snapshot after a change of
  the rules prevents old state from spreading deletions. `DeletionIsReal` excepts
  `Hidden`.
* The tombstone of an excluded file is skipped and acknowledged, and may then be
  collected. When the file is included again, no tombstone comes, and the file is
  recorded with the hash it has, so it is never uploaded. `EditsArrive` excepts
  `forgotten`.
* An edit of a renamed file while the rename awaits its answer gets a cache entry
  with the hash from before (`sync-engine.ts:797`), and so does a file that is moved between
  the two moments of a scan; only a scan that reads every file finds it. `CacheHonest` excepts
  `veiled`, `EditsArrive` does not.
* ARCHITECTURE.md, section 10, has a new device preview and choose before it
  writes anything. A device paired while a run of the previous pairing is under
  way starts with what that run goes on to write, a `completed` included
  (`main.ts:223`, `crossed`).
* `acceptRenameResult` takes both paths of an accepted rename off the queue
  (`sync-engine.ts:805`), an edit that was queued while the rename was under way
  included; a crash leaves such an edit to the next full scan. `acknowledgePendingPaths`
  compares timestamps to keep newer events, and `NewerEventsKept` says that it does, but
  for this case, which the run with two paths shows.
* ARCHITECTURE.md (line 13) promises that edits which meet a version of another device are kept
  in a conflict copy. `applyRemoteChange` takes no file for modified where a deletion is
  recorded (`sync-engine.ts:330`), which is why a path recorded as deleted is `Exposed`.
  Two ways to such a record are not seen within the bounds of the runs; the proof of
  `NoEditIsLost` needed them excepted, and TLC then found both. First, a version that
  the file already has is recorded in memory only (`:336`); after an edit and a crash the
  deletion that is still on disk is what the change is compared with, and the edit is
  overwritten. Second, a first run in mode "local" records the deletions of the snapshot
  without removing the files (`:169`), so that its push brings them back; but the push
  passes by a path whose staged download was given up or whose batch was refused in the
  recovery before (`:202`, `:700`, `:1135`), and the pull then overwrites the file.
* A rotation whose answer is lost has revoked the old token, and the device must
  be paired again (`unheard`); the acceptance document lists rotation without this
  case. `request` waits its own 0.5, 1 and 2 seconds after a 429, where PROTOCOL_1.0 says that
  `Retry-After` is followed (`api-client.ts:276`); times are not modelled.

The bounds of the chunk store. Of the contents `x` has the chunks `a` and `b`, `y`
has `b`, so a chunk is kept by one manifest while the plan takes another. Three
revisions are a content, a second one or a tombstone that makes the first
collectable, and an upload that brings it back while the plan waits. One plan
suffices, as an executed plan leaves nothing behind but the files it removes; one
client's upload meets the collection, the backup and its own restart in every
order. The proofs are for any number of clients, contents, plans and failures.

The bounds of the engine. `MaxUser`, `MaxOther`, `MaxFault` and `MaxCollect` limit
how often the environment acts; the engine itself runs on without bound, so runs
after the last edit are complete ones and deadlock is checked. Two edits are an
edit and one that falls into its handling; one other change gives the conflict;
one fault is a crash or a failed run in any step, followed by a recovery in which
the remaining edits may still fall. Contents: the user's and the other devices'
are disjoint, so that a lost content is seen. One path is enough for everything
but renames, batches, partial scans and pages, which the runs with two paths have.
With pages of one change every page is followed by another. "rename refuses" and
"replaces" are the two behaviours of `adapter.rename` on an existing destination,
which Obsidian leaves to the platform's file system and version.

The bounds of the session. Two codes and two devices are a pairing and a second
one beside what the first has under way; the third token is for a rotation;
three calls let a rotation overlap both. Two attempts stand for the three of the
code: what matters is that the first may be served after the second was sent, and
the proofs are for any number. Two loads give one old instance beside the loaded
one. `MaxEvents` counts calls begun, failed attempts and runs, revocations, pauses,
cancels and reloads: four are, for instance, two pairings, a lost answer and a
reload. Deadlock is not checked, as the bounded model stops.

The bounds of the scanner. One file in a folder and one outside are what the
rules tell apart: `d/**` excludes the first and the scan skips its folder, `d`
excludes no file and the scan skips the folder all the same. Every initial state is
one after a sync under some rules, which may have been changed since. Two events
are two edits, an edit and a change of the rules, or one of them and a failed run
or a change of another device; `CacheHonest` and `DeletionIsReal` were also checked
with three (7.8 million states), and are proved for any number. The engine runs on
without bound, and deadlock is checked. `MCVaultScanner` also evaluates the
examples of patterns of the plugin's tests, and that no profile hides a file it
keeps, on all paths of four names in the directory of the configuration.

Fairness. The store has no step that it must take by itself, and its runs assume
none. `FairSpec` of the chunk store assumes that an upload goes on
(`WF_vars(UploadStep(u))`): an operation stays in the outbox until it has a result,
each run takes it up first, and the server serves the requests it gets; nothing is
assumed of collections, backups, failures or other mutations. `FairSpec` of the engine assumes that the engine goes on
(`WF_vars(Engine)`): the timer of `restartTimer` starts runs, an await returns or
fails; that Obsidian is opened again (`WF_vars(Restart)`); and that of infinitely
many scans infinitely many hash every file (`SF_vars(PlanFull)`): the interval of
24 hours (`INTEGRITY_SCAN_INTERVAL_MS`) makes such a scan due until one is
completed. `FairSpec` of the session assumes
that the interval timer asks for a run again and again (`WF_vars(StartRun)`) and
that a run ends: it completes, is stopped or refused, as every request is answered
or given up in the end. `FairSpec` of the scanner is that of the engine, with the
daily scan as `SF_vars(PlanScan(FALSE, TRUE))`. No fairness is assumed of users, other devices, faults, collection, or
saves triggered by events. `Converges` is checked where `adapter.rename` replaces;
where it refuses, `engine_stuck` shows that it fails.

## 4. Proofs

Proved for all values of the constants.

The store, from `StoreAssumption` alone (a finite set of paths, positive
retention and version count, reserved values that are not contents or operation
ids):

* `TypeCorrect`: every table keeps its type.
* `CollectionIsSafe`: the inductive invariant `CollectionSafe`. That no current
  version is collected is not inductive, as a plan may be executed long after it
  was made. The invariant says why it is safe then: all revisions in a plan were
  given out before (`r <= seq`), so no later version is among them, and of the
  current versions it holds only tombstones of paths that it takes as deleted
  (`TakesNoLiveVersion`). For a plan still being built, a path that came to life
  again has a revision beyond the first watermark (`BuilderSafe`), which the
  third query does not take. `FirstIsNewest` shows that position 1 of the ranked
  query is the newest version.
* `CurrentVersionIsRetained`, `RetainedContentIsStored`: parts of it. A rename
  stores no bytes; the destination has them because the source's row does.
* `StoreImplementsMap`: every step commits fresh revisions to some rows, forgets
  tombstones, or changes no row.
* `RetriesAreHarmless`: `LateRetriesAreHarmless`, with any collections between an
  operation and its retry. Two invariants carry it. `RecordsKept`: a plan, pending
  or being built, has a cutoff that is past the retention period, so an answer
  without a record is past it. `WritesStand`: what a request wrote is newer than
  what it was based on, and the rows of its paths are that version, a later one, or
  forgotten. A retry that commits finds the rows it was based on, so they are
  forgotten; a rename or a batch needs live rows and is never repeated.
* `RestoreIsFaithful`: a marked version has the path and content of the version
  it names; the invariant `RestoreSound` says what a call in progress knows.
* `NamedBaseIsNotLost`: `NoLostUpdate` for every request that names a version, with
  collection. `StepAnswers` says of every step that the answer it adds, if any, is
  the first under its operation id, is based on the current rows and made what was
  appended to the log; no other version can lie between base and result, because
  the row of a path names its newest one (`CurrentVersionRetained`).
* `NoUpdateIsLost`, `RetriesGetTheOriginal`: `NoLostUpdate` for base 0 too, and
  `RetryReturnsOriginal`, under `PlanIds = {}`: they hold while nothing is collected,
  as a collected tombstone makes a path look new, and a collected record an
  operation (section 3). `NothingForgotten` is what collection would break: every path
  of the log has its row, every answer its record.
* `CollectionTakesSettled`: from `PlansSettled`. What goes with a tombstone at the
  third query is not looked at for its age or for acknowledgements; that it is
  settled too follows as revisions are in the order of time (`Chronological`), and
  acknowledgements never fall once a device is paired.

* `OnePlanKeepsNewest`: `GCKeepsNewest` with one plan, as the run has it. A plan takes
  a version for its position, which can only rise until the plan is executed.
* `SteadyPlansKeepNewest`, `SteadySnapshotsShowNoDeletedFile`: with any number of
  plans, a plan could lower the positions that another relies on, and
  `store_plan_race` shows how a plan leaves a deleted file in a snapshot. Both
  come from one cause: `BuildGCPlan` reads the watermark twice. Under `SteadyStep`
  (the second query has the watermark of the first) a plan takes with a version
  every older one of its path (`PlansTakeOldest`); so no other plan is disturbed
  (`PlansLeaveNewest`), the documented promise that `store_plan_race` refutes holds,
  and what is left of a path without a row ends with a tombstone
  (`GoneIsDeleted`: `ExecuteGCPlan` drops the row of a path that was deleted again
  after the plan was made, whose newer tombstone stays).

The chunk store, from `ChunkAssumption` (finitely many chunks, at least one for each
content):

* `TypeCorrect`, which includes that no row is counted as old after it is gone.
* `ManifestsAreWhole`, `NoChunkIsMissing`, `BackupIsComplete`: from the inductive
  invariant `ChunksSafe`. That manifests are whole is not inductive: a manifest is
  recorded after its chunks were read one by one, so `UploadsBacked` says what each
  phase of an upload relies on (a put on the files it found, a commit on the rows it
  read). A collection keeps the rows of the manifests that stay because it looks at
  them again (`RowsAfter`), however old its plan. `BackupAlone` is the mutex;
  `BackupOnTheWay` says that a file not yet copied is still there.
* `CurrentChunksAreKeptIfQuiet`: the documented promise that `chunk_torn` refutes
  holds if no client uploads while a plan is executed (`QuietStep`); then `raced`
  stays empty and what is removed has no row. Uploads may go on while the plan is
  built and between its building and its execution.

The engine, from `ServerAssumption` and `EngineAssumption` (finitely many paths,
pages of at least one change), in five layers, each an inductive invariant that
every step keeps, one action at a time.

`EngineInv` (`ShapeStep`, `PositionStep`, `RepliesStep`, `ArtifactsStep`):

* `AcknowledgementIsSaved`: the device acknowledges no revision that the cursor on
  its disk does not cover. The saved cursor alone is not inductive, as a save that
  an event triggers writes whatever memory holds; `Position` says that memory and
  disk always agree on the cursor, that the acknowledged revision does not pass
  it, and that it does not pass the end of the page or of the snapshot being
  applied. The last part needs to be known through every procedure that a page
  calls (`Loops`, `Inner`): the cursor only ever moves forward.
* `FilesAreTracked`: a temporary or backup file exists only while the saved inbox
  names it. `Artifacts` says this of memory too (a save may come at any moment),
  that the inbox is not empty while a download is fetched or installed, and which
  of the two files are gone by then. That a staged download is never mistaken for
  an empty inbox rests on `Replies`: what is applied is a version read from the
  log or from a conflict, and a result looked up for a lost answer is no conflict.
* `Shape` says what both need of the data: the fields of the records, that queues
  and batches are finite (a batch is appended to the log in some order, which
  exists only then), and where procedures return to.

`TypeInv` adds the types:

* `EngineTypeCorrect`: `TypeOK`. That what is applied is a version, and what is sent
  a request of its kind, depends on where the run is: `Calls` says which procedures
  may have called the one that runs, `Ready` what each place relies on (the change
  it applies, a queue of renames that is not empty, a snapshot that was fetched, a
  batch that was collected).

`RecordInv` adds what is recorded, and rests on `TypeInv`:

* `CursorCoversLog`: every revision up to the cursor is recorded for its path, or a
  newer one. This is not inductive, for four reasons. The device's own changes get a
  revision beyond the cursor, and their result may be lost: `FilesSound` speaks of all
  `Due` revisions, those the cursor has passed and the device's own, and excepts
  what is to be looked up for the outbox. A page and a snapshot are recorded one
  version at a time before the cursor moves (`PageProgress`, `MergeProgress`). A
  download or a result is recorded long after it was read, maybe in a later run:
  `BoxesSound` and `Live` say that what is in the inbox, in the answer or in hand is
  `Sound`, not older than a due revision. And an answer may be that of a request
  sent by an earlier run: `Boxes` says where the run can be while an operation or a
  download is kept, `Based` that a request not yet executed has the recorded revision as its
  base. `RowsSound` ties the rows to the log and excepts collected tombstones.
* `ConflictsHaveRivals`: a conflict copy is made only against a change of another
  device. `Rivals` says it of the version in hand; that a refused request was
  refused because of another device follows from `Based` and `FilesSound`: had the
  newest version been this device's own, it would have been recorded, hence the base.
  A row without a version is that of a collected tombstone, which the device had
  acknowledged.
* `NewerEventsStay`: `NewerEventsKept`, an action property, from the shape of the
  data alone.
* `ServerKeepsPromise`: the server of this module implements `VersionedMap`, as
  `VaultStore` does (`StoreImplementsMap`), so the engine is composed with a model that
  keeps the same promise.

`SeenInv`, in `SyncEngineSeen`, adds what the user has seen, and rests on `RecordInv`:

* `OnlyUsersDelete`: `DeletionsAreTheUsers`. A request carries a base and no content,
  so the server can refuse a deletion for its age only; that the user gave up just
  the content that goes must be known long before. `FilesKnown`: of a path whose
  recorded row is the current one, the user has that content or has given it up.
  `OutboxKnown`: a request that is not yet executed takes away what was given up and
  brings what the user has, even when it is sent again by a later run, and so do the
  results that are kept of it. `MissingKnown`: the content of a file that a scan has not
  found was given up, though the user may have changed the folder since. What remains is
  that the engine itself removes and replaces files. It does so only at
  a path whose recorded version is not the current one any more, because another is in
  hand (`InHandNew`, `RefusedNew`), or where nothing current is recorded and the file is
  first copied (`LocalOnly`); so the absence it leaves is never taken for a deletion of
  the current version. `Takes` names
  these steps; every other one keeps what is known (`KnownStays`).

`KeptInv`, in `SyncEngineKept`, adds what the user has written, and rests on both:

* `NoEditIsLost`: `NoSilentLoss`. The file on disk may be the only place that has what
  the user wrote (`Owed`), and that it is there is not inductive: the engine removes and
  replaces files in many places, each sure of something that was looked up earlier, in
  another step, run or life of the plugin. `Safe` says what must be known of such a file
  at every moment, and `Exposed` lists the edits for which it does not hold from the
  start. `Spared`: no step under way is about to replace or to remove it. `Unboxed`: no
  staged download that may still be installed is of its path. `Requested`: the operation
  in the outbox, in memory or on disk, is not about it, puts just this content, or was
  executed and is not a deletion of it. `Remembered`: no deletion is recorded of it, as
  its comparison would then take the file for unmodified; but a first run in mode
  "local" records deletions of files that are there, and then this run is yet to push
  it (`ToPush`). `NotMissed`: no run takes it for deleted. `KeptInv` has four facts
  about all paths besides. Changes are applied without a comparison only after a put was refused
  (`Careful`), and that put's content was copied. An executed operation has one version
  of a path (`OneVersion`). Its result is on disk when its entry goes (`OverRecorded`):
  `completeOperation` and the save after it are two steps, and a crash between them
  leaves an operation that is over in the outbox. What is deleted is recorded, in scope
  and was not found (`DeletesMissing`). Each action is shown to keep each part, for a
  content that it leaves owed (`Held`): what it stows in a copy or at the server is owed
  no more.
  The invariant was checked by TLC with one and two paths and every initial mode
  before it was proved.

The session, from `SessionAssumption` and `NullAssumption` (reserved values that
are not numbers, at least one attempt):

* `TypeCorrect`, `OneTokenPerDevice`, `CodesPairOnce`: a rotation is authenticated
  before its transaction, so what the transaction may rely on is only that it looks
  at the token again; a device has a token only once it is registered, and with one
  it is active.
* `WorkConfirmed`, `OnePairingPerState`: from an invariant about every instance
  alive and about `data.json`: who is paired, whether the sync was approved or
  completed, and what wrote the state belong to one device, which was confirmed or
  is `crossed`. It has to be said of the saved data too, which the next load takes,
  and of a run, which carries the device and token it was made with into data that
  may have been reset since.
* `CredentialAlwaysLives`: a token that is live and not stored is the answer of a
  call that waits for it, or on its way to one; which calls wait, for which attempt,
  and that a late request finds its token replaced, make up the invariant.

The scanner, from `ScannerAssumption` (finitely many paths, at least one content and
one set of rules):

* `TypeCorrect`, which rests on an order of the paths (`Ordered`).
* `CacheIsHonest`: from the inductive invariant `Honesty`. That a cached hash is the
  file's is not inductive, as entries are prepared before they are entered: it must
  be known of what the scan has found (`SoundEntries`), of the file being read
  (`Reading`) and of a rename awaiting its record (`Renaming`), and it is a
  statement about every file that has the entry's time, wherever it is, because
  files are moved. `Stamped` says that times tell files apart.
* `DeletionsAreReal`: from `Sought`. What is in the scope of the scan and was there
  all the time is still to be looked at or has been found (`Sees`); so what is
  missing when the loop is over was away, or lies in a folder that was passed by.
  It needs `Stamped`, as an entry of the cache that is reused must count as found.

Only model-checked: of the chunk store that uploads end; of the engine
`Converges`; of the session that a confirmed
first synchronization ends; of the scanner that every edit arrives. Out of the prover's reach, and left to
TLC: liveness, ENABLED, and induction over data.

## 5. Not modelled, and the plan

In this order:

1. `Quota`: the check before the transaction that writes, two uploads that pass it
   together, a retry that it refuses. `RateLimiter` and `DoctorCache`, small modules
   of their own. Their questions are to be asked in few runs.
2. `SyncEngine`: the snapshot in pages while the log shrinks, chunked downloads,
   `resolveConflict` and `openHistory` beside a run.

Not planned: the administration of vaults and the audit log (one statement each),
the connectivity probe, configuration, user interfaces, normalization of paths and
hashing (no state or pure functions), verification and restoration of a backup
(which read and copy a directory at rest), the release scripts.
