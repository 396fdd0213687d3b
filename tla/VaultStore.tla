----------------------------- MODULE VaultStore -----------------------------
(***************************************************************************)
(* The metadata store of one vault (internal/store): the path table, the   *)
(* change log, the blobs, the idempotency records, the devices and the     *)
(* garbage collector.                                                      *)
(*                                                                         *)
(* Every mutation of the store is one SQLite transaction and the pool has  *)
(* one connection (store.go, SetMaxOpenConns(1)), so a transaction is one  *)
(* action.  What the code does in several statements outside a transaction *)
(* is several actions here: building a GC plan (three queries) and         *)
(* restoring a version (read, put, mark).                                  *)
(*                                                                         *)
(* The store takes the device identity of a mutation as given: the API     *)
(* authenticates it before, in a step of its own.                          *)
(*                                                                         *)
(* A request that is refused (conflict, reused operation id, bad           *)
(* argument) leaves the store alone and is a stuttering step.              *)
(***************************************************************************)
EXTENDS Integers, FiniteSets, FiniteSetsExt

CONSTANTS
    Paths,          \* normalised file paths of the vault
    Contents,       \* file contents, told apart by their SHA-256
    Deleted,        \* the content of a tombstone
    Writers,        \* device identities that mutations carry
    Devices,        \* devices that pair, acknowledge and are retired
    OpIds,          \* operation UUIDs a device sends mutations under
    RestoreIds,     \* operation UUIDs a device sends restores under
    NoOp,           \* the absent X-Operation-ID header
    PlanIds,        \* identities of the GC plans of a behaviour
    KeepVersions,   \* keep_versions of a GC plan
    Retention,      \* retention_days of a GC plan
    MaxRevision,    \* bound: revisions issued in a behaviour
    MaxClock        \* bound: days that pass in a behaviour

ASSUME StoreAssumption ==
    /\ IsFiniteSet(Paths)
    /\ Deleted \notin Contents
    /\ NoOp \notin OpIds \cup RestoreIds
    /\ KeepVersions \in Nat \ {0}
    /\ Retention \in Nat \ {0}
    /\ MaxRevision \in Nat
    /\ MaxClock \in Nat

VARIABLES
    clock,      \* wall clock, in days
    seq,        \* last value given out by changes.seq AUTOINCREMENT
    changes,    \* table changes: the retained change log
    files,      \* table files: the current row of each path
    blobs,      \* table blobs: the contents whose bytes are stored
    operations, \* table operations: results kept for retries
    answers,    \* history: every result ever returned under an operation id
    devices,    \* table devices: status and last_ack_revision
    builder,    \* the call of BuildGCPlan in progress
    plans,      \* table gc_plans
    restoring   \* per device, the call of RestoreVersion in progress

vars == <<clock, seq, changes, files, blobs, operations, answers, devices,
          builder, plans, restoring>>

-----------------------------------------------------------------------------
(* Rows and requests.                                                      *)

Content == Contents \cup {Deleted}

Row == [rev : Nat, content : Content]

\* A path that has no row.  The code reports it as the tombstone of revision 0.
NoRow == [rev |-> 0, content |-> Deleted]

Change == [rev : Nat, path : Paths, content : Content,
           created : Nat, restoredFrom : Nat]

\* The part of a change that a mutation returns to its caller.
Outcome == [rev : Nat, path : Paths, content : Content]

ApplyRequest == [kind : {"apply"}, path : Paths, base : Nat, content : Content]
RenameRequest == [kind : {"rename"}, from : Paths, to : Paths, base : Nat]
BatchRequest == [kind : {"batch"}, items : SUBSET [path : Paths, base : Nat]]
Request == ApplyRequest \cup RenameRequest \cup BatchRequest

Operation == [device : Writers, id : OpIds \cup RestoreIds, request : Request,
              result : SUBSET Outcome, changed : BOOLEAN, created : Nat]

Device == [status : {"unpaired", "active", "inactive"}, ack : Nat]

Plan == [status : {"none", "pending", "executed"}, revs : SUBSET Nat,
         paths : SUBSET Paths, blobs : SUBSET Contents, opCutoff : Int,
         audience : SUBSET Devices]

\* No call is in progress.
Idle == [phase |-> "idle"]

Builder == [phase : {"watermark", "ranked"}, plan : PlanIds, watermark : Nat,
            revs : SUBSET Nat, paths : SUBSET Paths, cutoff : Int,
            audience : SUBSET Devices] \cup {Idle}

Restore == [phase : {"read", "put"}, op : RestoreIds \cup {NoOp},
            request : ApplyRequest, source : Nat, rev : Nat] \cup {Idle}

NoPlan == [status |-> "none", revs |-> {}, paths |-> {}, blobs |-> {},
           opCutoff |-> 0, audience |-> {}]

\* LatestRevision: the newest change that is still in the log, 0 if none is.
LatestRevision ==
    IF changes = {} THEN 0 ELSE Max({c.rev : c \in changes})

\* ListSnapshot at revision at: the newest retained change of each path.
Snapshot(at) ==
    {c \in changes : /\ c.rev <= at
                     /\ \A e \in changes :
                           e.path = c.path /\ e.rev <= at => e.rev <= c.rev}

-----------------------------------------------------------------------------
(* Mutations: PUT and DELETE (apply), rename, batch delete.                *)

Init ==
    /\ clock = 0
    /\ seq = 0
    /\ changes = {}
    /\ files = [p \in Paths |-> NoRow]
    /\ blobs = {}
    /\ operations = {}
    /\ answers = {}
    /\ devices = [d \in Devices |-> [status |-> "unpaired", ack |-> 0]]
    /\ builder = Idle
    /\ plans = [g \in PlanIds |-> NoPlan]
    /\ restoring = [d \in Writers |-> Idle]

\* Mutant: the lookup of an earlier result is left out.
FreshAlways(d, op) == TRUE

\* operationResult finds nothing: the request is not a retry.  A retry gets
\* the stored result, or operation_id_reused if its fingerprint differs.
Fresh(d, op) == \A o \in operations : ~(o.device = d /\ o.id = op)

\* commitMutationResult, recordOperationDetails: keep the result for retries.
Remember(d, op, request, result, changed) ==
    LET o == [device |-> d, id |-> op, request |-> request, result |-> result,
              changed |-> changed, created |-> clock]
    IN  IF op = NoOp
        THEN UNCHANGED <<operations, answers>>
        ELSE /\ operations' = operations \cup {o}
             /\ answers' = answers \cup {o}

\* Mutant: a rename or a batch advances the sequence by one only.
IssuedOne(new) == seq + 1

\* The sequence after the outcomes new are appended.
Issued(new) == seq + Cardinality(new)

\* INSERT INTO changes: the rows of the log for the outcomes new.
Logged(new) ==
    {[rev |-> o.rev, path |-> o.path, content |-> o.content,
      created |-> clock, restoredFrom |-> 0] : o \in new}

\* INSERT INTO files ... ON CONFLICT(path) DO UPDATE.
Upserted(new) ==
    [p \in Paths |->
        IF \E o \in new : o.path = p
        THEN LET out == CHOOSE o \in new : o.path = p
             IN  [rev |-> out.rev, content |-> out.content]
        ELSE files[p]]

\* The tail of every mutation that changes something: append the outcomes to
\* the log, upsert the rows, keep the contents stored and the result.
Commit(d, op, request, new, stored) ==
    /\ seq + Cardinality(new) <= MaxRevision
    /\ seq' = Issued(new)
    /\ changes' = changes \cup Logged(new)
    /\ files' = Upserted(new)
    /\ blobs' = blobs \cup stored
    /\ Remember(d, op, request, new, TRUE)

\* Mutant: the stored result of an unchanged path lacks the path.
AnswerRowOnly(d, op, request, row) ==
    /\ Remember(d, op, request, {row}, FALSE)
    /\ UNCHANGED <<seq, changes, files, blobs>>

\* A mutation that finds the path already in the state it asks for.
AnswerUnchanged(d, op, request, row) ==
    /\ Remember(d, op, request,
                {[rev |-> row.rev, path |-> request.path,
                  content |-> row.content]}, FALSE)
    /\ UNCHANGED <<seq, changes, files, blobs>>

\* The row already holds what the request asks for: same content, whatever
\* base the request names.  With no row only a delete from base 0 is so.
AlreadySo(row, request) ==
    /\ row.content = request.content
    /\ row.rev = 0 => request.base = 0

\* Mutant: a tombstone does not count as a version to be based on.
BaseCurrentIfLive(row, base) == row.rev = base \/ row.content = Deleted

\* The optimistic lock of apply: the base names the current row, and base 0
\* a path that has none.
BaseCurrent(row, base) == row.rev = base

\* apply: PUT when request.content is a content, DELETE when it is Deleted.
ApplyTx(d, op, request) ==
    LET row == files[request.path]
    IN  /\ Fresh(d, op)
        /\ \/ /\ AlreadySo(row, request)
              /\ AnswerUnchanged(d, op, request, row)
           \/ /\ ~AlreadySo(row, request)
              /\ BaseCurrent(row, request.base)
              /\ Commit(d, op, request,
                        {[rev |-> seq + 1, path |-> request.path,
                          content |-> request.content]},
                        {request.content} \ {Deleted})

Apply(d) ==
    /\ \E op \in OpIds \cup {NoOp}, p \in Paths, base \in 0..seq, c \in Content :
          ApplyTx(d, op, [kind |-> "apply", path |-> p, base |-> base,
                          content |-> c])
    /\ UNCHANGED <<clock, devices, builder, plans, restoring>>

\* rename.go, Rename: a tombstone for the source, then the destination, which
\* refers to the blob that the source had.
Rename(d) ==
    /\ \E op \in OpIds, from \in Paths, to \in Paths, base \in 0..seq :
          /\ from # to
          /\ Fresh(d, op)
          /\ files[from].content # Deleted
          /\ BaseCurrent(files[from], base)
          /\ files[to].content = Deleted
          /\ Commit(d, op,
                [kind |-> "rename", from |-> from, to |-> to, base |-> base],
                {[rev |-> seq + 1, path |-> from, content |-> Deleted],
                 [rev |-> seq + 2, path |-> to, content |-> files[from].content]},
                {})
    /\ UNCHANGED <<clock, devices, builder, plans, restoring>>

\* The tombstones of a batch, with consecutive revisions in the order rank.
Tombstones(batch, rank) ==
    {[rev |-> seq + rank[p], path |-> p, content |-> Deleted] : p \in batch}

BatchOf(batch, base) ==
    [kind |-> "batch", items |-> {[path |-> p, base |-> base[p]] : p \in batch}]

\* batch.go, BatchDeleteWithOperation: all the items or none.  The code takes
\* the items in the order of their paths, which is any order here.
BatchDelete(d) ==
    /\ \E op \in OpIds, batch \in (SUBSET Paths) \ {{}} :
          \E base \in [batch -> 0..seq],
             rank \in Injection(batch, 1..Cardinality(batch)) :
             /\ Fresh(d, op)
             /\ \A p \in batch : /\ files[p].content # Deleted
                                  /\ BaseCurrent(files[p], base[p])
             /\ Commit(d, op, BatchOf(batch, base), Tombstones(batch, rank), {})
    /\ UNCHANGED <<clock, devices, builder, plans, restoring>>
-----------------------------------------------------------------------------
(* History: RestoreVersion reads the source, puts its content as a new     *)
(* version and then marks that version, in three steps.                    *)

\* The version a restore of change s brings back: s itself, or for a
\* tombstone the newest live version before it.
RestoreSource(s, v) ==
    /\ v.path = s.path
    /\ v.content # Deleted
    /\ IF s.content # Deleted
       THEN v = s
       ELSE /\ v.rev < s.rev
            /\ \A e \in changes :
                  e.path = s.path /\ e.content # Deleted /\ e.rev < s.rev
                    => e.rev <= v.rev

\* The three reads, of the source, of the live version before a tombstone and
\* of the bytes, are one step: a row of the log never changes but for the mark,
\* so what may come between them is a removal, which ends the call (RestoreEnd).
RestoreRead(d) ==
    /\ restoring[d].phase = "idle"
    /\ \E s, v \in changes, op \in RestoreIds \cup {NoOp}, base \in 0..seq :
          /\ RestoreSource(s, v)
          /\ v.content \in blobs
          /\ restoring' = [restoring EXCEPT ![d] =
                [phase |-> "read", op |-> op, source |-> v.rev, rev |-> 0,
                 request |-> [kind |-> "apply", path |-> v.path, base |-> base,
                              content |-> v.content]]]
    /\ UNCHANGED <<clock, seq, changes, files, blobs, operations, answers,
                   devices, builder, plans>>

\* The result that a retry of (op, request) finds, if it was a change.
StoredChange(d, op, request) ==
    {o \in operations : o.device = d /\ o.id = op /\ o.request = request
                        /\ o.changed}

\* PutWithOperation inside RestoreVersion.  A change goes on to be marked; a
\* conflict, a reused id or an unchanged path ends the call.
RestorePut(d) ==
    LET r == restoring[d]
        current == files[r.request.path]
    IN  /\ r.phase = "read"
        /\ \/ /\ ApplyTx(d, r.op, r.request)
              /\ restoring' = [restoring EXCEPT ![d] =
                    IF AlreadySo(current, r.request) THEN Idle
                    ELSE [r EXCEPT !.phase = "put", !.rev = seq + 1]]
           \/ \E o \in StoredChange(d, r.op, r.request) : \E out \in o.result :
                 /\ restoring' = [restoring EXCEPT ![d] =
                       [r EXCEPT !.phase = "put", !.rev = out.rev]]
                 /\ UNCHANGED <<seq, changes, files, blobs, operations, answers>>
    /\ UNCHANGED <<clock, devices, builder, plans>>

\* Mutant: the mark is put on every version of the path.
IsRestoredPath(c, r) == c.path = r.request.path

\* WHERE seq = the new revision.
IsRestored(c, r) == c.rev = r.rev

\* UPDATE changes SET operation_kind='restore'.
RestoreMark(d) ==
    LET r == restoring[d]
    IN  /\ r.phase = "put"
        /\ changes' = {IF IsRestored(c, r) THEN [c EXCEPT !.restoredFrom = r.source]
                       ELSE c : c \in changes}
        /\ restoring' = [restoring EXCEPT ![d] = Idle]
    /\ UNCHANGED <<clock, seq, files, blobs, operations, answers, devices,
                   builder, plans>>

\* The call ends early: refused, cancelled by the client, or the server stops.
RestoreEnd(d) ==
    /\ restoring[d].phase # "idle"
    /\ restoring' = [restoring EXCEPT ![d] = Idle]
    /\ UNCHANGED <<clock, seq, changes, files, blobs, operations, answers,
                   devices, builder, plans>>

-----------------------------------------------------------------------------
(* Devices and their watermarks (identity.go).                             *)

PairDevice(d) ==
    /\ devices[d].status = "unpaired"
    /\ devices' = [devices EXCEPT ![d] = [status |-> "active", ack |-> 0]]
    /\ UNCHANGED <<clock, seq, changes, files, blobs, operations, answers,
                   builder, plans, restoring>>

\* SetDeviceStatus: retired and revoked are both "inactive" for the store.
SetDeviceStatus(d) ==
    /\ devices[d].status = "active"
    /\ devices' = [devices EXCEPT ![d].status = "inactive"]
    /\ UNCHANGED <<clock, seq, changes, files, blobs, operations, answers,
                   builder, plans, restoring>>

\* "revision is newer than the vault".
AckAllowed(r, latest) == r <= latest

\* AcknowledgeDevice accepts what is not newer than the log, and keeps the
\* largest value it was given.  It reads LatestRevision in a query before the
\* update; a collection between the two may have lowered it, so the value read
\* is any from the present one to the last revision given out.
AcknowledgeDevice(d) ==
    /\ devices[d].status = "active"
    /\ \E r \in 0..seq, latest \in LatestRevision..seq :
          /\ AckAllowed(r, latest)
          /\ devices' = [devices EXCEPT ![d].ack = IF r > @ THEN r ELSE @]
    /\ UNCHANGED <<clock, seq, changes, files, blobs, operations, answers,
                   builder, plans, restoring>>

\* The three queries of BuildGCPlan take no time on the scale of days.
DayPasses ==
    /\ clock < MaxClock
    /\ builder.phase = "idle"
    /\ clock' = clock + 1
    /\ UNCHANGED <<seq, changes, files, blobs, operations, answers, devices,
                   builder, plans, restoring>>
-----------------------------------------------------------------------------
(* Garbage collection (maintenance.go).  BuildGCPlan holds the maintenance *)
(* mutex but no transaction: mutations and acknowledgements may come       *)
(* between its three queries, a plan's execution may not.                  *)

Active == {d \in Devices : devices[d].status = "active"}

\* Mutant: a device that has acknowledged nothing yet is left out of MIN.
WatermarkOfAcked ==
    LET acks == {devices[d].ack : d \in Active} \ {0}
    IN  IF acks = {} THEN 0 ELSE Min(acks)

\* SELECT MIN(last_ack_revision) ... WHERE status='active' HAVING MIN > 0; 0
\* stands for the missing group.
Watermark ==
    IF Active = {} THEN 0 ELSE Min({devices[d].ack : d \in Active})

\* ROW_NUMBER() OVER (PARTITION BY path ORDER BY seq DESC).
Position(c) ==
    Cardinality({e \in changes : e.path = c.path /\ e.rev >= c.rev})

\* Mutant: keep_versions is off by one.
BeyondKeptByOne(c) == Position(c) >= KeepVersions

BeyondKept(c) == Position(c) > KeepVersions

\* The rows of the ranked query.
Collectable(c, watermark, cutoff) ==
    /\ c.rev <= watermark
    /\ c.created < cutoff
    /\ \/ BeyondKept(c)
       \/ Position(c) = 1 /\ c.content = Deleted

Revs(cs) == {c.rev : c \in cs}

\* First query.  With no watermark the plan is saved at once, and empty.
GCReadWatermark(g) ==
    /\ builder.phase = "idle"
    /\ plans[g].status = "none"
    /\ IF Watermark = 0
       THEN /\ plans' = [plans EXCEPT ![g] = [NoPlan EXCEPT !.status = "pending"]]
            /\ UNCHANGED builder
       ELSE /\ builder' = [phase |-> "watermark", plan |-> g,
                           watermark |-> Watermark, revs |-> {}, paths |-> {},
                           cutoff |-> 0, audience |-> {}]
            /\ UNCHANGED plans
    /\ UNCHANGED <<clock, seq, changes, files, blobs, operations, answers,
                   devices, restoring>>

\* Second query.  It computes the watermark again.  audience is history: the
\* devices whose acknowledgements this watermark is the minimum of.
GCRankChanges ==
    LET cutoff == clock - Retention
        candidates == {c \in changes : Collectable(c, Watermark, cutoff)}
    IN  /\ builder.phase = "watermark"
        /\ builder' = [builder EXCEPT
              !.phase = "ranked", !.cutoff = cutoff, !.revs = Revs(candidates),
              !.paths = {c.path : c \in {x \in candidates :
                                            Position(x) = 1 /\ x.content = Deleted}},
              !.audience = Active]
    /\ UNCHANGED <<clock, seq, changes, files, blobs, operations, answers,
                   devices, plans, restoring>>

\* Mutant: the watermark does not bound what goes with a tombstone.
HistoryUnbounded == {c \in changes : c.path \in builder.paths}

\* "every older version of that deleted path": up to the first watermark.
HistoryOfDeleted ==
    {c \in changes : c.path \in builder.paths /\ c.rev <= builder.watermark}

\* The contents all of whose changes are in the plan.
OnlyIn(revs) ==
    {h \in blobs : /\ \E c \in changes : c.content = h
                   /\ \A c \in changes : c.content = h => c.rev \in revs}

\* Third query, blob references and INSERT INTO gc_plans.
GCSavePlan ==
    LET revs == builder.revs \cup Revs(HistoryOfDeleted)
    IN  /\ builder.phase = "ranked"
        /\ plans' = [plans EXCEPT ![builder.plan] =
              [status |-> "pending", revs |-> revs, paths |-> builder.paths,
               blobs |-> OnlyIn(revs), opCutoff |-> builder.cutoff,
               audience |-> builder.audience]]
        /\ builder' = Idle
    /\ UNCHANGED <<clock, seq, changes, files, blobs, operations, answers,
                   devices, restoring>>

\* The call ends without a plan: cancelled, refused, or the server stops.
GCBuildEnd ==
    /\ builder.phase # "idle"
    /\ builder' = Idle
    /\ UNCHANGED <<clock, seq, changes, files, blobs, operations, answers,
                   devices, plans, restoring>>

\* The rows that are left when the plan's revisions are gone.
Survivors(plan) == {c \in changes : c.rev \notin plan.revs}

\* Mutant: the rows of the collected tombstones stay.
FilesKept(plan) == files

\* DELETE FROM files ... AND deleted=1.
FilesAfter(plan) ==
    [p \in Paths |-> IF p \in plan.paths /\ files[p].content = Deleted
                     THEN NoRow ELSE files[p]]

\* Mutant: the blobs of the plan go without looking for references again.
BlobsUnguarded(plan) == blobs \ plan.blobs

\* DELETE FROM blobs ... AND NOT EXISTS(a change that references it).
BlobsAfter(plan) ==
    {h \in blobs : h \in plan.blobs =>
                      \E c \in Survivors(plan) : c.content = h}

ExecuteGCPlan(g) ==
    LET plan == plans[g]
    IN  /\ builder.phase = "idle"
        /\ plan.status = "pending"
        /\ changes' = Survivors(plan)
        /\ files' = FilesAfter(plan)
        /\ blobs' = BlobsAfter(plan)
        /\ operations' = {o \in operations : o.created >= plan.opCutoff}
        /\ plans' = [plans EXCEPT ![g].status = "executed"]
    /\ UNCHANGED <<clock, seq, answers, devices, builder, restoring>>

-----------------------------------------------------------------------------

Mutate(d) == Apply(d) \/ Rename(d) \/ BatchDelete(d)

RestoreVersion(d) ==
    RestoreRead(d) \/ RestorePut(d) \/ RestoreMark(d) \/ RestoreEnd(d)

Manage(d) == PairDevice(d) \/ SetDeviceStatus(d) \/ AcknowledgeDevice(d)

CollectGarbage ==
    \/ \E g \in PlanIds : GCReadWatermark(g) \/ ExecuteGCPlan(g)
    \/ GCRankChanges
    \/ GCSavePlan
    \/ GCBuildEnd

Next ==
    \/ \E d \in Writers : Mutate(d) \/ RestoreVersion(d)
    \/ \E d \in Devices : Manage(d)
    \/ CollectGarbage
    \/ DayPasses

Spec == Init /\ [][Next]_vars
-----------------------------------------------------------------------------
(* Properties.                                                             *)

\* Every table holds rows of its type.
TypeOK ==
    /\ clock \in Nat
    /\ seq \in Nat
    /\ changes \subseteq Change
    /\ files \in [Paths -> Row]
    /\ blobs \subseteq Contents
    /\ operations \subseteq Operation
    /\ answers \subseteq Operation
    /\ devices \in [Devices -> Device]
    /\ builder \in Builder
    /\ plans \in [PlanIds -> Plan]
    /\ restoring \in [Writers -> Restore]

\* The version that a path's row names is in the log, with the row's content,
\* and no retained version of that path is newer: garbage collection, however
\* stale the plan it executes, takes no version that is still current.
CurrentVersionRetained ==
    \A p \in Paths : files[p].rev # 0 =>
        /\ \E c \in changes : /\ c.path = p
                              /\ c.rev = files[p].rev
                              /\ c.content = files[p].content
        /\ \A c \in changes : c.path = p => c.rev <= files[p].rev

\* A version that is still in the log can still be downloaded: its bytes are
\* not collected, even when the plan was made before the version was written.
RetainedContentStored ==
    \A c \in changes : c.content # Deleted => c.content \in blobs

\* The log gives a revision to one version only, and none beyond the sequence.
LogSound ==
    /\ IsFiniteSet(changes)
    /\ \A c \in changes : 0 < c.rev /\ c.rev <= seq
    /\ \A c, e \in changes : c.rev = e.rev => c = e
    /\ \A p \in Paths : files[p].rev = 0 => files[p].content = Deleted

\* Of the current versions, the plan (revs, paths) takes only tombstones, and
\* these with their rows.
TakesNoLiveVersion(revs, paths) ==
    /\ \A r \in revs : r <= seq
    /\ \A p \in Paths : files[p].rev # 0 /\ files[p].rev \in revs
                          => p \in paths /\ files[p].content = Deleted

\* The same of the plan that is being built.  A path it takes as deleted may
\* come to life again, but only with a version the third query leaves alone.
BuilderSafe ==
    /\ builder.phase # "idle" => builder.watermark <= seq
    /\ builder.phase = "ranked" =>
          /\ TakesNoLiveVersion(builder.revs, builder.paths)
          /\ \A p \in builder.paths :
                files[p].content = Deleted \/ builder.watermark < files[p].rev

\* Why a collection takes no current version and no content in use: every
\* plan was safe when it was made, and what happens since only adds versions.
CollectionSafe ==
    /\ LogSound
    /\ \A d \in Devices : devices[d].ack <= seq
    /\ CurrentVersionRetained
    /\ RetainedContentStored
    /\ BuilderSafe
    /\ \A g \in PlanIds : plans[g].status = "pending" =>
          TakesNoLiveVersion(plans[g].revs, plans[g].paths)

\* The revision a request was based on, for each path it overwrites.
Bases(request) ==
    CASE request.kind = "apply"  -> {[path |-> request.path, base |-> request.base]}
      [] request.kind = "rename" -> {[path |-> request.from, base |-> request.base]}
      [] request.kind = "batch"  -> request.items

\* No silent overwrite: between the version a committed request was based on
\* and the version it made, nobody else made a version of that path.
NoLostUpdate ==
    \A a \in answers : a.changed =>
        \A b \in Bases(a.request), o \in a.result, c \in changes :
            b.path = o.path /\ b.path = c.path => ~(b.base < c.rev /\ c.rev < o.rev)

\* A retry (same device, operation id and fingerprint) is given the result of
\* the original: no two answers to it differ.
RetryReturnsOriginal ==
    \A a, b \in answers :
        a.device = b.device /\ a.id = b.id /\ a.request = b.request
            => a.result = b.result /\ a.changed = b.changed

\* An operation id is executed a second time only when the record of the first
\* execution is past the retention period, however late a plan is executed.
\* Where the second execution of the request changes something again, the
\* collector has forgotten the paths since: a late retry never undoes what was
\* done to a path meanwhile, and repeats no update, deletion, rename or batch.
LateRetriesAreHarmless ==
  [][\A a \in answers, b \in answers' \ answers :
       a.device = b.device /\ a.id = b.id =>
         /\ a.created < clock - Retention
         /\ a.request = b.request /\ a.changed /\ b.changed =>
              \A x \in a.result : files[x.path] = NoRow]_vars

\* A version marked as a restore holds the content of the version of the same
\* path that the mark names, though other mutations, a retry or a collection
\* may come between reading that version, putting its content and marking it.
RestoreFaithful ==
    \A c, s \in changes : c.restoredFrom = s.rev =>
        /\ s.path = c.path
        /\ s.content = c.content

\* Garbage collection only removes a version that is older than the retention
\* period and that every device the plan counted has acknowledged.
GCRemovesOnlySettled ==
    [][\A g \in PlanIds :
         plans[g].status = "pending" /\ plans'[g].status = "executed" =>
           \A c \in changes : c.rev \notin Revs(changes') =>
             /\ c.created < clock - Retention
             /\ \A d \in plans[g].audience : c.rev <= devices[d].ack]_vars

\* A path that is not collected as deleted keeps its newest KeepVersions
\* versions when a plan is executed, even one made several commits ago.
GCKeepsNewest ==
    [][\A g \in PlanIds :
         plans[g].status = "pending" /\ plans'[g].status = "executed" =>
           \A c \in changes :
             c.path \notin plans[g].paths /\ Position(c) <= KeepVersions
               => c \in changes']_vars
-----------------------------------------------------------------------------
(* The table of files implements a versioned map.                          *)

Map == INSTANCE VersionedMap WITH head <- files, issued <- seq

\* Every step of the store is a commit of new revisions to some rows, the
\* forgetting of tombstones, or no change to the current state: a collection
\* never drops a live file, and no two paths share a revision.
ImplementsVersionedMap == Map!Spec

-----------------------------------------------------------------------------
(* What a document or a comment says, and the code does not hold to.       *)

\* maintenance.go: with a tombstone, every older version of the path goes in
\* the same plan.  If one stays, a snapshot shows the deleted file as live.
SnapshotShowsNoDeletedFile ==
    \A c \in Snapshot(seq) : c.content # Deleted => files[c.path].rev = c.rev

\* identity.go: an acknowledgement is refused because it is "newer than the
\* vault".  What a device has already acknowledged cannot be newer.
AcknowledgedIsNotNewer ==
    \A d \in Active : AckAllowed(devices[d].ack, LatestRevision)

=============================================================================
