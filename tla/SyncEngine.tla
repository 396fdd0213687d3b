----------------------------- MODULE SyncEngine -----------------------------
(***************************************************************************)
(* The sync engine of one device (plugin/src/sync-engine.ts) with the part *)
(* of the plugin that feeds it (main.ts): a user who edits files at any    *)
(* moment, the queues that vault events fill, the data the plugin keeps in *)
(* memory and saves as a whole, and the run that recovers, renames, scans, *)
(* pushes, pulls and acknowledges.                                         *)
(*                                                                         *)
(* The engine is single-threaded, and gives way only where it awaits a     *)
(* request, a file operation or a save.  An action is what it does between *)
(* such points, or over several of them when nothing that may come between *)
(* could tell them apart.  pc names the point the run has reached.         *)
(*                                                                         *)
(* The cache of hashes (a scan finds what is on disk), limits of sizes,    *)
(* excluded paths and the progress and activity records are left out.  A   *)
(* file is its content; larger ones go in chunks, not modelled.  Conflict  *)
(* copies get names of their own and are kept apart in copies; that they   *)
(* are files that are uploaded in turn is not modelled.                    *)
(***************************************************************************)
EXTENDS SyncServer

CONSTANTS
    UserContents,   \* the contents the user writes
    InitialModes,   \* what the user chose for the first run: of "merge", "remote", "local"
    PageSize,       \* changes in a page of the log
    RenameOnto,     \* what adapter.rename does when the destination exists:
                    \* a subset of {"refuses", "replaces"}
    Unknown,        \* the content of a path without a recorded state
    MaxUser,        \* bound: edits of the user
    MaxOther,       \* bound: changes of other devices
    MaxFault,       \* bound: crashes and failed runs
    MaxCollect      \* bound: tombstones collected

ASSUME EngineAssumption ==
    /\ UserContents \subseteq Contents
    /\ InitialModes \subseteq {"merge", "remote", "local"}
    /\ PageSize \in Nat \ {0}
    /\ RenameOnto \subseteq {"refuses", "replaces"}
    /\ Unknown \notin Content
    /\ MaxUser \in Nat /\ MaxOther \in Nat
    /\ MaxFault \in Nat /\ MaxCollect \in Nat

VARIABLES
    disk,       \* the file at each path, Absent if there is none
    copies,     \* the conflict copies written so far
    temp,       \* the temporary file of the download in progress
    backup,     \* the file that the download is replacing
    mem,        \* PersistedData in memory
    saved,      \* PersistedData on disk
    up,         \* the plugin is loaded
    pc,         \* where the run is; "idle" between runs
    run,        \* the run's local variables
    reply,      \* the answer of the server to the request in the outbox
    work,       \* history: the user's last content of each path, whether the edit
                \* was Exposed, and the contents the user has replaced or deleted
    spent       \* how much of the bounds is used up

fileVars == <<disk, copies, temp, backup>>
dataVars == <<mem, saved>>
historyVars == <<work, spent>>
vars == <<serverVars, fileVars, dataVars, up, pc, run, reply, historyVars>>

-----------------------------------------------------------------------------
(* The plugin's data.                                                      *)

\* FileState: what the engine has last agreed on with the server.  A path that
\* has no entry is Untracked, which is not the same as a tombstone.
FileState == [rev : Nat, content : Content]
Untracked == [rev |-> 0, content |-> Unknown]

NoDownload == [path |-> "none"]
NoOperation == [id |-> 0]
Operation == [id : OpIds, request : Request]
Move == [from : Paths, to : Paths]

\* PersistedData.  pending are the queued paths; that an entry is newer than
\* the one a run has seen is kept in run.noted.  mode is the approved initial
\* mode, "done" once the first run has completed.
Data == [files : [Paths -> FileState \cup {Untracked}],
         cursor : Nat,
         inbox : Version \cup {NoDownload},
         outbox : Operation \cup {NoOperation},
         pending : SUBSET Paths,
         renames : Seq(Move),
         mode : {"merge", "remote", "local", "done"}]

\* Where a run may be.
Labels == {"idle", "inbox", "outbox", "snapshot", "preserve", "discard", "merge",
           "renames", "plan", "scan", "push", "deletes", "send", "answer", "refused", "pull",
           "page", "apply", "remove", "download", "install", "swap", "verify",
           "record", "save", "finish", "ack", "end"}

\* The local variables of a run.
\*   deferred  paths that are not pushed in this run
\*   noted     queued paths the run will acknowledge: entries since replaced by
\*             newer ones are not among them
\*   full      the run scans every path
\*   scope     the paths that are scanned
\*   found     the scanned contents
\*   todo      the paths left in the loop the run is in
\*   moves     queued renames left
\*   at, upto, more   the page of the log, and whether there is another
\*   change, keep   the arguments of applyRemoteChange
\*   refused   the content of a put that the server refused
\*   ret       where the run goes on after a procedure
Run == [deferred : SUBSET Paths, noted : SUBSET Paths, full : BOOLEAN,
        scope : SUBSET Paths, found : [Paths -> Content], todo : SUBSET Paths,
        moves : Nat, at : Nat, upto : Nat, more : BOOLEAN,
        change : Version \cup {NoDownload}, keep : BOOLEAN, refused : Content,
        ret : Labels]

NothingFound == [p \in Paths |-> Absent]

IdleRun == [deferred |-> {}, noted |-> {}, full |-> FALSE, scope |-> {},
            found |-> NothingFound, todo |-> {}, moves |-> 0, at |-> 0,
            upto |-> 0, more |-> FALSE, change |-> NoDownload, keep |-> TRUE,
            refused |-> Absent, ret |-> "idle"]

Tracked(p) == mem.files[p] # Untracked
TrackedLive(p) == Tracked(p) /\ mem.files[p].content # Absent

\* Mutant: a deletion is recorded without its content.
RecordedWithoutDeletions(versions) ==
    [p \in Paths |->
        IF \E v \in versions : v.path = p
        THEN LET v == CHOOSE v \in versions : v.path = p
             IN  [rev |-> v.rev, content |-> IF v.content = Absent THEN Unknown ELSE v.content]
        ELSE mem.files[p]]

\* files[p] = stateFromChange(v) for each of the versions.
Recorded(versions) ==
    [p \in Paths |->
        IF \E v \in versions : v.path = p
        THEN LET v == CHOOSE v \in versions : v.path = p
             IN  [rev |-> v.rev, content |-> v.content]
        ELSE mem.files[p]]

Queued(ps) == mem.pending \cup ps

\* An entry of pending that is queued again is newer than what the run noted.
Unnoted(ps) == run.noted \ ps

\* await persist().
Persist(data) == mem' = data /\ saved' = data

Goto(label) == pc' = label /\ UNCHANGED run

\* Return from a procedure to where the run goes on.
Return ==
    /\ pc' = run.ret
    /\ run' = [run EXCEPT !.change = NoDownload, !.keep = TRUE, !.ret = "idle"]

\* The run ends, by its last step or by an error; main.ts saves the data.
EndRun ==
    /\ saved' = mem
    /\ pc' = "idle"
    /\ run' = IdleRun
    /\ reply' = NoReply
    /\ UNCHANGED mem

\* What the steps of the engine leave to the user, the plugin and the server.
Quiet == UNCHANGED <<up, historyVars>>
NoRequest == UNCHANGED <<serverVars, reply>>

-----------------------------------------------------------------------------
(* applyRemoteChange and the installation of a download.                   *)

\* Mutant: local content is compared with the remote version only if the path
\* was never recorded.
ModifiedIfUntracked(v, now) == ~Tracked(v.path) /\ now # v.content

\* The local content is neither the recorded nor the remote one.  Nothing
\* counts as modified where the engine remembers a deletion.
LocallyModified(v, now) ==
    IF Tracked(v.path)
    THEN mem.files[v.path].content \notin {Absent, now} /\ now # v.content
    ELSE now # v.content

\* A conflict copy and the version it was made for.
ConflictCopy(p, content, v) ==
    [path |-> p, content |-> content, why |-> "conflict", rival |-> v.rev]

\* stageDownload: the inbox names the download before anything is fetched.
StageDownload(v) == Persist([mem EXCEPT !.inbox = v])

\* Read the local file, keep a copy if it was modified, and record, remove or
\* stage a download.
ApplyRemoteChange ==
    LET v == run.change
        now == disk[v.path]
    IN  /\ pc = "apply"
        /\ copies' = IF run.keep /\ now # Absent /\ LocallyModified(v, now)
                     THEN copies \cup {ConflictCopy(v.path, now, v)} ELSE copies
        /\ \/ /\ now = v.content
              /\ mem' = [mem EXCEPT !.files = Recorded({v})]
              /\ Return
              /\ UNCHANGED saved
           \/ /\ now # Absent /\ v.content = Absent
              /\ Goto("remove")
              /\ UNCHANGED dataVars
           \/ /\ v.content \notin {Absent, now}
              /\ StageDownload(v)
              /\ Goto("download")
    /\ NoRequest /\ Quiet /\ UNCHANGED <<disk, temp, backup>>

\* adapter.remove, which fails if the user has removed the file meanwhile.
RemoveLocal ==
    LET p == run.change.path
    IN  /\ pc = "remove"
        /\ IF disk[p] = Absent
           THEN EndRun /\ UNCHANGED disk
           ELSE /\ disk' = [disk EXCEPT ![p] = Absent]
                /\ mem' = [mem EXCEPT !.files = Recorded({run.change})]
                /\ Return
                /\ UNCHANGED <<saved, reply>>
    /\ Quiet /\ UNCHANGED <<serverVars, copies, temp, backup>>

\* downloadToTemporaryFile, verified; the new stage is saved but never read.
Download ==
    /\ pc = "download"
    /\ temp' = run.change.content
    /\ saved' = mem
    /\ Goto("install")
    /\ NoRequest /\ Quiet /\ UNCHANGED <<disk, copies, backup, mem>>

\* installDownload: the target becomes the backup, unless there is one already.
SetAside ==
    LET p == run.change.path
    IN  /\ pc = "install"
        /\ IF disk[p] # Absent /\ backup = Absent
           THEN /\ backup' = disk[p]
                /\ disk' = [disk EXCEPT ![p] = Absent]
           ELSE UNCHANGED <<disk, backup>>
        /\ saved' = mem
        /\ Goto("swap")
    /\ NoRequest /\ Quiet /\ UNCHANGED <<copies, temp, mem>>

\* The temporary file takes the target's name.  Where the user has put a file
\* there again, adapter.rename replaces it or refuses, and the run fails.
SwapIn ==
    LET p == run.change.path
    IN  /\ pc = "swap"
        /\ \/ /\ disk[p] = Absent \/ "replaces" \in RenameOnto
              /\ disk' = [disk EXCEPT ![p] = temp]
              /\ temp' = Absent
              /\ Goto("verify")
              /\ UNCHANGED <<dataVars, reply>>
           \/ /\ disk[p] # Absent /\ "refuses" \in RenameOnto
              /\ EndRun
              /\ UNCHANGED <<disk, temp>>
    /\ Quiet /\ UNCHANGED <<serverVars, copies, backup>>

\* The installed file is checked; the backup goes, or comes back.
VerifyInstalled ==
    LET p == run.change.path
    IN  /\ pc = "verify"
        /\ backup' = Absent
        /\ IF disk[p] = run.change.content
           THEN Goto("record") /\ UNCHANGED <<disk, dataVars, reply>>
           ELSE disk' = [disk EXCEPT ![p] = backup] /\ EndRun
    /\ Quiet /\ UNCHANGED <<serverVars, copies, temp>>

\* finishDownload: the state is saved before the inbox entry goes.
FinishDownload ==
    LET data == [mem EXCEPT !.files = Recorded({run.change})]
    IN  /\ pc = "record"
        /\ saved' = data
        /\ mem' = [data EXCEPT !.inbox = NoDownload]
        /\ Goto("save")
    /\ NoRequest /\ Quiet /\ UNCHANGED fileVars

\* The last await persist() of a procedure.
Save ==
    /\ pc = "save"
    /\ saved' = mem
    /\ Return
    /\ NoRequest /\ Quiet /\ UNCHANGED <<fileVars, mem>>

-----------------------------------------------------------------------------
(* run(), first part: what an earlier run has left in the inbox.           *)

StartRun ==
    /\ up /\ pc = "idle"
    /\ Goto("inbox")
    /\ NoRequest /\ Quiet /\ UNCHANGED <<fileVars, dataVars>>

\* Mutant: the backup is left behind.
CleanUpTemp == temp' = Absent /\ UNCHANGED backup

\* cleanupDownloadArtifacts.
CleanUp == temp' = Absent /\ backup' = Absent

\* The target already is what was downloaded: only the records are missing.
InboxInstalled ==
    /\ pc = "inbox" /\ mem.inbox # NoDownload
    /\ disk[mem.inbox.path] = mem.inbox.content
    /\ CleanUp
    /\ run' = [run EXCEPT !.change = mem.inbox, !.ret = "inbox"]
    /\ pc' = "record"
    /\ NoRequest /\ Quiet /\ UNCHANGED <<disk, copies, dataVars>>

\* The temporary file is complete: it is installed over what is there now.
InboxReady ==
    /\ pc = "inbox" /\ mem.inbox # NoDownload
    /\ disk[mem.inbox.path] # mem.inbox.content
    /\ temp = mem.inbox.content
    /\ run' = [run EXCEPT !.change = mem.inbox, !.ret = "inbox"]
    /\ pc' = "install"
    /\ NoRequest /\ Quiet /\ UNCHANGED <<fileVars, dataVars>>

\* The backup comes back if the target is missing.
Restored(p) ==
    IF disk[p] = Absent THEN [disk EXCEPT ![p] = backup] ELSE disk

\* Neither: the download is given up, and the path not pushed in this run.
InboxLost ==
    LET p == mem.inbox.path
    IN  /\ pc = "inbox" /\ mem.inbox # NoDownload
        /\ mem.inbox.content \notin {disk[p], temp}
        /\ disk' = Restored(p)
        /\ CleanUp
        /\ Persist([mem EXCEPT !.inbox = NoDownload])
        /\ run' = [run EXCEPT !.deferred = @ \cup {p}]
    /\ NoRequest /\ Quiet /\ UNCHANGED <<copies, pc>>

InboxDone ==
    /\ pc = "inbox" /\ mem.inbox = NoDownload
    /\ Goto("outbox")
    /\ NoRequest /\ Quiet /\ UNCHANGED <<fileVars, dataVars>>

-----------------------------------------------------------------------------
(* Requests under an operation id, saved in the outbox before they are     *)
(* sent.                                                                   *)

\* crypto.randomUUID(): an id that neither memory nor disk knows.
FreshId == IF saved.outbox = NoOperation THEN 1 ELSE 3 - saved.outbox.id

\* stageOperation.  The record in memory holds no operation at this point.
Stage(request) ==
    /\ Persist([mem EXCEPT !.outbox = [id |-> FreshId, request |-> request]])
    /\ answers' = [answers EXCEPT ![FreshId] = NoReply]
    /\ pc' = "send"
    /\ UNCHANGED <<log, head, ack, reply>>

ApplyRequest(p, content) ==
    [kind |-> "apply", path |-> p, base |-> mem.files[p].rev, content |-> content]

\* The server executes the request, or refuses it.  An answer that is lost is
\* a run that fails in the next step.
Send ==
    /\ pc = "send"
    /\ Serve(mem.outbox.id, mem.outbox.request, reply')
    /\ Goto("answer")
    /\ Quiet /\ UNCHANGED <<fileVars, dataVars>>

Recovering == run.ret = "outbox"

\* completeOperation: the result is saved while the entry is still there, then
\* the entry goes; it leaves the disk with the next save.
Complete(data) ==
    /\ saved' = data
    /\ mem' = [data EXCEPT !.outbox = NoOperation]
    /\ reply' = NoReply

\* discardOperation.
Discarded == [mem EXCEPT !.outbox = NoOperation]

\* A put or a delete succeeded.  A recovered one queues its path again.
AnswerApplied ==
    LET request == mem.outbox.request
    IN  /\ pc = "answer" /\ reply.kind = "ok" /\ request.kind = "apply"
        /\ IF Recovering
           THEN /\ Complete([mem EXCEPT !.files = Recorded(reply.versions),
                                        !.pending = Queued({request.path})])
                /\ Goto("save")
           ELSE /\ Complete([mem EXCEPT !.files = Recorded(reply.versions)])
                /\ Return
    /\ Quiet /\ UNCHANGED <<serverVars, fileVars>>

\* A put or a delete was refused.  The operation is discarded; after a delete the
\* current version is applied as any change is, after a put a copy is kept first.
AnswerConflict ==
    LET request == mem.outbox.request
        current == CHOOSE v \in reply.versions : TRUE
    IN  /\ pc = "answer" /\ reply.kind = "conflict" /\ request.kind = "apply"
        /\ Persist(Discarded)
        /\ run' = [run EXCEPT !.change = current, !.refused = request.content]
        /\ pc' = IF request.content = Absent THEN "apply" ELSE "refused"
        /\ reply' = NoReply
    /\ Quiet /\ UNCHANGED <<serverVars, fileVars>>

\* The copy is of what the put would have written; then the current version is
\* applied without looking at the file again.
KeepRefused ==
    /\ pc = "refused"
    /\ copies' = copies \cup {ConflictCopy(run.change.path, run.refused, run.change)}
    /\ run' = [run EXCEPT !.keep = FALSE, !.refused = Absent]
    /\ pc' = "apply"
    /\ NoRequest /\ Quiet /\ UNCHANGED <<disk, temp, backup, dataVars>>

\* acceptRenameResult: both paths leave the queue of changed paths.
AnswerMoved ==
    LET request == mem.outbox.request
        queue == IF Recovering THEN mem.renames ELSE Tail(mem.renames)
    IN  /\ pc = "answer" /\ reply.kind = "ok" /\ request.kind = "rename"
        /\ Complete([mem EXCEPT !.files = Recorded(reply.versions),
                                !.pending = @ \ {request.from, request.path},
                                !.renames = queue])
        /\ Goto("save")
    /\ Quiet /\ UNCHANGED <<serverVars, fileVars>>

\* A rename was refused: its paths are left to the scan.
AnswerMoveConflict ==
    LET request == mem.outbox.request
    IN  /\ pc = "answer" /\ reply.kind = "conflict" /\ request.kind = "rename"
        /\ saved' = Discarded
        /\ mem' = IF Recovering
                  THEN [Discarded EXCEPT !.pending = Queued({request.from, request.path})]
                  ELSE [Discarded EXCEPT !.renames = Tail(@)]
        /\ IF Recovering THEN Goto("save") ELSE Return
        /\ reply' = NoReply
    /\ Quiet /\ UNCHANGED <<serverVars, fileVars>>

BatchPaths(request) == {item.path : item \in request.items}

\* acceptBatchDeleteResult; nothing is left to delete one by one.
AnswerBatch ==
    /\ pc = "answer" /\ reply.kind = "ok" /\ mem.outbox.request.kind = "batch"
    /\ Complete([mem EXCEPT !.files = Recorded(reply.versions)])
    /\ pc' = "save"
    /\ run' = [run EXCEPT !.todo = {}, !.scope = {}, !.found = NothingFound]
    /\ Quiet /\ UNCHANGED <<serverVars, fileVars>>

\* A batch was refused: its paths are deleted one by one.  A recovered batch
\* is abandoned, and its paths are not pushed in this run.
AnswerBatchConflict ==
    LET paths == BatchPaths(mem.outbox.request)
    IN  /\ pc = "answer" /\ reply.kind = "conflict" /\ mem.outbox.request.kind = "batch"
        /\ IF Recovering
           THEN /\ Persist([Discarded EXCEPT !.pending = Queued(paths)])
                /\ run' = [run EXCEPT !.deferred = @ \cup paths, !.ret = "idle"]
                /\ pc' = "outbox"
           ELSE /\ Persist(Discarded)
                /\ run' = [run EXCEPT !.ret = "idle"]
                /\ pc' = "deletes"
        /\ reply' = NoReply
    /\ Quiet /\ UNCHANGED <<serverVars, fileVars>>

-----------------------------------------------------------------------------
(* run(): the operation that an earlier run has left in the outbox.        *)

\* The files are still as the operation found them.
StillWanted(request) ==
    CASE request.kind = "apply" -> disk[request.path] = request.content
      [] request.kind = "rename" ->
           disk[request.from] = Absent /\ disk[request.path] = request.content
      [] request.kind = "batch" ->
           \A p \in BatchPaths(request) : disk[p] = Absent

Touched(request) ==
    CASE request.kind = "apply" -> {request.path}
      [] request.kind = "rename" -> {request.from, request.path}
      [] request.kind = "batch" -> BatchPaths(request)

\* Mutant: no operation is looked up on the server.
CommittedNever(id) == FALSE

\* findOperation.
Committed(id) == answers[id] # NoReply

\* The server knows the operation: its result is accepted.
OutboxCommitted ==
    /\ pc = "outbox" /\ mem.outbox # NoOperation
    /\ Committed(mem.outbox.id)
    /\ reply' = answers[mem.outbox.id]
    /\ run' = [run EXCEPT !.ret = "outbox"]
    /\ pc' = "answer"
    /\ Quiet /\ UNCHANGED <<serverVars, fileVars, dataVars>>

\* It does not: it is sent again under the same id.
OutboxResent ==
    /\ pc = "outbox" /\ mem.outbox # NoOperation
    /\ ~Committed(mem.outbox.id) /\ StillWanted(mem.outbox.request)
    /\ run' = [run EXCEPT !.ret = "outbox"]
    /\ pc' = "send"
    /\ NoRequest /\ Quiet /\ UNCHANGED <<fileVars, dataVars>>

\* abandonUncommittedOperation, abandonBatchDeleteOperation.
OutboxAbandoned ==
    /\ pc = "outbox" /\ mem.outbox # NoOperation
    /\ ~Committed(mem.outbox.id) /\ ~StillWanted(mem.outbox.request)
    /\ Persist([Discarded EXCEPT !.pending = Queued(Touched(mem.outbox.request))])
    /\ NoRequest /\ Quiet /\ UNCHANGED <<fileVars, pc, run>>

\* processPendingRenames takes the renames that are queued now.
BeginRenames ==
    /\ pc' = "renames"
    /\ run' = [run EXCEPT !.moves = Len(mem.renames), !.upto = 0, !.todo = {}]

OutboxDone ==
    /\ pc = "outbox" /\ mem.outbox = NoOperation
    /\ IF mem.mode = "done" THEN BeginRenames ELSE Goto("snapshot")
    /\ NoRequest /\ Quiet /\ UNCHANGED <<fileVars, dataVars>>

-----------------------------------------------------------------------------
(* run(): the snapshot of the first run (reconcileSnapshot).               *)

\* The version of a path in the snapshot at revision run.upto.
SnapshotVersion(p) == Logged(Max({r \in 1..run.upto : log[r].path = p}))

\* Every page is of the revision that the first one named.
ReadSnapshot ==
    LET remote == {log[r].path : r \in DOMAIN log}
    IN  /\ pc = "snapshot"
        /\ run' = [run EXCEPT !.upto = Len(log), !.todo = remote,
                      !.scope = IF mem.mode = "remote"
                                THEN {p \in Paths : disk[p] # Absent} \ remote ELSE {}]
        /\ pc' = "preserve"
    /\ NoRequest /\ Quiet /\ UNCHANGED <<fileVars, dataVars>>

\* preserveLocalOnlyFiles, in mode "remote": a copy of each local-only file...
PreserveLocal ==
    /\ pc = "preserve"
    /\ \E p \in run.scope :
          IF disk[p] = Absent
          THEN EndRun /\ UNCHANGED copies
          ELSE /\ copies' = copies \cup {[path |-> p, content |-> disk[p],
                                          why |-> "initial", rival |-> 0]}
               /\ run' = [run EXCEPT !.scope = @ \ {p}, !.ret = "preserve",
                             !.change = [path |-> p, rev |-> 0, content |-> Absent]]
               /\ pc' = "discard"
               /\ UNCHANGED <<dataVars, reply>>
    /\ Quiet /\ UNCHANGED <<serverVars, disk, temp, backup>>

\* ... and its removal.
DiscardLocal ==
    LET p == run.change.path
    IN  /\ pc = "discard"
        /\ IF disk[p] = Absent
           THEN EndRun /\ UNCHANGED disk
           ELSE disk' = [disk EXCEPT ![p] = Absent] /\ Return /\ UNCHANGED <<dataVars, reply>>
    /\ Quiet /\ UNCHANGED <<serverVars, copies, temp, backup>>

PreserveDone ==
    /\ pc = "preserve" /\ run.scope = {}
    /\ Goto("merge")
    /\ NoRequest /\ Quiet /\ UNCHANGED <<fileVars, dataVars>>

\* The versions of the snapshot that are newer than what is recorded.
MergeDue ==
    {p \in run.todo : ~(Tracked(p) /\ mem.files[p].rev >= SnapshotVersion(p).rev)}

\* Mode "local" records the versions and lets the scan find the differences (the
\* user has given them up); the other modes apply them.
MergeSnapshot ==
    /\ pc = "merge" /\ MergeDue # {}
    /\ IF mem.mode = "local"
       THEN LET versions == {SnapshotVersion(p) : p \in MergeDue}
            IN  /\ mem' = [mem EXCEPT !.files = Recorded(versions)]
                /\ work' = [p \in Paths |-> [work[p] EXCEPT
                     !.left = @ \cup {v.content : v \in {w \in versions : w.path = p}}]]
                /\ UNCHANGED <<pc, run>>
       ELSE /\ \E p \in MergeDue :
                  run' = [run EXCEPT !.todo = @ \ {p}, !.change = SnapshotVersion(p),
                                     !.ret = "merge"]
            /\ pc' = "apply"
            /\ UNCHANGED <<mem, work>>
    /\ NoRequest /\ UNCHANGED <<fileVars, saved, up, spent>>

MergeDone ==
    /\ pc = "merge" /\ MergeDue = {}
    /\ Persist([mem EXCEPT !.cursor = run.upto])
    /\ BeginRenames
    /\ NoRequest /\ Quiet /\ UNCHANGED fileVars

-----------------------------------------------------------------------------
(* run(): queued renames, scan and push.                                   *)

\* A rename that can be sent as one: the source is recorded and gone, the
\* destination has its content.
Sendable(m) ==
    TrackedLive(m.from) /\ disk[m.from] = Absent /\ disk[m.to] = mem.files[m.from].content

RenameSkipped ==
    /\ pc = "renames" /\ run.moves > 0
    /\ ~Sendable(Head(mem.renames))
    /\ mem' = [mem EXCEPT !.renames = Tail(@)]
    /\ run' = [run EXCEPT !.moves = @ - 1]
    /\ NoRequest /\ Quiet /\ UNCHANGED <<fileVars, saved, pc>>

RenameStaged ==
    LET m == Head(mem.renames)
    IN  /\ pc = "renames" /\ run.moves > 0
        /\ Sendable(m)
        /\ Stage([kind |-> "rename", from |-> m.from, path |-> m.to,
                  base |-> mem.files[m.from].rev, content |-> mem.files[m.from].content])
        /\ run' = [run EXCEPT !.moves = @ - 1, !.ret = "renames"]
    /\ Quiet /\ UNCHANGED fileVars

RenamesDone ==
    /\ pc = "renames" /\ run.moves = 0
    /\ saved' = mem
    /\ Goto("plan")
    /\ NoRequest /\ Quiet /\ UNCHANGED <<fileVars, mem>>

\* The scan takes every path, or the queued ones.
Plan(full) ==
    /\ pc = "plan"
    /\ LET scope == IF full THEN Paths ELSE mem.pending
       IN  /\ run' = [run EXCEPT !.full = full, !.noted = mem.pending,
                                 !.scope = scope, !.todo = scope]
           /\ pc' = IF scope = {} THEN "push" ELSE "scan"
    /\ NoRequest /\ Quiet /\ UNCHANGED <<fileVars, dataVars>>

\* A full scan hashes every file: in the first run, while nothing is cached, and
\* once a day.  (The hourly one trusts size and time of files it has seen.)
PlanFull == Plan(TRUE)
PlanQueued == mem.mode = "done" /\ Plan(FALSE)

\* Files are read one after the other; then those found are pushed.
ScanPath(p) ==
    /\ pc = "scan" /\ p \in run.todo
    /\ LET found == [run.found EXCEPT ![p] = disk[p]]
           left == run.todo \ {p}
       IN  IF left # {}
           THEN run' = [run EXCEPT !.found = found, !.todo = left] /\ UNCHANGED pc
           ELSE /\ run' = [run EXCEPT !.found = found,
                              !.todo = {q \in Paths : found[q] # Absent}]
                /\ pc' = "push"
    /\ NoRequest /\ Quiet /\ UNCHANGED <<fileVars, dataVars>>

\* The found files that differ from what is recorded.
PushDue ==
    {p \in run.todo : p \notin run.deferred /\ mem.files[p].content # run.found[p]}

\* The file is read again before it is sent: if it is gone it is left to its
\* event, if it changed it is queued.
PushPath(p) ==
    /\ pc = "push" /\ p \in PushDue
    /\ \/ /\ disk[p] = run.found[p]
          /\ Stage(ApplyRequest(p, disk[p]))
          /\ run' = [run EXCEPT !.todo = @ \ {p}, !.ret = "push"]
       \/ /\ disk[p] # run.found[p]
          /\ mem' = IF disk[p] = Absent THEN mem
                    ELSE [mem EXCEPT !.pending = Queued({p})]
          /\ run' = [run EXCEPT !.todo = @ \ {p},
                        !.noted = IF disk[p] = Absent THEN @ ELSE Unnoted({p})]
          /\ NoRequest
          /\ UNCHANGED <<saved, pc>>
    /\ Quiet /\ UNCHANGED fileVars

\* Mutant: a path that the scan did not take counts as missing.
DeletionsUnscoped ==
    {p \in Paths : TrackedLive(p) /\ run.found[p] = Absent /\ p \notin run.deferred}

\* Mutant: only a queued path can have been deleted.
DeletionsQueued ==
    {p \in run.scope \cap run.noted :
        TrackedLive(p) /\ run.found[p] = Absent /\ p \notin run.deferred}

\* The recorded files that the scan has not found.
Deletions ==
    {p \in run.scope : TrackedLive(p) /\ run.found[p] = Absent /\ p \notin run.deferred}

\* Several deletions are first tried as one batch.
PushDone ==
    LET missing == Deletions
    IN  /\ pc = "push" /\ PushDue = {}
        /\ IF Cardinality(missing) > 1
           THEN /\ Stage([kind |-> "batch",
                          items |-> {[path |-> p, base |-> mem.files[p].rev] : p \in missing}])
                /\ run' = [run EXCEPT !.todo = missing, !.ret = "pull"]
           ELSE /\ run' = [run EXCEPT !.todo = missing]
                /\ pc' = "deletes"
                /\ NoRequest
                /\ UNCHANGED dataVars
    /\ Quiet /\ UNCHANGED fileVars

DeletePath(p) ==
    /\ pc = "deletes" /\ p \in run.todo
    /\ Stage(ApplyRequest(p, Absent))
    /\ run' = [run EXCEPT !.todo = @ \ {p}, !.ret = "deletes"]
    /\ Quiet /\ UNCHANGED fileVars

DeletesDone ==
    /\ pc = "deletes" /\ run.todo = {}
    /\ saved' = mem
    /\ run' = [run EXCEPT !.scope = {}, !.found = NothingFound]
    /\ pc' = "pull"
    /\ NoRequest /\ Quiet /\ UNCHANGED <<fileVars, mem>>

-----------------------------------------------------------------------------
(* run(): pull, acknowledge, end.                                          *)

\* listChanges: one page of the log after the cursor.
PullPage ==
    /\ pc = "pull"
    /\ LET last == Min({mem.cursor + PageSize, Len(log)})
       IN  run' = [run EXCEPT !.at = mem.cursor, !.upto = last, !.more = last < Len(log)]
    /\ pc' = "page"
    /\ NoRequest /\ Quiet /\ UNCHANGED <<fileVars, dataVars>>

\* Mutant: the page is taken to begin with the change at the cursor.
PageDueAfterNext ==
    {r \in (run.at + 2)..run.upto :
        ~(Tracked(log[r].path) /\ mem.files[log[r].path].rev >= r)}

\* The changes of the page that are newer than what is recorded.
PageDue ==
    {r \in (run.at + 1)..run.upto :
        ~(Tracked(log[r].path) /\ mem.files[log[r].path].rev >= r)}

PageChange ==
    /\ pc = "page" /\ PageDue # {}
    /\ LET r == Min(PageDue)
       IN  run' = [run EXCEPT !.at = r, !.change = Logged(r), !.ret = "page"]
    /\ pc' = "apply"
    /\ NoRequest /\ Quiet /\ UNCHANGED <<fileVars, dataVars>>

\* Mutant: the cursor moves to the latest revision.
PageCursorLatest == Len(log)

\* The revision of the page's last change.
PageCursor == run.upto

\* The cursor moves once the whole page is applied.
PageDone ==
    /\ pc = "page" /\ PageDue = {}
    /\ Persist([mem EXCEPT !.cursor = PageCursor])
    /\ pc' = IF run.more THEN "pull" ELSE "finish"
    /\ run' = [run EXCEPT !.at = 0, !.upto = 0, !.more = FALSE]
    /\ NoRequest /\ Quiet /\ UNCHANGED fileVars

\* Mutant: every queued path is acknowledged, newer events with it.
PendingAfterAll == {}

\* acknowledgePendingPaths: newer entries stay.
PendingAfter == mem.pending \ run.noted

Finish ==
    /\ pc = "finish"
    /\ Persist([mem EXCEPT !.mode = "done", !.pending = PendingAfter])
    /\ Goto("ack")
    /\ NoRequest /\ Quiet /\ UNCHANGED fileVars

\* Mutant: the latest revision of the vault is acknowledged.
AckLatest ==
    /\ pc = "ack"
    /\ Acknowledge(Len(log))
    /\ Goto("end")
    /\ Quiet /\ UNCHANGED <<fileVars, dataVars, reply>>

\* Only what is saved is acknowledged.
AckCursor ==
    /\ pc = "ack"
    /\ Acknowledge(mem.cursor)
    /\ Goto("end")
    /\ Quiet /\ UNCHANGED <<fileVars, dataVars, reply>>

CompleteRun ==
    /\ pc = "end"
    /\ EndRun
    /\ Quiet /\ UNCHANGED <<serverVars, fileVars>>

-----------------------------------------------------------------------------
(* Failures, the user and the other devices.                               *)

Spend(what, bound) ==
    /\ spent[what] < bound
    /\ spent' = [spent EXCEPT ![what] = @ + 1]

\* A request, a file operation or a save fails, the user pauses or cancels: the
\* run ends where it is.  A rename that fails puts the backup back.
RunFails ==
    /\ pc # "idle"
    /\ Spend("fault", MaxFault)
    /\ EndRun
    /\ disk' = IF pc = "swap" THEN Restored(run.change.path) ELSE disk
    /\ backup' = IF disk' # disk THEN Absent ELSE backup
    /\ UNCHANGED <<serverVars, copies, temp, up, work>>

\* Obsidian is closed or dies: what was not saved is lost.
Crash ==
    /\ up
    /\ Spend("fault", MaxFault)
    /\ up' = FALSE
    /\ mem' = saved
    /\ pc' = "idle" /\ run' = IdleRun /\ reply' = NoReply
    /\ UNCHANGED <<serverVars, fileVars, saved, work>>

Restart ==
    /\ ~up
    /\ up' = TRUE
    /\ NoRequest
    /\ UNCHANGED <<fileVars, dataVars, pc, run, historyVars>>

\* scheduleEventStateSave: half a second after an event the data are saved as
\* they are, whatever the run is doing.  Events of other paths are frequent, so
\* this may happen whenever there is something to save.
SaveEvents ==
    /\ up /\ saved # mem
    /\ saved' = mem
    /\ NoRequest /\ Quiet
    /\ UNCHANGED <<fileVars, mem, pc, run>>

\* recordVaultChange for each path, with the renames that are queued then.
\* Without the plugin no event is seen.
NoteEvents(paths, renames) ==
    /\ mem' = IF up THEN [mem EXCEPT !.pending = Queued(paths), !.renames = @ \o renames]
              ELSE mem
    /\ run' = IF up THEN [run EXCEPT !.noted = Unnoted(paths)] ELSE run

\* The edits that the engine does not protect, by where they fall:
\*   - between the comparison of a file and the end of its replacement,
\*   - while a request about the path is staged or sent,
\*   - while a staged download waits for the next run to install it,
\*   - where the engine remembers, in memory or on disk, or is about to send, a
\*     deletion,
\*   - in mode "local", where the push passes the path by: its download was or is
\*     about to be given up, or its batch was refused,
\*   - between the copy and the removal of a local-only file.
Exposed(p) ==
    \/ pc \in {"refused", "remove", "download", "install", "swap", "verify", "discard"}
         /\ run.change.path = p
    \/ pc = "apply" /\ ~run.keep /\ run.change.path = p
    \/ mem.outbox # NoOperation /\ p \in Touched(mem.outbox.request)
    \/ mem.inbox.path = p
    \/ mem.files[p].content = Absent \/ saved.files[p].content = Absent
    \/ mem.mode = "local" /\ (p \in run.deferred \/ saved.inbox.path = p)
    \/ p \in Deletions /\ ~(pc = "scan" /\ p \in run.todo)

Worked(p, content, exposed) ==
    [content |-> content, exposed |-> exposed, left |-> work[p].left \cup {disk[p]}]

\* The user writes, creates or (Absent) deletes a file.
UserEdit(p, content) ==
    /\ Spend("user", MaxUser)
    /\ content # disk[p]
    /\ disk' = [disk EXCEPT ![p] = content]
    /\ NoteEvents({p}, <<>>)
    /\ work' = [work EXCEPT ![p] = Worked(p, content, Exposed(p))]
    /\ NoRequest /\ UNCHANGED <<copies, temp, backup, saved, up, pc>>

\* recordVaultRename.
UserRename(from, to) ==
    /\ Spend("user", MaxUser)
    /\ disk[from] # Absent /\ disk[to] = Absent
    /\ disk' = [disk EXCEPT ![to] = disk[from], ![from] = Absent]
    /\ NoteEvents({from, to}, <<[from |-> from, to |-> to]>>)
    /\ work' = [work EXCEPT
          ![to] = Worked(to, disk[from], Exposed(from) \/ Exposed(to)),
          ![from] = Worked(from, Absent, FALSE)]
    /\ NoRequest /\ UNCHANGED <<copies, temp, backup, saved, up, pc>>

\* The other devices and the collector, whatever this device is doing.
ServerMoves ==
    /\ \/ /\ \E p \in Paths, c \in OtherContents \cup {Absent} : OtherCommit(p, c)
          /\ Spend("other", MaxOther)
       \/ /\ \E p \in Paths : Collect(p)
          /\ Spend("collect", MaxCollect)
    /\ UNCHANGED <<fileVars, dataVars, up, pc, run, reply, work>>

-----------------------------------------------------------------------------

EmptyData(mode) ==
    [files |-> [p \in Paths |-> Untracked], cursor |-> 0, inbox |-> NoDownload,
     outbox |-> NoOperation, pending |-> {}, renames |-> <<>>, mode |-> mode]

\* A paired device whose first run the user has approved.
Init ==
    /\ ServerInit
    /\ disk = [p \in Paths |-> Absent]
    /\ copies = {} /\ temp = Absent /\ backup = Absent
    /\ \E mode \in InitialModes : mem = EmptyData(mode)
    /\ saved = mem
    /\ up = TRUE /\ pc = "idle" /\ run = IdleRun /\ reply = NoReply
    /\ work = [p \in Paths |-> [content |-> Unknown, exposed |-> FALSE, left |-> {}]]
    /\ spent = [user |-> 0, other |-> 0, fault |-> 0, collect |-> 0]

Apply == ApplyRemoteChange \/ RemoveLocal \/ Download \/ SetAside \/ SwapIn
           \/ VerifyInstalled \/ FinishDownload \/ Save
ResumeInbox == InboxInstalled \/ InboxReady \/ InboxLost \/ InboxDone
Answered == AnswerApplied \/ AnswerConflict \/ KeepRefused \/ AnswerMoved \/ AnswerMoveConflict
              \/ AnswerBatch \/ AnswerBatchConflict
ResumeOutbox == OutboxCommitted \/ OutboxResent \/ OutboxAbandoned \/ OutboxDone
Reconcile == ReadSnapshot \/ PreserveLocal \/ DiscardLocal \/ PreserveDone
               \/ MergeSnapshot \/ MergeDone
Renames == RenameSkipped \/ RenameStaged \/ RenamesDone
Push == PlanFull \/ PlanQueued \/ PushDone \/ DeletesDone
          \/ \E p \in Paths : ScanPath(p) \/ PushPath(p) \/ DeletePath(p)
Pull == PullPage \/ PageChange \/ PageDone \/ Finish \/ AckCursor \/ CompleteRun

Engine == StartRun \/ ResumeInbox \/ ResumeOutbox \/ Reconcile \/ Renames \/ Push
            \/ Send \/ Answered \/ Apply \/ Pull

User == \/ \E p \in Paths, c \in UserContents \cup {Absent} : UserEdit(p, c)
        \/ \E from, to \in Paths : UserRename(from, to)

Next == Engine \/ User \/ ServerMoves \/ SaveEvents \/ RunFails \/ Crash \/ Restart

Spec == Init /\ [][Next]_vars

\* The timer starts a run again and again, a run goes on, a closed Obsidian is
\* opened again; the clock makes a scan full once a day.
FairSpec == Spec /\ WF_vars(Engine) /\ WF_vars(Restart) /\ SF_vars(PlanFull)
-----------------------------------------------------------------------------
(* Properties.                                                             *)

Copy == [path : Paths, content : Contents, why : {"conflict", "initial"}, rival : Nat]

TypeOK ==
    /\ log \in Seq(Entry)
    /\ head \in [Paths -> Row]
    /\ answers \in [OpIds -> Reply \cup {NoReply}]
    /\ ack \in Nat
    /\ disk \in [Paths -> Content]
    /\ copies \subseteq Copy
    /\ temp \in Content /\ backup \in Content
    /\ mem \in Data /\ saved \in Data
    /\ up \in BOOLEAN
    /\ pc \in Labels
    /\ run \in Run
    /\ reply \in Reply \cup {NoReply}
    /\ work \in [Paths -> [content : Content \cup {Unknown}, exposed : BOOLEAN,
                       left : SUBSET Content]]
    /\ spent \in [{"user", "other", "fault", "collect"} -> Nat]

\* What is on disk, in a copy, in the server's log, or in a backup that the
\* inbox still names is not lost.
Kept(content) ==
    \/ \E p \in Paths : disk[p] = content
    \/ \E k \in copies : k.content = content
    \/ \E r \in DOMAIN log : log[r].content = content
    \/ backup = content /\ saved.inbox # NoDownload

\* The user's last content of a path is never lost, whatever conflicts, other
\* devices, failed runs and crashes do, unless the edit fell where the engine
\* has already looked at the file (Exposed).
NoSilentLoss ==
    \A p \in Paths :
        work[p].content \in Contents /\ ~work[p].exposed => Kept(work[p].content)

\* ARCHITECTURE.md: concurrent edits are not overwritten silently, both sides
\* are kept.  Of every edit.
ConcurrentEditsKept ==
    \A p \in Paths : work[p].content \in Contents => Kept(work[p].content)

\* A change at or below the cursor is recorded, on disk as in memory.  Where the
\* server forgot a tombstone, the record may be that of no row.
CursorCovers ==
    \A data \in {mem, saved} : \A r \in 1..data.cursor :
        LET state == data.files[log[r].path]
        IN  state.rev >= r \/ (state = NoRow /\ r <= ack)

\* Only what a saved cursor covers is acknowledged: the server may forget the
\* rest, and a device that lost it could not ask for it again.
AckIsSaved == ack <= saved.cursor

\* A conflict copy is only made against a change of another device: a lost
\* answer, a failed run or a crash never makes the device conflict with itself.
\* The one exception is a path whose tombstone was collected: the server then
\* reports a conflict with revision 0.
ConflictNeedsRival ==
    \A k \in copies : k.why = "conflict" =>
        \/ k.rival \in DOMAIN log /\ ~log[k.rival].mine
        \/ k.rival = 0 /\ \E r \in 1..ack : log[r].path = k.path /\ log[r].content = Absent

\* Temporary and backup files exist only while the saved inbox names them, so
\* that the next run can finish or undo what a crash interrupted.
ArtifactsAreTracked ==
    temp # Absent \/ backup # Absent => saved.inbox # NoDownload

\* An event newer than the scan that a run acknowledges stays queued.  The one
\* exception is a rename that the server accepted: acceptRenameResult takes both
\* of its paths off the queue, whatever was queued while it was sent, and leaves
\* such an edit to the next full scan.
NewerEventsKept ==
    [][\A p \in Paths : up' /\ p \in mem.pending \ mem'.pending =>
         \/ p \in run.noted
         \/ /\ pc = "answer" /\ mem.outbox.request.kind = "rename"
            /\ p \in Touched(mem.outbox.request)]_vars

\* The device deletes on the server only a content that its user has deleted,
\* moved away or written over: never what a download, a failure, a crash or a
\* partial scan made disappear, nor a version the user has not seen.  In mode
\* "local" the user gives up the versions of the snapshot.
DeletionsAreTheUsers ==
    [][\A r \in (DOMAIN log') \ DOMAIN log :
         log'[r].mine /\ log'[r].content = Absent =>
           head[log'[r].path].content \in work[log'[r].path].left]_vars

\* Once edits, failures and other devices are quiet, the files of the device
\* become and stay those of the server.
Converges == <>[](\A p \in Paths : disk[p] = head[p].content)

=============================================================================
