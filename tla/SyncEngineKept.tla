-------------------------- MODULE SyncEngineKept ---------------------------
(***************************************************************************)
(* What the user of a device has written is never lost, for all values of  *)
(* the constants: it is on disk, in a conflict copy or at the server,      *)
(* unless the edit was Exposed.  The invariant is KeptInv, on top of       *)
(* RecordInv of SyncEngineResults and SeenInv of SyncEngineSeen: a file    *)
(* that is the only one to have the user's content is not what a step is   *)
(* about to replace or to remove, no download and no request but a put of  *)
(* it is of its path, no deletion is recorded of it unless the run is to   *)
(* push it, and no run takes it for deleted.                               *)
(***************************************************************************)
EXTENDS SyncEngineSeen

-----------------------------------------------------------------------------
(* The user's edits that are neither in a copy nor at the server.          *)

\* The content is in a conflict copy, or the server has it.
Stowed(c) ==
    \/ \E k \in copies : k.content = c
    \/ \E r \in DOMAIN log : log[r].content = c

\* The device owes its user this content of the path: the edit was not Exposed,
\* and the file is the only place that has it.
Owed(p, c) == work[p].content = c /\ ~work[p].exposed /\ ~Stowed(c)

\* No step that is under way replaces or removes the file; what a put was refused
\* for is copied first.
Spared(p, c) ==
    /\ pc \in {"remove", "discard"} \cup Installing => run.change.path # p
    /\ pc = "apply" /\ ~run.keep => run.change.path # p
    /\ pc = "refused" /\ run.change.path = p => run.refused = c

\* A download that may be resumed, or given up in mode "local", is of another path.
Unboxed(p) ==
    temp # Absent \/ backup # Absent \/ mem.mode = "local" =>
        \A data \in {mem, saved} : data.inbox # NoDownload => data.inbox.path # p

\* The operation in the outbox is about the path...
Asked(data, p) == data.outbox # NoOperation /\ p \in Touched(data.outbox.request)

\* ... it is a put of the content that the server has not executed...
Puts(data, c) ==
    /\ data.outbox.request.kind = "apply" /\ data.outbox.request.content = c
    /\ answers[data.outbox.id] = NoReply

\* ... or the server has executed it, and not as a deletion of the path.
Done(data, p) ==
    /\ answers[data.outbox.id].kind = "ok"
    /\ \A v \in answers[data.outbox.id].versions : v.path = p => v.content # Absent

\* The run has yet to recover what an earlier one has left.
Before == pc \in {"idle", "inbox", "outbox"} \/ run.ret \in {"inbox", "outbox"}

\* What is asked of the server about the path is a put of the content; only what an
\* earlier run has left may be another request, if the server has executed it.
Requested(p, c) ==
    /\ Asked(mem, p) => Puts(mem, c) \/ (Before /\ Done(mem, p))
    /\ Asked(saved, p) => Puts(saved, c) \/ Done(saved, p)

\* The run has yet to push the file, or to apply the version that a put of it was
\* refused for.
ToPush(p, c) ==
    /\ pc \notin {"pull", "page", "finish", "ack", "end", "deletes"}
    /\ run.ret \notin {"page", "deletes", "pull"}
    /\ pc = "apply" => run.change.path # p
    /\ pc = "scan" => p \in run.todo \/ run.found[p] = c
    /\ pc = "push" \/ run.ret = "push" =>
         \/ p \in run.todo /\ run.found[p] = c
         \/ Asked(mem, p) /\ pc # "push"
         \/ pc = "refused" /\ run.change.path = p

\* A deletion is recorded of the path, in memory or on disk, only by the snapshot of
\* a first run in mode "local", and then this run pushes the file.
Remembered(p, c) ==
    /\ mem.files[p].content = Absent \/ saved.files[p].content = Absent => mem.mode = "local"
    /\ mem.mode = "local" => p \notin run.deferred
    /\ mem.files[p].content = Absent => ToPush(p, c)

\* The run does not take the file for deleted.
NotMissed(p) ==
    /\ pc = "scan" => p \in run.todo \/ p \notin Deletions
    /\ InPush => p \notin Deletions
    /\ InDeletes \/ run.ret = "pull" => p \notin run.todo

\* What holds of a file that is the only one to have the user's content.
Safe(p, c) ==
    /\ disk[p] = c
    /\ Spared(p, c) /\ Unboxed(p)
    /\ Requested(p, c) /\ Remembered(p, c) /\ NotMissed(p)

\* Changes are applied without a look at the file only after a put was refused, and
\* those of a snapshot not in mode "local".
Careful ==
    /\ run.ret = "merge" => mem.mode # "local"
    /\ ~run.keep => pc \in {"apply", "remove", "save"} \cup Installing

\* An executed operation has one version of each path.
OneVersion ==
    \A i \in OpIds : answers[i].kind = "ok" =>
        \A v, w \in answers[i].versions : v.path = w.path => v = w

\* An operation that is over is recorded before its entry leaves the disk.
OverRecorded ==
    saved.outbox # NoOperation /\ mem.outbox = NoOperation =>
        /\ answers[saved.outbox.id].kind = "ok"
        /\ \A v \in answers[saved.outbox.id].versions :
             saved.files[v.path].content = v.content

\* What is deleted is recorded, in scope and was not found.
DeletesMissing == InDeletes \/ run.ret = "pull" => run.todo \subseteq Deletions

KeptInv ==
    /\ \A p \in Paths : \A c \in Contents : Owed(p, c) => Safe(p, c)
    /\ Careful /\ OneVersion /\ OverRecorded /\ DeletesMissing

\* What the steps below take for granted of the engine.
Settled ==
    /\ Base /\ Boxes /\ FirstRun
    /\ RowsSound /\ RecordsSound /\ Live
    /\ OutboxKnown(mem) /\ OutboxOver
    /\ InHandBoxed /\ RefusedNew /\ MissingKnown

\* A file that is the only one to have its content, and is so after the step.
Held(p, c) ==
    /\ p \in Paths /\ c \in Contents
    /\ ~Stowed(c) /\ ~Stowed(c)'
    /\ Safe(p, c)

-----------------------------------------------------------------------------
(* What the server has.                                                    *)

\* A version of the log has its content there.
LEMMA GenuineStowed ==
    ASSUME NEW p, NEW s, s = Untracked \/ Genuine(p, s), s.content \in Contents
    PROVE  Stowed(s.content)
BY ServerAssumption, EngineAssumption DEF Genuine, Untracked, NoRow, Content, Stowed

\* What may be recorded is in the log.
LEMMA SoundStowed ==
    ASSUME NEW v, Sound(v), v.content \in Contents
    PROVE  Stowed(v.content)
<1>1. Genuine(v.path, State(v)) /\ State(v).content = v.content
  BY DEF Sound, State
<1> QED BY <1>1, GenuineStowed

\* What is recorded, and so what a deletion or a download is about, is another
\* content than the one that only the file has.
LEMMA HeldApart ==
    ASSUME Settled, NEW p, NEW c, Held(p, c)
    PROVE  /\ c # Absent /\ disk[p] = c
           /\ \A q \in Paths : mem.files[q].content # c
           /\ \A v : Sound(v) => v.content # c
           /\ pc \in InHand => run.change.content # c
           /\ mem.inbox # NoDownload => mem.inbox.content # c
           /\ head[p].content # c
<1>1. p \in Paths /\ c \in Contents /\ ~Stowed(c) /\ c # Absent /\ disk[p] = c
  BY ServerAssumption DEF Held, Safe
<1>2. ASSUME NEW q \in Paths PROVE mem.files[q].content # c
  <2>1. mem.files[q] = Untracked \/ Genuine(q, mem.files[q])
    BY DEF Settled, RecordsSound, DataSound, FilesSound
  <2> QED BY <1>1, <2>1, GenuineStowed
<1>3. ASSUME NEW v, Sound(v) PROVE v.content # c
  BY <1>1, <1>3, SoundStowed
<1>4. pc \in InHand => run.change.content # c
  BY <1>3 DEF Settled, Live
<1>5. mem.inbox # NoDownload => mem.inbox.content # c
  BY <1>3 DEF Settled, RecordsSound, DataSound, BoxesSound
<1>6. head[p].content # c
  BY <1>1, GenuineStowed DEF Settled, RowsSound
<1> QED BY <1>1, <1>2, <1>3, <1>4, <1>5, <1>6

\* A change that is applied is of another path: otherwise a copy of the file is made.
LEMMA AppliedElsewhere ==
    ASSUME Settled, NEW p, NEW c, Held(p, c), ApplyRemoteChange
    PROVE  run.change.path # p
<1> SUFFICES ASSUME run.change.path = p PROVE FALSE
  OBVIOUS
<1>1. /\ c # Absent /\ disk[p] = c /\ mem.files[p].content # c /\ run.change.content # c
      /\ p \in Paths /\ ~Stowed(c)'
  BY HeldApart DEF Held, ApplyRemoteChange, InHand, Applying
<1>2. run.keep /\ mem.files[p].content # Absent
  BY DEF ApplyRemoteChange, Held, Safe, Spared, Remembered, ToPush
<1>3. LocallyModified(run.change, disk[p])
  BY <1>1, <1>2 DEF LocallyModified
<1>4. ConflictCopy(p, c, run.change) \in copies'
  BY <1>1, <1>2, <1>3 DEF ApplyRemoteChange
<1>5. ConflictCopy(p, c, run.change).content = c
  BY DEF ConflictCopy
<1> QED BY <1>1, <1>4, <1>5 DEF Stowed

\* So is one that was refused, once the copy of the put is made.
LEMMA RefusedElsewhere ==
    ASSUME NEW p, NEW c, Held(p, c), KeepRefused
    PROVE  run.change.path # p
<1> SUFFICES ASSUME run.change.path = p PROVE FALSE
  OBVIOUS
<1>1. run.refused = c
  BY DEF KeepRefused, Held, Safe, Spared
<1>2. ConflictCopy(p, c, run.change) \in copies'
  BY <1>1 DEF KeepRefused
<1>3. ConflictCopy(p, c, run.change).content = c
  BY DEF ConflictCopy
<1> QED BY <1>2, <1>3 DEF Stowed, Held

\* While a request is sent and answered, what it asks about the path is a put that is
\* not executed yet, or what an earlier run has left, executed.
LEMMA AskedFor ==
    ASSUME Settled, NEW p, NEW c, Held(p, c), pc \in {"send", "answer"}, Asked(mem, p)
    PROVE  \/ /\ answers[mem.outbox.id] = NoReply
              /\ mem.outbox.request.kind = "apply" /\ mem.outbox.request.path = p
              /\ mem.outbox.request.content = c
           \/ answers[mem.outbox.id].kind = "ok" /\ run.ret = "outbox" /\ Done(mem, p)
<1>1. run.ret \notin {"inbox"}
  BY DEF Settled, Base, Calls
<1> QED BY <1>1 DEF Held, Safe, Requested, Asked, Puts, Done, Before, Touched

-----------------------------------------------------------------------------
(* The file stays.                                                         *)

\* A backup comes back only where there is no file.
LEMMA PresentRestored ==
    ASSUME Settled, NEW p, NEW c, Held(p, c), NEW q, disk' = Restored(q) \/ disk' = disk
    PROVE  disk'[p] = c
<1>1. c # Absent /\ disk[p] = c /\ p \in Paths /\ disk \in [Paths -> Content]
  BY HeldApart DEF Held, Settled, Base, TypeOK
<1> QED BY <1>1 DEF Restored

\* The engine takes away files of other paths.
LEMMA PresentTakes ==
    ASSUME Settled, NEW p, NEW c, Held(p, c), Takes
    PROVE  disk'[p] = c
<1>1. disk[p] = c /\ p \in Paths /\ disk \in [Paths -> Content] /\ Spared(p, c)
  BY DEF Held, Safe, Settled, Base, TypeOK
<1>2. CASE RemoveLocal
  BY <1>1, <1>2 DEF RemoveLocal, Spared
<1>3. CASE SetAside
  BY <1>1, <1>3 DEF SetAside, Spared, Installing
<1>4. CASE SwapIn
  BY <1>1, <1>4 DEF SwapIn, Spared, Installing
<1>5. CASE VerifyInstalled
  BY <1>1, <1>5 DEF VerifyInstalled, Spared, Installing
<1>6. CASE DiscardLocal
  BY <1>1, <1>6 DEF DiscardLocal, Spared
<1> QED BY <1>2, <1>3, <1>4, <1>5, <1>6 DEF Takes

\* Whoever moves but the user, the file stays as it is.
LEMMA PresentStep ==
    ASSUME Settled, NEW p, NEW c, Held(p, c), [Next]_vars, ~User
    PROVE  disk'[p] = c
<1>1. CASE ResumeInbox
  <2>1. CASE InboxLost
    BY <2>1, PresentRestored DEF InboxLost
  <2> USE DEF Held, Safe
  <2>2. CASE InboxInstalled
    BY <2>2 DEF InboxInstalled, Quiet, NoRequest, dataVars, CleanUp, serverVars,
       historyVars
  <2>3. CASE InboxReady
    BY <2>3 DEF InboxReady, Quiet, NoRequest, dataVars, fileVars, serverVars,
       historyVars
  <2>4. CASE InboxDone
    BY <2>4 DEF InboxDone, Quiet, NoRequest, Goto, dataVars, fileVars, serverVars,
       historyVars
  <2> HIDE DEF Held, Safe
  <2> QED BY <1>1, <2>1, <2>2, <2>3, <2>4 DEF ResumeInbox
<1>2. CASE ResumeOutbox
  <2> USE DEF Held, Safe
  <2>1. CASE OutboxCommitted
    BY <2>1 DEF OutboxCommitted, Quiet, dataVars, serverVars, fileVars, historyVars,
       NoRequest
  <2>2. CASE OutboxResent
    BY <2>2 DEF OutboxResent, Quiet, NoRequest, dataVars, fileVars, serverVars,
       historyVars
  <2>3. CASE OutboxAbandoned
    BY <2>3 DEF OutboxAbandoned, Quiet, NoRequest, Persist, Discarded, Queued,
       fileVars, dataVars, serverVars, historyVars
  <2>4. CASE OutboxDone
    BY <2>4 DEF OutboxDone, Quiet, NoRequest, Goto, BeginRenames, dataVars,
       fileVars, serverVars, historyVars
  <2> HIDE DEF Held, Safe
  <2> QED BY <1>2, <2>1, <2>2, <2>3, <2>4 DEF ResumeOutbox
<1>3. CASE Reconcile
  <2>1. CASE DiscardLocal
    BY <2>1, PresentTakes DEF Takes
  <2> USE DEF Held, Safe
  <2>2. CASE ReadSnapshot
    BY <2>2 DEF ReadSnapshot, Quiet, NoRequest, dataVars, fileVars, serverVars,
       historyVars
  <2>3. CASE PreserveLocal
    BY <2>3 DEF PreserveLocal, Quiet, EndRun, dataVars, serverVars, IdleRun,
       NoRequest, historyVars
  <2>4. CASE PreserveDone
    BY <2>4 DEF PreserveDone, Quiet, NoRequest, Goto, dataVars, fileVars,
       serverVars, historyVars
  <2>5. CASE MergeSnapshot
    BY <2>5 DEF MergeSnapshot, NoRequest, fileVars, dataVars, serverVars,
       historyVars
  <2>6. CASE MergeDone
    BY <2>6 DEF MergeDone, Quiet, NoRequest, Persist, BeginRenames, fileVars,
       dataVars, serverVars, historyVars
  <2> HIDE DEF Held, Safe
  <2> QED BY <1>3, <2>1, <2>2, <2>3, <2>4, <2>5, <2>6 DEF Reconcile
<1>4. CASE Renames
  <2> USE DEF Held, Safe
  <2>1. CASE RenameSkipped
    BY <2>1 DEF RenameSkipped, Quiet, NoRequest, fileVars, dataVars, serverVars,
       historyVars
  <2>2. CASE RenameStaged
    BY <2>2 DEF RenameStaged, Quiet, Stage, fileVars, dataVars, serverVars,
       historyVars, Persist, NoRequest
  <2>3. CASE RenamesDone
    BY <2>3 DEF RenamesDone, Quiet, NoRequest, Goto, fileVars, dataVars, serverVars,
       historyVars
  <2> HIDE DEF Held, Safe
  <2> QED BY <1>4, <2>1, <2>2, <2>3 DEF Renames
<1>5. CASE Push
  <2> USE DEF Held, Safe
  <2>1. CASE PlanFull
    BY <2>1 DEF PlanFull, Plan, Quiet, NoRequest, dataVars, fileVars, serverVars,
       historyVars
  <2>2. CASE PlanQueued
    BY <2>2 DEF PlanQueued, Plan, Quiet, NoRequest, dataVars, fileVars, serverVars,
       historyVars
  <2>3. CASE PushDone
    BY <2>3 DEF PushDone, Quiet, NoRequest, Stage, dataVars, fileVars, serverVars,
       historyVars, Persist
  <2>4. CASE DeletesDone
    BY <2>4 DEF DeletesDone, Quiet, NoRequest, fileVars, dataVars, serverVars,
       historyVars
  <2>5. ASSUME NEW q \in Paths, ScanPath(q) PROVE disk'[p] = c
    BY <2>5 DEF ScanPath, Quiet, NoRequest, dataVars, fileVars, serverVars,
       historyVars
  <2>6. ASSUME NEW q \in Paths, PushPath(q) PROVE disk'[p] = c
    BY <2>6 DEF PushPath, Quiet, NoRequest, Stage, Queued, Unnoted, fileVars,
       dataVars, serverVars, historyVars, Persist
  <2>7. ASSUME NEW q \in Paths, DeletePath(q) PROVE disk'[p] = c
    BY <2>7 DEF DeletePath, Quiet, Stage, fileVars, dataVars, serverVars,
       historyVars, Persist, NoRequest
  <2> HIDE DEF Held, Safe
  <2> QED BY <1>5, <2>1, <2>2, <2>3, <2>4, <2>5, <2>6, <2>7 DEF Push
<1>6. CASE Answered
  <2> USE DEF Held, Safe
  <2>1. CASE AnswerApplied
    BY <2>1 DEF AnswerApplied, Quiet, Goto, Return, Complete, Queued, serverVars,
       fileVars, Recovering, dataVars, historyVars, NoRequest
  <2>2. CASE AnswerConflict
    BY <2>2 DEF AnswerConflict, Quiet, Persist, Discarded, serverVars, fileVars,
       dataVars, historyVars, NoRequest
  <2>3. CASE KeepRefused
    BY <2>3 DEF KeepRefused, Quiet, NoRequest, dataVars, serverVars, historyVars
  <2>4. CASE AnswerMoved
    BY <2>4 DEF AnswerMoved, Quiet, Goto, Complete, serverVars, fileVars,
       Recovering, dataVars, historyVars, NoRequest
  <2>5. CASE AnswerMoveConflict
    BY <2>5 DEF AnswerMoveConflict, Quiet, Goto, Return, Discarded, Queued,
       serverVars, fileVars, Recovering, dataVars, historyVars, NoRequest
  <2>6. CASE AnswerBatch
    BY <2>6 DEF AnswerBatch, Quiet, Complete, serverVars, fileVars, dataVars,
       historyVars, NoRequest
  <2>7. CASE AnswerBatchConflict
    BY <2>7 DEF AnswerBatchConflict, Quiet, Persist, Discarded, Queued, serverVars,
       fileVars, Recovering, dataVars, historyVars, NoRequest
  <2> HIDE DEF Held, Safe
  <2> QED BY <1>6, <2>1, <2>2, <2>3, <2>4, <2>5, <2>6, <2>7 DEF Answered
<1>7. CASE Apply
  <2>1. CASE RemoveLocal
    BY <2>1, PresentTakes DEF Takes
  <2>2. CASE SetAside
    BY <2>2, PresentTakes DEF Takes
  <2>3. CASE SwapIn
    BY <2>3, PresentTakes DEF Takes
  <2>4. CASE VerifyInstalled
    BY <2>4, PresentTakes DEF Takes
  <2> USE DEF Held, Safe
  <2>5. CASE ApplyRemoteChange
    BY <2>5 DEF ApplyRemoteChange, Quiet, NoRequest, Goto, Return, StageDownload,
       dataVars, Persist, serverVars, historyVars
  <2>6. CASE Download
    BY <2>6 DEF Download, Quiet, NoRequest, Goto, serverVars, historyVars
  <2>7. CASE FinishDownload
    BY <2>7 DEF FinishDownload, Quiet, NoRequest, Goto, fileVars, dataVars,
       serverVars, historyVars
  <2>8. CASE Save
    BY <2>8 DEF Save, Quiet, NoRequest, Return, fileVars, dataVars, serverVars,
       historyVars
  <2> HIDE DEF Held, Safe
  <2> QED BY <1>7, <2>1, <2>2, <2>3, <2>4, <2>5, <2>6, <2>7, <2>8 DEF Apply
<1>8. CASE Pull
  <2> USE DEF Held, Safe
  <2>1. CASE PullPage
    BY <2>1 DEF PullPage, Quiet, NoRequest, dataVars, fileVars, serverVars,
       historyVars
  <2>2. CASE PageChange
    BY <2>2 DEF PageChange, Quiet, NoRequest, dataVars, fileVars, serverVars,
       historyVars
  <2>3. CASE PageDone
    BY <2>3 DEF PageDone, Quiet, NoRequest, Persist, fileVars, dataVars, serverVars,
       historyVars
  <2>4. CASE Finish
    BY <2>4 DEF Finish, Quiet, NoRequest, Persist, Goto, fileVars, dataVars,
       serverVars, historyVars
  <2>5. CASE AckCursor
    BY <2>5 DEF AckCursor, Quiet, Goto, Acknowledge, dataVars, fileVars, serverVars,
       historyVars, NoRequest
  <2>6. CASE CompleteRun
    BY <2>6 DEF CompleteRun, Quiet, EndRun, serverVars, fileVars, dataVars,
       historyVars, IdleRun, NoRequest
  <2> HIDE DEF Held, Safe
  <2> QED BY <1>8, <2>1, <2>2, <2>3, <2>4, <2>5, <2>6 DEF Pull
<1>9. CASE StartRun
  BY <1>9 DEF StartRun, Held, Safe, Quiet, NoRequest, Goto, dataVars, fileVars,
     serverVars, historyVars
<1>10. CASE Send
  BY <1>10 DEF Send, Held, Safe, Quiet, Goto, dataVars, fileVars, serverVars,
     historyVars, NoRequest
<1>11. CASE ServerMoves
  BY <1>11 DEF ServerMoves, Held, Safe, Spend, dataVars, fileVars, serverVars,
     historyVars
<1>12. CASE SaveEvents
  BY <1>12 DEF SaveEvents, Held, Safe, Quiet, NoRequest, fileVars, dataVars,
     serverVars, historyVars
<1>13. CASE RunFails
  BY <1>13, PresentRestored DEF RunFails
<1>14. CASE Crash
  BY <1>14 DEF Crash, Held, Safe, IdleRun, Spend, serverVars, fileVars, dataVars,
     historyVars
<1>15. CASE Restart
  BY <1>15 DEF Restart, Held, Safe, NoRequest, dataVars, fileVars, historyVars,
     serverVars
<1>16. CASE UNCHANGED vars
  BY <1>16 DEF Held, Safe, vars, serverVars, fileVars, dataVars, historyVars
<1> QED BY <1>1, <1>2, <1>3, <1>4, <1>5, <1>6, <1>7, <1>8, <1>9, <1>10, <1>11, <1>12,
         <1>13, <1>14, <1>15, <1>16 DEF Next, Engine

-----------------------------------------------------------------------------
(* It is not what a step is about to replace or to remove.                 *)

\* A version that is compared with the file is one of another path.
LEMMA SparedApplyRemoteChange ==
    ASSUME Settled, NEW p, NEW c, Held(p, c), ApplyRemoteChange
    PROVE  Spared(p, c)'
<1>1. run.change.path # p /\ pc = "apply" /\ run.ret \in Appliers
  BY AppliedElsewhere DEF ApplyRemoteChange, Settled, Base, Calls
<1>2. CASE Return
  <2>1. HasFields(run, RunFields)
    BY DEF Settled, Base, Fields
  <2> QED BY <1>1, <1>2, <2>1 DEF Return, HasFields, RunFields, Spared, Appliers, Installing
<1>3. CASE Goto("remove") \/ Goto("download")
  BY <1>1, <1>3 DEF Goto, Spared
<1> QED BY <1>2, <1>3 DEF ApplyRemoteChange

\* A download that is found installed has a content that the server has.
LEMMA SparedInboxInstalled ==
    ASSUME Settled, NEW p, NEW c, Held(p, c), InboxInstalled
    PROVE  Spared(p, c)'
<1>1. mem.inbox.content # c /\ disk[p] = c /\ disk[mem.inbox.path] = mem.inbox.content
  BY HeldApart DEF InboxInstalled
<1>2. HasFields(run, RunFields)
  BY DEF Settled, Base, Fields
<1> QED BY <1>1, <1>2 DEF InboxInstalled, HasFields, RunFields, Spared

\* One that is resumed is of another path.
LEMMA SparedInboxReady ==
    ASSUME Settled, NEW p, NEW c, Held(p, c), InboxReady
    PROVE  Spared(p, c)'
<1>1. mem.inbox # NoDownload /\ temp # Absent
  BY DEF InboxReady, Settled, InHandBoxed
<1>2. mem.inbox.path # p
  BY <1>1 DEF Held, Safe, Unboxed
<1>3. HasFields(run, RunFields)
  BY DEF Settled, Base, Fields
<1> QED BY <1>2, <1>3 DEF InboxReady, HasFields, RunFields, Spared

\* What a request about the path is refused for is the put of the content.
LEMMA RefusedPut ==
    ASSUME Settled, NEW p, NEW c, Held(p, c), AnswerConflict
    PROVE  /\ IsVersion(run'.change) /\ run'.change.path = mem.outbox.request.path
           /\ mem.outbox.request.path = p => mem.outbox.request.content = c /\ pc' = "refused"
<1> DEFINE current == CHOOSE v \in reply.versions : TRUE
<1>1. /\ pc = "answer" /\ reply.kind = "conflict" /\ mem.outbox.request.kind = "apply"
      /\ HasFields(run, RunFields)
  BY DEF AnswerConflict, Settled, Base, Fields
<1>2. IsVersion(current) /\ current.path = mem.outbox.request.path
  <2>1. PICK v : IsVersion(v) /\ reply.versions = {v}
    BY <1>1 DEF Settled, Base, Replies
  <2>2. v.path = mem.outbox.request.path
    BY <1>1, <2>1 DEF Settled, RefusedNew
  <2>3. current = v
    BY <2>1
  <2> QED BY <2>1, <2>2, <2>3
<1>3. run'.change = current
  BY <1>1 DEF AnswerConflict, HasFields, RunFields
<1>4. ASSUME mem.outbox.request.path = p
      PROVE  mem.outbox.request.content = c /\ pc' = "refused"
  <2>1. Asked(mem, p)
    BY <1>1, <1>4 DEF Settled, Boxes, Asked, Touched
  <2>2. answers[mem.outbox.id] = NoReply
    BY <1>1 DEF Settled, Boxes
  <2>3. mem.outbox.request.content = c
    BY <1>1, <2>1, <2>2, AskedFor DEF NoReply
  <2> QED BY <2>3, HeldApart DEF AnswerConflict
<1> QED BY <1>2, <1>3, <1>4

\* A put of the path is refused for the content that it has.
LEMMA SparedAnswerConflict ==
    ASSUME Settled, Careful, NEW p, NEW c, Held(p, c), AnswerConflict
    PROVE  Spared(p, c)'
<1>1. HasFields(run, RunFields) /\ pc = "answer"
  BY DEF AnswerConflict, Settled, Base, Fields
<1>2. /\ run'.keep = run.keep /\ run'.refused = mem.outbox.request.content
      /\ pc' \in {"apply", "refused"}
  BY <1>1 DEF AnswerConflict, HasFields, RunFields
<1>3. run.keep
  BY <1>1 DEF Careful, Installing
<1> QED BY <1>2, <1>3, RefusedPut DEF Spared, Installing

\* What a put was refused for is copied, so the refused put was of another path.
LEMMA SparedKeepRefused ==
    ASSUME NEW p, NEW c, Held(p, c), HasFields(run, RunFields), KeepRefused
    PROVE  Spared(p, c)'
BY RefusedElsewhere DEF KeepRefused, HasFields, RunFields, Spared, Installing

\* A local-only file is copied before it is removed.
LEMMA SparedPreserveLocal ==
    ASSUME Settled, NEW p, NEW c, Held(p, c), PreserveLocal
    PROVE  Spared(p, c)'
<1>1. CASE EndRun
  BY <1>1 DEF EndRun, IdleRun, Spared, Installing
<1>2. ASSUME NEW q \in run.scope,
             copies' = copies \cup {[path |-> q, content |-> disk[q],
                                     why |-> "initial", rival |-> 0]},
             run' = [run EXCEPT !.scope = @ \ {q}, !.ret = "preserve",
                          !.change = [path |-> q, rev |-> 0, content |-> Absent]],
             pc' = "discard"
      PROVE  Spared(p, c)'
  <2>1. HasFields(run, RunFields) /\ disk[p] = c /\ ~Stowed(c)'
    BY DEF Settled, Base, Fields, Held, Safe
  <2>2. p # q
    <3>1. [path |-> q, content |-> disk[q], why |-> "initial", rival |-> 0] \in copies'
      BY <1>2
    <3>2. disk[q] # c
      BY <2>1, <3>1 DEF Stowed
    <3> QED BY <2>1, <3>2
  <2>3. run'.change.path = q
    BY <1>2, <2>1 DEF HasFields, RunFields
  <2> QED BY <1>2, <2>2, <2>3 DEF Spared, Installing
<1> QED BY <1>1, <1>2 DEF PreserveLocal

\* Every step of the others spares the file.
LEMMA SparedStep ==
    ASSUME Settled, Careful, NEW p, NEW c, Held(p, c), [Next]_vars, ~User
    PROVE  Spared(p, c)'
<1>1. CASE ResumeInbox
  <2>1. CASE InboxInstalled
    BY <2>1, SparedInboxInstalled
  <2>2. CASE InboxReady
    BY <2>2, SparedInboxReady
  <2> USE DEF Settled, Base, Fields, HasFields, DataFields, RunFields, Held, Safe,
     Spared, Careful, Calls, Inner, Applying, Installing, Appliers, Requesters,
     Returns, IdleRun
  <2>3. CASE InboxLost
    BY <2>3 DEF InboxLost, Quiet, NoRequest, Persist, CleanUp, serverVars,
       historyVars
  <2>4. CASE InboxDone
    BY <2>4 DEF InboxDone, Quiet, NoRequest, Goto, dataVars, fileVars, serverVars,
       historyVars
  <2> HIDE DEF Settled, Base, Fields, HasFields, DataFields, RunFields, Held, Safe,
     Spared, Careful, Calls, Inner, Applying, Installing, Appliers, Requesters,
     Returns, IdleRun
  <2> QED BY <1>1, <2>1, <2>2, <2>3, <2>4 DEF ResumeInbox
<1>2. CASE ResumeOutbox
  <2> USE DEF Settled, Base, Fields, HasFields, DataFields, RunFields, Held, Safe,
     Spared, Careful, Calls, Inner, Applying, Installing, Appliers, Requesters,
     Returns, IdleRun
  <2>1. CASE OutboxCommitted
    BY <2>1 DEF OutboxCommitted, Quiet, dataVars, serverVars, fileVars, historyVars,
       NoRequest
  <2>2. CASE OutboxResent
    BY <2>2 DEF OutboxResent, Quiet, NoRequest, dataVars, fileVars, serverVars,
       historyVars
  <2>3. CASE OutboxAbandoned
    BY <2>3 DEF OutboxAbandoned, Quiet, NoRequest, Persist, Discarded, Queued,
       fileVars, dataVars, serverVars, historyVars
  <2>4. CASE OutboxDone
    BY <2>4 DEF OutboxDone, Quiet, NoRequest, Goto, BeginRenames, dataVars,
       fileVars, serverVars, historyVars
  <2> HIDE DEF Settled, Base, Fields, HasFields, DataFields, RunFields, Held, Safe,
     Spared, Careful, Calls, Inner, Applying, Installing, Appliers, Requesters,
     Returns, IdleRun
  <2> QED BY <1>2, <2>1, <2>2, <2>3, <2>4 DEF ResumeOutbox
<1>3. CASE Reconcile
  <2>1. CASE PreserveLocal
    BY <2>1, SparedPreserveLocal
  <2> USE DEF Settled, Base, Fields, HasFields, DataFields, RunFields, Held, Safe,
     Spared, Careful, Calls, Inner, Applying, Installing, Appliers, Requesters,
     Returns, IdleRun
  <2>2. CASE ReadSnapshot
    BY <2>2 DEF ReadSnapshot, Quiet, NoRequest, dataVars, fileVars, serverVars,
       historyVars
  <2>3. CASE DiscardLocal
    BY <2>3 DEF DiscardLocal, Quiet, Return, EndRun, dataVars, serverVars,
       NoRequest, historyVars
  <2>4. CASE PreserveDone
    BY <2>4 DEF PreserveDone, Quiet, NoRequest, Goto, dataVars, fileVars,
       serverVars, historyVars
  <2>5. CASE MergeSnapshot
    BY <2>5 DEF MergeSnapshot, NoRequest, fileVars, dataVars, serverVars,
       historyVars
  <2>6. CASE MergeDone
    BY <2>6 DEF MergeDone, Quiet, NoRequest, Persist, BeginRenames, fileVars,
       dataVars, serverVars, historyVars
  <2> HIDE DEF Settled, Base, Fields, HasFields, DataFields, RunFields, Held, Safe,
     Spared, Careful, Calls, Inner, Applying, Installing, Appliers, Requesters,
     Returns, IdleRun
  <2> QED BY <1>3, <2>1, <2>2, <2>3, <2>4, <2>5, <2>6 DEF Reconcile
<1>4. CASE Renames
  <2> USE DEF Settled, Base, Fields, HasFields, DataFields, RunFields, Held, Safe,
     Spared, Careful, Calls, Inner, Applying, Installing, Appliers, Requesters,
     Returns, IdleRun
  <2>1. CASE RenameSkipped
    BY <2>1 DEF RenameSkipped, Quiet, NoRequest, fileVars, dataVars, serverVars,
       historyVars
  <2>2. CASE RenameStaged
    BY <2>2 DEF RenameStaged, Quiet, Stage, fileVars, dataVars, serverVars,
       historyVars, Persist, NoRequest
  <2>3. CASE RenamesDone
    BY <2>3 DEF RenamesDone, Quiet, NoRequest, Goto, fileVars, dataVars, serverVars,
       historyVars
  <2> HIDE DEF Settled, Base, Fields, HasFields, DataFields, RunFields, Held, Safe,
     Spared, Careful, Calls, Inner, Applying, Installing, Appliers, Requesters,
     Returns, IdleRun
  <2> QED BY <1>4, <2>1, <2>2, <2>3 DEF Renames
<1>5. CASE Push
  <2> USE DEF Settled, Base, Fields, HasFields, DataFields, RunFields, Held, Safe,
     Spared, Careful, Calls, Inner, Applying, Installing, Appliers, Requesters,
     Returns, IdleRun
  <2>1. CASE PlanFull
    BY <2>1 DEF PlanFull, Plan, Quiet, NoRequest, dataVars, fileVars, serverVars,
       historyVars
  <2>2. CASE PlanQueued
    BY <2>2 DEF PlanQueued, Plan, Quiet, NoRequest, dataVars, fileVars, serverVars,
       historyVars
  <2>3. CASE PushDone
    BY <2>3 DEF PushDone, Quiet, NoRequest, Stage, dataVars, fileVars, serverVars,
       historyVars, Persist
  <2>4. CASE DeletesDone
    BY <2>4 DEF DeletesDone, Quiet, NoRequest, fileVars, dataVars, serverVars,
       historyVars
  <2>5. ASSUME NEW q \in Paths, ScanPath(q) PROVE Spared(p, c)'
    BY <2>5 DEF ScanPath, Quiet, NoRequest, dataVars, fileVars, serverVars,
       historyVars
  <2>6. ASSUME NEW q \in Paths, PushPath(q) PROVE Spared(p, c)'
    BY <2>6 DEF PushPath, Quiet, NoRequest, Stage, Queued, Unnoted, fileVars,
       dataVars, serverVars, historyVars, Persist
  <2>7. ASSUME NEW q \in Paths, DeletePath(q) PROVE Spared(p, c)'
    BY <2>7 DEF DeletePath, Quiet, Stage, fileVars, dataVars, serverVars,
       historyVars, Persist, NoRequest
  <2> HIDE DEF Settled, Base, Fields, HasFields, DataFields, RunFields, Held, Safe,
     Spared, Careful, Calls, Inner, Applying, Installing, Appliers, Requesters,
     Returns, IdleRun
  <2> QED BY <1>5, <2>1, <2>2, <2>3, <2>4, <2>5, <2>6, <2>7 DEF Push
<1>6. CASE Answered
  <2>1. CASE AnswerConflict
    BY <2>1, SparedAnswerConflict
  <2>2. CASE KeepRefused
    BY <2>2, SparedKeepRefused DEF Settled, Base, Fields
  <2> USE DEF Settled, Base, Fields, HasFields, DataFields, RunFields, Held, Safe,
     Spared, Careful, Calls, Inner, Applying, Installing, Appliers, Requesters,
     Returns, IdleRun
  <2>3. CASE AnswerApplied
    BY <2>3 DEF AnswerApplied, Quiet, Goto, Return, Complete, Queued, serverVars,
       fileVars, Recovering, dataVars, historyVars, NoRequest
  <2>4. CASE AnswerMoved
    BY <2>4 DEF AnswerMoved, Quiet, Goto, Complete, serverVars, fileVars,
       Recovering, dataVars, historyVars, NoRequest
  <2>5. CASE AnswerMoveConflict
    BY <2>5 DEF AnswerMoveConflict, Quiet, Goto, Return, Discarded, Queued,
       serverVars, fileVars, Recovering, dataVars, historyVars, NoRequest
  <2>6. CASE AnswerBatch
    BY <2>6 DEF AnswerBatch, Quiet, Complete, serverVars, fileVars, dataVars,
       historyVars, NoRequest
  <2>7. CASE AnswerBatchConflict
    BY <2>7 DEF AnswerBatchConflict, Quiet, Persist, Discarded, Queued, serverVars,
       fileVars, Recovering, dataVars, historyVars, NoRequest
  <2> HIDE DEF Settled, Base, Fields, HasFields, DataFields, RunFields, Held, Safe,
     Spared, Careful, Calls, Inner, Applying, Installing, Appliers, Requesters,
     Returns, IdleRun
  <2> QED BY <1>6, <2>1, <2>2, <2>3, <2>4, <2>5, <2>6, <2>7 DEF Answered
<1>7. CASE Apply
  <2>1. CASE ApplyRemoteChange
    BY <2>1, SparedApplyRemoteChange
  <2> USE DEF Settled, Base, Fields, HasFields, DataFields, RunFields, Held, Safe,
     Spared, Careful, Calls, Inner, Applying, Installing, Appliers, Requesters,
     Returns, IdleRun
  <2>2. CASE RemoveLocal
    BY <2>2 DEF RemoveLocal, Quiet, Return, EndRun, serverVars, NoRequest,
       historyVars
  <2>3. CASE Download
    BY <2>3 DEF Download, Quiet, NoRequest, Goto, serverVars, historyVars
  <2>4. CASE SetAside
    BY <2>4 DEF SetAside, Quiet, NoRequest, Goto, serverVars, historyVars
  <2>5. CASE SwapIn
    BY <2>5 DEF SwapIn, Quiet, Goto, EndRun, dataVars, serverVars, NoRequest,
       historyVars
  <2>6. CASE VerifyInstalled
    BY <2>6 DEF VerifyInstalled, Quiet, Goto, EndRun, dataVars, serverVars,
       NoRequest, historyVars
  <2>7. CASE FinishDownload
    BY <2>7 DEF FinishDownload, Quiet, NoRequest, Goto, fileVars, dataVars,
       serverVars, historyVars
  <2>8. CASE Save
    BY <2>8 DEF Save, Quiet, NoRequest, Return, fileVars, dataVars, serverVars,
       historyVars
  <2> HIDE DEF Settled, Base, Fields, HasFields, DataFields, RunFields, Held, Safe,
     Spared, Careful, Calls, Inner, Applying, Installing, Appliers, Requesters,
     Returns, IdleRun
  <2> QED BY <1>7, <2>1, <2>2, <2>3, <2>4, <2>5, <2>6, <2>7, <2>8 DEF Apply
<1>8. CASE Pull
  <2> USE DEF Settled, Base, Fields, HasFields, DataFields, RunFields, Held, Safe,
     Spared, Careful, Calls, Inner, Applying, Installing, Appliers, Requesters,
     Returns, IdleRun
  <2>1. CASE PullPage
    BY <2>1 DEF PullPage, Quiet, NoRequest, dataVars, fileVars, serverVars,
       historyVars
  <2>2. CASE PageChange
    BY <2>2 DEF PageChange, Quiet, NoRequest, dataVars, fileVars, serverVars,
       historyVars
  <2>3. CASE PageDone
    BY <2>3 DEF PageDone, Quiet, NoRequest, Persist, fileVars, dataVars, serverVars,
       historyVars
  <2>4. CASE Finish
    BY <2>4 DEF Finish, Quiet, NoRequest, Persist, Goto, fileVars, dataVars,
       serverVars, historyVars
  <2>5. CASE AckCursor
    BY <2>5 DEF AckCursor, Quiet, Goto, Acknowledge, dataVars, fileVars, serverVars,
       historyVars, NoRequest
  <2>6. CASE CompleteRun
    BY <2>6 DEF CompleteRun, Quiet, EndRun, serverVars, fileVars, dataVars,
       historyVars, NoRequest
  <2> HIDE DEF Settled, Base, Fields, HasFields, DataFields, RunFields, Held, Safe,
     Spared, Careful, Calls, Inner, Applying, Installing, Appliers, Requesters,
     Returns, IdleRun
  <2> QED BY <1>8, <2>1, <2>2, <2>3, <2>4, <2>5, <2>6 DEF Pull
<1>9. CASE StartRun
  BY <1>9 DEF StartRun, Settled, Base, Fields, HasFields, DataFields, RunFields,
     Held, Safe, Spared, Careful, Calls, Inner, Applying, Installing, Appliers,
     Requesters, Returns, IdleRun, Quiet, NoRequest, Goto, dataVars, fileVars,
     serverVars, historyVars
<1>10. CASE Send
  BY <1>10 DEF Send, Settled, Base, Fields, HasFields, DataFields, RunFields, Held,
     Safe, Spared, Careful, Calls, Inner, Applying, Installing, Appliers,
     Requesters, Returns, IdleRun, Quiet, Goto, dataVars, fileVars, serverVars,
     historyVars, NoRequest
<1>11. CASE ServerMoves
  BY <1>11 DEF ServerMoves, Settled, Base, Fields, HasFields, DataFields, RunFields,
     Held, Safe, Spared, Careful, Calls, Inner, Applying, Installing, Appliers,
     Requesters, Returns, IdleRun, Spend, dataVars, fileVars, serverVars,
     historyVars
<1>12. CASE SaveEvents
  BY <1>12 DEF SaveEvents, Settled, Base, Fields, HasFields, DataFields, RunFields,
     Held, Safe, Spared, Careful, Calls, Inner, Applying, Installing, Appliers,
     Requesters, Returns, IdleRun, Quiet, NoRequest, fileVars, dataVars, serverVars,
     historyVars
<1>13. CASE RunFails
  BY <1>13 DEF RunFails, Settled, Base, Fields, HasFields, DataFields, RunFields,
     Held, Safe, Spared, Careful, Calls, Inner, Applying, Installing, Appliers,
     Requesters, Returns, IdleRun, EndRun, Spend, serverVars
<1>14. CASE Crash
  BY <1>14 DEF Crash, Settled, Base, Fields, HasFields, DataFields, RunFields, Held,
     Safe, Spared, Careful, Calls, Inner, Applying, Installing, Appliers,
     Requesters, Returns, IdleRun, Spend, serverVars, fileVars, dataVars,
     historyVars
<1>15. CASE Restart
  BY <1>15 DEF Restart, Settled, Base, Fields, HasFields, DataFields, RunFields,
     Held, Safe, Spared, Careful, Calls, Inner, Applying, Installing, Appliers,
     Requesters, Returns, IdleRun, NoRequest, dataVars, fileVars, historyVars,
     serverVars
<1>16. CASE UNCHANGED vars
  BY <1>16 DEF Settled, Base, Fields, HasFields, DataFields, RunFields, Held, Safe,
     Spared, Careful, Calls, Inner, Applying, Installing, Appliers, Requesters,
     Returns, IdleRun, vars, serverVars, fileVars, dataVars, historyVars
<1> QED BY <1>1, <1>2, <1>3, <1>4, <1>5, <1>6, <1>7, <1>8, <1>9, <1>10, <1>11, <1>12,
         <1>13, <1>14, <1>15, <1>16 DEF Next, Engine

-----------------------------------------------------------------------------
(* It is not what a download is of.                                        *)

\* A download is staged of the path of the version in hand, which is another one.
LEMMA UnboxedApplyRemoteChange ==
    ASSUME Settled, NEW p, NEW c, Held(p, c), ApplyRemoteChange
    PROVE  Unboxed(p)'
<1>1. /\ run.change.path # p /\ HasFields(mem, DataFields) /\ Unboxed(p)
      /\ temp' = temp /\ backup' = backup
  BY AppliedElsewhere DEF Settled, Base, Fields, Held, Safe, ApplyRemoteChange
<1>2. /\ mem'.mode = mem.mode /\ mem'.inbox \in {mem.inbox, run.change}
      /\ saved'.inbox \in {saved.inbox, run.change}
  BY <1>1 DEF ApplyRemoteChange, HasFields, DataFields, StageDownload, Persist, dataVars
<1> QED BY <1>1, <1>2 DEF Unboxed

\* A crash leaves the data on disk.
LEMMA UnboxedCrash ==
    ASSUME Settled, NEW p, NEW c, Held(p, c), Crash
    PROVE  Unboxed(p)'
<1>1. saved.mode = mem.mode /\ Unboxed(p)
  BY DEF Settled, FirstRun, Held, Safe
<1>2. mem' = saved /\ saved' = saved /\ temp' = temp /\ backup' = backup
  BY DEF Crash, fileVars
<1> QED BY <1>1, <1>2 DEF Unboxed

\* An answer leaves the inbox as it is.
LEMMA UnboxedAnswered ==
    ASSUME Settled, NEW p, NEW c, Held(p, c), AnswerApplied \/ AnswerBatchConflict
    PROVE  Unboxed(p)'
<1>1. HasFields(mem, DataFields) /\ Unboxed(p)
  BY DEF Settled, Base, Fields, Held, Safe
<1>2. CASE AnswerApplied
  <2>1. /\ mem'.mode = mem.mode /\ mem'.inbox = mem.inbox /\ saved'.inbox = mem.inbox
        /\ temp' = temp /\ backup' = backup
    BY <1>1, <1>2 DEF AnswerApplied, HasFields, DataFields, Complete, fileVars
  <2> QED BY <1>1, <2>1 DEF Unboxed
<1>3. CASE AnswerBatchConflict
  <2>1. /\ mem'.mode = mem.mode /\ mem'.inbox = mem.inbox /\ saved'.inbox = mem.inbox
        /\ temp' = temp /\ backup' = backup
    BY <1>1, <1>3 DEF AnswerBatchConflict, HasFields, DataFields, Persist, Discarded, fileVars
  <2> QED BY <1>1, <2>1 DEF Unboxed
<1> QED BY <1>2, <1>3

\* Every step of the others keeps it out of the inbox.
LEMMA UnboxedStep ==
    ASSUME Settled, NEW p, NEW c, Held(p, c), [Next]_vars, ~User
    PROVE  Unboxed(p)'
<1>1. CASE ResumeInbox
  <2> USE DEF Settled, Base, Fields, HasFields, DataFields, RunFields, Held, Safe,
     Unboxed, Persist, Spared, Boxes, Installing, InHandBoxed
  <2>1. CASE InboxInstalled
    BY <2>1 DEF InboxInstalled, Quiet, NoRequest, dataVars, CleanUp, serverVars,
       historyVars
  <2>2. CASE InboxReady
    BY <2>2 DEF InboxReady, Quiet, NoRequest, dataVars, fileVars, serverVars,
       historyVars
  <2>3. CASE InboxLost
    BY <2>3 DEF InboxLost, Quiet, NoRequest, CleanUp, serverVars, historyVars
  <2>4. CASE InboxDone
    BY <2>4 DEF InboxDone, Quiet, NoRequest, Goto, dataVars, fileVars, serverVars,
       historyVars
  <2> HIDE DEF Settled, Base, Fields, HasFields, DataFields, RunFields, Held, Safe,
     Unboxed, Persist, Spared, Boxes, Installing, InHandBoxed
  <2> QED BY <1>1, <2>1, <2>2, <2>3, <2>4 DEF ResumeInbox
<1>2. CASE ResumeOutbox
  <2> USE DEF Settled, Base, Fields, HasFields, DataFields, RunFields, Held, Safe,
     Unboxed, Persist, Spared, Boxes, Installing, InHandBoxed
  <2>1. CASE OutboxCommitted
    BY <2>1 DEF OutboxCommitted, Quiet, dataVars, serverVars, fileVars, historyVars,
       NoRequest
  <2>2. CASE OutboxResent
    BY <2>2 DEF OutboxResent, Quiet, NoRequest, dataVars, fileVars, serverVars,
       historyVars
  <2>3. CASE OutboxAbandoned
    BY <2>3 DEF OutboxAbandoned, Quiet, NoRequest, Discarded, Queued, fileVars,
       dataVars, serverVars, historyVars
  <2>4. CASE OutboxDone
    BY <2>4 DEF OutboxDone, Quiet, NoRequest, Goto, BeginRenames, dataVars,
       fileVars, serverVars, historyVars
  <2> HIDE DEF Settled, Base, Fields, HasFields, DataFields, RunFields, Held, Safe,
     Unboxed, Persist, Spared, Boxes, Installing, InHandBoxed
  <2> QED BY <1>2, <2>1, <2>2, <2>3, <2>4 DEF ResumeOutbox
<1>3. CASE Reconcile
  <2> USE DEF Settled, Base, Fields, HasFields, DataFields, RunFields, Held, Safe,
     Unboxed, Persist, Spared, Boxes, Installing, InHandBoxed
  <2>1. CASE ReadSnapshot
    BY <2>1 DEF ReadSnapshot, Quiet, NoRequest, dataVars, fileVars, serverVars,
       historyVars
  <2>2. CASE PreserveLocal
    BY <2>2 DEF PreserveLocal, Quiet, EndRun, dataVars, serverVars, IdleRun,
       NoRequest, historyVars
  <2>3. CASE DiscardLocal
    BY <2>3 DEF DiscardLocal, Quiet, Return, EndRun, dataVars, serverVars, IdleRun,
       NoRequest, historyVars
  <2>4. CASE PreserveDone
    BY <2>4 DEF PreserveDone, Quiet, NoRequest, Goto, dataVars, fileVars,
       serverVars, historyVars
  <2>5. CASE MergeSnapshot
    BY <2>5 DEF MergeSnapshot, NoRequest, fileVars, dataVars, serverVars,
       historyVars
  <2>6. CASE MergeDone
    BY <2>6 DEF MergeDone, Quiet, NoRequest, BeginRenames, fileVars, dataVars,
       serverVars, historyVars
  <2> HIDE DEF Settled, Base, Fields, HasFields, DataFields, RunFields, Held, Safe,
     Unboxed, Persist, Spared, Boxes, Installing, InHandBoxed
  <2> QED BY <1>3, <2>1, <2>2, <2>3, <2>4, <2>5, <2>6 DEF Reconcile
<1>4. CASE Renames
  <2> USE DEF Settled, Base, Fields, HasFields, DataFields, RunFields, Held, Safe,
     Unboxed, Persist, Spared, Boxes, Installing, InHandBoxed
  <2>1. CASE RenameSkipped
    BY <2>1 DEF RenameSkipped, Quiet, NoRequest, fileVars, dataVars, serverVars,
       historyVars
  <2>2. CASE RenameStaged
    BY <2>2 DEF RenameStaged, Quiet, Stage, fileVars, dataVars, serverVars,
       historyVars, NoRequest
  <2>3. CASE RenamesDone
    BY <2>3 DEF RenamesDone, Quiet, NoRequest, Goto, fileVars, dataVars, serverVars,
       historyVars
  <2> HIDE DEF Settled, Base, Fields, HasFields, DataFields, RunFields, Held, Safe,
     Unboxed, Persist, Spared, Boxes, Installing, InHandBoxed
  <2> QED BY <1>4, <2>1, <2>2, <2>3 DEF Renames
<1>5. CASE Push
  <2> USE DEF Settled, Base, Fields, HasFields, DataFields, RunFields, Held, Safe,
     Unboxed, Persist, Spared, Boxes, Installing, InHandBoxed
  <2>1. CASE PlanFull
    BY <2>1 DEF PlanFull, Plan, Quiet, NoRequest, dataVars, fileVars, serverVars,
       historyVars
  <2>2. CASE PlanQueued
    BY <2>2 DEF PlanQueued, Plan, Quiet, NoRequest, dataVars, fileVars, serverVars,
       historyVars
  <2>3. CASE PushDone
    BY <2>3 DEF PushDone, Quiet, NoRequest, Stage, dataVars, fileVars, serverVars,
       historyVars
  <2>4. CASE DeletesDone
    BY <2>4 DEF DeletesDone, Quiet, NoRequest, fileVars, dataVars, serverVars,
       historyVars
  <2>5. ASSUME NEW q \in Paths, ScanPath(q) PROVE Unboxed(p)'
    BY <2>5 DEF ScanPath, Quiet, NoRequest, dataVars, fileVars, serverVars,
       historyVars
  <2>6. ASSUME NEW q \in Paths, PushPath(q) PROVE Unboxed(p)'
    BY <2>6 DEF PushPath, Quiet, NoRequest, Stage, Queued, Unnoted, fileVars,
       dataVars, serverVars, historyVars
  <2>7. ASSUME NEW q \in Paths, DeletePath(q) PROVE Unboxed(p)'
    BY <2>7 DEF DeletePath, Quiet, Stage, fileVars, dataVars, serverVars,
       historyVars, NoRequest
  <2> HIDE DEF Settled, Base, Fields, HasFields, DataFields, RunFields, Held, Safe,
     Unboxed, Persist, Spared, Boxes, Installing, InHandBoxed
  <2> QED BY <1>5, <2>1, <2>2, <2>3, <2>4, <2>5, <2>6, <2>7 DEF Push
<1>6. CASE Answered
  <2>1. CASE AnswerApplied
    BY <2>1, UnboxedAnswered
  <2>2. CASE AnswerBatchConflict
    BY <2>2, UnboxedAnswered
  <2> USE DEF Settled, Base, Fields, HasFields, DataFields, RunFields, Held, Safe,
     Unboxed, Persist, Spared, Boxes, Installing, InHandBoxed
  <2>3. CASE AnswerConflict
    BY <2>3 DEF AnswerConflict, Quiet, Discarded, serverVars, fileVars, dataVars,
       historyVars, NoRequest
  <2>4. CASE KeepRefused
    BY <2>4 DEF KeepRefused, Quiet, NoRequest, dataVars, serverVars, historyVars
  <2>5. CASE AnswerMoved
    BY <2>5 DEF AnswerMoved, Quiet, Goto, Complete, serverVars, fileVars,
       Recovering, dataVars, historyVars, NoRequest
  <2>6. CASE AnswerMoveConflict
    BY <2>6 DEF AnswerMoveConflict, Quiet, Goto, Return, Discarded, Queued,
       serverVars, fileVars, Recovering, dataVars, historyVars, NoRequest
  <2>7. CASE AnswerBatch
    BY <2>7 DEF AnswerBatch, Quiet, Complete, serverVars, fileVars, dataVars,
       historyVars, NoRequest
  <2> HIDE DEF Settled, Base, Fields, HasFields, DataFields, RunFields, Held, Safe,
     Unboxed, Persist, Spared, Boxes, Installing, InHandBoxed
  <2> QED BY <1>6, <2>1, <2>2, <2>3, <2>4, <2>5, <2>6, <2>7 DEF Answered
<1>7. CASE Apply
  <2>1. CASE ApplyRemoteChange
    BY <2>1, UnboxedApplyRemoteChange
  <2> USE DEF Settled, Base, Fields, HasFields, DataFields, RunFields, Held, Safe,
     Unboxed, Persist, Spared, Boxes, Installing, InHandBoxed
  <2>2. CASE RemoveLocal
    BY <2>2 DEF RemoveLocal, Quiet, Return, EndRun, serverVars, IdleRun, NoRequest,
       historyVars
  <2>3. CASE Download
    BY <2>3 DEF Download, Quiet, NoRequest, Goto, serverVars, historyVars
  <2>4. CASE SetAside
    BY <2>4 DEF SetAside, Quiet, NoRequest, Goto, serverVars, historyVars
  <2>5. CASE SwapIn
    BY <2>5 DEF SwapIn, Quiet, Goto, EndRun, dataVars, serverVars, IdleRun,
       NoRequest, historyVars
  <2>6. CASE VerifyInstalled
    BY <2>6 DEF VerifyInstalled, Quiet, Goto, EndRun, dataVars, serverVars, IdleRun,
       NoRequest, historyVars
  <2>7. CASE FinishDownload
    BY <2>7 DEF FinishDownload, Quiet, NoRequest, Goto, fileVars, dataVars,
       serverVars, historyVars
  <2>8. CASE Save
    BY <2>8 DEF Save, Quiet, NoRequest, Return, fileVars, dataVars, serverVars,
       historyVars
  <2> HIDE DEF Settled, Base, Fields, HasFields, DataFields, RunFields, Held, Safe,
     Unboxed, Persist, Spared, Boxes, Installing, InHandBoxed
  <2> QED BY <1>7, <2>1, <2>2, <2>3, <2>4, <2>5, <2>6, <2>7, <2>8 DEF Apply
<1>8. CASE Pull
  <2> USE DEF Settled, Base, Fields, HasFields, DataFields, RunFields, Held, Safe,
     Unboxed, Persist, Spared, Boxes, Installing, InHandBoxed
  <2>1. CASE PullPage
    BY <2>1 DEF PullPage, Quiet, NoRequest, dataVars, fileVars, serverVars,
       historyVars
  <2>2. CASE PageChange
    BY <2>2 DEF PageChange, Quiet, NoRequest, dataVars, fileVars, serverVars,
       historyVars
  <2>3. CASE PageDone
    BY <2>3 DEF PageDone, Quiet, NoRequest, fileVars, dataVars, serverVars,
       historyVars
  <2>4. CASE Finish
    BY <2>4 DEF Finish, Quiet, NoRequest, Goto, fileVars, dataVars, serverVars,
       historyVars
  <2>5. CASE AckCursor
    BY <2>5 DEF AckCursor, Quiet, Goto, Acknowledge, dataVars, fileVars, serverVars,
       historyVars, NoRequest
  <2>6. CASE CompleteRun
    BY <2>6 DEF CompleteRun, Quiet, EndRun, serverVars, fileVars, dataVars,
       historyVars, IdleRun, NoRequest
  <2> HIDE DEF Settled, Base, Fields, HasFields, DataFields, RunFields, Held, Safe,
     Unboxed, Persist, Spared, Boxes, Installing, InHandBoxed
  <2> QED BY <1>8, <2>1, <2>2, <2>3, <2>4, <2>5, <2>6 DEF Pull
<1>9. CASE StartRun
  BY <1>9 DEF StartRun, Settled, Base, Fields, HasFields, DataFields, RunFields,
     Held, Safe, Unboxed, Persist, Spared, Boxes, Installing, InHandBoxed, Quiet,
     NoRequest, Goto, dataVars, fileVars, serverVars, historyVars
<1>10. CASE Send
  BY <1>10 DEF Send, Settled, Base, Fields, HasFields, DataFields, RunFields, Held,
     Safe, Unboxed, Persist, Spared, Boxes, Installing, InHandBoxed, Quiet, Goto,
     dataVars, fileVars, serverVars, historyVars, NoRequest
<1>11. CASE ServerMoves
  BY <1>11 DEF ServerMoves, Settled, Base, Fields, HasFields, DataFields, RunFields,
     Held, Safe, Unboxed, Persist, Spared, Boxes, Installing, InHandBoxed, Spend,
     dataVars, fileVars, serverVars, historyVars
<1>12. CASE SaveEvents
  BY <1>12 DEF SaveEvents, Settled, Base, Fields, HasFields, DataFields, RunFields,
     Held, Safe, Unboxed, Persist, Spared, Boxes, Installing, InHandBoxed, Quiet,
     NoRequest, fileVars, dataVars, serverVars, historyVars
<1>13. CASE RunFails
  BY <1>13 DEF RunFails, Settled, Base, Fields, HasFields, DataFields, RunFields,
     Held, Safe, Unboxed, Persist, Spared, Boxes, Installing, InHandBoxed, EndRun,
     Spend, serverVars, IdleRun
<1>14. CASE Crash
  BY <1>14, UnboxedCrash
<1>15. CASE Restart
  BY <1>15 DEF Restart, Settled, Base, Fields, HasFields, DataFields, RunFields,
     Held, Safe, Unboxed, Persist, Spared, Boxes, Installing, InHandBoxed,
     NoRequest, dataVars, fileVars, historyVars, serverVars
<1>16. CASE UNCHANGED vars
  BY <1>16 DEF Settled, Base, Fields, HasFields, DataFields, RunFields, Held, Safe,
     Unboxed, Persist, Spared, Boxes, Installing, InHandBoxed, vars, serverVars,
     fileVars, dataVars, historyVars
<1> QED BY <1>1, <1>2, <1>3, <1>4, <1>5, <1>6, <1>7, <1>8, <1>9, <1>10, <1>11, <1>12,
         <1>13, <1>14, <1>15, <1>16 DEF Next, Engine

-----------------------------------------------------------------------------
(* What is asked of the server about it is to take the content.            *)

\* A request is staged that is not about the path, or puts the content.
LEMMA RequestedStaged ==
    ASSUME Settled, NEW p, NEW c, Held(p, c), NEW q, Stage(q),
           p \in Touched(q) => q.kind = "apply" /\ q.content = c
    PROVE  Requested(p, c)'
<1>1. /\ mem'.outbox = [id |-> FreshId, request |-> q] /\ saved' = mem'
      /\ answers' = [answers EXCEPT ![FreshId] = NoReply]
  BY Staged DEF Settled, Base, Stage
<1>2. FreshId \in OpIds /\ answers \in [OpIds -> Reply \cup {NoReply}]
  BY DEF FreshId, OpIds, Settled, Base, Shape, SoundData, TypeOK
<1>3. answers'[mem'.outbox.id] = NoReply /\ mem'.outbox.request = q
  BY <1>1, <1>2
<1> QED BY <1>1, <1>3 DEF Requested, Asked, Puts, Touched

\* The paths of a rename have no file, or one that the server has.
LEMMA RequestedRenameStaged ==
    ASSUME Settled, NEW p, NEW c, Held(p, c), RenameStaged
    PROVE  Requested(p, c)'
<1> DEFINE m == Head(mem.renames)
           q == [kind |-> "rename", from |-> m.from, path |-> m.to,
                 base |-> mem.files[m.from].rev, content |-> mem.files[m.from].content]
<1>1. m \in Move
  <2>1. mem.renames \in Seq(Move) /\ run.moves \in Nat /\ run.moves <= Len(mem.renames)
    BY DEF Settled, Base, TypeOK, Data, RunTypes, Ready, MovesReady, RenameStaged
  <2> QED BY <2>1 DEF RenameStaged
<1>2. Sendable(m) /\ Stage(q)
  BY DEF RenameStaged
<1>3. p # m.from /\ p # m.to
  BY <1>1, <1>2, HeldApart DEF Move, Sendable
<1>4. p \notin Touched(q)
  BY <1>3 DEF Touched
<1> HIDE DEF q
<1> QED BY <1>2, <1>4, RequestedStaged

\* A file is put as it is found.
LEMMA RequestedPushPath ==
    ASSUME Settled, NEW p, NEW c, Held(p, c), NEW q \in Paths, PushPath(q)
    PROVE  Requested(p, c)'
<1>1. CASE Stage(ApplyRequest(q, disk[q]))
  <2> DEFINE request == ApplyRequest(q, disk[q])
  <2>1. p \in Touched(request) => request.kind = "apply" /\ request.content = c
    BY DEF ApplyRequest, Touched, Held, Safe
  <2> HIDE DEF request
  <2> QED BY <1>1, <2>1, RequestedStaged DEF request
<1>2. CASE mem'.outbox = mem.outbox /\ saved' = saved /\ answers' = answers
           /\ pc = "push" /\ run'.ret = run.ret
  <2>1. mem.outbox = NoOperation
    BY <1>2 DEF Settled, Boxes
  <2> QED BY <1>2, <2>1 DEF Held, Safe, Requested, Asked, Puts, Done
<1>3. HasFields(mem, DataFields) /\ HasFields(run, RunFields)
  BY DEF Settled, Base, Fields
<1> QED BY <1>1, <1>2, <1>3 DEF PushPath, HasFields, DataFields, RunFields, NoRequest, serverVars

\* What is deleted was not found.
LEMMA RequestedPushDone ==
    ASSUME Settled, NEW p, NEW c, Held(p, c), PushDone
    PROVE  Requested(p, c)'
<1> DEFINE q == [kind |-> "batch",
                 items |-> {[path |-> r, base |-> mem.files[r].rev] : r \in Deletions}]
<1>1. CASE Stage(q)
  <2>1. p \notin Deletions
    BY DEF PushDone, Held, Safe, NotMissed, InPush
  <2>2. p \notin Touched(q)
    BY <2>1 DEF Touched, BatchPaths
  <2> HIDE DEF q
  <2> QED BY <1>1, <2>2, RequestedStaged
<1>2. CASE mem' = mem /\ saved' = saved /\ answers' = answers /\ pc = "push"
  <2>1. mem.outbox = NoOperation
    BY <1>2 DEF Settled, Boxes
  <2> QED BY <1>2, <2>1 DEF Held, Safe, Requested, Asked, Puts, Done
<1> QED BY <1>1, <1>2 DEF PushDone, NoRequest, serverVars, dataVars

\* What the run deletes was not found, and is of another path.
LEMMA RequestedDeletePath ==
    ASSUME Settled, NEW p, NEW c, Held(p, c), NEW q \in Paths, DeletePath(q)
    PROVE  Requested(p, c)'
<1> DEFINE request == ApplyRequest(q, Absent)
<1>1. Stage(request) /\ p # q
  BY DEF DeletePath, Held, Safe, NotMissed, InDeletes
<1>2. p \notin Touched(request)
  BY <1>1 DEF ApplyRequest, Touched
<1> HIDE DEF request
<1> QED BY <1>1, <1>2, RequestedStaged

\* A put that is accepted brings the content to the server.
LEMMA RequestedSend ==
    ASSUME Settled, TypeInv, NEW p, NEW c, Held(p, c), Send
    PROVE  Requested(p, c)'
<1> DEFINE q == mem.outbox.request
           id == mem.outbox.id
<1>1. /\ pc = "send" /\ pc' = "answer" /\ mem' = mem /\ saved' = saved /\ run' = run
      /\ saved.outbox = mem.outbox /\ mem.outbox # NoOperation
      /\ answers[id] = NoReply
  BY DEF Send, Goto, dataVars, Settled, Boxes
<1>2. CASE answers' = answers
  BY <1>1, <1>2 DEF Held, Safe, Requested, Asked, Puts, Done, Before
<1>3. ASSUME NEW new \in Effects(q), Accepts(q), Extends(new)
      PROVE  ~Asked(mem, p)
  <2> SUFFICES ASSUME Asked(mem, p) PROVE FALSE
    OBVIOUS
  <2>1. q.kind = "apply" /\ q.path = p /\ q.content = c
    BY <1>1, AskedFor DEF NoReply
  <2>2. CASE AlreadySo(head[p], q)
    BY <2>1, <2>2, HeldApart DEF AlreadySo
  <2>3. CASE ~AlreadySo(head[p], q)
    <3>1. new = <<[path |-> p, content |-> c, mine |-> TRUE]>>
      BY <1>3, <2>1, <2>3 DEF Effects
    <3>2. log' = log \o new /\ log \in Seq(Entry) /\ new \in Seq(Entry)
      BY <1>3 DEF Extends, AppendEntries, Settled, Base, TypeOK
    <3>3. Len(log) + 1 \in DOMAIN log' /\ log'[Len(log) + 1].content = c
      BY <3>1, <3>2
    <3> QED BY <3>3 DEF Stowed, Held
  <2> QED BY <2>2, <2>3
<1>4. CASE ~Asked(mem, p)
  BY <1>1, <1>4 DEF Requested, Asked
<1> QED BY <1>2, <1>3, <1>4, SendAppends

\* Other devices leave this one's operations alone.
LEMMA RequestedServerMoves ==
    ASSUME NEW p, NEW c, Held(p, c), ServerMoves
    PROVE  Requested(p, c)'
<1>1. answers' = answers /\ UNCHANGED <<mem, saved, pc, run>>
  BY DEF ServerMoves, OtherCommit, Collect, dataVars
<1> QED BY <1>1 DEF Held, Safe, Requested, Asked, Puts, Done, Before

\* Every step of the others keeps it so.
LEMMA RequestedStep ==
    ASSUME Settled, TypeInv, NEW p, NEW c, Held(p, c), [Next]_vars, ~User
    PROVE  Requested(p, c)'
<1>1. CASE ResumeInbox
  <2> USE DEF Settled, Base, Fields, HasFields, DataFields, RunFields, Held, Safe,
     Requested, Asked, Puts, Done, Before, Persist, Calls, Inner, Applying,
     Installing, Appliers, Requesters, Returns, IdleRun
  <2>1. CASE InboxInstalled
    BY <2>1 DEF InboxInstalled, Quiet, NoRequest, dataVars, CleanUp, serverVars,
       historyVars
  <2>2. CASE InboxReady
    BY <2>2 DEF InboxReady, Quiet, NoRequest, dataVars, fileVars, serverVars,
       historyVars
  <2>3. CASE InboxLost
    BY <2>3 DEF InboxLost, Quiet, NoRequest, CleanUp, serverVars, historyVars
  <2>4. CASE InboxDone
    BY <2>4 DEF InboxDone, Quiet, NoRequest, Goto, dataVars, fileVars, serverVars,
       historyVars
  <2> HIDE DEF Settled, Base, Fields, HasFields, DataFields, RunFields, Held, Safe,
     Requested, Asked, Puts, Done, Before, Persist, Calls, Inner, Applying,
     Installing, Appliers, Requesters, Returns, IdleRun
  <2> QED BY <1>1, <2>1, <2>2, <2>3, <2>4 DEF ResumeInbox
<1>2. CASE ResumeOutbox
  <2> USE DEF Settled, Base, Fields, HasFields, DataFields, RunFields, Held, Safe,
     Requested, Asked, Puts, Done, Before, Persist, Calls, Inner, Applying,
     Installing, Appliers, Requesters, Returns, IdleRun
  <2>1. CASE OutboxCommitted
    BY <2>1 DEF OutboxCommitted, Quiet, dataVars, serverVars, fileVars, historyVars,
       NoRequest
  <2>2. CASE OutboxResent
    BY <2>2 DEF OutboxResent, Quiet, NoRequest, dataVars, fileVars, serverVars,
       historyVars
  <2>3. CASE OutboxAbandoned
    BY <2>3 DEF OutboxAbandoned, Quiet, NoRequest, Discarded, Queued, fileVars,
       dataVars, serverVars, historyVars
  <2>4. CASE OutboxDone
    BY <2>4 DEF OutboxDone, Quiet, NoRequest, Goto, BeginRenames, dataVars,
       fileVars, serverVars, historyVars
  <2> HIDE DEF Settled, Base, Fields, HasFields, DataFields, RunFields, Held, Safe,
     Requested, Asked, Puts, Done, Before, Persist, Calls, Inner, Applying,
     Installing, Appliers, Requesters, Returns, IdleRun
  <2> QED BY <1>2, <2>1, <2>2, <2>3, <2>4 DEF ResumeOutbox
<1>3. CASE Reconcile
  <2> USE DEF Settled, Base, Fields, HasFields, DataFields, RunFields, Held, Safe,
     Requested, Asked, Puts, Done, Before, Persist, Calls, Inner, Applying,
     Installing, Appliers, Requesters, Returns, IdleRun
  <2>1. CASE ReadSnapshot
    BY <2>1 DEF ReadSnapshot, Quiet, NoRequest, dataVars, fileVars, serverVars,
       historyVars
  <2>2. CASE PreserveLocal
    BY <2>2 DEF PreserveLocal, Quiet, EndRun, dataVars, serverVars, NoRequest,
       historyVars
  <2>3. CASE DiscardLocal
    BY <2>3 DEF DiscardLocal, Quiet, Return, EndRun, dataVars, serverVars,
       NoRequest, historyVars
  <2>4. CASE PreserveDone
    BY <2>4 DEF PreserveDone, Quiet, NoRequest, Goto, dataVars, fileVars,
       serverVars, historyVars
  <2>5. CASE MergeSnapshot
    BY <2>5 DEF MergeSnapshot, NoRequest, fileVars, dataVars, serverVars,
       historyVars
  <2>6. CASE MergeDone
    BY <2>6 DEF MergeDone, Quiet, NoRequest, BeginRenames, fileVars, dataVars,
       serverVars, historyVars
  <2> HIDE DEF Settled, Base, Fields, HasFields, DataFields, RunFields, Held, Safe,
     Requested, Asked, Puts, Done, Before, Persist, Calls, Inner, Applying,
     Installing, Appliers, Requesters, Returns, IdleRun
  <2> QED BY <1>3, <2>1, <2>2, <2>3, <2>4, <2>5, <2>6 DEF Reconcile
<1>4. CASE Renames
  <2>1. CASE RenameStaged
    BY <2>1, RequestedRenameStaged
  <2> USE DEF Settled, Base, Fields, HasFields, DataFields, RunFields, Held, Safe,
     Requested, Asked, Puts, Done, Before, Persist, Calls, Inner, Applying,
     Installing, Appliers, Requesters, Returns, IdleRun
  <2>2. CASE RenameSkipped
    BY <2>2 DEF RenameSkipped, Quiet, NoRequest, fileVars, dataVars, serverVars,
       historyVars
  <2>3. CASE RenamesDone
    BY <2>3 DEF RenamesDone, Quiet, NoRequest, Goto, fileVars, dataVars, serverVars,
       historyVars
  <2> HIDE DEF Settled, Base, Fields, HasFields, DataFields, RunFields, Held, Safe,
     Requested, Asked, Puts, Done, Before, Persist, Calls, Inner, Applying,
     Installing, Appliers, Requesters, Returns, IdleRun
  <2> QED BY <1>4, <2>1, <2>2, <2>3 DEF Renames
<1>5. CASE Push
  <2>1. CASE PushDone
    BY <2>1, RequestedPushDone
  <2>2. ASSUME NEW q \in Paths, PushPath(q) PROVE Requested(p, c)'
    BY <2>2, RequestedPushPath
  <2>3. ASSUME NEW q \in Paths, DeletePath(q) PROVE Requested(p, c)'
    BY <2>3, RequestedDeletePath
  <2> USE DEF Settled, Base, Fields, HasFields, DataFields, RunFields, Held, Safe,
     Requested, Asked, Puts, Done, Before, Persist, Calls, Inner, Applying,
     Installing, Appliers, Requesters, Returns, IdleRun
  <2>4. CASE PlanFull
    BY <2>4 DEF PlanFull, Plan, Quiet, NoRequest, dataVars, fileVars, serverVars,
       historyVars
  <2>5. CASE PlanQueued
    BY <2>5 DEF PlanQueued, Plan, Quiet, NoRequest, dataVars, fileVars, serverVars,
       historyVars
  <2>6. CASE DeletesDone
    BY <2>6 DEF DeletesDone, Quiet, NoRequest, fileVars, dataVars, serverVars,
       historyVars
  <2>7. ASSUME NEW q \in Paths, ScanPath(q) PROVE Requested(p, c)'
    BY <2>7 DEF ScanPath, Quiet, NoRequest, dataVars, fileVars, serverVars,
       historyVars
  <2> HIDE DEF Settled, Base, Fields, HasFields, DataFields, RunFields, Held, Safe,
     Requested, Asked, Puts, Done, Before, Persist, Calls, Inner, Applying,
     Installing, Appliers, Requesters, Returns, IdleRun
  <2> QED BY <1>5, <2>1, <2>2, <2>3, <2>4, <2>5, <2>6, <2>7 DEF Push
<1>6. CASE Answered
  <2> USE DEF Settled, Base, Fields, HasFields, DataFields, RunFields, Held, Safe,
     Requested, Asked, Puts, Done, Before, Persist, Calls, Inner, Applying,
     Installing, Appliers, Requesters, Returns, IdleRun
  <2>1. CASE AnswerApplied
    BY <2>1 DEF AnswerApplied, Quiet, Goto, Return, Complete, Queued, serverVars,
       fileVars, Recovering, dataVars, historyVars, NoRequest
  <2>2. CASE AnswerConflict
    BY <2>2 DEF AnswerConflict, Quiet, Discarded, serverVars, fileVars, dataVars,
       historyVars, NoRequest
  <2>3. CASE KeepRefused
    BY <2>3 DEF KeepRefused, Quiet, NoRequest, dataVars, serverVars, historyVars
  <2>4. CASE AnswerMoved
    BY <2>4 DEF AnswerMoved, Quiet, Goto, Complete, serverVars, fileVars,
       Recovering, dataVars, historyVars, NoRequest
  <2>5. CASE AnswerMoveConflict
    BY <2>5 DEF AnswerMoveConflict, Quiet, Goto, Return, Discarded, Queued,
       serverVars, fileVars, Recovering, dataVars, historyVars, NoRequest
  <2>6. CASE AnswerBatch
    BY <2>6 DEF AnswerBatch, Quiet, Complete, serverVars, fileVars, dataVars,
       historyVars, NoRequest
  <2>7. CASE AnswerBatchConflict
    BY <2>7 DEF AnswerBatchConflict, Quiet, Discarded, Queued, serverVars, fileVars,
       Recovering, dataVars, historyVars, NoRequest
  <2> HIDE DEF Settled, Base, Fields, HasFields, DataFields, RunFields, Held, Safe,
     Requested, Asked, Puts, Done, Before, Persist, Calls, Inner, Applying,
     Installing, Appliers, Requesters, Returns, IdleRun
  <2> QED BY <1>6, <2>1, <2>2, <2>3, <2>4, <2>5, <2>6, <2>7 DEF Answered
<1>7. CASE Apply
  <2> USE DEF Settled, Base, Fields, HasFields, DataFields, RunFields, Held, Safe,
     Requested, Asked, Puts, Done, Before, Persist, Calls, Inner, Applying,
     Installing, Appliers, Requesters, Returns, IdleRun
  <2>1. CASE ApplyRemoteChange
    BY <2>1 DEF ApplyRemoteChange, Quiet, NoRequest, Goto, Return, StageDownload,
       dataVars, serverVars, historyVars
  <2>2. CASE RemoveLocal
    BY <2>2 DEF RemoveLocal, Quiet, Return, EndRun, serverVars, NoRequest,
       historyVars
  <2>3. CASE Download
    BY <2>3 DEF Download, Quiet, NoRequest, Goto, serverVars, historyVars
  <2>4. CASE SetAside
    BY <2>4 DEF SetAside, Quiet, NoRequest, Goto, serverVars, historyVars
  <2>5. CASE SwapIn
    BY <2>5 DEF SwapIn, Quiet, Goto, EndRun, dataVars, serverVars, NoRequest,
       historyVars
  <2>6. CASE VerifyInstalled
    BY <2>6 DEF VerifyInstalled, Quiet, Goto, EndRun, dataVars, serverVars,
       NoRequest, historyVars
  <2>7. CASE FinishDownload
    BY <2>7 DEF FinishDownload, Quiet, NoRequest, Goto, fileVars, dataVars,
       serverVars, historyVars
  <2>8. CASE Save
    BY <2>8 DEF Save, Quiet, NoRequest, Return, fileVars, dataVars, serverVars,
       historyVars
  <2> HIDE DEF Settled, Base, Fields, HasFields, DataFields, RunFields, Held, Safe,
     Requested, Asked, Puts, Done, Before, Persist, Calls, Inner, Applying,
     Installing, Appliers, Requesters, Returns, IdleRun
  <2> QED BY <1>7, <2>1, <2>2, <2>3, <2>4, <2>5, <2>6, <2>7, <2>8 DEF Apply
<1>8. CASE Pull
  <2> USE DEF Settled, Base, Fields, HasFields, DataFields, RunFields, Held, Safe,
     Requested, Asked, Puts, Done, Before, Persist, Calls, Inner, Applying,
     Installing, Appliers, Requesters, Returns, IdleRun
  <2>1. CASE PullPage
    BY <2>1 DEF PullPage, Quiet, NoRequest, dataVars, fileVars, serverVars,
       historyVars
  <2>2. CASE PageChange
    BY <2>2 DEF PageChange, Quiet, NoRequest, dataVars, fileVars, serverVars,
       historyVars
  <2>3. CASE PageDone
    BY <2>3 DEF PageDone, Quiet, NoRequest, fileVars, dataVars, serverVars,
       historyVars
  <2>4. CASE Finish
    BY <2>4 DEF Finish, Quiet, NoRequest, Goto, fileVars, dataVars, serverVars,
       historyVars
  <2>5. CASE AckCursor
    BY <2>5 DEF AckCursor, Quiet, Goto, Acknowledge, dataVars, fileVars, serverVars,
       historyVars, NoRequest
  <2>6. CASE CompleteRun
    BY <2>6 DEF CompleteRun, Quiet, EndRun, serverVars, fileVars, dataVars,
       historyVars, NoRequest
  <2> HIDE DEF Settled, Base, Fields, HasFields, DataFields, RunFields, Held, Safe,
     Requested, Asked, Puts, Done, Before, Persist, Calls, Inner, Applying,
     Installing, Appliers, Requesters, Returns, IdleRun
  <2> QED BY <1>8, <2>1, <2>2, <2>3, <2>4, <2>5, <2>6 DEF Pull
<1>9. CASE StartRun
  BY <1>9 DEF StartRun, Settled, Base, Fields, HasFields, DataFields, RunFields,
     Held, Safe, Requested, Asked, Puts, Done, Before, Persist, Calls, Inner,
     Applying, Installing, Appliers, Requesters, Returns, IdleRun, Quiet, NoRequest,
     Goto, dataVars, fileVars, serverVars, historyVars
<1>10. CASE Send
  BY <1>10, RequestedSend
<1>11. CASE ServerMoves
  BY <1>11, RequestedServerMoves
<1>12. CASE SaveEvents
  BY <1>12 DEF SaveEvents, Settled, Base, Fields, HasFields, DataFields, RunFields,
     Held, Safe, Requested, Asked, Puts, Done, Before, Persist, Calls, Inner,
     Applying, Installing, Appliers, Requesters, Returns, IdleRun, Quiet, NoRequest,
     fileVars, dataVars, serverVars, historyVars
<1>13. CASE RunFails
  BY <1>13 DEF RunFails, Settled, Base, Fields, HasFields, DataFields, RunFields,
     Held, Safe, Requested, Asked, Puts, Done, Before, Persist, Calls, Inner,
     Applying, Installing, Appliers, Requesters, Returns, IdleRun, EndRun, Spend,
     serverVars
<1>14. CASE Crash
  BY <1>14 DEF Crash, Settled, Base, Fields, HasFields, DataFields, RunFields, Held,
     Safe, Requested, Asked, Puts, Done, Before, Persist, Calls, Inner, Applying,
     Installing, Appliers, Requesters, Returns, IdleRun, Spend, serverVars,
     fileVars, dataVars, historyVars
<1>15. CASE Restart
  BY <1>15 DEF Restart, Settled, Base, Fields, HasFields, DataFields, RunFields,
     Held, Safe, Requested, Asked, Puts, Done, Before, Persist, Calls, Inner,
     Applying, Installing, Appliers, Requesters, Returns, IdleRun, NoRequest,
     dataVars, fileVars, historyVars, serverVars
<1>16. CASE UNCHANGED vars
  BY <1>16 DEF Settled, Base, Fields, HasFields, DataFields, RunFields, Held, Safe,
     Requested, Asked, Puts, Done, Before, Persist, Calls, Inner, Applying,
     Installing, Appliers, Requesters, Returns, IdleRun, vars, serverVars, fileVars,
     dataVars, historyVars
<1> QED BY <1>1, <1>2, <1>3, <1>4, <1>5, <1>6, <1>7, <1>8, <1>9, <1>10, <1>11, <1>12,
         <1>13, <1>14, <1>15, <1>16 DEF Next, Engine

-----------------------------------------------------------------------------
(* What is recorded of it.                                                 *)

\* A step that leaves the record of the path, and the run to push the file.
LEMMA RememberedKept ==
    ASSUME NEW p, NEW c, Held(p, c),
           mem'.mode = mem.mode, mem'.files[p] = mem.files[p],
           saved'.files[p] \in {mem.files[p], saved.files[p]},
           run'.deferred \in {run.deferred, {}},
           ToPush(p, c) => ToPush(p, c)'
    PROVE  Remembered(p, c)'
BY DEF Held, Safe, Remembered

\* A procedure returns to where the file is still to be pushed.
LEMMA ToPushReturned ==
    ASSUME Settled, NEW p, NEW c, Return, ToPush(p, c), pc \in {"apply", "remove", "save"}
    PROVE  ToPush(p, c)'
<1>1. HasFields(run, RunFields) /\ run.ret \in Appliers \cup Requesters \cup {"inbox"}
  BY DEF Settled, Base, Fields, Calls, Returns, Requesters
<1>2. mem.outbox = NoOperation
  BY DEF Settled, Boxes
<1> QED BY <1>1, <1>2 DEF ToPush, Return, HasFields, RunFields, Asked, Appliers, Requesters

\* A run that ends leaves the file to the next one.
LEMMA RememberedEnded ==
    ASSUME Settled, NEW p, NEW c, Held(p, c), EndRun
    PROVE  Remembered(p, c)'
<1>1. ToPush(p, c)'
  BY DEF EndRun, IdleRun, ToPush
<1>2. mem' = mem /\ saved' = mem /\ run'.deferred = {}
  BY DEF EndRun, IdleRun
<1> QED BY <1>1, <1>2, RememberedKept

\* A change of another path is recorded.
LEMMA RememberedElsewhere ==
    ASSUME Settled, NEW p, NEW c, Held(p, c), run.change.path # p, mem'.mode = mem.mode,
           mem'.files \in {mem.files, Recorded({run.change})},
           saved'.files \in {mem'.files, saved.files},
           \/ pc \in {"apply", "remove", "save"} /\ Return
           \/ Goto("remove") /\ pc = "apply"
           \/ Goto("download") /\ pc = "apply"
           \/ Goto("save") /\ pc = "record"
    PROVE  Remembered(p, c)'
<1>1. mem'.files[p] = mem.files[p]
  BY DEF Recorded, Held
<1>2. mem.outbox = NoOperation /\ HasFields(run, RunFields)
  BY DEF Settled, Base, Fields, Boxes, Artifacts, Installing
<1>3. ToPush(p, c) => ToPush(p, c)'
  <2>1. CASE pc \in {"apply", "remove", "save"} /\ Return
    BY <2>1, ToPushReturned
  <2>2. CASE Goto("remove") \/ Goto("download") \/ Goto("save")
    BY <1>2, <2>2 DEF Goto, ToPush, Asked
  <2> QED BY <2>1, <2>2
<1>4. run'.deferred = run.deferred
  BY <1>2 DEF Return, Goto, HasFields, RunFields
<1> QED BY <1>1, <1>3, <1>4, RememberedKept

\* The comparison records at most the version in hand.
LEMMA RememberedApplyRemoteChange ==
    ASSUME Settled, NEW p, NEW c, Held(p, c), ApplyRemoteChange
    PROVE  Remembered(p, c)'
<1>1. run.change.path # p /\ HasFields(mem, DataFields) /\ pc = "apply"
  BY AppliedElsewhere DEF Settled, Base, Fields, ApplyRemoteChange
<1>2. /\ mem'.mode = mem.mode /\ mem'.files \in {mem.files, Recorded({run.change})}
      /\ saved'.files \in {mem'.files, saved.files}
  BY <1>1 DEF ApplyRemoteChange, HasFields, DataFields, StageDownload, Persist, dataVars
<1> QED BY <1>1, <1>2, RememberedElsewhere DEF ApplyRemoteChange

\* The removal of a file records a deletion of another path.
LEMMA RememberedRemoveLocal ==
    ASSUME Settled, NEW p, NEW c, Held(p, c), RemoveLocal
    PROVE  Remembered(p, c)'
<1>1. run.change.path # p /\ HasFields(mem, DataFields) /\ pc = "remove"
  BY DEF Settled, Base, Fields, RemoveLocal, Held, Safe, Spared
<1>2. CASE EndRun
  BY <1>2, RememberedEnded
<1>3. CASE /\ mem' = [mem EXCEPT !.files = Recorded({run.change})]
           /\ Return /\ saved' = saved
  <2>1. mem'.mode = mem.mode /\ mem'.files = Recorded({run.change})
    BY <1>1, <1>3 DEF HasFields, DataFields
  <2> QED BY <1>1, <1>3, <2>1, RememberedElsewhere
<1> QED BY <1>2, <1>3 DEF RemoveLocal

\* A finished download records a version that is not a deletion.
LEMMA RememberedFinishDownload ==
    ASSUME Settled, NEW p, NEW c, Held(p, c), FinishDownload
    PROVE  Remembered(p, c)'
<1>1. run.change.path # p /\ HasFields(mem, DataFields) /\ pc = "record" /\ Goto("save")
  BY DEF Settled, Base, Fields, FinishDownload, Held, Safe, Spared, Installing
<1>2. /\ mem'.mode = mem.mode /\ mem'.files = Recorded({run.change})
      /\ saved'.files = mem'.files
  BY <1>1 DEF FinishDownload, HasFields, DataFields
<1> QED BY <1>1, <1>2, RememberedElsewhere

\* A save writes what memory has, where the run owes nothing more than before.
LEMMA RememberedSave ==
    ASSUME Settled, NEW p, NEW c, Held(p, c), Save
    PROVE  Remembered(p, c)'
<1>1. pc = "save" /\ Return /\ mem' = mem /\ saved' = mem /\ HasFields(run, RunFields)
  BY DEF Save, Settled, Base, Fields
<1>2. run'.deferred = run.deferred
  BY <1>1 DEF Return, HasFields, RunFields
<1> QED BY <1>1, <1>2, ToPushReturned, RememberedKept

\* A download that is given up is of another path where the run would have to push it.
LEMMA RememberedInboxLost ==
    ASSUME Settled, NEW p, NEW c, Held(p, c), InboxLost
    PROVE  Remembered(p, c)'
<1>1. HasFields(mem, DataFields) /\ HasFields(run, RunFields) /\ pc = "inbox" /\ pc' = pc
  BY DEF InboxLost, Settled, Base, Fields
<1>2. /\ mem'.files = mem.files /\ mem'.mode = mem.mode /\ saved' = mem'
      /\ mem'.outbox = mem.outbox
  BY <1>1 DEF InboxLost, Persist, HasFields, DataFields
<1>3. /\ run'.deferred = run.deferred \cup {mem.inbox.path} /\ run'.ret = run.ret
      /\ run'.change = run.change /\ run'.todo = run.todo /\ run'.found = run.found
  BY <1>1 DEF InboxLost, HasFields, RunFields
<1>4. mem.mode = "local" => mem.inbox.path # p
  BY DEF InboxLost, Held, Safe, Unboxed
<1>5. ToPush(p, c) => ToPush(p, c)'
  BY <1>1, <1>2, <1>3 DEF ToPush, Asked
<1> QED BY <1>2, <1>3, <1>4, <1>5 DEF Held, Safe, Remembered

\* What an executed operation records of the path is not a deletion, and only what an
\* earlier run has left is about it.
LEMMA AnsweredRecord ==
    ASSUME Settled, NEW p, NEW c, Held(p, c), pc = "answer", reply.kind = "ok"
    PROVE  /\ Asked(mem, p) => run.ret = "outbox"
           /\ \/ Recorded(reply.versions)[p] = mem.files[p]
              \/ Recorded(reply.versions)[p].content # Absent /\ run.ret = "outbox"
<1>1. reply = answers[mem.outbox.id] /\ mem.outbox # NoOperation /\ p \in Paths
  BY DEF Settled, Boxes, Held
<1>2. Asked(mem, p) => run.ret = "outbox" /\ Done(mem, p)
  BY <1>1, AskedFor DEF NoReply
<1>3. CASE \E v \in reply.versions : v.path = p
  <2> DEFINE u == CHOOSE v \in reply.versions : v.path = p
  <2>1. u \in reply.versions /\ u.path = p
    BY <1>3
  <2>2. Asked(mem, p)
    BY <1>1, <2>1 DEF Settled, OutboxKnown, Asked
  <2>3. u.content # Absent
    BY <1>1, <1>2, <2>1, <2>2 DEF Done
  <2>4. Recorded(reply.versions)[p].content = u.content
    BY <1>1, <1>3 DEF Recorded
  <2> HIDE DEF u
  <2> QED BY <1>2, <2>2, <2>3, <2>4
<1>4. CASE ~\E v \in reply.versions : v.path = p
  BY <1>1, <1>2, <1>4 DEF Recorded
<1> QED BY <1>3, <1>4

\* A result is recorded, in memory and on disk.
LEMMA RememberedAnswered ==
    ASSUME Settled, NEW p, NEW c, Held(p, c), pc = "answer", reply.kind = "ok",
           mem'.files = Recorded(reply.versions), saved'.files = mem'.files,
           mem'.mode = mem.mode, run'.deferred = run.deferred,
           ToPush(p, c) => ToPush(p, c)'
    PROVE  Remembered(p, c)'
<1>1. CASE mem'.files[p] = mem.files[p]
  BY <1>1, RememberedKept
<1>2. CASE mem'.files[p].content # Absent
  BY <1>2 DEF Held, Safe, Remembered
<1> QED BY <1>1, <1>2, AnsweredRecord

\* The answer of a put or a deletion leaves the run to push what it had to push.
LEMMA RememberedAnswerApplied ==
    ASSUME Settled, NEW p, NEW c, Held(p, c), AnswerApplied
    PROVE  Remembered(p, c)'
<1>1. /\ pc = "answer" /\ reply.kind = "ok" /\ HasFields(mem, DataFields)
      /\ HasFields(run, RunFields) /\ run.ret \in {"outbox", "push", "deletes"}
  BY DEF AnswerApplied, Settled, Base, Fields, Calls
<1>2. /\ mem'.files = Recorded(reply.versions) /\ saved'.files = mem'.files
      /\ mem'.mode = mem.mode
  BY <1>1 DEF AnswerApplied, Complete, HasFields, DataFields
<1>3. /\ run'.deferred = run.deferred
      /\ \/ run.ret = "outbox" /\ pc' = "save" /\ run' = run
         \/ /\ run.ret # "outbox" /\ pc' = run.ret /\ run'.ret = "idle"
            /\ run'.todo = run.todo /\ run'.found = run.found
  BY <1>1 DEF AnswerApplied, Recovering, Goto, Return, HasFields, RunFields
<1>4. ToPush(p, c) => ToPush(p, c)'
  BY <1>1, <1>3, AnsweredRecord DEF ToPush
<1> QED BY <1>1, <1>2, <1>3, <1>4, RememberedAnswered

\* The answer of a rename does too.
LEMMA RememberedAnswerMoved ==
    ASSUME Settled, NEW p, NEW c, Held(p, c), AnswerMoved
    PROVE  Remembered(p, c)'
<1>1. /\ pc = "answer" /\ reply.kind = "ok" /\ HasFields(mem, DataFields)
      /\ run.ret \in {"outbox", "renames"} /\ pc' = "save" /\ run' = run
  BY DEF AnswerMoved, Goto, Settled, Base, Fields, Calls
<1>2. /\ mem'.files = Recorded(reply.versions) /\ saved'.files = mem'.files
      /\ mem'.mode = mem.mode
  BY <1>1 DEF AnswerMoved, Complete, HasFields, DataFields
<1>3. ToPush(p, c) => ToPush(p, c)'
  BY <1>1 DEF ToPush
<1> QED BY <1>1, <1>2, <1>3, RememberedAnswered

\* So does the answer of a batch.
LEMMA RememberedAnswerBatch ==
    ASSUME Settled, NEW p, NEW c, Held(p, c), AnswerBatch
    PROVE  Remembered(p, c)'
<1>1. /\ pc = "answer" /\ reply.kind = "ok" /\ HasFields(mem, DataFields)
      /\ HasFields(run, RunFields) /\ run.ret \in {"outbox", "pull"} /\ pc' = "save"
  BY DEF AnswerBatch, Settled, Base, Fields, Calls
<1>2. /\ mem'.files = Recorded(reply.versions) /\ saved'.files = mem'.files
      /\ mem'.mode = mem.mode
  BY <1>1 DEF AnswerBatch, Complete, HasFields, DataFields
<1>3. run'.deferred = run.deferred /\ run'.ret = run.ret
  BY <1>1 DEF AnswerBatch, HasFields, RunFields
<1>4. ToPush(p, c) => ToPush(p, c)'
  BY <1>1, <1>3 DEF ToPush
<1> QED BY <1>1, <1>2, <1>3, <1>4, RememberedAnswered

\* A put of the file that was refused is still in hand.
LEMMA RememberedAnswerConflict ==
    ASSUME Settled, NEW p, NEW c, Held(p, c), AnswerConflict
    PROVE  Remembered(p, c)'
<1>1. /\ pc = "answer" /\ HasFields(mem, DataFields) /\ HasFields(run, RunFields)
      /\ mem.outbox.request.kind = "apply"
  BY DEF AnswerConflict, Settled, Base, Fields
<1>2. mem'.files = mem.files /\ saved' = mem' /\ mem'.mode = mem.mode
  BY <1>1 DEF AnswerConflict, Persist, Discarded, HasFields, DataFields
<1>3. /\ run'.deferred = run.deferred /\ run'.ret = run.ret /\ pc' \in {"apply", "refused"}
      /\ run'.todo = run.todo /\ run'.found = run.found
  BY <1>1 DEF AnswerConflict, HasFields, RunFields
<1>4. Asked(mem, p) => mem.outbox.request.path = p
  BY <1>1 DEF Asked, Touched
<1>5. ToPush(p, c) => ToPush(p, c)'
  BY <1>1, <1>3, <1>4, RefusedPut DEF ToPush
<1> QED BY <1>2, <1>3, <1>5, RememberedKept

\* What a put was refused for is copied, so it was of another path.
LEMMA RememberedKeepRefused ==
    ASSUME Settled, NEW p, NEW c, Held(p, c), KeepRefused
    PROVE  Remembered(p, c)'
<1>1. /\ run.change.path # p /\ HasFields(run, RunFields) /\ pc = "refused" /\ pc' = "apply"
      /\ mem' = mem /\ saved' = saved /\ mem.outbox = NoOperation
  BY RefusedElsewhere DEF KeepRefused, dataVars, Settled, Base, Fields, Boxes
<1>2. /\ run'.deferred = run.deferred /\ run'.ret = run.ret /\ run'.change = run.change
      /\ run'.todo = run.todo /\ run'.found = run.found
  BY <1>1 DEF KeepRefused, HasFields, RunFields
<1>3. ToPush(p, c) => ToPush(p, c)'
  BY <1>1, <1>2 DEF ToPush, Asked
<1> QED BY <1>1, <1>2, <1>3, RememberedKept

\* A refused batch is not about the path: an earlier run's does not defer it.
LEMMA RememberedAnswerBatchConflict ==
    ASSUME Settled, NEW p, NEW c, Held(p, c), AnswerBatchConflict
    PROVE  Remembered(p, c)'
<1>1. /\ pc = "answer" /\ reply.kind = "conflict" /\ mem.outbox.request.kind = "batch"
      /\ HasFields(mem, DataFields) /\ HasFields(run, RunFields)
      /\ run.ret \in {"outbox", "pull"} /\ mem.outbox # NoOperation
      /\ answers[mem.outbox.id] = NoReply
  BY DEF AnswerBatchConflict, Settled, Base, Fields, Calls, Boxes
<1>2. p \notin BatchPaths(mem.outbox.request)
  BY <1>1, AskedFor DEF Asked, Touched, NoReply
<1>3. mem'.files = mem.files /\ saved' = mem' /\ mem'.mode = mem.mode
  <2>1. Discarded.files = mem.files /\ Discarded.mode = mem.mode /\ HasFields(Discarded, DataFields)
    BY <1>1 DEF Discarded, HasFields, DataFields
  <2>2. CASE Recovering
    BY <2>1, <2>2 DEF AnswerBatchConflict, Persist, HasFields, DataFields
  <2>3. CASE ~Recovering
    BY <2>1, <2>3 DEF AnswerBatchConflict, Persist
  <2> QED BY <2>2, <2>3
<1>4. /\ run'.deferred \in {run.deferred, run.deferred \cup BatchPaths(mem.outbox.request)}
      /\ run'.ret = "idle" /\ pc' = IF run.ret = "outbox" THEN "outbox" ELSE "deletes"
  BY <1>1 DEF AnswerBatchConflict, Recovering, HasFields, RunFields
<1>5. ToPush(p, c) => ToPush(p, c)'
  BY <1>1, <1>4 DEF ToPush
<1> QED BY <1>2, <1>3, <1>4, <1>5 DEF Held, Safe, Remembered

\* The removal of a local-only file touches neither the data nor the scan.
LEMMA Discarding ==
    ASSUME Base, PreserveLocal \/ DiscardLocal
    PROVE  \/ EndRun
           \/ /\ UNCHANGED dataVars /\ run'.deferred = run.deferred
              /\ pc' \in {"preserve", "discard"} /\ run'.ret \in {"preserve", "idle"}
              /\ run'.keep \in {run.keep, TRUE}
<1>1. HasFields(run, RunFields) /\ (pc = "discard" => run.ret = "preserve")
  BY DEF Base, Fields, Calls
<1>2. CASE PreserveLocal
  BY <1>1, <1>2 DEF PreserveLocal, HasFields, RunFields
<1>3. CASE DiscardLocal
  BY <1>1, <1>3 DEF DiscardLocal, Return, HasFields, RunFields
<1> QED BY <1>2, <1>3

\* The removal of a local-only file records nothing.
LEMMA RememberedDiscarded ==
    ASSUME Settled, NEW p, NEW c, Held(p, c), PreserveLocal \/ DiscardLocal
    PROVE  Remembered(p, c)'
<1>1. /\ pc \in {"preserve", "discard"} /\ mem.outbox = NoOperation
      /\ pc = "discard" => run.ret = "preserve"
  BY DEF PreserveLocal, DiscardLocal, Settled, Base, Boxes, Calls
<1>2. CASE EndRun
  BY <1>2, RememberedEnded
<1>3. CASE /\ UNCHANGED dataVars /\ run'.deferred = run.deferred
           /\ pc' \in {"preserve", "discard"} /\ run'.ret \in {"preserve", "idle"}
  <2>1. ToPush(p, c) => ToPush(p, c)'
    BY <1>1, <1>3 DEF ToPush
  <2> QED BY <1>3, <2>1, RememberedKept DEF dataVars
<1> QED BY <1>2, <1>3, Discarding DEF Settled

\* A scanned file is found as it is.
LEMMA ScannedPath ==
    ASSUME Settled, NEW p, NEW c, Held(p, c), NEW q \in Paths, ScanPath(q)
    PROVE  /\ run'.deferred = run.deferred /\ run'.scope = run.scope /\ run'.ret = "idle"
           /\ pc = "scan" /\ run.ret = "idle" /\ UNCHANGED dataVars
           /\ run'.found[p] = IF p = q THEN c ELSE run.found[p]
           /\ \/ pc' = "scan" /\ run'.todo = run.todo \ {q}
              \/ /\ pc' = "push" /\ run.todo \ {q} = {}
                 /\ run'.found[p] # Absent => p \in run'.todo
<1>1. /\ HasFields(run, RunFields) /\ pc = "scan" /\ run.ret = "idle" /\ UNCHANGED dataVars
      /\ run.found \in [Paths -> Content] /\ p \in Paths /\ disk[p] = c
  BY DEF ScanPath, Settled, Base, Fields, Calls, Inner, RunTypes, Held, Safe
<1> DEFINE found == [run.found EXCEPT ![q] = disk[q]]
           left == run.todo \ {q}
           todo == {r \in Paths : found[r] # Absent}
<1>2. \/ /\ run' = [run EXCEPT !.found = found, !.todo = left]
         /\ pc' = "scan"
      \/ /\ left = {} /\ run' = [run EXCEPT !.found = found, !.todo = todo]
         /\ pc' = "push"
  BY <1>1 DEF ScanPath
<1>3. found[p] = IF p = q THEN c ELSE run.found[p]
  BY <1>1
<1>4. found[p] # Absent => p \in todo
  BY <1>1
<1> HIDE DEF found, todo
<1>5. /\ run'.deferred = run.deferred /\ run'.scope = run.scope /\ run'.ret = run.ret
      /\ run'.found = found
      /\ run'.todo = left \/ run'.todo = todo
  BY <1>1, <1>2 DEF HasFields, RunFields
<1>6. CASE pc' = "scan"
  BY <1>1, <1>2, <1>3, <1>5, <1>6 DEF HasFields, RunFields
<1>7. CASE pc' = "push"
  <2>1. run'.todo = todo /\ left = {}
    BY <1>1, <1>2, <1>7 DEF HasFields, RunFields
  <2> QED BY <1>1, <1>3, <1>4, <1>5, <1>7, <2>1
<1> QED BY <1>2, <1>6, <1>7

\* A scanned file is found with its content, or is still to be scanned.
LEMMA RememberedScanPath ==
    ASSUME Settled, NEW p, NEW c, Held(p, c), NEW q \in Paths, ScanPath(q)
    PROVE  Remembered(p, c)'
<1>1. ToPush(p, c) => ToPush(p, c)'
  BY ScannedPath, HeldApart DEF ToPush
<1> QED BY <1>1, ScannedPath, RememberedKept DEF dataVars

\* A file that is pushed is asked for.
LEMMA RememberedPushPath ==
    ASSUME Settled, NEW p, NEW c, Held(p, c), NEW q \in Paths, PushPath(q)
    PROVE  Remembered(p, c)'
<1>1. /\ HasFields(run, RunFields) /\ HasFields(mem, DataFields) /\ pc = "push"
      /\ mem.outbox = NoOperation /\ disk[p] = c /\ c # Absent /\ run.ret = "idle"
  BY HeldApart DEF PushPath, Settled, Base, Fields, Boxes, Calls, Inner
<1>2. CASE Stage(ApplyRequest(q, disk[q])) /\ run' = [run EXCEPT !.todo = @ \ {q}, !.ret = "push"]
  <2> DEFINE request == ApplyRequest(q, disk[q])
  <2>1. Touched(request) = {q}
    BY DEF ApplyRequest, Touched
  <2> HIDE DEF request
  <2>2. /\ mem'.outbox = [id |-> FreshId, request |-> request] /\ mem'.outbox.request = request
        /\ mem'.files = mem.files /\ mem'.mode = mem.mode /\ saved' = mem' /\ pc' = "send"
    BY <1>1, <1>2, Staged DEF DataFields, request, Settled, Base, Stage
  <2>3. mem'.outbox # NoOperation
    BY <2>2 DEF Stage, NoOperation
  <2>4. /\ run'.deferred = run.deferred /\ run'.ret = "push" /\ run'.todo = run.todo \ {q}
        /\ run'.found = run.found
    BY <1>1, <1>2 DEF HasFields, RunFields
  <2>5. Asked(mem, q)'
    BY <2>1, <2>2, <2>3 DEF Asked, Touched
  <2>6. ToPush(p, c) => ToPush(p, c)'
    BY <1>1, <2>2, <2>4, <2>5 DEF ToPush
  <2> QED BY <2>2, <2>4, <2>6, RememberedKept
<1>3. CASE /\ disk[q] # run.found[q] /\ mem'.files = mem.files /\ mem'.mode = mem.mode
           /\ saved' = saved /\ pc' = "push"
           /\ run'.deferred = run.deferred /\ run'.ret = run.ret /\ run'.todo = run.todo \ {q}
           /\ run'.found = run.found
  <2>1. ToPush(p, c) => ToPush(p, c)'
    BY <1>1, <1>3 DEF ToPush, Asked
  <2> QED BY <1>3, <2>1, RememberedKept
<1>4. CASE disk[q] # run.found[q]
  <2>1. /\ run'.deferred = run.deferred /\ run'.ret = run.ret /\ run'.todo = run.todo \ {q}
        /\ run'.found = run.found /\ saved' = saved /\ pc' = "push"
    BY <1>1, <1>4 DEF PushPath, HasFields, RunFields
  <2>2. mem'.files = mem.files /\ mem'.mode = mem.mode
    BY <1>1, <1>4 DEF PushPath, HasFields, DataFields
  <2> QED BY <1>3, <1>4, <2>1, <2>2
<1> QED BY <1>2, <1>4 DEF PushPath

\* While the file is to be pushed, the loop over the files is not over.
LEMMA RememberedPushDone ==
    ASSUME Settled, NEW p, NEW c, Held(p, c), PushDone
    PROVE  Remembered(p, c)'
<1>1. /\ HasFields(run, RunFields) /\ HasFields(mem, DataFields) /\ pc = "push" /\ PushDue = {}
      /\ mem.outbox = NoOperation /\ c # Absent
  BY HeldApart DEF PushDone, Settled, Base, Fields, Boxes
<1>2. ~ToPush(p, c) \/ mem.files[p].content # Absent
  BY <1>1 DEF ToPush, PushDue, Asked, Held, Safe, Remembered
<1>3. mem.files[p].content # Absent
  BY <1>2 DEF Held, Safe, Remembered
<1>4. run'.deferred = run.deferred
  BY <1>1 DEF PushDone, HasFields, RunFields
<1>5. /\ mem'.files = mem.files /\ mem'.mode = mem.mode
      /\ saved'.files \in {mem.files, saved.files}
  <2> DEFINE q == [kind |-> "batch",
                   items |-> {[path |-> r, base |-> mem.files[r].rev] : r \in Deletions}]
  <2>1. Stage(q) \/ UNCHANGED dataVars
    BY DEF PushDone
  <2> HIDE DEF q
  <2> QED BY <1>1, <2>1 DEF Stage, Persist, HasFields, DataFields, dataVars
<1> QED BY <1>3, <1>4, <1>5 DEF Held, Safe, Remembered

\* Every step of the others keeps it so.
LEMMA RememberedStep ==
    ASSUME Settled, NEW p, NEW c, Held(p, c), [Next]_vars, ~User
    PROVE  Remembered(p, c)'
<1>1. CASE ResumeInbox
  <2>1. CASE InboxLost
    BY <2>1, RememberedInboxLost
  <2> USE DEF Settled, Base, Fields, HasFields, DataFields, RunFields, Held, Safe,
     Remembered, ToPush, Asked, Persist, FirstRun, Calls, Inner, Applying,
     Installing, Appliers, Requesters, Returns, IdleRun
  <2>2. CASE InboxInstalled
    BY <2>2 DEF InboxInstalled, Quiet, NoRequest, dataVars, CleanUp, serverVars,
       historyVars
  <2>3. CASE InboxReady
    BY <2>3 DEF InboxReady, Quiet, NoRequest, dataVars, fileVars, serverVars,
       historyVars
  <2>4. CASE InboxDone
    BY <2>4 DEF InboxDone, Quiet, NoRequest, Goto, dataVars, fileVars, serverVars,
       historyVars
  <2> HIDE DEF Settled, Base, Fields, HasFields, DataFields, RunFields, Held, Safe,
     Remembered, ToPush, Asked, Persist, FirstRun, Calls, Inner, Applying,
     Installing, Appliers, Requesters, Returns, IdleRun
  <2> QED BY <1>1, <2>1, <2>2, <2>3, <2>4 DEF ResumeInbox
<1>2. CASE ResumeOutbox
  <2> USE DEF Settled, Base, Fields, HasFields, DataFields, RunFields, Held, Safe,
     Remembered, ToPush, Asked, Persist, FirstRun, Calls, Inner, Applying,
     Installing, Appliers, Requesters, Returns, IdleRun
  <2>1. CASE OutboxCommitted
    BY <2>1 DEF OutboxCommitted, Quiet, dataVars, serverVars, fileVars, historyVars,
       NoRequest
  <2>2. CASE OutboxResent
    BY <2>2 DEF OutboxResent, Quiet, NoRequest, dataVars, fileVars, serverVars,
       historyVars
  <2>3. CASE OutboxAbandoned
    BY <2>3 DEF OutboxAbandoned, Quiet, NoRequest, Discarded, Queued, fileVars,
       dataVars, serverVars, historyVars
  <2>4. CASE OutboxDone
    BY <2>4 DEF OutboxDone, Quiet, NoRequest, Goto, BeginRenames, dataVars,
       fileVars, serverVars, historyVars
  <2> HIDE DEF Settled, Base, Fields, HasFields, DataFields, RunFields, Held, Safe,
     Remembered, ToPush, Asked, Persist, FirstRun, Calls, Inner, Applying,
     Installing, Appliers, Requesters, Returns, IdleRun
  <2> QED BY <1>2, <2>1, <2>2, <2>3, <2>4 DEF ResumeOutbox
<1>3. CASE Reconcile
  <2>1. CASE PreserveLocal
    BY <2>1, RememberedDiscarded
  <2>2. CASE DiscardLocal
    BY <2>2, RememberedDiscarded
  <2> USE DEF Settled, Base, Fields, HasFields, DataFields, RunFields, Held, Safe,
     Remembered, ToPush, Asked, Persist, FirstRun, Calls, Inner, Applying,
     Installing, Appliers, Requesters, Returns, IdleRun
  <2>3. CASE ReadSnapshot
    BY <2>3 DEF ReadSnapshot, Quiet, NoRequest, dataVars, fileVars, serverVars,
       historyVars
  <2>4. CASE PreserveDone
    BY <2>4 DEF PreserveDone, Quiet, NoRequest, Goto, dataVars, fileVars,
       serverVars, historyVars
  <2>5. CASE MergeSnapshot
    BY <2>5 DEF MergeSnapshot, NoRequest, fileVars, dataVars, serverVars,
       historyVars
  <2>6. CASE MergeDone
    BY <2>6 DEF MergeDone, Quiet, NoRequest, BeginRenames, fileVars, dataVars,
       serverVars, historyVars
  <2> HIDE DEF Settled, Base, Fields, HasFields, DataFields, RunFields, Held, Safe,
     Remembered, ToPush, Asked, Persist, FirstRun, Calls, Inner, Applying,
     Installing, Appliers, Requesters, Returns, IdleRun
  <2> QED BY <1>3, <2>1, <2>2, <2>3, <2>4, <2>5, <2>6 DEF Reconcile
<1>4. CASE Renames
  <2> USE DEF Settled, Base, Fields, HasFields, DataFields, RunFields, Held, Safe,
     Remembered, ToPush, Asked, Persist, FirstRun, Calls, Inner, Applying,
     Installing, Appliers, Requesters, Returns, IdleRun
  <2>1. CASE RenameSkipped
    BY <2>1 DEF RenameSkipped, Quiet, NoRequest, fileVars, dataVars, serverVars,
       historyVars
  <2>2. CASE RenameStaged
    BY <2>2 DEF RenameStaged, Quiet, Stage, fileVars, dataVars, serverVars,
       historyVars, NoRequest
  <2>3. CASE RenamesDone
    BY <2>3 DEF RenamesDone, Quiet, NoRequest, Goto, fileVars, dataVars, serverVars,
       historyVars
  <2> HIDE DEF Settled, Base, Fields, HasFields, DataFields, RunFields, Held, Safe,
     Remembered, ToPush, Asked, Persist, FirstRun, Calls, Inner, Applying,
     Installing, Appliers, Requesters, Returns, IdleRun
  <2> QED BY <1>4, <2>1, <2>2, <2>3 DEF Renames
<1>5. CASE Push
  <2>1. CASE PushDone
    BY <2>1, RememberedPushDone
  <2>2. ASSUME NEW q \in Paths, ScanPath(q) PROVE Remembered(p, c)'
    BY <2>2, RememberedScanPath
  <2>3. ASSUME NEW q \in Paths, PushPath(q) PROVE Remembered(p, c)'
    BY <2>3, RememberedPushPath
  <2> USE DEF Settled, Base, Fields, HasFields, DataFields, RunFields, Held, Safe,
     Remembered, ToPush, Asked, Persist, FirstRun, Calls, Inner, Applying,
     Installing, Appliers, Requesters, Returns, IdleRun
  <2>4. CASE PlanFull
    BY <2>4 DEF PlanFull, Plan, Quiet, NoRequest, dataVars, fileVars, serverVars,
       historyVars
  <2>5. CASE PlanQueued
    BY <2>5 DEF PlanQueued, Plan, Quiet, NoRequest, dataVars, fileVars, serverVars,
       historyVars
  <2>6. CASE DeletesDone
    BY <2>6 DEF DeletesDone, Quiet, NoRequest, fileVars, dataVars, serverVars,
       historyVars
  <2>7. ASSUME NEW q \in Paths, DeletePath(q) PROVE Remembered(p, c)'
    BY <2>7 DEF DeletePath, Quiet, Stage, fileVars, dataVars, serverVars,
       historyVars, NoRequest
  <2> HIDE DEF Settled, Base, Fields, HasFields, DataFields, RunFields, Held, Safe,
     Remembered, ToPush, Asked, Persist, FirstRun, Calls, Inner, Applying,
     Installing, Appliers, Requesters, Returns, IdleRun
  <2> QED BY <1>5, <2>1, <2>2, <2>3, <2>4, <2>5, <2>6, <2>7 DEF Push
<1>6. CASE Answered
  <2>1. CASE AnswerApplied
    BY <2>1, RememberedAnswerApplied
  <2>2. CASE AnswerConflict
    BY <2>2, RememberedAnswerConflict
  <2>3. CASE KeepRefused
    BY <2>3, RememberedKeepRefused
  <2>4. CASE AnswerMoved
    BY <2>4, RememberedAnswerMoved
  <2>5. CASE AnswerBatch
    BY <2>5, RememberedAnswerBatch
  <2>6. CASE AnswerBatchConflict
    BY <2>6, RememberedAnswerBatchConflict
  <2> USE DEF Settled, Base, Fields, HasFields, DataFields, RunFields, Held, Safe,
     Remembered, ToPush, Asked, Persist, FirstRun, Calls, Inner, Applying,
     Installing, Appliers, Requesters, Returns, IdleRun
  <2>7. CASE AnswerMoveConflict
    BY <2>7 DEF AnswerMoveConflict, Quiet, Goto, Return, Discarded, Queued,
       serverVars, fileVars, Recovering, dataVars, historyVars, NoRequest
  <2> HIDE DEF Settled, Base, Fields, HasFields, DataFields, RunFields, Held, Safe,
     Remembered, ToPush, Asked, Persist, FirstRun, Calls, Inner, Applying,
     Installing, Appliers, Requesters, Returns, IdleRun
  <2> QED BY <1>6, <2>1, <2>2, <2>3, <2>4, <2>5, <2>6, <2>7 DEF Answered
<1>7. CASE Apply
  <2>1. CASE ApplyRemoteChange
    BY <2>1, RememberedApplyRemoteChange
  <2>2. CASE RemoveLocal
    BY <2>2, RememberedRemoveLocal
  <2>3. CASE FinishDownload
    BY <2>3, RememberedFinishDownload
  <2>4. CASE Save
    BY <2>4, RememberedSave
  <2> USE DEF Settled, Base, Fields, HasFields, DataFields, RunFields, Held, Safe,
     Remembered, ToPush, Asked, Persist, FirstRun, Calls, Inner, Applying,
     Installing, Appliers, Requesters, Returns, IdleRun
  <2>5. CASE Download
    BY <2>5 DEF Download, Quiet, NoRequest, Goto, serverVars, historyVars
  <2>6. CASE SetAside
    BY <2>6 DEF SetAside, Quiet, NoRequest, Goto, serverVars, historyVars
  <2>7. CASE SwapIn
    BY <2>7 DEF SwapIn, Quiet, Goto, EndRun, dataVars, serverVars, NoRequest,
       historyVars
  <2>8. CASE VerifyInstalled
    BY <2>8 DEF VerifyInstalled, Quiet, Goto, EndRun, dataVars, serverVars,
       NoRequest, historyVars
  <2> HIDE DEF Settled, Base, Fields, HasFields, DataFields, RunFields, Held, Safe,
     Remembered, ToPush, Asked, Persist, FirstRun, Calls, Inner, Applying,
     Installing, Appliers, Requesters, Returns, IdleRun
  <2> QED BY <1>7, <2>1, <2>2, <2>3, <2>4, <2>5, <2>6, <2>7, <2>8 DEF Apply
<1>8. CASE Pull
  <2> USE DEF Settled, Base, Fields, HasFields, DataFields, RunFields, Held, Safe,
     Remembered, ToPush, Asked, Persist, FirstRun, Calls, Inner, Applying,
     Installing, Appliers, Requesters, Returns, IdleRun
  <2>1. CASE PullPage
    BY <2>1 DEF PullPage, Quiet, NoRequest, dataVars, fileVars, serverVars,
       historyVars
  <2>2. CASE PageChange
    BY <2>2 DEF PageChange, Quiet, NoRequest, dataVars, fileVars, serverVars,
       historyVars
  <2>3. CASE PageDone
    BY <2>3 DEF PageDone, Quiet, NoRequest, fileVars, dataVars, serverVars,
       historyVars
  <2>4. CASE Finish
    BY <2>4 DEF Finish, Quiet, NoRequest, Goto, fileVars, dataVars, serverVars,
       historyVars
  <2>5. CASE AckCursor
    BY <2>5 DEF AckCursor, Quiet, Goto, Acknowledge, dataVars, fileVars, serverVars,
       historyVars, NoRequest
  <2>6. CASE CompleteRun
    BY <2>6 DEF CompleteRun, Quiet, EndRun, serverVars, fileVars, dataVars,
       historyVars, NoRequest
  <2> HIDE DEF Settled, Base, Fields, HasFields, DataFields, RunFields, Held, Safe,
     Remembered, ToPush, Asked, Persist, FirstRun, Calls, Inner, Applying,
     Installing, Appliers, Requesters, Returns, IdleRun
  <2> QED BY <1>8, <2>1, <2>2, <2>3, <2>4, <2>5, <2>6 DEF Pull
<1>9. CASE StartRun
  BY <1>9 DEF StartRun, Settled, Base, Fields, HasFields, DataFields, RunFields,
     Held, Safe, Remembered, ToPush, Asked, Persist, FirstRun, Calls, Inner,
     Applying, Installing, Appliers, Requesters, Returns, IdleRun, Quiet, NoRequest,
     Goto, dataVars, fileVars, serverVars, historyVars
<1>10. CASE Send
  BY <1>10 DEF Send, Settled, Base, Fields, HasFields, DataFields, RunFields, Held,
     Safe, Remembered, ToPush, Asked, Persist, FirstRun, Calls, Inner, Applying,
     Installing, Appliers, Requesters, Returns, IdleRun, Quiet, Goto, dataVars,
     fileVars, serverVars, historyVars, NoRequest
<1>11. CASE ServerMoves
  BY <1>11 DEF ServerMoves, Settled, Base, Fields, HasFields, DataFields, RunFields,
     Held, Safe, Remembered, ToPush, Asked, Persist, FirstRun, Calls, Inner,
     Applying, Installing, Appliers, Requesters, Returns, IdleRun, Spend, dataVars,
     fileVars, serverVars, historyVars
<1>12. CASE SaveEvents
  BY <1>12 DEF SaveEvents, Settled, Base, Fields, HasFields, DataFields, RunFields,
     Held, Safe, Remembered, ToPush, Asked, Persist, FirstRun, Calls, Inner,
     Applying, Installing, Appliers, Requesters, Returns, IdleRun, Quiet, NoRequest,
     fileVars, dataVars, serverVars, historyVars
<1>13. CASE RunFails
  BY <1>13 DEF RunFails, Settled, Base, Fields, HasFields, DataFields, RunFields,
     Held, Safe, Remembered, ToPush, Asked, Persist, FirstRun, Calls, Inner,
     Applying, Installing, Appliers, Requesters, Returns, IdleRun, EndRun, Spend,
     serverVars
<1>14. CASE Crash
  BY <1>14 DEF Crash, Settled, Base, Fields, HasFields, DataFields, RunFields, Held,
     Safe, Remembered, ToPush, Asked, Persist, FirstRun, Calls, Inner, Applying,
     Installing, Appliers, Requesters, Returns, IdleRun, Spend, serverVars,
     fileVars, dataVars, historyVars
<1>15. CASE Restart
  BY <1>15 DEF Restart, Settled, Base, Fields, HasFields, DataFields, RunFields,
     Held, Safe, Remembered, ToPush, Asked, Persist, FirstRun, Calls, Inner,
     Applying, Installing, Appliers, Requesters, Returns, IdleRun, NoRequest,
     dataVars, fileVars, historyVars, serverVars
<1>16. CASE UNCHANGED vars
  BY <1>16 DEF Settled, Base, Fields, HasFields, DataFields, RunFields, Held, Safe,
     Remembered, ToPush, Asked, Persist, FirstRun, Calls, Inner, Applying,
     Installing, Appliers, Requesters, Returns, IdleRun, vars, serverVars, fileVars,
     dataVars, historyVars
<1> QED BY <1>1, <1>2, <1>3, <1>4, <1>5, <1>6, <1>7, <1>8, <1>9, <1>10, <1>11, <1>12,
         <1>13, <1>14, <1>15, <1>16 DEF Next, Engine

-----------------------------------------------------------------------------
(* It is not taken for deleted.                                            *)

\* A step that leaves the record of the path, and where the run is.
LEMMA NotMissedKept ==
    ASSUME NEW p, NEW c, Held(p, c), mem'.files[p] = mem.files[p],
           run'.deferred = run.deferred, run'.scope = run.scope, run'.found = run.found,
           run'.todo = run.todo,
           pc' # "scan", run'.ret = "pull" => run.ret = "pull",
           InPush' => InPush, InDeletes' => InDeletes \/ run.ret = "pull"
    PROVE  NotMissed(p)'
<1>1. p \in Deletions' => p \in Deletions
  BY DEF Deletions, TrackedLive, Tracked
<1> QED BY <1>1 DEF Held, Safe, NotMissed

\* A change of another path is applied.
LEMMA NotMissedApplied ==
    ASSUME Settled, NEW p, NEW c, Held(p, c),
           ApplyRemoteChange \/ RemoveLocal \/ FinishDownload
    PROVE  NotMissed(p)'
<1>1. /\ run.change.path # p /\ HasFields(mem, DataFields) /\ HasFields(run, RunFields)
      /\ run.ret \in Appliers \cup {"inbox"} /\ p \in Paths
  <2>1. run.change.path # p
    BY AppliedElsewhere DEF RemoveLocal, FinishDownload, Held, Safe, Spared, Installing
  <2> QED BY <2>1 DEF ApplyRemoteChange, RemoveLocal, FinishDownload, Settled, Base, Fields,
                      Calls, Held
<1>2. CASE EndRun
  BY <1>2 DEF EndRun, IdleRun, NotMissed, InPush, InDeletes
<1>3. ASSUME mem'.files \in {mem.files, Recorded({run.change})},
             Return \/ Goto("remove") \/ Goto("download") \/ Goto("save")
      PROVE  NotMissed(p)'
  <2>1. mem'.files[p] = mem.files[p]
    BY <1>1, <1>3 DEF Recorded
  <2>2. /\ run'.deferred = run.deferred /\ run'.scope = run.scope /\ run'.found = run.found
        /\ run'.todo = run.todo
        /\ \/ pc' = run.ret /\ run'.ret = "idle"
           \/ pc' \in {"remove", "download", "save"} /\ run'.ret = run.ret
    BY <1>1, <1>3 DEF Return, Goto, HasFields, RunFields
  <2> QED BY <1>1, <2>1, <2>2, NotMissedKept DEF Appliers, InPush, InDeletes
<1>4. CASE ApplyRemoteChange
  BY <1>1, <1>3, <1>4 DEF ApplyRemoteChange, StageDownload, Persist, dataVars, HasFields, DataFields
<1>5. CASE RemoveLocal
  BY <1>1, <1>2, <1>3, <1>5 DEF RemoveLocal, HasFields, DataFields
<1>6. CASE FinishDownload
  BY <1>1, <1>3, <1>6 DEF FinishDownload, HasFields, DataFields
<1> QED BY <1>4, <1>5, <1>6

\* A result of this run is not about the path.
LEMMA NotMissedAnswerApplied ==
    ASSUME Settled, NEW p, NEW c, Held(p, c), AnswerApplied
    PROVE  NotMissed(p)'
<1>1. /\ pc = "answer" /\ reply.kind = "ok" /\ HasFields(mem, DataFields)
      /\ HasFields(run, RunFields) /\ run.ret \in {"outbox", "push", "deletes"}
  BY DEF AnswerApplied, Settled, Base, Fields, Calls
<1>2. CASE run.ret = "outbox"
  <2>1. pc' = "save" /\ run' = run
    BY <1>2 DEF AnswerApplied, Recovering, Goto
  <2> QED BY <1>2, <2>1 DEF NotMissed, InPush, InDeletes
<1>3. CASE run.ret # "outbox"
  <2>1. mem'.files[p] = mem.files[p]
    BY <1>1, <1>3, AnsweredRecord DEF AnswerApplied, Recovering, Complete, HasFields, DataFields
  <2>2. /\ run'.deferred = run.deferred /\ run'.scope = run.scope /\ run'.found = run.found
        /\ run'.todo = run.todo /\ pc' = run.ret /\ run'.ret = "idle"
    BY <1>1, <1>3 DEF AnswerApplied, Recovering, Return, HasFields, RunFields
  <2> QED BY <1>1, <1>3, <2>1, <2>2, NotMissedKept DEF InPush, InDeletes
<1> QED BY <1>2, <1>3

\* The paths of a batch are deleted one by one.
LEMMA NotMissedAnswerBatchConflict ==
    ASSUME Settled, NEW p, NEW c, Held(p, c), AnswerBatchConflict
    PROVE  NotMissed(p)'
<1>1. HasFields(run, RunFields) /\ run.ret \in {"outbox", "pull"}
  BY DEF AnswerBatchConflict, Settled, Base, Fields, Calls
<1>2. /\ run'.ret = "idle" /\ run'.todo = run.todo
      /\ pc' = IF run.ret = "outbox" THEN "outbox" ELSE "deletes"
  BY <1>1 DEF AnswerBatchConflict, Recovering, HasFields, RunFields
<1> QED BY <1>1, <1>2 DEF Held, Safe, NotMissed, InPush, InDeletes

\* The removal of a local-only file happens before any scan.
LEMMA NotMissedDiscarded ==
    ASSUME Settled, PreserveLocal \/ DiscardLocal, NEW p
    PROVE  NotMissed(p)'
<1>1. \/ EndRun
      \/ pc' \in {"preserve", "discard"} /\ run'.ret \in {"preserve", "idle"}
  BY Discarding DEF Settled
<1>2. pc' \in {"idle", "preserve", "discard"} /\ run'.ret \in {"preserve", "idle"}
  BY <1>1 DEF EndRun, IdleRun
<1> QED BY <1>2 DEF NotMissed, InPush, InDeletes

\* A file that is there is found when the scan reaches it.
LEMMA NotMissedScanPath ==
    ASSUME Settled, NEW p, NEW c, Held(p, c), NEW q \in Paths, ScanPath(q)
    PROVE  NotMissed(p)'
<1>1. p \in Deletions' => p # q /\ p \in Deletions
  <2>1. mem' = mem /\ p \in Paths
    BY ScannedPath DEF dataVars, Held
  <2> QED BY <2>1, ScannedPath, HeldApart DEF Deletions, TrackedLive, Tracked
<1>2. p \notin run.todo => p \notin Deletions
  BY ScannedPath DEF Held, Safe, NotMissed
<1> QED BY <1>1, <1>2, ScannedPath DEF NotMissed, InPush, InDeletes

\* Every step of the others keeps it so.
LEMMA NotMissedStep ==
    ASSUME Settled, NEW p, NEW c, Held(p, c), [Next]_vars, ~User
    PROVE  NotMissed(p)'
<1>1. CASE ResumeInbox
  <2> USE DEF Settled, Base, Fields, HasFields, DataFields, RunFields, Held, Safe,
     NotMissed, Deletions, InPush, InDeletes, TrackedLive, Tracked, Calls, Inner,
     Applying, Installing, Appliers, Requesters, Returns, IdleRun
  <2>1. CASE InboxInstalled
    BY <2>1 DEF InboxInstalled, Quiet, NoRequest, dataVars, CleanUp, serverVars,
       historyVars
  <2>2. CASE InboxReady
    BY <2>2 DEF InboxReady, Quiet, NoRequest, dataVars, fileVars, serverVars,
       historyVars
  <2>3. CASE InboxLost
    BY <2>3 DEF InboxLost, Quiet, NoRequest, Persist, CleanUp, serverVars,
       historyVars
  <2>4. CASE InboxDone
    BY <2>4 DEF InboxDone, Quiet, NoRequest, Goto, dataVars, fileVars, serverVars,
       historyVars
  <2> HIDE DEF Settled, Base, Fields, HasFields, DataFields, RunFields, Held, Safe,
     NotMissed, Deletions, InPush, InDeletes, TrackedLive, Tracked, Calls, Inner,
     Applying, Installing, Appliers, Requesters, Returns, IdleRun
  <2> QED BY <1>1, <2>1, <2>2, <2>3, <2>4 DEF ResumeInbox
<1>2. CASE ResumeOutbox
  <2> USE DEF Settled, Base, Fields, HasFields, DataFields, RunFields, Held, Safe,
     NotMissed, Deletions, InPush, InDeletes, TrackedLive, Tracked, Calls, Inner,
     Applying, Installing, Appliers, Requesters, Returns, IdleRun
  <2>1. CASE OutboxCommitted
    BY <2>1 DEF OutboxCommitted, Quiet, dataVars, serverVars, fileVars, historyVars,
       NoRequest
  <2>2. CASE OutboxResent
    BY <2>2 DEF OutboxResent, Quiet, NoRequest, dataVars, fileVars, serverVars,
       historyVars
  <2>3. CASE OutboxAbandoned
    BY <2>3 DEF OutboxAbandoned, Quiet, NoRequest, Persist, Discarded, Queued,
       fileVars, dataVars, serverVars, historyVars
  <2>4. CASE OutboxDone
    BY <2>4 DEF OutboxDone, Quiet, NoRequest, Goto, BeginRenames, dataVars,
       fileVars, serverVars, historyVars
  <2> HIDE DEF Settled, Base, Fields, HasFields, DataFields, RunFields, Held, Safe,
     NotMissed, Deletions, InPush, InDeletes, TrackedLive, Tracked, Calls, Inner,
     Applying, Installing, Appliers, Requesters, Returns, IdleRun
  <2> QED BY <1>2, <2>1, <2>2, <2>3, <2>4 DEF ResumeOutbox
<1>3. CASE Reconcile
  <2>1. CASE PreserveLocal
    BY <2>1, NotMissedDiscarded
  <2>2. CASE DiscardLocal
    BY <2>2, NotMissedDiscarded
  <2> USE DEF Settled, Base, Fields, HasFields, DataFields, RunFields, Held, Safe,
     NotMissed, Deletions, InPush, InDeletes, TrackedLive, Tracked, Calls, Inner,
     Applying, Installing, Appliers, Requesters, Returns, IdleRun
  <2>3. CASE ReadSnapshot
    BY <2>3 DEF ReadSnapshot, Quiet, NoRequest, dataVars, fileVars, serverVars,
       historyVars
  <2>4. CASE PreserveDone
    BY <2>4 DEF PreserveDone, Quiet, NoRequest, Goto, dataVars, fileVars,
       serverVars, historyVars
  <2>5. CASE MergeSnapshot
    BY <2>5 DEF MergeSnapshot, NoRequest, fileVars, dataVars, serverVars,
       historyVars
  <2>6. CASE MergeDone
    BY <2>6 DEF MergeDone, Quiet, NoRequest, Persist, BeginRenames, fileVars,
       dataVars, serverVars, historyVars
  <2> HIDE DEF Settled, Base, Fields, HasFields, DataFields, RunFields, Held, Safe,
     NotMissed, Deletions, InPush, InDeletes, TrackedLive, Tracked, Calls, Inner,
     Applying, Installing, Appliers, Requesters, Returns, IdleRun
  <2> QED BY <1>3, <2>1, <2>2, <2>3, <2>4, <2>5, <2>6 DEF Reconcile
<1>4. CASE Renames
  <2> USE DEF Settled, Base, Fields, HasFields, DataFields, RunFields, Held, Safe,
     NotMissed, Deletions, InPush, InDeletes, TrackedLive, Tracked, Calls, Inner,
     Applying, Installing, Appliers, Requesters, Returns, IdleRun
  <2>1. CASE RenameSkipped
    BY <2>1 DEF RenameSkipped, Quiet, NoRequest, fileVars, dataVars, serverVars,
       historyVars
  <2>2. CASE RenameStaged
    BY <2>2 DEF RenameStaged, Quiet, Stage, fileVars, dataVars, serverVars,
       historyVars, Persist, NoRequest
  <2>3. CASE RenamesDone
    BY <2>3 DEF RenamesDone, Quiet, NoRequest, Goto, fileVars, dataVars, serverVars,
       historyVars
  <2> HIDE DEF Settled, Base, Fields, HasFields, DataFields, RunFields, Held, Safe,
     NotMissed, Deletions, InPush, InDeletes, TrackedLive, Tracked, Calls, Inner,
     Applying, Installing, Appliers, Requesters, Returns, IdleRun
  <2> QED BY <1>4, <2>1, <2>2, <2>3 DEF Renames
<1>5. CASE Push
  <2>1. ASSUME NEW q \in Paths, ScanPath(q) PROVE NotMissed(p)'
    BY <2>1, NotMissedScanPath
  <2> USE DEF Settled, Base, Fields, HasFields, DataFields, RunFields, Held, Safe,
     NotMissed, Deletions, InPush, InDeletes, TrackedLive, Tracked, Calls, Inner,
     Applying, Installing, Appliers, Requesters, Returns, IdleRun
  <2>2. CASE PlanFull
    BY <2>2 DEF PlanFull, Plan, Quiet, NoRequest, dataVars, fileVars, serverVars,
       historyVars
  <2>3. CASE PlanQueued
    BY <2>3 DEF PlanQueued, Plan, Quiet, NoRequest, dataVars, fileVars, serverVars,
       historyVars
  <2>4. CASE PushDone
    BY <2>4 DEF PushDone, Quiet, NoRequest, Stage, dataVars, fileVars, serverVars,
       historyVars, Persist
  <2>5. CASE DeletesDone
    BY <2>5 DEF DeletesDone, Quiet, NoRequest, fileVars, dataVars, serverVars,
       historyVars
  <2>6. ASSUME NEW q \in Paths, PushPath(q) PROVE NotMissed(p)'
    BY <2>6 DEF PushPath, Quiet, NoRequest, Stage, Queued, Unnoted, fileVars,
       dataVars, serverVars, historyVars, Persist
  <2>7. ASSUME NEW q \in Paths, DeletePath(q) PROVE NotMissed(p)'
    BY <2>7 DEF DeletePath, Quiet, Stage, fileVars, dataVars, serverVars,
       historyVars, Persist, NoRequest
  <2> HIDE DEF Settled, Base, Fields, HasFields, DataFields, RunFields, Held, Safe,
     NotMissed, Deletions, InPush, InDeletes, TrackedLive, Tracked, Calls, Inner,
     Applying, Installing, Appliers, Requesters, Returns, IdleRun
  <2> QED BY <1>5, <2>1, <2>2, <2>3, <2>4, <2>5, <2>6, <2>7 DEF Push
<1>6. CASE Answered
  <2>1. CASE AnswerApplied
    BY <2>1, NotMissedAnswerApplied
  <2>2. CASE AnswerBatchConflict
    BY <2>2, NotMissedAnswerBatchConflict
  <2> USE DEF Settled, Base, Fields, HasFields, DataFields, RunFields, Held, Safe,
     NotMissed, Deletions, InPush, InDeletes, TrackedLive, Tracked, Calls, Inner,
     Applying, Installing, Appliers, Requesters, Returns, IdleRun
  <2>3. CASE AnswerConflict
    BY <2>3 DEF AnswerConflict, Quiet, Persist, Discarded, serverVars, fileVars,
       dataVars, historyVars, NoRequest
  <2>4. CASE KeepRefused
    BY <2>4 DEF KeepRefused, Quiet, NoRequest, dataVars, serverVars, historyVars
  <2>5. CASE AnswerMoved
    BY <2>5 DEF AnswerMoved, Quiet, Goto, Complete, serverVars, fileVars,
       Recovering, dataVars, historyVars, NoRequest
  <2>6. CASE AnswerMoveConflict
    BY <2>6 DEF AnswerMoveConflict, Quiet, Goto, Return, Discarded, Queued,
       serverVars, fileVars, Recovering, dataVars, historyVars, NoRequest
  <2>7. CASE AnswerBatch
    BY <2>7 DEF AnswerBatch, Quiet, Complete, serverVars, fileVars, dataVars,
       historyVars, NoRequest
  <2> HIDE DEF Settled, Base, Fields, HasFields, DataFields, RunFields, Held, Safe,
     NotMissed, Deletions, InPush, InDeletes, TrackedLive, Tracked, Calls, Inner,
     Applying, Installing, Appliers, Requesters, Returns, IdleRun
  <2> QED BY <1>6, <2>1, <2>2, <2>3, <2>4, <2>5, <2>6, <2>7 DEF Answered
<1>7. CASE Apply
  <2>1. CASE ApplyRemoteChange
    BY <2>1, NotMissedApplied
  <2>2. CASE RemoveLocal
    BY <2>2, NotMissedApplied
  <2>3. CASE FinishDownload
    BY <2>3, NotMissedApplied
  <2> USE DEF Settled, Base, Fields, HasFields, DataFields, RunFields, Held, Safe,
     NotMissed, Deletions, InPush, InDeletes, TrackedLive, Tracked, Calls, Inner,
     Applying, Installing, Appliers, Requesters, Returns, IdleRun
  <2>4. CASE Download
    BY <2>4 DEF Download, Quiet, NoRequest, Goto, serverVars, historyVars
  <2>5. CASE SetAside
    BY <2>5 DEF SetAside, Quiet, NoRequest, Goto, serverVars, historyVars
  <2>6. CASE SwapIn
    BY <2>6 DEF SwapIn, Quiet, Goto, EndRun, dataVars, serverVars, NoRequest,
       historyVars
  <2>7. CASE VerifyInstalled
    BY <2>7 DEF VerifyInstalled, Quiet, Goto, EndRun, dataVars, serverVars,
       NoRequest, historyVars
  <2>8. CASE Save
    BY <2>8 DEF Save, Quiet, NoRequest, Return, fileVars, dataVars, serverVars,
       historyVars
  <2> HIDE DEF Settled, Base, Fields, HasFields, DataFields, RunFields, Held, Safe,
     NotMissed, Deletions, InPush, InDeletes, TrackedLive, Tracked, Calls, Inner,
     Applying, Installing, Appliers, Requesters, Returns, IdleRun
  <2> QED BY <1>7, <2>1, <2>2, <2>3, <2>4, <2>5, <2>6, <2>7, <2>8 DEF Apply
<1>8. CASE Pull
  <2> USE DEF Settled, Base, Fields, HasFields, DataFields, RunFields, Held, Safe,
     NotMissed, Deletions, InPush, InDeletes, TrackedLive, Tracked, Calls, Inner,
     Applying, Installing, Appliers, Requesters, Returns, IdleRun
  <2>1. CASE PullPage
    BY <2>1 DEF PullPage, Quiet, NoRequest, dataVars, fileVars, serverVars,
       historyVars
  <2>2. CASE PageChange
    BY <2>2 DEF PageChange, Quiet, NoRequest, dataVars, fileVars, serverVars,
       historyVars
  <2>3. CASE PageDone
    BY <2>3 DEF PageDone, Quiet, NoRequest, Persist, fileVars, dataVars, serverVars,
       historyVars
  <2>4. CASE Finish
    BY <2>4 DEF Finish, Quiet, NoRequest, Persist, Goto, fileVars, dataVars,
       serverVars, historyVars
  <2>5. CASE AckCursor
    BY <2>5 DEF AckCursor, Quiet, Goto, Acknowledge, dataVars, fileVars, serverVars,
       historyVars, NoRequest
  <2>6. CASE CompleteRun
    BY <2>6 DEF CompleteRun, Quiet, EndRun, serverVars, fileVars, dataVars,
       historyVars, NoRequest
  <2> HIDE DEF Settled, Base, Fields, HasFields, DataFields, RunFields, Held, Safe,
     NotMissed, Deletions, InPush, InDeletes, TrackedLive, Tracked, Calls, Inner,
     Applying, Installing, Appliers, Requesters, Returns, IdleRun
  <2> QED BY <1>8, <2>1, <2>2, <2>3, <2>4, <2>5, <2>6 DEF Pull
<1>9. CASE StartRun
  BY <1>9 DEF StartRun, Settled, Base, Fields, HasFields, DataFields, RunFields,
     Held, Safe, NotMissed, Deletions, InPush, InDeletes, TrackedLive, Tracked,
     Calls, Inner, Applying, Installing, Appliers, Requesters, Returns, IdleRun,
     Quiet, NoRequest, Goto, dataVars, fileVars, serverVars, historyVars
<1>10. CASE Send
  BY <1>10 DEF Send, Settled, Base, Fields, HasFields, DataFields, RunFields, Held,
     Safe, NotMissed, Deletions, InPush, InDeletes, TrackedLive, Tracked, Calls,
     Inner, Applying, Installing, Appliers, Requesters, Returns, IdleRun, Quiet,
     Goto, dataVars, fileVars, serverVars, historyVars, NoRequest
<1>11. CASE ServerMoves
  BY <1>11 DEF ServerMoves, Settled, Base, Fields, HasFields, DataFields, RunFields,
     Held, Safe, NotMissed, Deletions, InPush, InDeletes, TrackedLive, Tracked,
     Calls, Inner, Applying, Installing, Appliers, Requesters, Returns, IdleRun,
     Spend, dataVars, fileVars, serverVars, historyVars
<1>12. CASE SaveEvents
  BY <1>12 DEF SaveEvents, Settled, Base, Fields, HasFields, DataFields, RunFields,
     Held, Safe, NotMissed, Deletions, InPush, InDeletes, TrackedLive, Tracked,
     Calls, Inner, Applying, Installing, Appliers, Requesters, Returns, IdleRun,
     Quiet, NoRequest, fileVars, dataVars, serverVars, historyVars
<1>13. CASE RunFails
  BY <1>13 DEF RunFails, Settled, Base, Fields, HasFields, DataFields, RunFields,
     Held, Safe, NotMissed, Deletions, InPush, InDeletes, TrackedLive, Tracked,
     Calls, Inner, Applying, Installing, Appliers, Requesters, Returns, IdleRun,
     EndRun, Spend, serverVars
<1>14. CASE Crash
  BY <1>14 DEF Crash, Settled, Base, Fields, HasFields, DataFields, RunFields, Held,
     Safe, NotMissed, Deletions, InPush, InDeletes, TrackedLive, Tracked, Calls,
     Inner, Applying, Installing, Appliers, Requesters, Returns, IdleRun, Spend,
     serverVars, fileVars, dataVars, historyVars
<1>15. CASE Restart
  BY <1>15 DEF Restart, Settled, Base, Fields, HasFields, DataFields, RunFields,
     Held, Safe, NotMissed, Deletions, InPush, InDeletes, TrackedLive, Tracked,
     Calls, Inner, Applying, Installing, Appliers, Requesters, Returns, IdleRun,
     NoRequest, dataVars, fileVars, historyVars, serverVars
<1>16. CASE UNCHANGED vars
  BY <1>16 DEF Settled, Base, Fields, HasFields, DataFields, RunFields, Held, Safe,
     NotMissed, Deletions, InPush, InDeletes, TrackedLive, Tracked, Calls, Inner,
     Applying, Installing, Appliers, Requesters, Returns, IdleRun, vars, serverVars,
     fileVars, dataVars, historyVars
<1> QED BY <1>1, <1>2, <1>3, <1>4, <1>5, <1>6, <1>7, <1>8, <1>9, <1>10, <1>11, <1>12,
         <1>13, <1>14, <1>15, <1>16 DEF Next, Engine

-----------------------------------------------------------------------------
(* The other parts of the invariant.                                       *)

\* The snapshot of a first run in mode "local" is recorded, not applied.
LEMMA CarefulMergeSnapshot ==
    ASSUME Settled, Careful, MergeSnapshot
    PROVE  Careful'
<1>1. HasFields(mem, DataFields) /\ HasFields(run, RunFields) /\ run.keep /\ run.ret = "idle"
  BY DEF MergeSnapshot, Settled, Base, Fields, Calls, Inner, Careful, Installing
<1>2. CASE mem.mode = "local"
  BY <1>1, <1>2 DEF MergeSnapshot, Careful, HasFields, DataFields
<1>3. CASE mem.mode # "local"
  <2>1. mem' = mem /\ run'.keep = run.keep
    BY <1>1, <1>3 DEF MergeSnapshot, HasFields, RunFields
  <2> QED BY <1>1, <1>3, <2>1 DEF Careful
<1> QED BY <1>2, <1>3

\* After a removal the engine takes the next version with care again.
LEMMA CarefulRemoveLocal ==
    ASSUME Settled, Careful, RemoveLocal
    PROVE  Careful'
<1>1. HasFields(mem, DataFields) /\ HasFields(run, RunFields)
  BY DEF Settled, Base, Fields
<1>2. CASE EndRun
  BY <1>2 DEF EndRun, IdleRun, Careful
<1>3. CASE Return
  BY <1>1, <1>3 DEF Return, HasFields, RunFields, Careful
<1> QED BY <1>2, <1>3 DEF RemoveLocal

\* The removal of a local-only file leads to no version that is applied blindly.
LEMMA CarefulDiscarded ==
    ASSUME Settled, Careful, PreserveLocal \/ DiscardLocal
    PROVE  Careful'
<1>1. run.keep
  BY DEF PreserveLocal, DiscardLocal, Careful, Installing
<1>2. \/ EndRun
      \/ run'.keep /\ run'.ret \in {"preserve", "idle"}
  BY <1>1, Discarding DEF Settled
<1>3. run'.keep /\ run'.ret \in {"preserve", "idle"}
  BY <1>2 DEF EndRun, IdleRun
<1> QED BY <1>3 DEF Careful

\* A request is staged before it is answered.
LEMMA OneVersionStaged ==
    ASSUME TypeOK, OneVersion, NEW q, Stage(q)
    PROVE  OneVersion'
<1>1. answers' = [answers EXCEPT ![FreshId] = NoReply] /\ answers \in [OpIds -> Reply \cup {NoReply}]
  BY DEF Stage, TypeOK
<1>2. ASSUME NEW i \in OpIds, answers'[i].kind = "ok" PROVE answers'[i] = answers[i]
  BY <1>1, <1>2 DEF NoReply
<1> QED BY <1>2 DEF OneVersion

\* The changes of a request are of different paths.
LEMMA OneVersionSend ==
    ASSUME TypeInv, OneVersion, Send
    PROVE  OneVersion'
<1> DEFINE q == mem.outbox.request
           id == mem.outbox.id
<1>1. answers \in [OpIds -> Reply \cup {NoReply}] /\ Len(log) \in Nat
  BY HasBase DEF Base, TypeOK
<1>2. CASE answers' = answers
  BY <1>2 DEF OneVersion
<1>3. ASSUME NEW new, Extends(new), reply' = Accepted(q, new),
             answers' = [answers EXCEPT ![id] = reply']
      PROVE  OneVersion'
  <2>1. ASSUME NEW v \in Accepted(q, new).versions, NEW w \in Accepted(q, new).versions,
               v.path = w.path
        PROVE  v = w
    <3>1. CASE new = <<>>
      BY <2>1, <3>1 DEF Accepted
    <3>2. CASE new # <<>>
      <4>1. PICK i \in DOMAIN new : v = [path |-> new[i].path, rev |-> Len(log) + i,
                                         content |-> new[i].content]
        BY <3>2 DEF Accepted
      <4>2. PICK j \in DOMAIN new : w = [path |-> new[j].path, rev |-> Len(log) + j,
                                         content |-> new[j].content]
        BY <3>2 DEF Accepted
      <4>3. i = j
        BY <1>3, <2>1, <4>1, <4>2 DEF Extends, Distinct
      <4> QED BY <4>1, <4>2, <4>3
    <3> QED BY <3>1, <3>2
  <2>2. ASSUME NEW i \in OpIds PROVE answers'[i] = answers[i] \/ answers'[i] = Accepted(q, new)
    BY <1>1, <1>3
  <2> QED BY <2>1, <2>2 DEF OneVersion
<1> QED BY <1>2, <1>3, SendAppends

\* A push stages a put or a batch, which are executed with one version of each path.
LEMMA OneVersionPush ==
    ASSUME TypeOK, OneVersion, PushDone \/ \E q \in Paths : PushPath(q)
    PROVE  OneVersion'
<1>1. ASSUME UNCHANGED answers PROVE OneVersion'
  BY <1>1 DEF OneVersion
<1>2. CASE PushDone
  <2> DEFINE q == [kind |-> "batch",
                   items |-> {[path |-> r, base |-> mem.files[r].rev] : r \in Deletions}]
  <2>1. Stage(q) \/ UNCHANGED answers
    BY <1>2 DEF PushDone, NoRequest, serverVars
  <2> HIDE DEF q
  <2> QED BY <1>1, <2>1, OneVersionStaged
<1>3. ASSUME NEW q \in Paths, PushPath(q) PROVE OneVersion'
  BY <1>1, <1>3, OneVersionStaged DEF PushPath, NoRequest, serverVars
<1> QED BY <1>2, <1>3

\* Other devices and collection give this device no result.
LEMMA OneVersionMoved == OneVersion /\ ServerMoves => OneVersion'
BY DEF ServerMoves, OtherCommit, Collect, OneVersion

\* A result is on disk before the operation's entry goes.
LEMMA OverCompleted ==
    ASSUME Settled, OneVersion, pc = "answer", reply.kind = "ok",
           answers' = answers, saved'.outbox = mem.outbox,
           saved'.files = Recorded(reply.versions)
    PROVE  OverRecorded'
<1>1. reply = answers[mem.outbox.id] /\ mem.outbox.id \in OpIds
  BY DEF Settled, Boxes, Base, Shape
<1>2. ASSUME NEW v \in reply.versions PROVE Recorded(reply.versions)[v.path].content = v.content
  <2>1. v.path \in Paths
    BY <1>1 DEF Settled, Base, TypeOK, Reply, NoReply, Version
  <2> DEFINE u == CHOOSE w \in reply.versions : w.path = v.path
  <2>2. u \in reply.versions /\ u.path = v.path
    OBVIOUS
  <2>3. u = v
    BY <1>1, <2>2 DEF OneVersion
  <2>4. Recorded(reply.versions)[v.path].content = u.content
    BY <2>1 DEF Recorded
  <2> QED BY <2>3, <2>4
<1> QED BY <1>1, <1>2 DEF OverRecorded

\* An answer is recorded on disk while the operation's entry is still there.
LEMMA OverAnswered ==
    ASSUME Settled, OneVersion, OverRecorded, AnswerApplied \/ AnswerMoved \/ AnswerBatch
    PROVE  OverRecorded'
<1>1. HasFields(mem, DataFields)
  BY DEF Settled, Base, Fields
<1>2. CASE AnswerApplied
  <2>1. saved'.outbox = mem.outbox /\ saved'.files = Recorded(reply.versions)
    BY <1>1, <1>2 DEF AnswerApplied, Complete, HasFields, DataFields
  <2> QED BY <1>2, <2>1, OverCompleted DEF AnswerApplied, serverVars
<1>3. CASE AnswerMoved
  <2>1. saved'.outbox = mem.outbox /\ saved'.files = Recorded(reply.versions)
    BY <1>1, <1>3 DEF AnswerMoved, Complete, HasFields, DataFields
  <2> QED BY <1>3, <2>1, OverCompleted DEF AnswerMoved, serverVars
<1>4. CASE AnswerBatch
  <2>1. saved'.outbox = mem.outbox /\ saved'.files = Recorded(reply.versions)
    BY <1>1, <1>4 DEF AnswerBatch, Complete, HasFields, DataFields
  <2> QED BY <1>4, <2>1, OverCompleted DEF AnswerBatch, serverVars
<1> QED BY <1>2, <1>3, <1>4

\* They change none that it was given.
LEMMA OverMoved == OverRecorded /\ ServerMoves => OverRecorded'
BY DEF ServerMoves, OtherCommit, Collect, dataVars, OverRecorded

\* While paths are left to delete, what is recorded is of another path.
LEMMA DeletesKept ==
    ASSUME DeletesMissing, run.todo \subseteq Paths, InDeletes \/ run.ret = "pull",
           \A p \in run.todo : mem'.files[p] = mem.files[p],
           run'.deferred = run.deferred, run'.scope = run.scope, run'.found = run.found,
           run'.todo \subseteq run.todo
    PROVE  DeletesMissing'
<1> SUFFICES ASSUME NEW p \in run.todo PROVE p \in Deletions'
  BY DEF DeletesMissing
<1>1. p \in Deletions
  BY DEF DeletesMissing
<1> QED BY <1>1 DEF Deletions, TrackedLive, Tracked

\* A run that is not deleting has nothing left to delete.
LEMMA DeletesElsewhere ==
    ASSUME pc' # "deletes", run'.ret \notin {"deletes", "pull"}
    PROVE  DeletesMissing'
BY DEF DeletesMissing, InDeletes

\* A version that is applied amid the deletions is of none of the paths that are left.
LEMMA DeletesApplied ==
    ASSUME Settled, DeletesMissing, ApplyRemoteChange \/ RemoveLocal \/ FinishDownload
    PROVE  DeletesMissing'
<1>1. /\ HasFields(mem, DataFields) /\ HasFields(run, RunFields) /\ run.todo \subseteq Paths
      /\ run.ret \in Appliers \cup {"inbox"} /\ run.change \in Version
      /\ pc \in {"apply", "remove", "record"}
  BY DEF ApplyRemoteChange, RemoveLocal, FinishDownload, Settled, Base, Fields, Calls,
         RunTypes, Ready, ChangeReady, Applying, Installing
<1>2. CASE EndRun
  BY <1>2, DeletesElsewhere DEF EndRun, IdleRun
<1>3. ASSUME mem'.files \in {mem.files, Recorded({run.change})},
             Return \/ Goto("remove") \/ Goto("download") \/ Goto("save")
      PROVE  DeletesMissing'
  <2>1. /\ run'.deferred = run.deferred /\ run'.scope = run.scope /\ run'.found = run.found
        /\ run'.todo = run.todo
        /\ \/ pc' = run.ret /\ run'.ret = "idle"
           \/ pc' \in {"remove", "download", "save"} /\ run'.ret = run.ret
    BY <1>1, <1>3 DEF Return, Goto, HasFields, RunFields
  <2>2. CASE run.ret # "deletes"
    BY <1>1, <2>1, <2>2, DeletesElsewhere DEF Appliers
  <2>3. CASE run.ret = "deletes"
    <3>1. run.change # NoDownload
      <4>1. IsVersion(run.change)
        BY <1>1 DEF IsVersion, Version
      <4> QED BY <1>1, <4>1, VersionIsNoDownload
    <3>2. \A p \in run.todo : run.change.path # p
      BY <2>3, <3>1 DEF Settled, MissingKnown, Gone, Busy
    <3>3. \A p \in run.todo : mem'.files[p] = mem.files[p]
      BY <1>1, <1>3, <3>2 DEF Recorded
    <3> QED BY <1>1, <2>1, <2>3, <3>3, DeletesKept DEF InDeletes
  <2> QED BY <2>2, <2>3
<1>4. CASE ApplyRemoteChange
  BY <1>1, <1>3, <1>4 DEF ApplyRemoteChange, StageDownload, Persist, dataVars, HasFields, DataFields
<1>5. CASE RemoveLocal
  BY <1>1, <1>2, <1>3, <1>5 DEF RemoveLocal, HasFields, DataFields
<1>6. CASE FinishDownload
  BY <1>1, <1>3, <1>6 DEF FinishDownload, HasFields, DataFields
<1> QED BY <1>4, <1>5, <1>6

\* The answer of a deletion is about none of the paths that are left to delete.
LEMMA DeletesAnswerApplied ==
    ASSUME Settled, DeletesMissing, AnswerApplied
    PROVE  DeletesMissing'
<1>1. /\ pc = "answer" /\ reply.kind = "ok" /\ mem.outbox # NoOperation
      /\ reply = answers[mem.outbox.id] /\ HasFields(mem, DataFields)
      /\ HasFields(run, RunFields) /\ run.ret \in {"outbox", "push", "deletes"}
      /\ run.todo \subseteq Paths
  BY DEF AnswerApplied, Settled, Base, Fields, Calls, Boxes, RunTypes
<1>2. CASE run.ret = "outbox"
  <2>1. pc' = "save" /\ run' = run
    BY <1>2 DEF AnswerApplied, Recovering, Goto
  <2> QED BY <1>2, <2>1, DeletesElsewhere
<1>3. CASE run.ret # "outbox"
  <2>1. mem'.files = Recorded(reply.versions)
    BY <1>1, <1>3 DEF AnswerApplied, Recovering, Complete, HasFields, DataFields
  <2>2. /\ run'.deferred = run.deferred /\ run'.scope = run.scope /\ run'.found = run.found
        /\ run'.todo = run.todo /\ pc' = run.ret /\ run'.ret = "idle"
    BY <1>1, <1>3 DEF AnswerApplied, Recovering, Return, HasFields, RunFields
  <2>3. CASE run.ret = "push"
    BY <2>2, <2>3, DeletesElsewhere
  <2>4. CASE run.ret = "deletes"
    <3>1. ASSUME NEW p \in run.todo PROVE \A v \in reply.versions : v.path # p
      BY <1>1, <2>4 DEF Settled, MissingKnown, Gone, Busy, OutboxKnown
    <3>2. \A p \in run.todo : mem'.files[p] = mem.files[p]
      BY <1>1, <2>1, <3>1 DEF Recorded
    <3> QED BY <1>1, <2>2, <2>4, <3>2, DeletesKept DEF InDeletes
  <2> QED BY <1>1, <1>3, <2>3, <2>4
<1> QED BY <1>2, <1>3

\* A refused batch leaves what is recorded and what the scan has found.
LEMMA DeletesAnswerBatchConflict ==
    ASSUME Settled, DeletesMissing, AnswerBatchConflict
    PROVE  DeletesMissing'
<1>1. /\ HasFields(mem, DataFields) /\ HasFields(run, RunFields)
      /\ run.ret \in {"outbox", "pull"} /\ run.todo \subseteq Paths
  BY DEF AnswerBatchConflict, Settled, Base, Fields, Calls, RunTypes
<1>2. CASE run.ret = "outbox"
  <2>1. pc' = "outbox" /\ run'.ret = "idle"
    BY <1>1, <1>2 DEF AnswerBatchConflict, Recovering, HasFields, RunFields
  <2> QED BY <2>1, DeletesElsewhere
<1>3. CASE run.ret = "pull"
  <2>1. mem'.files = mem.files
    BY <1>1, <1>3 DEF AnswerBatchConflict, Recovering, Persist, Discarded, HasFields, DataFields
  <2>2. /\ run'.deferred = run.deferred /\ run'.scope = run.scope /\ run'.found = run.found
        /\ run'.todo = run.todo
    BY <1>1, <1>3 DEF AnswerBatchConflict, Recovering, HasFields, RunFields
  <2> QED BY <1>1, <1>3, <2>1, <2>2, DeletesKept
<1> QED BY <1>1, <1>2, <1>3

\* The deletions of a run are what its scan has missed.
LEMMA DeletesPushDone ==
    ASSUME Settled, DeletesMissing, PushDone
    PROVE  DeletesMissing'
<1>1. HasFields(mem, DataFields) /\ HasFields(run, RunFields)
  BY DEF Settled, Base, Fields
<1>2. mem'.files = mem.files
  <2> DEFINE q == [kind |-> "batch",
                   items |-> {[path |-> r, base |-> mem.files[r].rev] : r \in Deletions}]
  <2>1. Stage(q) \/ UNCHANGED dataVars
    BY DEF PushDone
  <2> HIDE DEF q
  <2> QED BY <1>1, <2>1 DEF Stage, Persist, HasFields, DataFields, dataVars
<1>3. /\ run'.deferred = run.deferred /\ run'.scope = run.scope /\ run'.found = run.found
      /\ run'.todo = Deletions
  BY <1>1 DEF PushDone, HasFields, RunFields
<1>4. Deletions' = Deletions
  BY <1>2, <1>3 DEF Deletions, TrackedLive, Tracked
<1> QED BY <1>3, <1>4 DEF DeletesMissing

\* The removal of a local-only file happens before any deletion.
LEMMA DeletesDiscarded ==
    ASSUME Settled, PreserveLocal \/ DiscardLocal
    PROVE  DeletesMissing'
<1>1. \/ EndRun
      \/ pc' \in {"preserve", "discard"} /\ run'.ret \in {"preserve", "idle"}
  BY Discarding DEF Settled
<1>2. pc' \in {"idle", "preserve", "discard"} /\ run'.ret \in {"preserve", "idle"}
  BY <1>1 DEF EndRun, IdleRun
<1> QED BY <1>2, DeletesElsewhere

\* No other step goes on carelessly.
LEMMA CarefulStep ==
    ASSUME Settled, Careful, [Next]_vars, ~User
    PROVE  Careful'
<1>1. CASE ResumeInbox
  <2> USE DEF Settled, Base, Fields, HasFields, DataFields, RunFields, Careful,
     Calls, Inner, Applying, Installing, Appliers, Requesters, Returns, IdleRun
  <2>1. CASE InboxInstalled
    BY <2>1 DEF InboxInstalled, Quiet, NoRequest, dataVars, CleanUp, serverVars,
       historyVars
  <2>2. CASE InboxReady
    BY <2>2 DEF InboxReady, Quiet, NoRequest, dataVars, fileVars, serverVars,
       historyVars
  <2>3. CASE InboxLost
    BY <2>3 DEF InboxLost, Quiet, NoRequest, Persist, CleanUp, serverVars,
       historyVars
  <2>4. CASE InboxDone
    BY <2>4 DEF InboxDone, Quiet, NoRequest, Goto, dataVars, fileVars, serverVars,
       historyVars
  <2> HIDE DEF Settled, Base, Fields, HasFields, DataFields, RunFields, Careful,
     Calls, Inner, Applying, Installing, Appliers, Requesters, Returns, IdleRun
  <2> QED BY <1>1, <2>1, <2>2, <2>3, <2>4 DEF ResumeInbox
<1>2. CASE ResumeOutbox
  <2> USE DEF Settled, Base, Fields, HasFields, DataFields, RunFields, Careful,
     Calls, Inner, Applying, Installing, Appliers, Requesters, Returns, IdleRun
  <2>1. CASE OutboxCommitted
    BY <2>1 DEF OutboxCommitted, Quiet, dataVars, serverVars, fileVars, historyVars,
       NoRequest
  <2>2. CASE OutboxResent
    BY <2>2 DEF OutboxResent, Quiet, NoRequest, dataVars, fileVars, serverVars,
       historyVars
  <2>3. CASE OutboxAbandoned
    BY <2>3 DEF OutboxAbandoned, Quiet, NoRequest, Persist, Discarded, Queued,
       fileVars, dataVars, serverVars, historyVars
  <2>4. CASE OutboxDone
    BY <2>4 DEF OutboxDone, Quiet, NoRequest, Goto, BeginRenames, dataVars,
       fileVars, serverVars, historyVars
  <2> HIDE DEF Settled, Base, Fields, HasFields, DataFields, RunFields, Careful,
     Calls, Inner, Applying, Installing, Appliers, Requesters, Returns, IdleRun
  <2> QED BY <1>2, <2>1, <2>2, <2>3, <2>4 DEF ResumeOutbox
<1>3. CASE Reconcile
  <2>1. CASE PreserveLocal
    BY <2>1, CarefulDiscarded
  <2>2. CASE DiscardLocal
    BY <2>2, CarefulDiscarded
  <2>3. CASE MergeSnapshot
    BY <2>3, CarefulMergeSnapshot
  <2> USE DEF Settled, Base, Fields, HasFields, DataFields, RunFields, Careful,
     Calls, Inner, Applying, Installing, Appliers, Requesters, Returns, IdleRun
  <2>4. CASE ReadSnapshot
    BY <2>4 DEF ReadSnapshot, Quiet, NoRequest, dataVars, fileVars, serverVars,
       historyVars
  <2>5. CASE PreserveDone
    BY <2>5 DEF PreserveDone, Quiet, NoRequest, Goto, dataVars, fileVars,
       serverVars, historyVars
  <2>6. CASE MergeDone
    BY <2>6 DEF MergeDone, Quiet, NoRequest, Persist, BeginRenames, fileVars,
       dataVars, serverVars, historyVars
  <2> HIDE DEF Settled, Base, Fields, HasFields, DataFields, RunFields, Careful,
     Calls, Inner, Applying, Installing, Appliers, Requesters, Returns, IdleRun
  <2> QED BY <1>3, <2>1, <2>2, <2>3, <2>4, <2>5, <2>6 DEF Reconcile
<1>4. CASE Renames
  <2> USE DEF Settled, Base, Fields, HasFields, DataFields, RunFields, Careful,
     Calls, Inner, Applying, Installing, Appliers, Requesters, Returns, IdleRun
  <2>1. CASE RenameSkipped
    BY <2>1 DEF RenameSkipped, Quiet, NoRequest, fileVars, dataVars, serverVars,
       historyVars
  <2>2. CASE RenameStaged
    BY <2>2 DEF RenameStaged, Quiet, Stage, fileVars, dataVars, serverVars,
       historyVars, Persist, NoRequest
  <2>3. CASE RenamesDone
    BY <2>3 DEF RenamesDone, Quiet, NoRequest, Goto, fileVars, dataVars, serverVars,
       historyVars
  <2> HIDE DEF Settled, Base, Fields, HasFields, DataFields, RunFields, Careful,
     Calls, Inner, Applying, Installing, Appliers, Requesters, Returns, IdleRun
  <2> QED BY <1>4, <2>1, <2>2, <2>3 DEF Renames
<1>5. CASE Push
  <2> USE DEF Settled, Base, Fields, HasFields, DataFields, RunFields, Careful,
     Calls, Inner, Applying, Installing, Appliers, Requesters, Returns, IdleRun
  <2>1. CASE PlanFull
    BY <2>1 DEF PlanFull, Plan, Quiet, NoRequest, dataVars, fileVars, serverVars,
       historyVars
  <2>2. CASE PlanQueued
    BY <2>2 DEF PlanQueued, Plan, Quiet, NoRequest, dataVars, fileVars, serverVars,
       historyVars
  <2>3. CASE PushDone
    BY <2>3 DEF PushDone, Quiet, NoRequest, Stage, dataVars, fileVars, serverVars,
       historyVars, Persist
  <2>4. CASE DeletesDone
    BY <2>4 DEF DeletesDone, Quiet, NoRequest, fileVars, dataVars, serverVars,
       historyVars
  <2>5. ASSUME NEW q \in Paths, ScanPath(q) PROVE Careful'
    BY <2>5 DEF ScanPath, Quiet, NoRequest, dataVars, fileVars, serverVars,
       historyVars
  <2>6. ASSUME NEW q \in Paths, PushPath(q) PROVE Careful'
    BY <2>6 DEF PushPath, Quiet, NoRequest, Stage, Queued, Unnoted, fileVars,
       dataVars, serverVars, historyVars, Persist
  <2>7. ASSUME NEW q \in Paths, DeletePath(q) PROVE Careful'
    BY <2>7 DEF DeletePath, Quiet, Stage, fileVars, dataVars, serverVars,
       historyVars, Persist, NoRequest
  <2> HIDE DEF Settled, Base, Fields, HasFields, DataFields, RunFields, Careful,
     Calls, Inner, Applying, Installing, Appliers, Requesters, Returns, IdleRun
  <2> QED BY <1>5, <2>1, <2>2, <2>3, <2>4, <2>5, <2>6, <2>7 DEF Push
<1>6. CASE Answered
  <2> USE DEF Settled, Base, Fields, HasFields, DataFields, RunFields, Careful,
     Calls, Inner, Applying, Installing, Appliers, Requesters, Returns, IdleRun
  <2>1. CASE AnswerApplied
    BY <2>1 DEF AnswerApplied, Quiet, Goto, Return, Complete, Queued, serverVars,
       fileVars, Recovering, dataVars, historyVars, NoRequest
  <2>2. CASE AnswerConflict
    BY <2>2 DEF AnswerConflict, Quiet, Persist, Discarded, serverVars, fileVars,
       dataVars, historyVars, NoRequest
  <2>3. CASE KeepRefused
    BY <2>3 DEF KeepRefused, Quiet, NoRequest, dataVars, serverVars, historyVars
  <2>4. CASE AnswerMoved
    BY <2>4 DEF AnswerMoved, Quiet, Goto, Complete, serverVars, fileVars,
       Recovering, dataVars, historyVars, NoRequest
  <2>5. CASE AnswerMoveConflict
    BY <2>5 DEF AnswerMoveConflict, Quiet, Goto, Return, Discarded, Queued,
       serverVars, fileVars, Recovering, dataVars, historyVars, NoRequest
  <2>6. CASE AnswerBatch
    BY <2>6 DEF AnswerBatch, Quiet, Complete, serverVars, fileVars, dataVars,
       historyVars, NoRequest
  <2>7. CASE AnswerBatchConflict
    BY <2>7 DEF AnswerBatchConflict, Quiet, Persist, Discarded, Queued, serverVars,
       fileVars, Recovering, dataVars, historyVars, NoRequest
  <2> HIDE DEF Settled, Base, Fields, HasFields, DataFields, RunFields, Careful,
     Calls, Inner, Applying, Installing, Appliers, Requesters, Returns, IdleRun
  <2> QED BY <1>6, <2>1, <2>2, <2>3, <2>4, <2>5, <2>6, <2>7 DEF Answered
<1>7. CASE Apply
  <2>1. CASE RemoveLocal
    BY <2>1, CarefulRemoveLocal
  <2> USE DEF Settled, Base, Fields, HasFields, DataFields, RunFields, Careful,
     Calls, Inner, Applying, Installing, Appliers, Requesters, Returns, IdleRun
  <2>2. CASE ApplyRemoteChange
    BY <2>2 DEF ApplyRemoteChange, Quiet, NoRequest, Goto, Return, StageDownload,
       dataVars, Persist, serverVars, historyVars
  <2>3. CASE Download
    BY <2>3 DEF Download, Quiet, NoRequest, Goto, serverVars, historyVars
  <2>4. CASE SetAside
    BY <2>4 DEF SetAside, Quiet, NoRequest, Goto, serverVars, historyVars
  <2>5. CASE SwapIn
    BY <2>5 DEF SwapIn, Quiet, Goto, EndRun, dataVars, serverVars, NoRequest,
       historyVars
  <2>6. CASE VerifyInstalled
    BY <2>6 DEF VerifyInstalled, Quiet, Goto, EndRun, dataVars, serverVars,
       NoRequest, historyVars
  <2>7. CASE FinishDownload
    BY <2>7 DEF FinishDownload, Quiet, NoRequest, Goto, fileVars, dataVars,
       serverVars, historyVars
  <2>8. CASE Save
    BY <2>8 DEF Save, Quiet, NoRequest, Return, fileVars, dataVars, serverVars,
       historyVars
  <2> HIDE DEF Settled, Base, Fields, HasFields, DataFields, RunFields, Careful,
     Calls, Inner, Applying, Installing, Appliers, Requesters, Returns, IdleRun
  <2> QED BY <1>7, <2>1, <2>2, <2>3, <2>4, <2>5, <2>6, <2>7, <2>8 DEF Apply
<1>8. CASE Pull
  <2> USE DEF Settled, Base, Fields, HasFields, DataFields, RunFields, Careful,
     Calls, Inner, Applying, Installing, Appliers, Requesters, Returns, IdleRun
  <2>1. CASE PullPage
    BY <2>1 DEF PullPage, Quiet, NoRequest, dataVars, fileVars, serverVars,
       historyVars
  <2>2. CASE PageChange
    BY <2>2 DEF PageChange, Quiet, NoRequest, dataVars, fileVars, serverVars,
       historyVars
  <2>3. CASE PageDone
    BY <2>3 DEF PageDone, Quiet, NoRequest, Persist, fileVars, dataVars, serverVars,
       historyVars
  <2>4. CASE Finish
    BY <2>4 DEF Finish, Quiet, NoRequest, Persist, Goto, fileVars, dataVars,
       serverVars, historyVars
  <2>5. CASE AckCursor
    BY <2>5 DEF AckCursor, Quiet, Goto, Acknowledge, dataVars, fileVars, serverVars,
       historyVars, NoRequest
  <2>6. CASE CompleteRun
    BY <2>6 DEF CompleteRun, Quiet, EndRun, serverVars, fileVars, dataVars,
       historyVars, NoRequest
  <2> HIDE DEF Settled, Base, Fields, HasFields, DataFields, RunFields, Careful,
     Calls, Inner, Applying, Installing, Appliers, Requesters, Returns, IdleRun
  <2> QED BY <1>8, <2>1, <2>2, <2>3, <2>4, <2>5, <2>6 DEF Pull
<1>9. CASE StartRun
  BY <1>9 DEF StartRun, Settled, Base, Fields, HasFields, DataFields, RunFields,
     Careful, Calls, Inner, Applying, Installing, Appliers, Requesters, Returns,
     IdleRun, Quiet, NoRequest, Goto, dataVars, fileVars, serverVars, historyVars
<1>10. CASE Send
  BY <1>10 DEF Send, Settled, Base, Fields, HasFields, DataFields, RunFields,
     Careful, Calls, Inner, Applying, Installing, Appliers, Requesters, Returns,
     IdleRun, Quiet, Goto, dataVars, fileVars, serverVars, historyVars, NoRequest
<1>11. CASE ServerMoves
  BY <1>11 DEF ServerMoves, Settled, Base, Fields, HasFields, DataFields, RunFields,
     Careful, Calls, Inner, Applying, Installing, Appliers, Requesters, Returns,
     IdleRun, Spend, dataVars, fileVars, serverVars, historyVars
<1>12. CASE SaveEvents
  BY <1>12 DEF SaveEvents, Settled, Base, Fields, HasFields, DataFields, RunFields,
     Careful, Calls, Inner, Applying, Installing, Appliers, Requesters, Returns,
     IdleRun, Quiet, NoRequest, fileVars, dataVars, serverVars, historyVars
<1>13. CASE RunFails
  BY <1>13 DEF RunFails, Settled, Base, Fields, HasFields, DataFields, RunFields,
     Careful, Calls, Inner, Applying, Installing, Appliers, Requesters, Returns,
     IdleRun, EndRun, Spend, serverVars
<1>14. CASE Crash
  BY <1>14 DEF Crash, Settled, Base, Fields, HasFields, DataFields, RunFields,
     Careful, Calls, Inner, Applying, Installing, Appliers, Requesters, Returns,
     IdleRun, Spend, serverVars, fileVars, dataVars, historyVars
<1>15. CASE Restart
  BY <1>15 DEF Restart, Settled, Base, Fields, HasFields, DataFields, RunFields,
     Careful, Calls, Inner, Applying, Installing, Appliers, Requesters, Returns,
     IdleRun, NoRequest, dataVars, fileVars, historyVars, serverVars
<1>16. CASE UNCHANGED vars
  BY <1>16 DEF Settled, Base, Fields, HasFields, DataFields, RunFields, Careful,
     Calls, Inner, Applying, Installing, Appliers, Requesters, Returns, IdleRun,
     vars, serverVars, fileVars, dataVars, historyVars
<1> QED BY <1>1, <1>2, <1>3, <1>4, <1>5, <1>6, <1>7, <1>8, <1>9, <1>10, <1>11, <1>12,
         <1>13, <1>14, <1>15, <1>16 DEF Next, Engine

\* Results keep one version of each path.
LEMMA OneVersionStep ==
    ASSUME Settled, TypeInv, OneVersion, [Next]_vars, ~User
    PROVE  OneVersion'
<1>1. CASE ResumeInbox
  <2> USE DEF OneVersion
  <2>1. CASE InboxInstalled
    BY <2>1 DEF InboxInstalled, Quiet, NoRequest, dataVars, CleanUp, serverVars,
       historyVars
  <2>2. CASE InboxReady
    BY <2>2 DEF InboxReady, Quiet, NoRequest, dataVars, fileVars, serverVars,
       historyVars
  <2>3. CASE InboxLost
    BY <2>3 DEF InboxLost, Quiet, NoRequest, Persist, CleanUp, serverVars,
       historyVars
  <2>4. CASE InboxDone
    BY <2>4 DEF InboxDone, Quiet, NoRequest, Goto, dataVars, fileVars, serverVars,
       historyVars
  <2> HIDE DEF OneVersion
  <2> QED BY <1>1, <2>1, <2>2, <2>3, <2>4 DEF ResumeInbox
<1>2. CASE ResumeOutbox
  <2> USE DEF OneVersion
  <2>1. CASE OutboxCommitted
    BY <2>1 DEF OutboxCommitted, Quiet, dataVars, serverVars, fileVars, historyVars,
       NoRequest
  <2>2. CASE OutboxResent
    BY <2>2 DEF OutboxResent, Quiet, NoRequest, dataVars, fileVars, serverVars,
       historyVars
  <2>3. CASE OutboxAbandoned
    BY <2>3 DEF OutboxAbandoned, Quiet, NoRequest, Persist, Discarded, Queued,
       fileVars, dataVars, serverVars, historyVars
  <2>4. CASE OutboxDone
    BY <2>4 DEF OutboxDone, Quiet, NoRequest, Goto, BeginRenames, dataVars,
       fileVars, serverVars, historyVars
  <2> HIDE DEF OneVersion
  <2> QED BY <1>2, <2>1, <2>2, <2>3, <2>4 DEF ResumeOutbox
<1>3. CASE Reconcile
  <2> USE DEF OneVersion
  <2>1. CASE ReadSnapshot
    BY <2>1 DEF ReadSnapshot, Quiet, NoRequest, dataVars, fileVars, serverVars,
       historyVars
  <2>2. CASE PreserveLocal
    BY <2>2 DEF PreserveLocal, Quiet, EndRun, dataVars, serverVars, IdleRun,
       NoRequest, historyVars
  <2>3. CASE DiscardLocal
    BY <2>3 DEF DiscardLocal, Quiet, Return, EndRun, dataVars, serverVars, IdleRun,
       NoRequest, historyVars
  <2>4. CASE PreserveDone
    BY <2>4 DEF PreserveDone, Quiet, NoRequest, Goto, dataVars, fileVars,
       serverVars, historyVars
  <2>5. CASE MergeSnapshot
    BY <2>5 DEF MergeSnapshot, NoRequest, fileVars, dataVars, serverVars,
       historyVars
  <2>6. CASE MergeDone
    BY <2>6 DEF MergeDone, Quiet, NoRequest, Persist, BeginRenames, fileVars,
       dataVars, serverVars, historyVars
  <2> HIDE DEF OneVersion
  <2> QED BY <1>3, <2>1, <2>2, <2>3, <2>4, <2>5, <2>6 DEF Reconcile
<1>4. CASE Renames
  <2>1. CASE RenameStaged
    BY <2>1, OneVersionStaged DEF Settled, Base, RenameStaged
  <2> USE DEF OneVersion
  <2>2. CASE RenameSkipped
    BY <2>2 DEF RenameSkipped, Quiet, NoRequest, fileVars, dataVars, serverVars,
       historyVars
  <2>3. CASE RenamesDone
    BY <2>3 DEF RenamesDone, Quiet, NoRequest, Goto, fileVars, dataVars, serverVars,
       historyVars
  <2> HIDE DEF OneVersion
  <2> QED BY <1>4, <2>1, <2>2, <2>3 DEF Renames
<1>5. CASE Push
  <2>1. CASE PushDone
    BY <2>1, OneVersionPush DEF Settled, Base
  <2>2. ASSUME NEW q \in Paths, PushPath(q) PROVE OneVersion'
    BY <2>2, OneVersionPush DEF Settled, Base
  <2>3. ASSUME NEW q \in Paths, DeletePath(q) PROVE OneVersion'
    BY <2>3, OneVersionStaged DEF Settled, Base, DeletePath
  <2> USE DEF OneVersion
  <2>4. CASE PlanFull
    BY <2>4 DEF PlanFull, Plan, Quiet, NoRequest, dataVars, fileVars, serverVars,
       historyVars
  <2>5. CASE PlanQueued
    BY <2>5 DEF PlanQueued, Plan, Quiet, NoRequest, dataVars, fileVars, serverVars,
       historyVars
  <2>6. CASE DeletesDone
    BY <2>6 DEF DeletesDone, Quiet, NoRequest, fileVars, dataVars, serverVars,
       historyVars
  <2>7. ASSUME NEW q \in Paths, ScanPath(q) PROVE OneVersion'
    BY <2>7 DEF ScanPath, Quiet, NoRequest, dataVars, fileVars, serverVars,
       historyVars
  <2> HIDE DEF OneVersion
  <2> QED BY <1>5, <2>1, <2>2, <2>3, <2>4, <2>5, <2>6, <2>7 DEF Push
<1>6. CASE Answered
  <2> USE DEF OneVersion
  <2>1. CASE AnswerApplied
    BY <2>1 DEF AnswerApplied, Quiet, Goto, Return, Complete, Queued, serverVars,
       fileVars, Recovering, dataVars, historyVars, NoRequest
  <2>2. CASE AnswerConflict
    BY <2>2 DEF AnswerConflict, Quiet, Persist, Discarded, serverVars, fileVars,
       dataVars, historyVars, NoRequest
  <2>3. CASE KeepRefused
    BY <2>3 DEF KeepRefused, Quiet, NoRequest, dataVars, serverVars, historyVars
  <2>4. CASE AnswerMoved
    BY <2>4 DEF AnswerMoved, Quiet, Goto, Complete, serverVars, fileVars,
       Recovering, dataVars, historyVars, NoRequest
  <2>5. CASE AnswerMoveConflict
    BY <2>5 DEF AnswerMoveConflict, Quiet, Goto, Return, Discarded, Queued,
       serverVars, fileVars, Recovering, dataVars, historyVars, NoRequest
  <2>6. CASE AnswerBatch
    BY <2>6 DEF AnswerBatch, Quiet, Complete, serverVars, fileVars, dataVars,
       historyVars, NoRequest
  <2>7. CASE AnswerBatchConflict
    BY <2>7 DEF AnswerBatchConflict, Quiet, Persist, Discarded, Queued, serverVars,
       fileVars, Recovering, dataVars, historyVars, NoRequest
  <2> HIDE DEF OneVersion
  <2> QED BY <1>6, <2>1, <2>2, <2>3, <2>4, <2>5, <2>6, <2>7 DEF Answered
<1>7. CASE Apply
  <2> USE DEF OneVersion
  <2>1. CASE ApplyRemoteChange
    BY <2>1 DEF ApplyRemoteChange, Quiet, NoRequest, Goto, Return, StageDownload,
       dataVars, Persist, serverVars, historyVars
  <2>2. CASE RemoveLocal
    BY <2>2 DEF RemoveLocal, Quiet, Return, EndRun, serverVars, IdleRun, NoRequest,
       historyVars
  <2>3. CASE Download
    BY <2>3 DEF Download, Quiet, NoRequest, Goto, serverVars, historyVars
  <2>4. CASE SetAside
    BY <2>4 DEF SetAside, Quiet, NoRequest, Goto, serverVars, historyVars
  <2>5. CASE SwapIn
    BY <2>5 DEF SwapIn, Quiet, Goto, EndRun, dataVars, serverVars, IdleRun,
       NoRequest, historyVars
  <2>6. CASE VerifyInstalled
    BY <2>6 DEF VerifyInstalled, Quiet, Goto, EndRun, dataVars, serverVars, IdleRun,
       NoRequest, historyVars
  <2>7. CASE FinishDownload
    BY <2>7 DEF FinishDownload, Quiet, NoRequest, Goto, fileVars, dataVars,
       serverVars, historyVars
  <2>8. CASE Save
    BY <2>8 DEF Save, Quiet, NoRequest, Return, fileVars, dataVars, serverVars,
       historyVars
  <2> HIDE DEF OneVersion
  <2> QED BY <1>7, <2>1, <2>2, <2>3, <2>4, <2>5, <2>6, <2>7, <2>8 DEF Apply
<1>8. CASE Pull
  <2> USE DEF OneVersion
  <2>1. CASE PullPage
    BY <2>1 DEF PullPage, Quiet, NoRequest, dataVars, fileVars, serverVars,
       historyVars
  <2>2. CASE PageChange
    BY <2>2 DEF PageChange, Quiet, NoRequest, dataVars, fileVars, serverVars,
       historyVars
  <2>3. CASE PageDone
    BY <2>3 DEF PageDone, Quiet, NoRequest, Persist, fileVars, dataVars, serverVars,
       historyVars
  <2>4. CASE Finish
    BY <2>4 DEF Finish, Quiet, NoRequest, Persist, Goto, fileVars, dataVars,
       serverVars, historyVars
  <2>5. CASE AckCursor
    BY <2>5 DEF AckCursor, Quiet, Goto, Acknowledge, dataVars, fileVars, serverVars,
       historyVars, NoRequest
  <2>6. CASE CompleteRun
    BY <2>6 DEF CompleteRun, Quiet, EndRun, serverVars, fileVars, dataVars,
       historyVars, IdleRun, NoRequest
  <2> HIDE DEF OneVersion
  <2> QED BY <1>8, <2>1, <2>2, <2>3, <2>4, <2>5, <2>6 DEF Pull
<1>9. CASE StartRun
  BY <1>9 DEF StartRun, OneVersion, Quiet, NoRequest, Goto, dataVars, fileVars,
     serverVars, historyVars
<1>10. CASE Send
  BY <1>10, OneVersionSend
<1>11. CASE ServerMoves
  BY <1>11, OneVersionMoved
<1>12. CASE SaveEvents
  BY <1>12 DEF SaveEvents, OneVersion, Quiet, NoRequest, fileVars, dataVars,
     serverVars, historyVars
<1>13. CASE RunFails
  BY <1>13 DEF RunFails, OneVersion, EndRun, Spend, serverVars, IdleRun
<1>14. CASE Crash
  BY <1>14 DEF Crash, OneVersion, IdleRun, Spend, serverVars, fileVars, dataVars,
     historyVars
<1>15. CASE Restart
  BY <1>15 DEF Restart, OneVersion, NoRequest, dataVars, fileVars, historyVars,
     serverVars
<1>16. CASE UNCHANGED vars
  BY <1>16 DEF OneVersion, vars, serverVars, fileVars, dataVars, historyVars
<1> QED BY <1>1, <1>2, <1>3, <1>4, <1>5, <1>6, <1>7, <1>8, <1>9, <1>10, <1>11, <1>12,
         <1>13, <1>14, <1>15, <1>16 DEF Next, Engine

\* An operation is recorded before its entry goes.
LEMMA OverRecordedStep ==
    ASSUME Settled, OneVersion, OverRecorded, [Next]_vars, ~User
    PROVE  OverRecorded'
<1>1. CASE ResumeInbox
  <2> USE DEF Settled, Base, Fields, HasFields, DataFields, RunFields, OverRecorded,
     Boxes, Persist
  <2>1. CASE InboxInstalled
    BY <2>1 DEF InboxInstalled, Quiet, NoRequest, dataVars, CleanUp, serverVars,
       historyVars
  <2>2. CASE InboxReady
    BY <2>2 DEF InboxReady, Quiet, NoRequest, dataVars, fileVars, serverVars,
       historyVars
  <2>3. CASE InboxLost
    BY <2>3 DEF InboxLost, Quiet, NoRequest, CleanUp, serverVars, historyVars
  <2>4. CASE InboxDone
    BY <2>4 DEF InboxDone, Quiet, NoRequest, Goto, dataVars, fileVars, serverVars,
       historyVars
  <2> HIDE DEF Settled, Base, Fields, HasFields, DataFields, RunFields,
     OverRecorded, Boxes, Persist
  <2> QED BY <1>1, <2>1, <2>2, <2>3, <2>4 DEF ResumeInbox
<1>2. CASE ResumeOutbox
  <2> USE DEF Settled, Base, Fields, HasFields, DataFields, RunFields, OverRecorded,
     Boxes, Persist
  <2>1. CASE OutboxCommitted
    BY <2>1 DEF OutboxCommitted, Quiet, dataVars, serverVars, fileVars, historyVars,
       NoRequest
  <2>2. CASE OutboxResent
    BY <2>2 DEF OutboxResent, Quiet, NoRequest, dataVars, fileVars, serverVars,
       historyVars
  <2>3. CASE OutboxAbandoned
    BY <2>3 DEF OutboxAbandoned, Quiet, NoRequest, Discarded, Queued, fileVars,
       dataVars, serverVars, historyVars
  <2>4. CASE OutboxDone
    BY <2>4 DEF OutboxDone, Quiet, NoRequest, Goto, BeginRenames, dataVars,
       fileVars, serverVars, historyVars
  <2> HIDE DEF Settled, Base, Fields, HasFields, DataFields, RunFields,
     OverRecorded, Boxes, Persist
  <2> QED BY <1>2, <2>1, <2>2, <2>3, <2>4 DEF ResumeOutbox
<1>3. CASE Reconcile
  <2> USE DEF Settled, Base, Fields, HasFields, DataFields, RunFields, OverRecorded,
     Boxes, Persist
  <2>1. CASE ReadSnapshot
    BY <2>1 DEF ReadSnapshot, Quiet, NoRequest, dataVars, fileVars, serverVars,
       historyVars
  <2>2. CASE PreserveLocal
    BY <2>2 DEF PreserveLocal, Quiet, EndRun, dataVars, serverVars, IdleRun,
       NoRequest, historyVars
  <2>3. CASE DiscardLocal
    BY <2>3 DEF DiscardLocal, Quiet, Return, EndRun, dataVars, serverVars, IdleRun,
       NoRequest, historyVars
  <2>4. CASE PreserveDone
    BY <2>4 DEF PreserveDone, Quiet, NoRequest, Goto, dataVars, fileVars,
       serverVars, historyVars
  <2>5. CASE MergeSnapshot
    BY <2>5 DEF MergeSnapshot, NoRequest, fileVars, dataVars, serverVars,
       historyVars
  <2>6. CASE MergeDone
    BY <2>6 DEF MergeDone, Quiet, NoRequest, BeginRenames, fileVars, dataVars,
       serverVars, historyVars
  <2> HIDE DEF Settled, Base, Fields, HasFields, DataFields, RunFields,
     OverRecorded, Boxes, Persist
  <2> QED BY <1>3, <2>1, <2>2, <2>3, <2>4, <2>5, <2>6 DEF Reconcile
<1>4. CASE Renames
  <2> USE DEF Settled, Base, Fields, HasFields, DataFields, RunFields, OverRecorded,
     Boxes, Persist
  <2>1. CASE RenameSkipped
    BY <2>1 DEF RenameSkipped, Quiet, NoRequest, fileVars, dataVars, serverVars,
       historyVars
  <2>2. CASE RenameStaged
    BY <2>2 DEF RenameStaged, Quiet, Stage, fileVars, dataVars, serverVars,
       historyVars, NoRequest
  <2>3. CASE RenamesDone
    BY <2>3 DEF RenamesDone, Quiet, NoRequest, Goto, fileVars, dataVars, serverVars,
       historyVars
  <2> HIDE DEF Settled, Base, Fields, HasFields, DataFields, RunFields,
     OverRecorded, Boxes, Persist
  <2> QED BY <1>4, <2>1, <2>2, <2>3 DEF Renames
<1>5. CASE Push
  <2> USE DEF Settled, Base, Fields, HasFields, DataFields, RunFields, OverRecorded,
     Boxes, Persist
  <2>1. CASE PlanFull
    BY <2>1 DEF PlanFull, Plan, Quiet, NoRequest, dataVars, fileVars, serverVars,
       historyVars
  <2>2. CASE PlanQueued
    BY <2>2 DEF PlanQueued, Plan, Quiet, NoRequest, dataVars, fileVars, serverVars,
       historyVars
  <2>3. CASE PushDone
    BY <2>3 DEF PushDone, Quiet, NoRequest, Stage, dataVars, fileVars, serverVars,
       historyVars
  <2>4. CASE DeletesDone
    BY <2>4 DEF DeletesDone, Quiet, NoRequest, fileVars, dataVars, serverVars,
       historyVars
  <2>5. ASSUME NEW q \in Paths, ScanPath(q) PROVE OverRecorded'
    BY <2>5 DEF ScanPath, Quiet, NoRequest, dataVars, fileVars, serverVars,
       historyVars
  <2>6. ASSUME NEW q \in Paths, PushPath(q) PROVE OverRecorded'
    BY <2>6 DEF PushPath, Quiet, NoRequest, Stage, Queued, Unnoted, fileVars,
       dataVars, serverVars, historyVars
  <2>7. ASSUME NEW q \in Paths, DeletePath(q) PROVE OverRecorded'
    BY <2>7 DEF DeletePath, Quiet, Stage, fileVars, dataVars, serverVars,
       historyVars, NoRequest
  <2> HIDE DEF Settled, Base, Fields, HasFields, DataFields, RunFields,
     OverRecorded, Boxes, Persist
  <2> QED BY <1>5, <2>1, <2>2, <2>3, <2>4, <2>5, <2>6, <2>7 DEF Push
<1>6. CASE Answered
  <2>1. CASE AnswerApplied
    BY <2>1, OverAnswered
  <2>2. CASE AnswerMoved
    BY <2>2, OverAnswered
  <2>3. CASE AnswerBatch
    BY <2>3, OverAnswered
  <2> USE DEF Settled, Base, Fields, HasFields, DataFields, RunFields, OverRecorded,
     Boxes, Persist
  <2>4. CASE AnswerConflict
    BY <2>4 DEF AnswerConflict, Quiet, Discarded, serverVars, fileVars, dataVars,
       historyVars, NoRequest
  <2>5. CASE KeepRefused
    BY <2>5 DEF KeepRefused, Quiet, NoRequest, dataVars, serverVars, historyVars
  <2>6. CASE AnswerMoveConflict
    BY <2>6 DEF AnswerMoveConflict, Quiet, Goto, Return, Discarded, Queued,
       serverVars, fileVars, Recovering, dataVars, historyVars, NoRequest
  <2>7. CASE AnswerBatchConflict
    BY <2>7 DEF AnswerBatchConflict, Quiet, Discarded, Queued, serverVars, fileVars,
       Recovering, dataVars, historyVars, NoRequest
  <2> HIDE DEF Settled, Base, Fields, HasFields, DataFields, RunFields,
     OverRecorded, Boxes, Persist
  <2> QED BY <1>6, <2>1, <2>2, <2>3, <2>4, <2>5, <2>6, <2>7 DEF Answered
<1>7. CASE Apply
  <2> USE DEF Settled, Base, Fields, HasFields, DataFields, RunFields, OverRecorded,
     Boxes, Persist
  <2>1. CASE ApplyRemoteChange
    BY <2>1 DEF ApplyRemoteChange, Quiet, NoRequest, Goto, Return, StageDownload,
       dataVars, serverVars, historyVars
  <2>2. CASE RemoveLocal
    BY <2>2 DEF RemoveLocal, Quiet, Return, EndRun, serverVars, IdleRun, NoRequest,
       historyVars
  <2>3. CASE Download
    BY <2>3 DEF Download, Quiet, NoRequest, Goto, serverVars, historyVars
  <2>4. CASE SetAside
    BY <2>4 DEF SetAside, Quiet, NoRequest, Goto, serverVars, historyVars
  <2>5. CASE SwapIn
    BY <2>5 DEF SwapIn, Quiet, Goto, EndRun, dataVars, serverVars, IdleRun,
       NoRequest, historyVars
  <2>6. CASE VerifyInstalled
    BY <2>6 DEF VerifyInstalled, Quiet, Goto, EndRun, dataVars, serverVars, IdleRun,
       NoRequest, historyVars
  <2>7. CASE FinishDownload
    BY <2>7 DEF FinishDownload, Quiet, NoRequest, Goto, fileVars, dataVars,
       serverVars, historyVars
  <2>8. CASE Save
    BY <2>8 DEF Save, Quiet, NoRequest, Return, fileVars, dataVars, serverVars,
       historyVars
  <2> HIDE DEF Settled, Base, Fields, HasFields, DataFields, RunFields,
     OverRecorded, Boxes, Persist
  <2> QED BY <1>7, <2>1, <2>2, <2>3, <2>4, <2>5, <2>6, <2>7, <2>8 DEF Apply
<1>8. CASE Pull
  <2> USE DEF Settled, Base, Fields, HasFields, DataFields, RunFields, OverRecorded,
     Boxes, Persist
  <2>1. CASE PullPage
    BY <2>1 DEF PullPage, Quiet, NoRequest, dataVars, fileVars, serverVars,
       historyVars
  <2>2. CASE PageChange
    BY <2>2 DEF PageChange, Quiet, NoRequest, dataVars, fileVars, serverVars,
       historyVars
  <2>3. CASE PageDone
    BY <2>3 DEF PageDone, Quiet, NoRequest, fileVars, dataVars, serverVars,
       historyVars
  <2>4. CASE Finish
    BY <2>4 DEF Finish, Quiet, NoRequest, Goto, fileVars, dataVars, serverVars,
       historyVars
  <2>5. CASE AckCursor
    BY <2>5 DEF AckCursor, Quiet, Goto, Acknowledge, dataVars, fileVars, serverVars,
       historyVars, NoRequest
  <2>6. CASE CompleteRun
    BY <2>6 DEF CompleteRun, Quiet, EndRun, serverVars, fileVars, dataVars,
       historyVars, IdleRun, NoRequest
  <2> HIDE DEF Settled, Base, Fields, HasFields, DataFields, RunFields,
     OverRecorded, Boxes, Persist
  <2> QED BY <1>8, <2>1, <2>2, <2>3, <2>4, <2>5, <2>6 DEF Pull
<1>9. CASE StartRun
  BY <1>9 DEF StartRun, Settled, Base, Fields, HasFields, DataFields, RunFields,
     OverRecorded, Boxes, Persist, Quiet, NoRequest, Goto, dataVars, fileVars,
     serverVars, historyVars
<1>10. CASE Send
  BY <1>10 DEF Send, Settled, Base, Fields, HasFields, DataFields, RunFields,
     OverRecorded, Boxes, Persist, Quiet, Goto, dataVars, fileVars, serverVars,
     historyVars, NoRequest
<1>11. CASE ServerMoves
  BY <1>11, OverMoved
<1>12. CASE SaveEvents
  BY <1>12 DEF SaveEvents, Settled, Base, Fields, HasFields, DataFields, RunFields,
     OverRecorded, Boxes, Persist, Quiet, NoRequest, fileVars, dataVars, serverVars,
     historyVars
<1>13. CASE RunFails
  BY <1>13 DEF RunFails, Settled, Base, Fields, HasFields, DataFields, RunFields,
     OverRecorded, Boxes, Persist, EndRun, Spend, serverVars, IdleRun
<1>14. CASE Crash
  BY <1>14 DEF Crash, Settled, Base, Fields, HasFields, DataFields, RunFields,
     OverRecorded, Boxes, Persist, IdleRun, Spend, serverVars, fileVars, dataVars,
     historyVars
<1>15. CASE Restart
  BY <1>15 DEF Restart, Settled, Base, Fields, HasFields, DataFields, RunFields,
     OverRecorded, Boxes, Persist, NoRequest, dataVars, fileVars, historyVars,
     serverVars
<1>16. CASE UNCHANGED vars
  BY <1>16 DEF Settled, Base, Fields, HasFields, DataFields, RunFields,
     OverRecorded, Boxes, Persist, vars, serverVars, fileVars, dataVars, historyVars
<1> QED BY <1>1, <1>2, <1>3, <1>4, <1>5, <1>6, <1>7, <1>8, <1>9, <1>10, <1>11, <1>12,
         <1>13, <1>14, <1>15, <1>16 DEF Next, Engine

\* What is deleted was not found.
LEMMA DeletesMissingStep ==
    ASSUME Settled, DeletesMissing, [Next]_vars, ~User
    PROVE  DeletesMissing'
<1>1. CASE ResumeInbox
  <2> USE DEF Settled, Base, Fields, HasFields, DataFields, RunFields,
     DeletesMissing, Deletions, InDeletes, TrackedLive, Tracked, Calls, Inner,
     Applying, Installing, Appliers, Requesters, Returns, IdleRun
  <2>1. CASE InboxInstalled
    BY <2>1 DEF InboxInstalled, Quiet, NoRequest, dataVars, CleanUp, serverVars,
       historyVars
  <2>2. CASE InboxReady
    BY <2>2 DEF InboxReady, Quiet, NoRequest, dataVars, fileVars, serverVars,
       historyVars
  <2>3. CASE InboxLost
    BY <2>3 DEF InboxLost, Quiet, NoRequest, Persist, CleanUp, serverVars,
       historyVars
  <2>4. CASE InboxDone
    BY <2>4 DEF InboxDone, Quiet, NoRequest, Goto, dataVars, fileVars, serverVars,
       historyVars
  <2> HIDE DEF Settled, Base, Fields, HasFields, DataFields, RunFields,
     DeletesMissing, Deletions, InDeletes, TrackedLive, Tracked, Calls, Inner,
     Applying, Installing, Appliers, Requesters, Returns, IdleRun
  <2> QED BY <1>1, <2>1, <2>2, <2>3, <2>4 DEF ResumeInbox
<1>2. CASE ResumeOutbox
  <2> USE DEF Settled, Base, Fields, HasFields, DataFields, RunFields,
     DeletesMissing, Deletions, InDeletes, TrackedLive, Tracked, Calls, Inner,
     Applying, Installing, Appliers, Requesters, Returns, IdleRun
  <2>1. CASE OutboxCommitted
    BY <2>1 DEF OutboxCommitted, Quiet, dataVars, serverVars, fileVars, historyVars,
       NoRequest
  <2>2. CASE OutboxResent
    BY <2>2 DEF OutboxResent, Quiet, NoRequest, dataVars, fileVars, serverVars,
       historyVars
  <2>3. CASE OutboxAbandoned
    BY <2>3 DEF OutboxAbandoned, Quiet, NoRequest, Persist, Discarded, Queued,
       fileVars, dataVars, serverVars, historyVars
  <2>4. CASE OutboxDone
    BY <2>4 DEF OutboxDone, Quiet, NoRequest, Goto, BeginRenames, dataVars,
       fileVars, serverVars, historyVars
  <2> HIDE DEF Settled, Base, Fields, HasFields, DataFields, RunFields,
     DeletesMissing, Deletions, InDeletes, TrackedLive, Tracked, Calls, Inner,
     Applying, Installing, Appliers, Requesters, Returns, IdleRun
  <2> QED BY <1>2, <2>1, <2>2, <2>3, <2>4 DEF ResumeOutbox
<1>3. CASE Reconcile
  <2>1. CASE PreserveLocal
    BY <2>1, DeletesDiscarded
  <2>2. CASE DiscardLocal
    BY <2>2, DeletesDiscarded
  <2> USE DEF Settled, Base, Fields, HasFields, DataFields, RunFields,
     DeletesMissing, Deletions, InDeletes, TrackedLive, Tracked, Calls, Inner,
     Applying, Installing, Appliers, Requesters, Returns, IdleRun
  <2>3. CASE ReadSnapshot
    BY <2>3 DEF ReadSnapshot, Quiet, NoRequest, dataVars, fileVars, serverVars,
       historyVars
  <2>4. CASE PreserveDone
    BY <2>4 DEF PreserveDone, Quiet, NoRequest, Goto, dataVars, fileVars,
       serverVars, historyVars
  <2>5. CASE MergeSnapshot
    BY <2>5 DEF MergeSnapshot, NoRequest, fileVars, dataVars, serverVars,
       historyVars
  <2>6. CASE MergeDone
    BY <2>6 DEF MergeDone, Quiet, NoRequest, Persist, BeginRenames, fileVars,
       dataVars, serverVars, historyVars
  <2> HIDE DEF Settled, Base, Fields, HasFields, DataFields, RunFields,
     DeletesMissing, Deletions, InDeletes, TrackedLive, Tracked, Calls, Inner,
     Applying, Installing, Appliers, Requesters, Returns, IdleRun
  <2> QED BY <1>3, <2>1, <2>2, <2>3, <2>4, <2>5, <2>6 DEF Reconcile
<1>4. CASE Renames
  <2> USE DEF Settled, Base, Fields, HasFields, DataFields, RunFields,
     DeletesMissing, Deletions, InDeletes, TrackedLive, Tracked, Calls, Inner,
     Applying, Installing, Appliers, Requesters, Returns, IdleRun
  <2>1. CASE RenameSkipped
    BY <2>1 DEF RenameSkipped, Quiet, NoRequest, fileVars, dataVars, serverVars,
       historyVars
  <2>2. CASE RenameStaged
    BY <2>2 DEF RenameStaged, Quiet, Stage, fileVars, dataVars, serverVars,
       historyVars, Persist, NoRequest
  <2>3. CASE RenamesDone
    BY <2>3 DEF RenamesDone, Quiet, NoRequest, Goto, fileVars, dataVars, serverVars,
       historyVars
  <2> HIDE DEF Settled, Base, Fields, HasFields, DataFields, RunFields,
     DeletesMissing, Deletions, InDeletes, TrackedLive, Tracked, Calls, Inner,
     Applying, Installing, Appliers, Requesters, Returns, IdleRun
  <2> QED BY <1>4, <2>1, <2>2, <2>3 DEF Renames
<1>5. CASE Push
  <2>1. CASE PushDone
    BY <2>1, DeletesPushDone
  <2> USE DEF Settled, Base, Fields, HasFields, DataFields, RunFields,
     DeletesMissing, Deletions, InDeletes, TrackedLive, Tracked, Calls, Inner,
     Applying, Installing, Appliers, Requesters, Returns, IdleRun
  <2>2. CASE PlanFull
    BY <2>2 DEF PlanFull, Plan, Quiet, NoRequest, dataVars, fileVars, serverVars,
       historyVars
  <2>3. CASE PlanQueued
    BY <2>3 DEF PlanQueued, Plan, Quiet, NoRequest, dataVars, fileVars, serverVars,
       historyVars
  <2>4. CASE DeletesDone
    BY <2>4 DEF DeletesDone, Quiet, NoRequest, fileVars, dataVars, serverVars,
       historyVars
  <2>5. ASSUME NEW q \in Paths, ScanPath(q) PROVE DeletesMissing'
    BY <2>5 DEF ScanPath, Quiet, NoRequest, dataVars, fileVars, serverVars,
       historyVars
  <2>6. ASSUME NEW q \in Paths, PushPath(q) PROVE DeletesMissing'
    BY <2>6 DEF PushPath, Quiet, NoRequest, Stage, Queued, Unnoted, fileVars,
       dataVars, serverVars, historyVars, Persist
  <2>7. ASSUME NEW q \in Paths, DeletePath(q) PROVE DeletesMissing'
    BY <2>7 DEF DeletePath, Quiet, Stage, fileVars, dataVars, serverVars,
       historyVars, Persist, NoRequest
  <2> HIDE DEF Settled, Base, Fields, HasFields, DataFields, RunFields,
     DeletesMissing, Deletions, InDeletes, TrackedLive, Tracked, Calls, Inner,
     Applying, Installing, Appliers, Requesters, Returns, IdleRun
  <2> QED BY <1>5, <2>1, <2>2, <2>3, <2>4, <2>5, <2>6, <2>7 DEF Push
<1>6. CASE Answered
  <2>1. CASE AnswerApplied
    BY <2>1, DeletesAnswerApplied
  <2>2. CASE AnswerBatchConflict
    BY <2>2, DeletesAnswerBatchConflict
  <2> USE DEF Settled, Base, Fields, HasFields, DataFields, RunFields,
     DeletesMissing, Deletions, InDeletes, TrackedLive, Tracked, Calls, Inner,
     Applying, Installing, Appliers, Requesters, Returns, IdleRun
  <2>3. CASE AnswerConflict
    BY <2>3 DEF AnswerConflict, Quiet, Persist, Discarded, serverVars, fileVars,
       dataVars, historyVars, NoRequest
  <2>4. CASE KeepRefused
    BY <2>4 DEF KeepRefused, Quiet, NoRequest, dataVars, serverVars, historyVars
  <2>5. CASE AnswerMoved
    BY <2>5 DEF AnswerMoved, Quiet, Goto, Complete, serverVars, fileVars,
       Recovering, dataVars, historyVars, NoRequest
  <2>6. CASE AnswerMoveConflict
    BY <2>6 DEF AnswerMoveConflict, Quiet, Goto, Return, Discarded, Queued,
       serverVars, fileVars, Recovering, dataVars, historyVars, NoRequest
  <2>7. CASE AnswerBatch
    BY <2>7 DEF AnswerBatch, Quiet, Complete, serverVars, fileVars, dataVars,
       historyVars, NoRequest
  <2> HIDE DEF Settled, Base, Fields, HasFields, DataFields, RunFields,
     DeletesMissing, Deletions, InDeletes, TrackedLive, Tracked, Calls, Inner,
     Applying, Installing, Appliers, Requesters, Returns, IdleRun
  <2> QED BY <1>6, <2>1, <2>2, <2>3, <2>4, <2>5, <2>6, <2>7 DEF Answered
<1>7. CASE Apply
  <2>1. CASE ApplyRemoteChange
    BY <2>1, DeletesApplied
  <2>2. CASE RemoveLocal
    BY <2>2, DeletesApplied
  <2>3. CASE FinishDownload
    BY <2>3, DeletesApplied
  <2> USE DEF Settled, Base, Fields, HasFields, DataFields, RunFields,
     DeletesMissing, Deletions, InDeletes, TrackedLive, Tracked, Calls, Inner,
     Applying, Installing, Appliers, Requesters, Returns, IdleRun
  <2>4. CASE Download
    BY <2>4 DEF Download, Quiet, NoRequest, Goto, serverVars, historyVars
  <2>5. CASE SetAside
    BY <2>5 DEF SetAside, Quiet, NoRequest, Goto, serverVars, historyVars
  <2>6. CASE SwapIn
    BY <2>6 DEF SwapIn, Quiet, Goto, EndRun, dataVars, serverVars, NoRequest,
       historyVars
  <2>7. CASE VerifyInstalled
    BY <2>7 DEF VerifyInstalled, Quiet, Goto, EndRun, dataVars, serverVars,
       NoRequest, historyVars
  <2>8. CASE Save
    BY <2>8 DEF Save, Quiet, NoRequest, Return, fileVars, dataVars, serverVars,
       historyVars
  <2> HIDE DEF Settled, Base, Fields, HasFields, DataFields, RunFields,
     DeletesMissing, Deletions, InDeletes, TrackedLive, Tracked, Calls, Inner,
     Applying, Installing, Appliers, Requesters, Returns, IdleRun
  <2> QED BY <1>7, <2>1, <2>2, <2>3, <2>4, <2>5, <2>6, <2>7, <2>8 DEF Apply
<1>8. CASE Pull
  <2> USE DEF Settled, Base, Fields, HasFields, DataFields, RunFields,
     DeletesMissing, Deletions, InDeletes, TrackedLive, Tracked, Calls, Inner,
     Applying, Installing, Appliers, Requesters, Returns, IdleRun
  <2>1. CASE PullPage
    BY <2>1 DEF PullPage, Quiet, NoRequest, dataVars, fileVars, serverVars,
       historyVars
  <2>2. CASE PageChange
    BY <2>2 DEF PageChange, Quiet, NoRequest, dataVars, fileVars, serverVars,
       historyVars
  <2>3. CASE PageDone
    BY <2>3 DEF PageDone, Quiet, NoRequest, Persist, fileVars, dataVars, serverVars,
       historyVars
  <2>4. CASE Finish
    BY <2>4 DEF Finish, Quiet, NoRequest, Persist, Goto, fileVars, dataVars,
       serverVars, historyVars
  <2>5. CASE AckCursor
    BY <2>5 DEF AckCursor, Quiet, Goto, Acknowledge, dataVars, fileVars, serverVars,
       historyVars, NoRequest
  <2>6. CASE CompleteRun
    BY <2>6 DEF CompleteRun, Quiet, EndRun, serverVars, fileVars, dataVars,
       historyVars, NoRequest
  <2> HIDE DEF Settled, Base, Fields, HasFields, DataFields, RunFields,
     DeletesMissing, Deletions, InDeletes, TrackedLive, Tracked, Calls, Inner,
     Applying, Installing, Appliers, Requesters, Returns, IdleRun
  <2> QED BY <1>8, <2>1, <2>2, <2>3, <2>4, <2>5, <2>6 DEF Pull
<1>9. CASE StartRun
  BY <1>9 DEF StartRun, Settled, Base, Fields, HasFields, DataFields, RunFields,
     DeletesMissing, Deletions, InDeletes, TrackedLive, Tracked, Calls, Inner,
     Applying, Installing, Appliers, Requesters, Returns, IdleRun, Quiet, NoRequest,
     Goto, dataVars, fileVars, serverVars, historyVars
<1>10. CASE Send
  BY <1>10 DEF Send, Settled, Base, Fields, HasFields, DataFields, RunFields,
     DeletesMissing, Deletions, InDeletes, TrackedLive, Tracked, Calls, Inner,
     Applying, Installing, Appliers, Requesters, Returns, IdleRun, Quiet, Goto,
     dataVars, fileVars, serverVars, historyVars, NoRequest
<1>11. CASE ServerMoves
  BY <1>11 DEF ServerMoves, Settled, Base, Fields, HasFields, DataFields, RunFields,
     DeletesMissing, Deletions, InDeletes, TrackedLive, Tracked, Calls, Inner,
     Applying, Installing, Appliers, Requesters, Returns, IdleRun, Spend, dataVars,
     fileVars, serverVars, historyVars
<1>12. CASE SaveEvents
  BY <1>12 DEF SaveEvents, Settled, Base, Fields, HasFields, DataFields, RunFields,
     DeletesMissing, Deletions, InDeletes, TrackedLive, Tracked, Calls, Inner,
     Applying, Installing, Appliers, Requesters, Returns, IdleRun, Quiet, NoRequest,
     fileVars, dataVars, serverVars, historyVars
<1>13. CASE RunFails
  BY <1>13 DEF RunFails, Settled, Base, Fields, HasFields, DataFields, RunFields,
     DeletesMissing, Deletions, InDeletes, TrackedLive, Tracked, Calls, Inner,
     Applying, Installing, Appliers, Requesters, Returns, IdleRun, EndRun, Spend,
     serverVars
<1>14. CASE Crash
  BY <1>14 DEF Crash, Settled, Base, Fields, HasFields, DataFields, RunFields,
     DeletesMissing, Deletions, InDeletes, TrackedLive, Tracked, Calls, Inner,
     Applying, Installing, Appliers, Requesters, Returns, IdleRun, Spend,
     serverVars, fileVars, dataVars, historyVars
<1>15. CASE Restart
  BY <1>15 DEF Restart, Settled, Base, Fields, HasFields, DataFields, RunFields,
     DeletesMissing, Deletions, InDeletes, TrackedLive, Tracked, Calls, Inner,
     Applying, Installing, Appliers, Requesters, Returns, IdleRun, NoRequest,
     dataVars, fileVars, historyVars, serverVars
<1>16. CASE UNCHANGED vars
  BY <1>16 DEF Settled, Base, Fields, HasFields, DataFields, RunFields,
     DeletesMissing, Deletions, InDeletes, TrackedLive, Tracked, Calls, Inner,
     Applying, Installing, Appliers, Requesters, Returns, IdleRun, vars, serverVars,
     fileVars, dataVars, historyVars
<1> QED BY <1>1, <1>2, <1>3, <1>4, <1>5, <1>6, <1>7, <1>8, <1>9, <1>10, <1>11, <1>12,
         <1>13, <1>14, <1>15, <1>16 DEF Next, Engine

-----------------------------------------------------------------------------
(* What the others do to the user's edits.                                 *)

\* The history of an edit: only the contents that were given up may grow.
SameEdits ==
    /\ \A p \in Paths : work'[p].content = work[p].content /\ work'[p].exposed = work[p].exposed
    /\ copies \subseteq copies'

\* The snapshot changes nothing that the user has written.
LEMMA EditsMergeSnapshot ==
    ASSUME Base, MergeSnapshot
    PROVE  SameEdits
<1>1. /\ work \in [Paths -> [content : Content \cup {Unknown}, exposed : BOOLEAN,
                             left : SUBSET Content]]
      /\ copies' = copies
  BY DEF Base, TypeOK, MergeSnapshot, fileVars
<1>2. CASE mem.mode = "local"
  <2> DEFINE versions == {SnapshotVersion(p) : p \in MergeDue}
             given(p) == {v.content : v \in {w \in versions : w.path = p}}
  <2>1. work' = [p \in Paths |-> [work[p] EXCEPT !.left = @ \cup given(p)]]
    BY <1>2 DEF MergeSnapshot
  <2> HIDE DEF given
  <2> QED BY <1>1, <2>1 DEF SameEdits
<1>3. CASE mem.mode # "local"
  BY <1>1, <1>3 DEF MergeSnapshot, SameEdits
<1> QED BY <1>2, <1>3

\* No step of the others is an edit, and copies stay.
LEMMA SameEditsStep ==
    ASSUME Base, [Next]_vars, ~User
    PROVE  SameEdits
<1>1. CASE ResumeInbox
  <2> USE DEF SameEdits
  <2>1. CASE InboxInstalled
    BY <2>1 DEF InboxInstalled, Quiet, NoRequest, dataVars, CleanUp, serverVars,
       historyVars
  <2>2. CASE InboxReady
    BY <2>2 DEF InboxReady, Quiet, NoRequest, dataVars, fileVars, serverVars,
       historyVars
  <2>3. CASE InboxLost
    BY <2>3 DEF InboxLost, Quiet, NoRequest, Persist, CleanUp, serverVars,
       historyVars
  <2>4. CASE InboxDone
    BY <2>4 DEF InboxDone, Quiet, NoRequest, Goto, dataVars, fileVars, serverVars,
       historyVars
  <2> HIDE DEF SameEdits
  <2> QED BY <1>1, <2>1, <2>2, <2>3, <2>4 DEF ResumeInbox
<1>2. CASE ResumeOutbox
  <2> USE DEF SameEdits
  <2>1. CASE OutboxCommitted
    BY <2>1 DEF OutboxCommitted, Quiet, dataVars, serverVars, fileVars, historyVars,
       NoRequest
  <2>2. CASE OutboxResent
    BY <2>2 DEF OutboxResent, Quiet, NoRequest, dataVars, fileVars, serverVars,
       historyVars
  <2>3. CASE OutboxAbandoned
    BY <2>3 DEF OutboxAbandoned, Quiet, NoRequest, Persist, Discarded, Queued,
       fileVars, dataVars, serverVars, historyVars
  <2>4. CASE OutboxDone
    BY <2>4 DEF OutboxDone, Quiet, NoRequest, Goto, BeginRenames, dataVars,
       fileVars, serverVars, historyVars
  <2> HIDE DEF SameEdits
  <2> QED BY <1>2, <2>1, <2>2, <2>3, <2>4 DEF ResumeOutbox
<1>3. CASE Reconcile
  <2>1. CASE MergeSnapshot
    BY <2>1, EditsMergeSnapshot
  <2> USE DEF SameEdits
  <2>2. CASE ReadSnapshot
    BY <2>2 DEF ReadSnapshot, Quiet, NoRequest, dataVars, fileVars, serverVars,
       historyVars
  <2>3. CASE PreserveLocal
    BY <2>3 DEF PreserveLocal, Quiet, EndRun, dataVars, serverVars, IdleRun,
       NoRequest, historyVars
  <2>4. CASE DiscardLocal
    BY <2>4 DEF DiscardLocal, Quiet, Return, EndRun, dataVars, serverVars, IdleRun,
       NoRequest, historyVars
  <2>5. CASE PreserveDone
    BY <2>5 DEF PreserveDone, Quiet, NoRequest, Goto, dataVars, fileVars,
       serverVars, historyVars
  <2>6. CASE MergeDone
    BY <2>6 DEF MergeDone, Quiet, NoRequest, Persist, BeginRenames, fileVars,
       dataVars, serverVars, historyVars
  <2> HIDE DEF SameEdits
  <2> QED BY <1>3, <2>1, <2>2, <2>3, <2>4, <2>5, <2>6 DEF Reconcile
<1>4. CASE Renames
  <2> USE DEF SameEdits
  <2>1. CASE RenameSkipped
    BY <2>1 DEF RenameSkipped, Quiet, NoRequest, fileVars, dataVars, serverVars,
       historyVars
  <2>2. CASE RenameStaged
    BY <2>2 DEF RenameStaged, Quiet, Stage, fileVars, dataVars, serverVars,
       historyVars, Persist, NoRequest
  <2>3. CASE RenamesDone
    BY <2>3 DEF RenamesDone, Quiet, NoRequest, Goto, fileVars, dataVars, serverVars,
       historyVars
  <2> HIDE DEF SameEdits
  <2> QED BY <1>4, <2>1, <2>2, <2>3 DEF Renames
<1>5. CASE Push
  <2> USE DEF SameEdits
  <2>1. CASE PlanFull
    BY <2>1 DEF PlanFull, Plan, Quiet, NoRequest, dataVars, fileVars, serverVars,
       historyVars
  <2>2. CASE PlanQueued
    BY <2>2 DEF PlanQueued, Plan, Quiet, NoRequest, dataVars, fileVars, serverVars,
       historyVars
  <2>3. CASE PushDone
    BY <2>3 DEF PushDone, Quiet, NoRequest, Stage, dataVars, fileVars, serverVars,
       historyVars, Persist
  <2>4. CASE DeletesDone
    BY <2>4 DEF DeletesDone, Quiet, NoRequest, fileVars, dataVars, serverVars,
       historyVars
  <2>5. ASSUME NEW q \in Paths, ScanPath(q) PROVE SameEdits
    BY <2>5 DEF ScanPath, Quiet, NoRequest, dataVars, fileVars, serverVars,
       historyVars
  <2>6. ASSUME NEW q \in Paths, PushPath(q) PROVE SameEdits
    BY <2>6 DEF PushPath, Quiet, NoRequest, Stage, Queued, Unnoted, fileVars,
       dataVars, serverVars, historyVars, Persist
  <2>7. ASSUME NEW q \in Paths, DeletePath(q) PROVE SameEdits
    BY <2>7 DEF DeletePath, Quiet, Stage, fileVars, dataVars, serverVars,
       historyVars, Persist, NoRequest
  <2> HIDE DEF SameEdits
  <2> QED BY <1>5, <2>1, <2>2, <2>3, <2>4, <2>5, <2>6, <2>7 DEF Push
<1>6. CASE Answered
  <2> USE DEF SameEdits
  <2>1. CASE AnswerApplied
    BY <2>1 DEF AnswerApplied, Quiet, Goto, Return, Complete, Queued, serverVars,
       fileVars, Recovering, dataVars, historyVars, NoRequest
  <2>2. CASE AnswerConflict
    BY <2>2 DEF AnswerConflict, Quiet, Persist, Discarded, serverVars, fileVars,
       dataVars, historyVars, NoRequest
  <2>3. CASE KeepRefused
    BY <2>3 DEF KeepRefused, Quiet, NoRequest, dataVars, serverVars, historyVars
  <2>4. CASE AnswerMoved
    BY <2>4 DEF AnswerMoved, Quiet, Goto, Complete, serverVars, fileVars,
       Recovering, dataVars, historyVars, NoRequest
  <2>5. CASE AnswerMoveConflict
    BY <2>5 DEF AnswerMoveConflict, Quiet, Goto, Return, Discarded, Queued,
       serverVars, fileVars, Recovering, dataVars, historyVars, NoRequest
  <2>6. CASE AnswerBatch
    BY <2>6 DEF AnswerBatch, Quiet, Complete, serverVars, fileVars, dataVars,
       historyVars, NoRequest
  <2>7. CASE AnswerBatchConflict
    BY <2>7 DEF AnswerBatchConflict, Quiet, Persist, Discarded, Queued, serverVars,
       fileVars, Recovering, dataVars, historyVars, NoRequest
  <2> HIDE DEF SameEdits
  <2> QED BY <1>6, <2>1, <2>2, <2>3, <2>4, <2>5, <2>6, <2>7 DEF Answered
<1>7. CASE Apply
  <2> USE DEF SameEdits
  <2>1. CASE ApplyRemoteChange
    BY <2>1 DEF ApplyRemoteChange, Quiet, NoRequest, Goto, Return, StageDownload,
       dataVars, Persist, serverVars, historyVars
  <2>2. CASE RemoveLocal
    BY <2>2 DEF RemoveLocal, Quiet, Return, EndRun, serverVars, IdleRun, NoRequest,
       historyVars
  <2>3. CASE Download
    BY <2>3 DEF Download, Quiet, NoRequest, Goto, serverVars, historyVars
  <2>4. CASE SetAside
    BY <2>4 DEF SetAside, Quiet, NoRequest, Goto, serverVars, historyVars
  <2>5. CASE SwapIn
    BY <2>5 DEF SwapIn, Quiet, Goto, EndRun, dataVars, serverVars, IdleRun,
       NoRequest, historyVars
  <2>6. CASE VerifyInstalled
    BY <2>6 DEF VerifyInstalled, Quiet, Goto, EndRun, dataVars, serverVars, IdleRun,
       NoRequest, historyVars
  <2>7. CASE FinishDownload
    BY <2>7 DEF FinishDownload, Quiet, NoRequest, Goto, fileVars, dataVars,
       serverVars, historyVars
  <2>8. CASE Save
    BY <2>8 DEF Save, Quiet, NoRequest, Return, fileVars, dataVars, serverVars,
       historyVars
  <2> HIDE DEF SameEdits
  <2> QED BY <1>7, <2>1, <2>2, <2>3, <2>4, <2>5, <2>6, <2>7, <2>8 DEF Apply
<1>8. CASE Pull
  <2> USE DEF SameEdits
  <2>1. CASE PullPage
    BY <2>1 DEF PullPage, Quiet, NoRequest, dataVars, fileVars, serverVars,
       historyVars
  <2>2. CASE PageChange
    BY <2>2 DEF PageChange, Quiet, NoRequest, dataVars, fileVars, serverVars,
       historyVars
  <2>3. CASE PageDone
    BY <2>3 DEF PageDone, Quiet, NoRequest, Persist, fileVars, dataVars, serverVars,
       historyVars
  <2>4. CASE Finish
    BY <2>4 DEF Finish, Quiet, NoRequest, Persist, Goto, fileVars, dataVars,
       serverVars, historyVars
  <2>5. CASE AckCursor
    BY <2>5 DEF AckCursor, Quiet, Goto, Acknowledge, dataVars, fileVars, serverVars,
       historyVars, NoRequest
  <2>6. CASE CompleteRun
    BY <2>6 DEF CompleteRun, Quiet, EndRun, serverVars, fileVars, dataVars,
       historyVars, IdleRun, NoRequest
  <2> HIDE DEF SameEdits
  <2> QED BY <1>8, <2>1, <2>2, <2>3, <2>4, <2>5, <2>6 DEF Pull
<1>9. CASE StartRun
  BY <1>9 DEF StartRun, SameEdits, Quiet, NoRequest, Goto, dataVars, fileVars,
     serverVars, historyVars
<1>10. CASE Send
  BY <1>10 DEF Send, SameEdits, Quiet, Goto, dataVars, fileVars, serverVars,
     historyVars, NoRequest
<1>11. CASE ServerMoves
  BY <1>11 DEF ServerMoves, SameEdits, Spend, dataVars, fileVars, serverVars,
     historyVars
<1>12. CASE SaveEvents
  BY <1>12 DEF SaveEvents, SameEdits, Quiet, NoRequest, fileVars, dataVars,
     serverVars, historyVars
<1>13. CASE RunFails
  BY <1>13 DEF RunFails, SameEdits, EndRun, Spend, serverVars, IdleRun
<1>14. CASE Crash
  BY <1>14 DEF Crash, SameEdits, IdleRun, Spend, serverVars, fileVars, dataVars,
     historyVars
<1>15. CASE Restart
  BY <1>15 DEF Restart, SameEdits, NoRequest, dataVars, fileVars, historyVars,
     serverVars
<1>16. CASE UNCHANGED vars
  BY <1>16 DEF SameEdits, vars, serverVars, fileVars, dataVars, historyVars
<1> QED BY <1>1, <1>2, <1>3, <1>4, <1>5, <1>6, <1>7, <1>8, <1>9, <1>10, <1>11, <1>12,
         <1>13, <1>14, <1>15, <1>16 DEF Next, Engine

\* What the device owes its user after a step of the others, it has owed before.
LEMMA OwedBefore ==
    ASSUME Settled, Grown, [Next]_vars, ~User, NEW p \in Paths, NEW c, Owed(p, c)'
    PROVE  Owed(p, c)
<1>1. SameEdits
  BY SameEditsStep DEF Settled
<1>2. Stowed(c) => Stowed(c)'
  BY <1>1 DEF SameEdits, Grown, Stowed
<1> QED BY <1>1, <1>2 DEF SameEdits, Owed

-----------------------------------------------------------------------------
(* The user.                                                               *)

\* What an edit leaves as it is.
Untouched ==
    /\ UNCHANGED <<pc, temp, backup, saved, answers, log, copies>>
    /\ mem'.files = mem.files /\ mem'.outbox = mem.outbox /\ mem'.inbox = mem.inbox
    /\ mem'.mode = mem.mode
    /\ run'.deferred = run.deferred /\ run'.scope = run.scope /\ run'.found = run.found
    /\ run'.todo = run.todo /\ run'.change = run.change /\ run'.keep = run.keep
    /\ run'.refused = run.refused /\ run'.ret = run.ret

\* A step of the user leaves the server and the engine's records alone.
LEMMA UserUntouched == Fields /\ User => Untouched
<1> SUFFICES ASSUME Fields, User PROVE Untouched
  OBVIOUS
<1>1. ASSUME NEW ps, NEW renames, NoteEvents(ps, renames),
             UNCHANGED <<pc, temp, backup, saved, copies>>, NoRequest
      PROVE  Untouched
  BY <1>1 DEF Fields, HasFields, DataFields, RunFields, NoteEvents, NoRequest, serverVars, Untouched
<1>2. ASSUME NEW p \in Paths, NEW content \in UserContents \cup {Absent}, UserEdit(p, content)
      PROVE  Untouched
  BY <1>1, <1>2 DEF UserEdit
<1>3. ASSUME NEW from \in Paths, NEW to \in Paths, UserRename(from, to)
      PROVE  Untouched
  BY <1>1, <1>3 DEF UserRename
<1> QED BY <1>2, <1>3 DEF User

\* The parts about all paths stay.
LEMMA GlobalsUntouched ==
    ASSUME Untouched, Careful, OneVersion, OverRecorded, DeletesMissing
    PROVE  Careful' /\ OneVersion' /\ OverRecorded' /\ DeletesMissing'
<1>1. Careful' /\ OneVersion' /\ OverRecorded'
  BY DEF Untouched, Careful, OneVersion, OverRecorded
<1>2. Deletions' = Deletions
  BY DEF Untouched, Deletions, TrackedLive, Tracked
<1> QED BY <1>1, <1>2 DEF Untouched, DeletesMissing, InDeletes

\* So does what holds of the path of another file.
LEMMA SafeUntouched ==
    ASSUME Untouched, NEW p \in Paths, NEW c, Safe(p, c), disk'[p] = c
    PROVE  Safe(p, c)'
<1>1. Spared(p, c)' /\ Unboxed(p)'
  BY DEF Untouched, Safe, Spared, Unboxed
<1>2. Requested(p, c)'
  BY DEF Untouched, Safe, Requested, Asked, Puts, Done, Before
<1>3. Asked(mem, p)' = Asked(mem, p)
  BY DEF Untouched, Asked
<1>4. ToPush(p, c)' = ToPush(p, c)
  BY <1>3 DEF Untouched, ToPush
<1>5. Remembered(p, c)'
  BY <1>4 DEF Untouched, Safe, Remembered
<1>6. Deletions' = Deletions
  BY DEF Untouched, Deletions, TrackedLive, Tracked
<1>7. NotMissed(p)'
  BY <1>6 DEF Untouched, Safe, NotMissed, InPush, InDeletes
<1> QED BY <1>1, <1>2, <1>5, <1>7 DEF Safe

\* An edit that is not Exposed makes it hold.
LEMMA SafeEdited ==
    ASSUME Settled, OverRecorded, DeletesMissing, Untouched,
           NEW p \in Paths, NEW c, ~Exposed(p), disk'[p] = c
    PROVE  Safe(p, c)'
<1>1. /\ pc \in {"refused", "remove", "download", "install", "swap", "verify", "discard"}
           => run.change.path # p
      /\ pc = "apply" /\ ~run.keep => run.change.path # p
      /\ ~Asked(mem, p)
      /\ mem.inbox.path # p
      /\ mem.files[p].content # Absent /\ saved.files[p].content # Absent
      /\ mem.mode = "local" => p \notin run.deferred /\ saved.inbox.path # p
      /\ p \in Deletions => pc = "scan" /\ p \in run.todo
  BY DEF Exposed, Asked
<1>2. Spared(p, c)'
  <2>1. pc = "record" => run.change.path # p
    BY <1>1 DEF Settled, InHandBoxed, Installing
  <2> QED BY <1>1, <2>1 DEF Untouched, Spared, Installing
<1>3. Unboxed(p)'
  <2>1. temp # Absent \/ backup # Absent => saved.inbox = mem.inbox
    BY DEF Settled, Base, Artifacts, Boxes
  <2> QED BY <1>1, <2>1 DEF Untouched, Unboxed
<1>4. Requested(p, c)'
  <2>1. Asked(saved, p) => Done(saved, p)
    <3>1. CASE mem.outbox # NoOperation
      BY <1>1, <3>1 DEF Settled, Boxes, Asked
    <3>2. CASE mem.outbox = NoOperation
      BY <1>1, <3>2 DEF OverRecorded, Asked, Done
    <3> QED BY <3>1, <3>2
  <2> QED BY <1>1, <2>1 DEF Untouched, Requested, Asked, Done
<1>5. Remembered(p, c)'
  BY <1>1 DEF Untouched, Remembered
<1>6. NotMissed(p)'
  <2>1. Deletions' = Deletions
    BY DEF Untouched, Deletions, TrackedLive, Tracked
  <2>2. pc = "scan" => run.ret = "idle"
    BY DEF Settled, Base, Calls, Inner
  <2>3. InPush => p \notin Deletions
    BY <1>1, <2>2 DEF InPush
  <2>4. InDeletes \/ run.ret = "pull" => p \notin run.todo
    BY <1>1, <2>2 DEF InDeletes, DeletesMissing
  <2> QED BY <1>1, <2>1, <2>3, <2>4 DEF Untouched, NotMissed, InPush, InDeletes
<1> QED BY <1>2, <1>3, <1>4, <1>5, <1>6 DEF Safe

\* The user's step: the file of another path stays, and that of an edit that is not
\* Exposed is safe.
LEMMA SafeUser ==
    ASSUME Settled, OverRecorded, DeletesMissing, User, NEW p \in Paths, NEW c \in Contents,
           Owed(p, c) => Safe(p, c), Owed(p, c)'
    PROVE  Safe(p, c)'
<1>1. Untouched /\ c # Absent /\ disk \in [Paths -> Content]
  BY UserUntouched, ServerAssumption DEF Settled, Base, TypeOK
<1>2. Stowed(c)' = Stowed(c)
  BY <1>1 DEF Untouched, Stowed
<1>3. ASSUME work'[p] = work[p], disk'[p] = disk[p] PROVE Safe(p, c)'
  <2>1. Safe(p, c)
    BY <1>2, <1>3 DEF Owed
  <2>2. disk'[p] = c
    BY <1>3, <2>1 DEF Safe
  <2> QED BY <1>1, <2>1, <2>2, SafeUntouched
<1>4. ASSUME disk'[p] = c, ~Exposed(p) PROVE Safe(p, c)'
  BY <1>1, <1>4, SafeEdited
<1>5. work \in [Paths -> [content : Content \cup {Unknown}, exposed : BOOLEAN,
                          left : SUBSET Content]]
  BY DEF Settled, Base, TypeOK
<1>6. ASSUME NEW q \in Paths, NEW content \in UserContents \cup {Absent}, UserEdit(q, content)
      PROVE  Safe(p, c)'
  <2>1. CASE p # q
    BY <1>1, <1>3, <1>5, <1>6, <2>1 DEF UserEdit
  <2>2. CASE p = q
    <3>1. work'[p] = Worked(p, content, Exposed(p)) /\ disk'[p] = content
      BY <1>1, <1>5, <1>6, <2>2 DEF UserEdit
    <3>2. content = c /\ ~Exposed(p)
      BY <3>1 DEF Owed, Worked
    <3> QED BY <1>4, <3>1, <3>2
  <2> QED BY <2>1, <2>2
<1>7. ASSUME NEW from \in Paths, NEW to \in Paths, UserRename(from, to)
      PROVE  Safe(p, c)'
  <2>1. from # to
    BY <1>7 DEF UserRename
  <2>2. CASE p \notin {from, to}
    BY <1>1, <1>3, <1>5, <1>7, <2>2 DEF UserRename
  <2>3. CASE p = from
    <3>1. work'[p] = Worked(p, Absent, FALSE)
      BY <1>5, <1>7, <2>3 DEF UserRename
    <3> QED BY <1>1, <3>1 DEF Owed, Worked
  <2>4. CASE p = to
    <3> DEFINE exposed == Exposed(from) \/ Exposed(to)
    <3>1. work'[p] = Worked(p, disk[from], exposed) /\ disk'[p] = disk[from]
      BY <1>1, <1>5, <1>7, <2>1, <2>4 DEF UserRename
    <3> HIDE DEF exposed
    <3>2. disk[from] = c /\ ~exposed
      BY <3>1 DEF Owed, Worked
    <3>3. ~Exposed(p)
      BY <2>4, <3>2 DEF exposed
    <3> QED BY <1>4, <3>1, <3>2, <3>3
  <2> QED BY <2>2, <2>3, <2>4
<1> QED BY <1>6, <1>7 DEF User

-----------------------------------------------------------------------------
(* The theorem.                                                            *)

\* At the start the user has written nothing.
LEMMA InitKept == Init => KeptInv
<1> SUFFICES ASSUME Init PROVE KeptInv
  OBVIOUS
<1>1. PICK mode \in InitialModes : mem = EmptyData(mode) /\ saved = mem
  BY DEF Init
<1>2. /\ saved.outbox = NoOperation /\ pc = "idle" /\ run.ret = "idle" /\ run.keep
      /\ answers = [i \in OpIds |-> NoReply]
  BY <1>1 DEF Init, ServerInit, EmptyData, IdleRun
<1>3. \A p \in Paths : work[p].content = Unknown
  BY DEF Init
<1>4. \A p \in Paths : \A c \in Contents : ~Owed(p, c)
  BY <1>3, EngineAssumption DEF Owed, Content
<1>5. Careful /\ OneVersion /\ OverRecorded /\ DeletesMissing
  BY <1>2 DEF Careful, OneVersion, NoReply, OverRecorded, DeletesMissing, InDeletes
<1> QED BY <1>4, <1>5 DEF KeptInv

\* The invariants below this one give what its steps take for granted.
LEMMA IsSettled == RecordInv /\ SeenInv => Settled /\ TypeInv
BY HasBase DEF RecordInv, SeenInv, Settled

\* Every step keeps the invariant.
LEMMA KeptInvStep == RecordInv /\ SeenInv /\ KeptInv /\ [Next]_vars => KeptInv'
<1> SUFFICES ASSUME RecordInv, SeenInv, KeptInv, [Next]_vars PROVE KeptInv'
  OBVIOUS
<1>1. Settled /\ TypeInv /\ Grown
  BY IsSettled, GrownStep
<1>2. /\ \A p \in Paths : \A c \in Contents : Owed(p, c) => Safe(p, c)
      /\ Careful /\ OneVersion /\ OverRecorded /\ DeletesMissing
  BY DEF KeptInv
<1>3. CASE User
  <2>1. Untouched
    BY <1>1, <1>3, UserUntouched DEF Settled, Base
  <2>2. Careful' /\ OneVersion' /\ OverRecorded' /\ DeletesMissing'
    BY <1>2, <2>1, GlobalsUntouched
  <2>3. ASSUME NEW p \in Paths, NEW c \in Contents, Owed(p, c)' PROVE Safe(p, c)'
    BY <1>1, <1>2, <1>3, <2>3, SafeUser
  <2> QED BY <2>2, <2>3 DEF KeptInv
<1>4. CASE ~User
  <2>1. Careful' /\ OneVersion' /\ OverRecorded' /\ DeletesMissing'
    BY <1>1, <1>2, <1>4, CarefulStep, OneVersionStep, OverRecordedStep, DeletesMissingStep
  <2>2. ASSUME NEW p \in Paths, NEW c \in Contents, Owed(p, c)' PROVE Safe(p, c)'
    <3>1. Owed(p, c)
      BY <1>1, <1>4, <2>2, OwedBefore
    <3>2. Held(p, c)
      BY <1>2, <2>2, <3>1 DEF Held, Owed
    <3>3. disk'[p] = c /\ Spared(p, c)' /\ Unboxed(p)'
      BY <1>1, <1>2, <1>4, <3>2, PresentStep, SparedStep, UnboxedStep
    <3>4. Requested(p, c)' /\ Remembered(p, c)' /\ NotMissed(p)'
      BY <1>1, <1>4, <3>2, RequestedStep, RememberedStep, NotMissedStep
    <3> QED BY <3>3, <3>4 DEF Safe
  <2> QED BY <2>1, <2>2 DEF KeptInv
<1> QED BY <1>3, <1>4

\* What the user has last written to a path is never lost: it is on disk, in a copy
\* or at the server, whatever conflicts, other devices, lost answers, failed runs
\* and crashes do, unless the edit was Exposed (sync-engine.ts: applyRemoteChange,
\* installDownload, resumeInbox, resumeOutbox, pushLocalChanges, reconcileSnapshot).
THEOREM NoEditIsLost == Spec => []NoSilentLoss
<1>1. Init => RecordInv /\ SeenInv /\ KeptInv
  BY InitRecords, InitSeen, InitKept
<1>2. RecordInv /\ SeenInv /\ KeptInv /\ [Next]_vars => RecordInv' /\ SeenInv' /\ KeptInv'
  BY RecordInvStep, SeenInvStep, KeptInvStep
<1>3. KeptInv => NoSilentLoss
  <2> SUFFICES ASSUME KeptInv, NEW p \in Paths, work[p].content \in Contents, ~work[p].exposed
               PROVE  Kept(work[p].content)
    BY DEF NoSilentLoss
  <2>1. CASE Stowed(work[p].content)
    BY <2>1 DEF Stowed, Kept
  <2>2. CASE ~Stowed(work[p].content)
    BY <2>2 DEF KeptInv, Safe, Owed, Kept
  <2> QED BY <2>1, <2>2
<1> QED BY <1>1, <1>2, <1>3, PTL DEF Spec

=============================================================================
