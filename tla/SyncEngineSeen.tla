--------------------------- MODULE SyncEngineSeen ---------------------------
(***************************************************************************)
(* What the user of a device has seen of the files that the engine takes   *)
(* away, for all values of the constants: the device deletes on the server *)
(* only what its user has deleted, moved away or written over.  The        *)
(* invariant is SeenInv, on top of RecordInv of SyncEngineResults: what is *)
(* recorded as the current row of a path is known to the user, a request   *)
(* takes away only what the user has given up, a file is replaced only     *)
(* where the recorded version is not the current one any more, and a file  *)
(* that a scan missed was given up.                                        *)
(***************************************************************************)
EXTENDS SyncEngineResults

-----------------------------------------------------------------------------
(* What the user has seen of the files that the device deletes.            *)

\* The user has this content at the path, or has given it up there.
GivenUp(p, c) == c \in Contents => c \in work[p].left
Known(p, c) == c \in Contents => disk[p] = c \/ c \in work[p].left

\* What is recorded of the path is its current row, and that of a file.
IsRow(p, s) == s.content \in Contents /\ head[p].rev = s.rev
Current(data, p) == IsRow(p, data.files[p])

\* The user has seen every file that is recorded as its current row; what is only
\* in memory is not needed for it.
FilesKnown ==
    \A p \in Paths :
        /\ Current(mem, p) => Known(p, mem.files[p].content)
        /\ Current(saved, p) => saved.files[p] = mem.files[p]

\* What a request takes away: paths with the revisions it is based on.
Removals(request) ==
    CASE request.kind = "apply" ->
           IF request.content = Absent THEN {[path |-> request.path, base |-> request.base]} ELSE {}
      [] request.kind = "rename" -> {[path |-> request.from, base |-> request.base]}
      [] request.kind = "batch" -> request.items

\* A request takes away what the user has given up, and brings what the user has.
RequestKnown(request) ==
    /\ \A d \in Removals(request) :
         /\ d.base <= Len(log)
         /\ head[d.path].rev = d.base => GivenUp(d.path, head[d.path].content)
    /\ request.kind \in {"apply", "rename"} => Known(request.path, request.content)
    /\ request.kind = "rename" /\ head[request.from].rev = request.base
         => head[request.from].content \in {Absent, request.content}

\* The same of the result that the server keeps of it.
OutboxKnown(data) ==
    data.outbox # NoOperation =>
        /\ answers[data.outbox.id] = NoReply => RequestKnown(data.outbox.request)
        /\ answers[data.outbox.id].kind = "ok" =>
             \A v \in answers[data.outbox.id].versions :
                v.path \in Touched(data.outbox.request) /\ Known(v.path, v.content)

\* An operation that is over leaves the disk before a file is touched.
OutboxOver ==
    saved.outbox # NoOperation /\ mem.outbox = NoOperation => pc \in {"save", "push", "deletes"}

\* The change in hand is that of the inbox while it is installed; a download has a
\* content, and what is removed has none.
InHandBoxed ==
    /\ pc \notin Applying \cup {"save"} => run.change = NoDownload
    /\ pc \in Installing => run.change = mem.inbox
    /\ \A data \in {mem, saved} : data.inbox # NoDownload => data.inbox.content # Absent
    /\ pc = "remove" => run.change.content = Absent

\* It is another one than what is recorded, and so is what a request was refused for.
InHandNew ==
    /\ pc \in {"apply", "refused", "remove", "download", "install", "swap", "verify"} =>
         ~Current(mem, run.change.path)
    /\ temp # Absent \/ backup # Absent => ~Current(mem, mem.inbox.path)

RefusedNew ==
    pc = "answer" /\ reply.kind = "conflict" /\ mem.outbox.request.kind = "apply" =>
        \A v \in reply.versions :
           v.path = mem.outbox.request.path /\ ~Current(mem, v.path)

\* Once it is installed, the user knows it.
InHandKnown == pc = "record" => Known(run.change.path, run.change.content)

\* A file that is only on this device has no row.
LocalOnly ==
    /\ pc = "preserve" \/ run.ret = "preserve" => \A p \in run.scope : ~Current(mem, p)
    /\ run.ret = "preserve" => ~Current(mem, run.change.path)

\* A request or a change that the run has in hand is about the path.
Busy(p) ==
    \/ mem.outbox # NoOperation /\ p \in Touched(mem.outbox.request)
    \/ run.change # NoDownload /\ run.change.path = p

\* A file that the scan has missed was given up by the user, if it is the current row.
Missed(p) == Current(mem, p) => GivenUp(p, mem.files[p].content)
Gone(p) == Missed(p) /\ ~Busy(p)

MissingKnown ==
    /\ pc = "scan" => \A p \in run.scope \ run.todo : run.found[p] = Absent => Missed(p)
    /\ pc = "push" \/ run.ret = "push" =>
         /\ \A p \in run.scope : run.found[p] = Absent => Gone(p)
         /\ \A p \in run.todo : run.found[p] # Absent
    /\ pc = "deletes" \/ run.ret = "deletes" => \A p \in run.todo : Gone(p)
    /\ run.ret = "pull" => \A p \in run.todo : Missed(p)

SeenInv ==
    /\ FilesKnown
    /\ OutboxKnown(mem) /\ OutboxKnown(saved) /\ OutboxOver
    /\ InHandBoxed /\ InHandNew /\ RefusedNew /\ InHandKnown
    /\ LocalOnly /\ MissingKnown

-----------------------------------------------------------------------------
(* What a step does to the rows, to what was given up and to the files.    *)

\* A row stays, is forgotten, or is followed by a newer one.
RowsMove ==
    /\ Len(log) \in Nat /\ Len(log') \in Nat /\ Len(log) <= Len(log')
    /\ \A p \in Paths :
         \/ head'[p] = head[p]
         \/ head'[p] = NoRow
         \/ head'[p].rev > Len(log)

\* What the user has given up stays so.
LeftStays == \A p \in Paths : work[p].left \subseteq work'[p].left

\* The five steps in which the engine takes a file away.
Takes == RemoveLocal \/ SetAside \/ SwapIn \/ VerifyInstalled \/ DiscardLocal

\* A file that goes is given up.
DiskGivenUp ==
    \A p \in Paths : disk'[p] = disk[p] \/ disk[p] = Absent \/ disk[p] \in work'[p].left

\* The rows.
LEMMA RowsMoveStep == TypeInv /\ [Next]_vars => RowsMove
<1> SUFFICES ASSUME TypeInv, [Next]_vars PROVE RowsMove
  OBVIOUS
<1>1. Base /\ Base' /\ Grown
  BY NextBase, GrownStep
<1>2. log \in Seq(Entry) /\ head \in [Paths -> Row]
  BY <1>1 DEF Base, TypeOK
<1>3. Len(log) \in Nat /\ Len(log') \in Nat /\ Len(log) <= Len(log')
  BY <1>1 DEF Grown
<1>4. ASSUME NEW new, Extends(new), NEW p \in Paths
      PROVE  head'[p] = head[p] \/ head'[p].rev > Len(log)
  <2>1. new \in Seq(Entry) /\ AppendEntries(new)
    BY <1>4 DEF Extends
  <2>2. Len(new) \in Nat /\ RowsOf(head, new, Len(log), head')
    BY <1>2, <2>1, Appended
  <2>3. CASE \E i \in 1..Len(new) : head'[p] = [rev |-> Len(log) + i, content |-> new[i].content]
    BY <1>3, <2>2, <2>3
  <2> QED BY <2>2, <2>3 DEF RowsOf
<1>5. ASSUME NEW q \in Paths, Collect(q), NEW p \in Paths
      PROVE  head'[p] = head[p] \/ head'[p] = NoRow
  BY <1>2, <1>5 DEF Collect
<1>6. ServerStepsTo
  BY ServerStepsKinds
<1> QED BY <1>3, <1>4, <1>5, <1>6 DEF RowsMove, ServerStepsTo

\* What a snapshot replaces in mode "local" is given up with the rest.
LEMMA LeftMergeSnapshot == ASSUME TypeOK, MergeSnapshot PROVE LeftStays
<1>1. CASE mem.mode = "local"
  <2>1. PICK more : work' = [p \in Paths |-> [work[p] EXCEPT !.left = @ \cup more[p]]]
    <3>1. work' = [p \in Paths |-> [work[p] EXCEPT !.left = @ \cup
            [q \in Paths |-> {v.content : v \in {w \in {SnapshotVersion(x) : x \in MergeDue} :
                                                   w.path = q}}][p]]]
      BY <1>1, Zenon DEF MergeSnapshot
    <3> QED BY <3>1, Zenon
  <2>2. ASSUME NEW p \in Paths PROVE work'[p].left = work[p].left \cup more[p]
    BY <2>1 DEF TypeOK
  <2> QED BY <2>2 DEF LeftStays
<1>2. CASE mem.mode # "local"
  BY <1>2, Zenon DEF MergeSnapshot, LeftStays
<1> QED BY <1>1, <1>2

\* The user gives up what an edit or a rename takes away.
LEMMA LeftUserEdit ==
    ASSUME TypeOK, NEW p \in Paths, NEW content, UserEdit(p, content)
    PROVE  LeftStays /\ DiskGivenUp
<1>1. work' = [work EXCEPT ![p] = Worked(p, content, Exposed(p))]
      /\ disk' = [disk EXCEPT ![p] = content]
  BY DEF UserEdit
<1>2. Worked(p, content, Exposed(p)).left = work[p].left \cup {disk[p]}
  BY DEF Worked
<1>3. /\ \A q \in Paths : work'[q].left = IF q = p THEN work[p].left \cup {disk[p]} ELSE work[q].left
      /\ \A q \in Paths : q # p => disk'[q] = disk[q]
  BY <1>1, <1>2 DEF TypeOK
<1> QED BY <1>3 DEF LeftStays, DiskGivenUp

LEMMA LeftUserRename ==
    ASSUME TypeOK, NEW from \in Paths, NEW to \in Paths, UserRename(from, to)
    PROVE  LeftStays /\ DiskGivenUp
<1> DEFINE ws == Worked(from, Absent, FALSE)
           wt == Worked(to, disk[from], Exposed(from) \/ Exposed(to))
<1>1. /\ work' = [work EXCEPT ![to] = wt, ![from] = ws]
      /\ disk' = [disk EXCEPT ![to] = disk[from], ![from] = Absent]
      /\ disk[to] = Absent
  BY Zenon DEF UserRename
<1>2. ws.left = work[from].left \cup {disk[from]} /\ wt.left = work[to].left \cup {disk[to]}
  BY DEF Worked
<1> HIDE DEF ws, wt
<1>3. \A q \in Paths : work'[q].left = IF q = from THEN work[from].left \cup {disk[from]}
                                       ELSE IF q = to THEN work[to].left \cup {disk[to]}
                                       ELSE work[q].left
  BY <1>1, <1>2 DEF TypeOK
<1>4. \A q \in Paths : q \notin {from, to} => disk'[q] = disk[q]
  BY <1>1 DEF TypeOK
<1>5. LeftStays
  BY <1>3 DEF LeftStays
<1>6. disk[from] \in work'[from].left
  BY <1>3
<1> QED BY <1>1, <1>4, <1>5, <1>6 DEF DiskGivenUp

\* No step takes back what was given up.
LEMMA LeftStaysStep ==
    TypeOK /\ [Next]_vars => LeftStays
<1> SUFFICES ASSUME TypeOK, [Next]_vars PROVE LeftStays
  OBVIOUS
<1>1. CASE ResumeInbox
  <2> USE DEF TypeOK, LeftStays, fileVars, historyVars
  <2>1. CASE InboxInstalled
    BY <2>1 DEF InboxInstalled, Quiet, NoRequest, dataVars, CleanUp, serverVars
  <2>2. CASE InboxReady
    BY <2>2 DEF InboxReady, Quiet, NoRequest, dataVars, serverVars
  <2>3. CASE InboxLost
    BY <2>3 DEF InboxLost, Quiet, NoRequest, Persist, CleanUp, serverVars
  <2>4. CASE InboxDone
    BY <2>4 DEF InboxDone, Quiet, NoRequest, Goto, dataVars, serverVars
  <2> HIDE DEF TypeOK, LeftStays, fileVars, historyVars
  <2> QED BY <1>1, <2>1, <2>2, <2>3, <2>4 DEF ResumeInbox
<1>2. CASE ResumeOutbox
  <2> USE DEF TypeOK, LeftStays, fileVars, historyVars
  <2>1. CASE OutboxCommitted
    BY <2>1 DEF OutboxCommitted, Quiet, dataVars, serverVars, NoRequest
  <2>2. CASE OutboxResent
    BY <2>2 DEF OutboxResent, Quiet, NoRequest, dataVars, serverVars
  <2>3. CASE OutboxAbandoned
    BY <2>3 DEF OutboxAbandoned, Quiet, NoRequest, Persist, Discarded, Queued,
       dataVars, serverVars
  <2>4. CASE OutboxDone
    BY <2>4 DEF OutboxDone, Quiet, NoRequest, Goto, BeginRenames, dataVars,
       serverVars
  <2> HIDE DEF TypeOK, LeftStays, fileVars, historyVars
  <2> QED BY <1>2, <2>1, <2>2, <2>3, <2>4 DEF ResumeOutbox
<1>3. CASE Reconcile
  <2>1. CASE MergeSnapshot
    BY <2>1, LeftMergeSnapshot
  <2> USE DEF TypeOK, LeftStays, fileVars, historyVars
  <2>2. CASE ReadSnapshot
    BY <2>2 DEF ReadSnapshot, Quiet, NoRequest, dataVars, serverVars
  <2>3. CASE PreserveLocal
    BY <2>3 DEF PreserveLocal, Quiet, EndRun, dataVars, serverVars, IdleRun,
       NoRequest
  <2>4. CASE DiscardLocal
    BY <2>4 DEF DiscardLocal, Quiet, Return, EndRun, dataVars, serverVars, IdleRun,
       NoRequest
  <2>5. CASE PreserveDone
    BY <2>5 DEF PreserveDone, Quiet, NoRequest, Goto, dataVars, serverVars
  <2>6. CASE MergeDone
    BY <2>6 DEF MergeDone, Quiet, NoRequest, Persist, BeginRenames, dataVars,
       serverVars
  <2> HIDE DEF TypeOK, LeftStays, fileVars, historyVars
  <2> QED BY <1>3, <2>1, <2>2, <2>3, <2>4, <2>5, <2>6 DEF Reconcile
<1>4. CASE Renames
  <2> USE DEF TypeOK, LeftStays, fileVars, historyVars
  <2>1. CASE RenameSkipped
    BY <2>1 DEF RenameSkipped, Quiet, NoRequest, dataVars, serverVars
  <2>2. CASE RenameStaged
    BY <2>2 DEF RenameStaged, Quiet, Stage, dataVars, serverVars, Persist, NoRequest
  <2>3. CASE RenamesDone
    BY <2>3 DEF RenamesDone, Quiet, NoRequest, Goto, dataVars, serverVars
  <2> HIDE DEF TypeOK, LeftStays, fileVars, historyVars
  <2> QED BY <1>4, <2>1, <2>2, <2>3 DEF Renames
<1>5. CASE Push
  <2> USE DEF TypeOK, LeftStays, fileVars, historyVars
  <2>1. CASE PlanFull
    BY <2>1 DEF PlanFull, Plan, Quiet, NoRequest, dataVars, serverVars
  <2>2. CASE PlanQueued
    BY <2>2 DEF PlanQueued, Plan, Quiet, NoRequest, dataVars, serverVars
  <2>3. CASE PushDone
    BY <2>3 DEF PushDone, Quiet, NoRequest, Stage, dataVars, serverVars, Persist
  <2>4. CASE DeletesDone
    BY <2>4 DEF DeletesDone, Quiet, NoRequest, dataVars, serverVars
  <2>5. ASSUME NEW p \in Paths, ScanPath(p) PROVE LeftStays
    BY <2>5 DEF ScanPath, Quiet, NoRequest, dataVars, serverVars
  <2>6. ASSUME NEW p \in Paths, PushPath(p) PROVE LeftStays
    BY <2>6 DEF PushPath, Quiet, NoRequest, Stage, Queued, Unnoted, dataVars,
       serverVars, Persist
  <2>7. ASSUME NEW p \in Paths, DeletePath(p) PROVE LeftStays
    BY <2>7 DEF DeletePath, Quiet, Stage, dataVars, serverVars, Persist, NoRequest
  <2> HIDE DEF TypeOK, LeftStays, fileVars, historyVars
  <2> QED BY <1>5, <2>1, <2>2, <2>3, <2>4, <2>5, <2>6, <2>7 DEF Push
<1>6. CASE Answered
  <2> USE DEF TypeOK, LeftStays, fileVars, historyVars
  <2>1. CASE AnswerApplied
    BY <2>1 DEF AnswerApplied, Quiet, Goto, Return, Complete, Queued, serverVars,
       dataVars, NoRequest
  <2>2. CASE AnswerConflict
    BY <2>2 DEF AnswerConflict, Quiet, Persist, Discarded, serverVars, dataVars,
       NoRequest
  <2>3. CASE KeepRefused
    BY <2>3 DEF KeepRefused, Quiet, NoRequest, dataVars, serverVars
  <2>4. CASE AnswerMoved
    BY <2>4 DEF AnswerMoved, Quiet, Goto, Complete, serverVars, dataVars, NoRequest
  <2>5. CASE AnswerMoveConflict
    BY <2>5 DEF AnswerMoveConflict, Quiet, Goto, Return, Discarded, Queued,
       serverVars, dataVars, NoRequest
  <2>6. CASE AnswerBatch
    BY <2>6 DEF AnswerBatch, Quiet, Complete, serverVars, dataVars, NoRequest
  <2>7. CASE AnswerBatchConflict
    BY <2>7 DEF AnswerBatchConflict, Quiet, Persist, Discarded, Queued, serverVars,
       dataVars, NoRequest
  <2> HIDE DEF TypeOK, LeftStays, fileVars, historyVars
  <2> QED BY <1>6, <2>1, <2>2, <2>3, <2>4, <2>5, <2>6, <2>7 DEF Answered
<1>7. CASE Apply
  <2> USE DEF TypeOK, LeftStays, fileVars, historyVars
  <2>1. CASE ApplyRemoteChange
    BY <2>1 DEF ApplyRemoteChange, Quiet, NoRequest, Goto, Return, StageDownload,
       dataVars, Persist, serverVars
  <2>2. CASE RemoveLocal
    BY <2>2 DEF RemoveLocal, Quiet, Return, EndRun, serverVars, IdleRun, NoRequest
  <2>3. CASE Download
    BY <2>3 DEF Download, Quiet, NoRequest, Goto, serverVars
  <2>4. CASE SetAside
    BY <2>4 DEF SetAside, Quiet, NoRequest, Goto, serverVars
  <2>5. CASE SwapIn
    BY <2>5 DEF SwapIn, Quiet, Goto, EndRun, dataVars, serverVars, IdleRun,
       NoRequest
  <2>6. CASE VerifyInstalled
    BY <2>6 DEF VerifyInstalled, Quiet, Goto, EndRun, dataVars, serverVars, IdleRun,
       NoRequest
  <2>7. CASE FinishDownload
    BY <2>7 DEF FinishDownload, Quiet, NoRequest, Goto, dataVars, serverVars
  <2>8. CASE Save
    BY <2>8 DEF Save, Quiet, NoRequest, Return, dataVars, serverVars
  <2> HIDE DEF TypeOK, LeftStays, fileVars, historyVars
  <2> QED BY <1>7, <2>1, <2>2, <2>3, <2>4, <2>5, <2>6, <2>7, <2>8 DEF Apply
<1>8. CASE Pull
  <2> USE DEF TypeOK, LeftStays, fileVars, historyVars
  <2>1. CASE PullPage
    BY <2>1 DEF PullPage, Quiet, NoRequest, dataVars, serverVars
  <2>2. CASE PageChange
    BY <2>2 DEF PageChange, Quiet, NoRequest, dataVars, serverVars
  <2>3. CASE PageDone
    BY <2>3 DEF PageDone, Quiet, NoRequest, Persist, dataVars, serverVars
  <2>4. CASE Finish
    BY <2>4 DEF Finish, Quiet, NoRequest, Persist, Goto, dataVars, serverVars
  <2>5. CASE AckCursor
    BY <2>5 DEF AckCursor, Quiet, Goto, Acknowledge, dataVars, serverVars, NoRequest
  <2>6. CASE CompleteRun
    BY <2>6 DEF CompleteRun, Quiet, EndRun, serverVars, dataVars, IdleRun, NoRequest
  <2> HIDE DEF TypeOK, LeftStays, fileVars, historyVars
  <2> QED BY <1>8, <2>1, <2>2, <2>3, <2>4, <2>5, <2>6 DEF Pull
<1>9. ASSUME NEW p \in Paths, NEW content \in UserContents \cup {Absent},
   UserEdit(p, content) PROVE LeftStays
  BY <1>9, LeftUserEdit DEF UserEdit
<1>10. ASSUME NEW from \in Paths, NEW to \in Paths, UserRename(from, to) PROVE
   LeftStays
  BY <1>10, LeftUserRename DEF UserRename
<1>11. CASE StartRun
  BY <1>11 DEF StartRun, TypeOK, LeftStays, fileVars, historyVars, Quiet, NoRequest,
     Goto, dataVars, serverVars
<1>12. CASE Send
  BY <1>12 DEF Send, TypeOK, LeftStays, fileVars, historyVars, Quiet, Goto,
     dataVars, serverVars, NoRequest
<1>13. CASE ServerMoves
  BY <1>13 DEF ServerMoves, TypeOK, LeftStays, fileVars, historyVars, Spend,
     dataVars, serverVars
<1>14. CASE SaveEvents
  BY <1>14 DEF SaveEvents, TypeOK, LeftStays, fileVars, historyVars, Quiet,
     NoRequest, dataVars, serverVars
<1>15. CASE RunFails
  BY <1>15 DEF RunFails, TypeOK, LeftStays, fileVars, historyVars, EndRun, Spend,
     serverVars, IdleRun
<1>16. CASE Crash
  BY <1>16 DEF Crash, TypeOK, LeftStays, fileVars, historyVars, IdleRun, Spend,
     serverVars, dataVars
<1>17. CASE Restart
  BY <1>17 DEF Restart, TypeOK, LeftStays, fileVars, historyVars, NoRequest,
     dataVars, serverVars
<1>18. CASE UNCHANGED vars
  BY <1>18 DEF TypeOK, LeftStays, fileVars, historyVars, vars, serverVars, dataVars
<1> QED BY <1>1, <1>2, <1>3, <1>4, <1>5, <1>6, <1>7, <1>8, <1>9, <1>10, <1>11, <1>12,
         <1>13, <1>14, <1>15, <1>16, <1>17, <1>18 DEF Next, Engine, User

\* Where a run puts a backup back, there was no file.
LEMMA DiskRestored ==
    ASSUME disk \in [Paths -> Content], NEW p, disk' = Restored(p)
    PROVE  DiskGivenUp
BY DEF Restored, DiskGivenUp

\* Only where the engine removes or replaces a file it goes without that.
LEMMA DiskGivenUpStep ==
    disk \in [Paths -> Content] /\ TypeOK /\ [Next]_vars => Takes \/ DiskGivenUp
<1> SUFFICES ASSUME disk \in [Paths -> Content], TypeOK, [Next]_vars PROVE Takes \/
   DiskGivenUp
  OBVIOUS
<1>1. CASE ResumeInbox
  <2>1. CASE InboxLost
    BY <2>1, DiskRestored DEF InboxLost
  <2> USE DEF DiskGivenUp, fileVars
  <2>2. CASE InboxInstalled
    BY <2>2 DEF InboxInstalled, Quiet, NoRequest, dataVars, CleanUp, serverVars,
       historyVars
  <2>3. CASE InboxReady
    BY <2>3 DEF InboxReady, Quiet, NoRequest, dataVars, serverVars, historyVars
  <2>4. CASE InboxDone
    BY <2>4 DEF InboxDone, Quiet, NoRequest, Goto, dataVars, serverVars, historyVars
  <2> HIDE DEF DiskGivenUp, fileVars
  <2> QED BY <1>1, <2>1, <2>2, <2>3, <2>4 DEF ResumeInbox
<1>2. CASE ResumeOutbox
  <2> USE DEF DiskGivenUp, fileVars
  <2>1. CASE OutboxCommitted
    BY <2>1 DEF OutboxCommitted, Quiet, dataVars, serverVars, historyVars, NoRequest
  <2>2. CASE OutboxResent
    BY <2>2 DEF OutboxResent, Quiet, NoRequest, dataVars, serverVars, historyVars
  <2>3. CASE OutboxAbandoned
    BY <2>3 DEF OutboxAbandoned, Quiet, NoRequest, Persist, Discarded, Queued,
       dataVars, serverVars, historyVars
  <2>4. CASE OutboxDone
    BY <2>4 DEF OutboxDone, Quiet, NoRequest, Goto, BeginRenames, dataVars,
       serverVars, historyVars
  <2> HIDE DEF DiskGivenUp, fileVars
  <2> QED BY <1>2, <2>1, <2>2, <2>3, <2>4 DEF ResumeOutbox
<1>3. CASE Reconcile
  <2>1. CASE DiscardLocal
    BY <2>1, Zenon DEF Takes
  <2> USE DEF DiskGivenUp, fileVars
  <2>2. CASE ReadSnapshot
    BY <2>2 DEF ReadSnapshot, Quiet, NoRequest, dataVars, serverVars, historyVars
  <2>3. CASE PreserveLocal
    BY <2>3 DEF PreserveLocal, Quiet, EndRun, dataVars, serverVars, IdleRun,
       NoRequest, historyVars
  <2>4. CASE PreserveDone
    BY <2>4 DEF PreserveDone, Quiet, NoRequest, Goto, dataVars, serverVars,
       historyVars
  <2>5. CASE MergeSnapshot
    BY <2>5 DEF MergeSnapshot, NoRequest, dataVars, serverVars, historyVars
  <2>6. CASE MergeDone
    BY <2>6 DEF MergeDone, Quiet, NoRequest, Persist, BeginRenames, dataVars,
       serverVars, historyVars
  <2> HIDE DEF DiskGivenUp, fileVars
  <2> QED BY <1>3, <2>1, <2>2, <2>3, <2>4, <2>5, <2>6 DEF Reconcile
<1>4. CASE Renames
  <2> USE DEF DiskGivenUp, fileVars
  <2>1. CASE RenameSkipped
    BY <2>1 DEF RenameSkipped, Quiet, NoRequest, dataVars, serverVars, historyVars
  <2>2. CASE RenameStaged
    BY <2>2 DEF RenameStaged, Quiet, Stage, dataVars, serverVars, historyVars,
       Persist, NoRequest
  <2>3. CASE RenamesDone
    BY <2>3 DEF RenamesDone, Quiet, NoRequest, Goto, dataVars, serverVars,
       historyVars
  <2> HIDE DEF DiskGivenUp, fileVars
  <2> QED BY <1>4, <2>1, <2>2, <2>3 DEF Renames
<1>5. CASE Push
  <2> USE DEF DiskGivenUp, fileVars
  <2>1. CASE PlanFull
    BY <2>1 DEF PlanFull, Plan, Quiet, NoRequest, dataVars, serverVars, historyVars
  <2>2. CASE PlanQueued
    BY <2>2 DEF PlanQueued, Plan, Quiet, NoRequest, dataVars, serverVars,
       historyVars
  <2>3. CASE PushDone
    BY <2>3 DEF PushDone, Quiet, NoRequest, Stage, dataVars, serverVars,
       historyVars, Persist
  <2>4. CASE DeletesDone
    BY <2>4 DEF DeletesDone, Quiet, NoRequest, dataVars, serverVars, historyVars
  <2>5. ASSUME NEW p \in Paths, ScanPath(p) PROVE Takes \/ DiskGivenUp
    BY <2>5 DEF ScanPath, Quiet, NoRequest, dataVars, serverVars, historyVars
  <2>6. ASSUME NEW p \in Paths, PushPath(p) PROVE Takes \/ DiskGivenUp
    BY <2>6 DEF PushPath, Quiet, NoRequest, Stage, Queued, Unnoted, dataVars,
       serverVars, historyVars, Persist
  <2>7. ASSUME NEW p \in Paths, DeletePath(p) PROVE Takes \/ DiskGivenUp
    BY <2>7 DEF DeletePath, Quiet, Stage, dataVars, serverVars, historyVars,
       Persist, NoRequest
  <2> HIDE DEF DiskGivenUp, fileVars
  <2> QED BY <1>5, <2>1, <2>2, <2>3, <2>4, <2>5, <2>6, <2>7 DEF Push
<1>6. CASE Answered
  <2> USE DEF DiskGivenUp, fileVars
  <2>1. CASE AnswerApplied
    BY <2>1 DEF AnswerApplied, Quiet, Goto, Return, Complete, Queued, serverVars,
       dataVars, historyVars, NoRequest
  <2>2. CASE AnswerConflict
    BY <2>2 DEF AnswerConflict, Quiet, Persist, Discarded, serverVars, dataVars,
       historyVars, NoRequest
  <2>3. CASE KeepRefused
    BY <2>3 DEF KeepRefused, Quiet, NoRequest, dataVars, serverVars, historyVars
  <2>4. CASE AnswerMoved
    BY <2>4 DEF AnswerMoved, Quiet, Goto, Complete, serverVars, dataVars,
       historyVars, NoRequest
  <2>5. CASE AnswerMoveConflict
    BY <2>5 DEF AnswerMoveConflict, Quiet, Goto, Return, Discarded, Queued,
       serverVars, dataVars, historyVars, NoRequest
  <2>6. CASE AnswerBatch
    BY <2>6 DEF AnswerBatch, Quiet, Complete, serverVars, dataVars, historyVars,
       NoRequest
  <2>7. CASE AnswerBatchConflict
    BY <2>7 DEF AnswerBatchConflict, Quiet, Persist, Discarded, Queued, serverVars,
       dataVars, historyVars, NoRequest
  <2> HIDE DEF DiskGivenUp, fileVars
  <2> QED BY <1>6, <2>1, <2>2, <2>3, <2>4, <2>5, <2>6, <2>7 DEF Answered
<1>7. CASE Apply
  <2>1. CASE RemoveLocal
    BY <2>1, Zenon DEF Takes
  <2>2. CASE SetAside
    BY <2>2, Zenon DEF Takes
  <2>3. CASE SwapIn
    BY <2>3, Zenon DEF Takes
  <2>4. CASE VerifyInstalled
    BY <2>4, Zenon DEF Takes
  <2> USE DEF DiskGivenUp, fileVars
  <2>5. CASE ApplyRemoteChange
    BY <2>5 DEF ApplyRemoteChange, Quiet, NoRequest, Goto, Return, StageDownload,
       dataVars, Persist, serverVars, historyVars
  <2>6. CASE Download
    BY <2>6 DEF Download, Quiet, NoRequest, Goto, serverVars, historyVars
  <2>7. CASE FinishDownload
    BY <2>7 DEF FinishDownload, Quiet, NoRequest, Goto, dataVars, serverVars,
       historyVars
  <2>8. CASE Save
    BY <2>8 DEF Save, Quiet, NoRequest, Return, dataVars, serverVars, historyVars
  <2> HIDE DEF DiskGivenUp, fileVars
  <2> QED BY <1>7, <2>1, <2>2, <2>3, <2>4, <2>5, <2>6, <2>7, <2>8 DEF Apply
<1>8. CASE Pull
  <2> USE DEF DiskGivenUp, fileVars
  <2>1. CASE PullPage
    BY <2>1 DEF PullPage, Quiet, NoRequest, dataVars, serverVars, historyVars
  <2>2. CASE PageChange
    BY <2>2 DEF PageChange, Quiet, NoRequest, dataVars, serverVars, historyVars
  <2>3. CASE PageDone
    BY <2>3 DEF PageDone, Quiet, NoRequest, Persist, dataVars, serverVars,
       historyVars
  <2>4. CASE Finish
    BY <2>4 DEF Finish, Quiet, NoRequest, Persist, Goto, dataVars, serverVars,
       historyVars
  <2>5. CASE AckCursor
    BY <2>5 DEF AckCursor, Quiet, Goto, Acknowledge, dataVars, serverVars,
       historyVars, NoRequest
  <2>6. CASE CompleteRun
    BY <2>6 DEF CompleteRun, Quiet, EndRun, serverVars, dataVars, historyVars,
       IdleRun, NoRequest
  <2> HIDE DEF DiskGivenUp, fileVars
  <2> QED BY <1>8, <2>1, <2>2, <2>3, <2>4, <2>5, <2>6 DEF Pull
<1>9. ASSUME NEW p \in Paths, NEW content \in UserContents \cup {Absent},
   UserEdit(p, content) PROVE Takes \/ DiskGivenUp
  BY <1>9, LeftUserEdit DEF UserEdit
<1>10. ASSUME NEW from \in Paths, NEW to \in Paths, UserRename(from, to) PROVE Takes
   \/ DiskGivenUp
  BY <1>10, LeftUserRename DEF UserRename
<1>11. CASE StartRun
  BY <1>11 DEF StartRun, DiskGivenUp, fileVars, Quiet, NoRequest, Goto, dataVars,
     serverVars, historyVars
<1>12. CASE Send
  BY <1>12 DEF Send, DiskGivenUp, fileVars, Quiet, Goto, dataVars, serverVars,
     historyVars, NoRequest
<1>13. CASE ServerMoves
  BY <1>13 DEF ServerMoves, DiskGivenUp, fileVars, Spend, dataVars, serverVars,
     historyVars
<1>14. CASE SaveEvents
  BY <1>14 DEF SaveEvents, DiskGivenUp, fileVars, Quiet, NoRequest, dataVars,
     serverVars, historyVars
<1>15. CASE RunFails
  BY <1>15, DiskRestored DEF RunFails, DiskGivenUp
<1>16. CASE Crash
  BY <1>16 DEF Crash, DiskGivenUp, fileVars, IdleRun, Spend, serverVars, dataVars,
     historyVars
<1>17. CASE Restart
  BY <1>17 DEF Restart, DiskGivenUp, fileVars, NoRequest, dataVars, historyVars,
     serverVars
<1>18. CASE UNCHANGED vars
  BY <1>18 DEF DiskGivenUp, fileVars, vars, serverVars, dataVars, historyVars
<1> QED BY <1>1, <1>2, <1>3, <1>4, <1>5, <1>6, <1>7, <1>8, <1>9, <1>10, <1>11, <1>12,
         <1>13, <1>14, <1>15, <1>16, <1>17, <1>18 DEF Next, Engine, User

\* What the user knows of a path stays known, and given up.
KnownStays == \A p \in Paths : \A c : Known(p, c) => Known(p, c)'
GivenUpStays == \A p \in Paths : \A c : GivenUp(p, c) => GivenUp(p, c)'

LEMMA GivenUpKept == LeftStays => GivenUpStays
BY DEF LeftStays, GivenUpStays, GivenUp

LEMMA KnownKept == LeftStays /\ DiskGivenUp => KnownStays
BY ServerAssumption DEF LeftStays, DiskGivenUp, KnownStays, Known

\* What is recorded does not become a row again.
RowsStay ==
    \A p \in Paths : \A s : s = Untracked \/ Genuine(p, s) => (IsRow(p, s)' => IsRow(p, s))

LEMMA RowsStayStep == log \in Seq(Entry) /\ RowsMove => RowsStay
<1> SUFFICES ASSUME log \in Seq(Entry), RowsMove, NEW p \in Paths, NEW s,
                    s = Untracked \/ Genuine(p, s), s.content \in Contents,
                    head'[p].rev = s.rev
             PROVE  head[p].rev = s.rev
  BY DEF RowsStay, IsRow
<1>1. s # Untracked /\ s # NoRow
  BY ServerAssumption, EngineAssumption DEF Untracked, NoRow, Content
<1>2. s.rev \in 1..Len(log) /\ Len(log) \in Nat
  BY <1>1 DEF Genuine, RowsMove
<1>3. \/ head'[p].rev = head[p].rev
      \/ head'[p].rev = 0
      \/ head'[p].rev > Len(log)
  BY DEF RowsMove, NoRow
<1> QED BY <1>2, <1>3

\* A record that is the current row has its content.
LEMMA RowContent ==
    ASSUME Base, RowsSound, NEW p \in Paths, NEW s, s = Untracked \/ Genuine(p, s),
           head[p].rev = s.rev, head[p].content \in Contents
    PROVE  IsRow(p, s) /\ s.content = head[p].content /\ s.rev \in 1..Len(log)
<1>1. Genuine(p, head[p]) /\ head[p] # NoRow
  BY ServerAssumption DEF RowsSound, NoRow
<1>2. head[p].rev \in DOMAIN log /\ log[head[p].rev].content = head[p].content
      /\ DOMAIN log = 1..Len(log)
  BY <1>1 DEF Genuine, Base, TypeOK
<1>3. s # Untracked /\ s # NoRow
  BY <1>2 DEF Untracked, NoRow, Base, TypeOK
<1> QED BY <1>2, <1>3 DEF Genuine, IsRow

\* What every step does.
Onward == RowsMove /\ RowsStay /\ GivenUpStays

LEMMA OnwardStep == TypeInv /\ [Next]_vars => Onward
<1> SUFFICES ASSUME TypeInv, [Next]_vars PROVE Onward
  OBVIOUS
<1>1. TypeOK
  BY HasBase DEF Base
<1>2. RowsMove /\ LeftStays
  BY <1>1, RowsMoveStep, LeftStaysStep
<1> QED BY <1>1, <1>2, RowsStayStep, GivenUpKept DEF Onward, TypeOK
-----------------------------------------------------------------------------
(* The files that are recorded are known to the user.                      *)

\* A step that records nothing, and may save what is in memory.
LEMMA FilesKept ==
    ASSUME RecordsSound, Onward, KnownStays, FilesKnown,
           mem'.files = mem.files, saved'.files \in {mem.files, saved.files}
    PROVE  FilesKnown'
<1> SUFFICES ASSUME NEW p \in Paths
             PROVE  /\ Current(mem, p)' => Known(p, mem.files[p].content)'
                    /\ Current(saved, p)' => saved'.files[p] = mem'.files[p]
  BY DEF FilesKnown
<1>1. /\ mem.files[p] = Untracked \/ Genuine(p, mem.files[p])
      /\ saved.files[p] = Untracked \/ Genuine(p, saved.files[p])
  BY DEF RecordsSound, DataSound, FilesSound
<1>2. /\ IsRow(p, mem.files[p])' /\ mem'.files = mem.files => Current(mem, p)
      /\ Current(saved, p)' /\ saved'.files = saved.files => Current(saved, p)
  BY <1>1 DEF Onward, RowsStay, IsRow, Current
<1>3. Current(mem, p)' => Known(p, mem.files[p].content)'
  BY <1>2 DEF FilesKnown, KnownStays, Current, IsRow, Known
<1> QED BY <1>2, <1>3 DEF FilesKnown

\* A crash, after which the data are those on disk.
LEMMA FilesCrash ==
    ASSUME RecordsSound, Onward, KnownStays, FilesKnown, mem' = saved, saved' = saved
    PROVE  FilesKnown'
<1> SUFFICES ASSUME NEW p \in Paths, Current(mem, p)'
             PROVE  Known(p, mem.files[p].content)'
  BY DEF FilesKnown
<1>1. saved.files[p] = Untracked \/ Genuine(p, saved.files[p])
  BY DEF RecordsSound, DataSound, FilesSound
<1>2. Current(saved, p)
  BY <1>1 DEF Onward, RowsStay, IsRow, Current
<1>3. saved.files[p] = mem.files[p] /\ Current(mem, p)
  BY <1>2 DEF FilesKnown, Current
<1> QED BY <1>3 DEF FilesKnown, KnownStays, Known

\* A step that records versions the user knows, and saves them or records them
\* over what was not the current row.
LEMMA FilesRecorded ==
    ASSUME RecordsSound, Onward, KnownStays, FilesKnown,
           NEW vs, mem'.files = Recorded(vs),
           \A v \in vs : v.path \in Paths /\ Known(v.path, v.content)',
           \/ saved'.files = mem'.files
           \/ saved'.files = saved.files /\ \A v \in vs : ~Current(mem, v.path)
    PROVE  FilesKnown'
<1> SUFFICES ASSUME NEW p \in Paths
             PROVE  /\ Current(mem, p)' => Known(p, mem.files[p].content)'
                    /\ Current(saved, p)' => saved'.files[p] = mem'.files[p]
  BY DEF FilesKnown
<1>1. /\ mem.files[p] = Untracked \/ Genuine(p, mem.files[p])
      /\ saved.files[p] = Untracked \/ Genuine(p, saved.files[p])
  BY DEF RecordsSound, DataSound, FilesSound
<1>2. /\ IsRow(p, mem.files[p])' /\ mem'.files[p] = mem.files[p] => Current(mem, p)
      /\ Current(saved, p)' /\ saved'.files = saved.files => Current(saved, p)
  BY <1>1 DEF Onward, RowsStay, IsRow, Current
<1>3. CASE \E v \in vs : v.path = p
  <2> DEFINE v == CHOOSE v \in vs : v.path = p
  <2>1. v \in vs /\ v.path = p
    BY <1>3
  <2>2. mem'.files[p] = [rev |-> v.rev, content |-> v.content]
    BY <1>3 DEF Recorded
  <2> HIDE DEF v
  <2>3. Known(p, mem.files[p].content)'
    BY <2>1, <2>2 DEF Known
  <2>4. Current(saved, p)' => saved'.files[p] = mem'.files[p]
    BY <1>2, <2>1 DEF FilesKnown, Current
  <2> QED BY <2>3, <2>4
<1>4. CASE ~\E v \in vs : v.path = p
  <2>1. mem'.files[p] = mem.files[p]
    BY <1>4 DEF Recorded
  <2>2. Current(mem, p)' => Known(p, mem.files[p].content)'
    BY <1>2, <2>1 DEF FilesKnown, KnownStays, Current, IsRow, Known
  <2> QED BY <1>2, <2>1, <2>2 DEF FilesKnown
<1> QED BY <1>3, <1>4

\* A step that takes away a file which is not the current row.
LEMMA FilesTaken ==
    ASSUME RecordsSound, Onward, FilesKnown, NEW d,
           UNCHANGED work,
           \A p \in Paths : p # d => disk'[p] = disk[p] /\ mem'.files[p] = mem.files[p],
           ~Current(mem, d), mem'.files[d] = mem.files[d] \/ mem'.files[d].content = Absent,
           saved'.files \in {mem'.files, saved.files}
    PROVE  FilesKnown'
<1> SUFFICES ASSUME NEW p \in Paths
             PROVE  /\ Current(mem, p)' => Known(p, mem.files[p].content)'
                    /\ Current(saved, p)' => saved'.files[p] = mem'.files[p]
  BY DEF FilesKnown
<1>1. /\ mem.files[p] = Untracked \/ Genuine(p, mem.files[p])
      /\ saved.files[p] = Untracked \/ Genuine(p, saved.files[p])
  BY DEF RecordsSound, DataSound, FilesSound
<1>2. /\ IsRow(p, mem.files[p])' /\ mem'.files[p] = mem.files[p] => Current(mem, p)
      /\ Current(saved, p)' /\ saved'.files = saved.files => Current(saved, p)
  BY <1>1 DEF Onward, RowsStay, IsRow, Current
<1>3. Current(mem, p)' => p # d
  BY <1>2, ServerAssumption DEF Current, IsRow
<1>4. Current(mem, p)' => Known(p, mem.files[p].content)'
  BY <1>2, <1>3 DEF FilesKnown, Current, IsRow, Known
<1>5. Current(saved, p) => saved.files[p] = mem.files[p] /\ Current(mem, p)
  BY DEF FilesKnown, Current
<1>6. Current(saved, p)' => saved'.files[p] = mem'.files[p]
  BY <1>2, <1>5
<1> QED BY <1>4, <1>6

\* A version that is newer than what is recorded is not the recorded one.
LEMMA NewerIsNotCurrent ==
    ASSUME Base, FilesSound(mem), RowsSound, NEW r \in DOMAIN log,
           ~(Tracked(log[r].path) /\ mem.files[log[r].path].rev >= r)
    PROVE  log[r].path \in Paths /\ ~Current(mem, log[r].path)
<1> DEFINE p == log[r].path
<1>1. log \in Seq(Entry) /\ r \in 1..Len(log) /\ Len(log) \in Nat /\ head \in [Paths -> Row]
  BY DEF Base, TypeOK
<1>2. p \in Paths
  <2>1. log[r] \in Entry
    BY <1>1
  <2> QED BY <2>1 DEF Entry
<1>3. SUFFICES ASSUME Current(mem, p) PROVE FALSE
  BY <1>2
<1>4. mem.files[p].content # Unknown /\ mem.files[p].content # Absent
  BY <1>3, ServerAssumption, EngineAssumption DEF Current, IsRow, Content
<1>5. Tracked(p) /\ Genuine(p, mem.files[p]) /\ mem.files[p] # NoRow
  BY <1>2, <1>4 DEF FilesSound, Tracked, Untracked, NoRow
<1>6. head[p].rev \in DOMAIN log
  BY <1>3, <1>5 DEF Genuine, Current, IsRow
<1>7. Covers(head[p], r) /\ head[p] # NoRow
  BY <1>1, <1>2, <1>6 DEF RowsSound, NoRow
<1>8. r <= head[p].rev
  BY <1>7 DEF Covers
<1> QED BY <1>1, <1>3, <1>5, <1>6, <1>8 DEF Current, IsRow

\* RemoveLocal, the installation of a download and DiscardLocal take away files
\* that are not current rows.
LEMMA FilesRemoveLocal ==
    ASSUME Base, RecordsSound, Onward, FilesKnown, InHandBoxed, InHandNew, RemoveLocal
    PROVE  FilesKnown'
<1> DEFINE d == run.change.path
<1>1. /\ ~Current(mem, d) /\ run.change.content = Absent /\ work' = work
      /\ HasFields(mem, DataFields)
  BY DEF RemoveLocal, InHandBoxed, InHandNew, Quiet, historyVars, Base, Fields
<1>2. CASE disk[d] = Absent
  <2>1. disk' = disk /\ mem' = mem /\ saved' = mem
    BY <1>2 DEF RemoveLocal, EndRun
  <2> QED BY <1>1, <2>1, FilesTaken
<1>3. CASE disk[d] # Absent
  <2>1. /\ disk' = [disk EXCEPT ![d] = Absent] /\ saved' = saved
        /\ mem' = [mem EXCEPT !.files = Recorded({run.change})]
    BY <1>3 DEF RemoveLocal
  <2>2. mem'.files = Recorded({run.change})
    BY <1>1, <2>1 DEF HasFields, DataFields
  <2>3. \A p \in Paths : p # d => disk'[p] = disk[p] /\ mem'.files[p] = mem.files[p]
    BY <2>1, <2>2 DEF Recorded, Base, TypeOK
  <2>4. mem'.files[d] = mem.files[d] \/ mem'.files[d].content = Absent
    <3>1. CASE d \in Paths
      <4>1. mem'.files[d].content = Absent
        <5>1. \A v \in {run.change} : v.content = Absent
          BY <1>1
        <5>2. \E v \in {run.change} : v.path = d
          OBVIOUS
        <5> HIDE DEF d
        <5>3. PICK v \in {run.change} : mem'.files[d] = [rev |-> v.rev, content |-> v.content]
          BY <2>2, <3>1, <5>2 DEF Recorded
        <5> QED BY <5>1, <5>3
      <4> QED BY <4>1
    <3>2. CASE d \notin Paths
      BY <3>2 DEF RemoveLocal, Base, Ready, ChangeReady, Applying, Version
    <3> QED BY <3>1, <3>2
  <2> QED BY <1>1, <2>1, <2>3, <2>4, FilesTaken
<1> QED BY <1>2, <1>3

LEMMA FilesInstalled ==
    ASSUME Base, RecordsSound, Onward, FilesKnown, InHandNew, SetAside \/ SwapIn \/ VerifyInstalled
    PROVE  FilesKnown'
<1> DEFINE d == run.change.path
<1>1. /\ ~Current(mem, d) /\ work' = work
      /\ mem' = mem /\ saved' \in {mem, saved}
  BY DEF SetAside, SwapIn, VerifyInstalled, InHandNew, Quiet, historyVars, EndRun, dataVars
<1>2. \A p \in Paths : p # d => disk'[p] = disk[p]
  BY DEF SetAside, SwapIn, VerifyInstalled, Base, TypeOK
<1> QED BY <1>1, <1>2, FilesTaken

LEMMA FilesDiscardLocal ==
    ASSUME Base, RecordsSound, Onward, FilesKnown, LocalOnly, DiscardLocal
    PROVE  FilesKnown'
<1> DEFINE d == run.change.path
<1>1. /\ ~Current(mem, d) /\ work' = work
      /\ mem' = mem /\ saved' \in {mem, saved}
  BY DEF DiscardLocal, LocalOnly, Base, Calls, Quiet, historyVars, EndRun, dataVars
<1>2. \A p \in Paths : p # d => disk'[p] = disk[p]
  BY DEF DiscardLocal, Base, TypeOK
<1> QED BY <1>1, <1>2, FilesTaken

\* ApplyRemoteChange records a version that is on disk.
LEMMA FilesApplyRemoteChange ==
    ASSUME Base, RecordsSound, Onward, KnownStays, FilesKnown, InHandNew, ApplyRemoteChange
    PROVE  FilesKnown'
<1> DEFINE v == run.change
<1>1. ~Current(mem, v.path) /\ v.path \in Paths /\ disk' = disk /\ HasFields(mem, DataFields)
  BY DEF ApplyRemoteChange, InHandNew, Base, Fields, Ready, ChangeReady, Applying, Version
<1>2. CASE mem' = [mem EXCEPT !.files = Recorded({v})] /\ saved' = saved /\ disk[v.path] = v.content
  <2>1. mem'.files = Recorded({v})
    BY <1>1, <1>2 DEF HasFields, DataFields
  <2>2. \A w \in {v} : w.path \in Paths /\ Known(w.path, w.content)' /\ ~Current(mem, w.path)
    BY <1>1, <1>2 DEF Known
  <2>3. saved'.files = saved.files
    BY <1>2
  <2> HIDE DEF v
  <2> QED BY <2>1, <2>2, <2>3, FilesRecorded
<1>3. CASE mem'.files = mem.files /\ saved'.files \in {mem.files, saved.files}
  BY <1>3, FilesKept
<1>4. \/ mem' = [mem EXCEPT !.files = Recorded({v})] /\ saved' = saved /\ disk[v.path] = v.content
      \/ UNCHANGED dataVars
      \/ StageDownload(v)
  BY Zenon DEF ApplyRemoteChange
<1>5. UNCHANGED dataVars \/ StageDownload(v) =>
        mem'.files = mem.files /\ saved'.files \in {mem.files, saved.files}
  BY <1>1 DEF HasFields, DataFields, dataVars, StageDownload, Persist
<1> QED BY <1>2, <1>3, <1>4, <1>5

\* FinishDownload records the one that was installed.
LEMMA FilesFinishDownload ==
    ASSUME Base, RecordsSound, Onward, KnownStays, FilesKnown, InHandKnown, FinishDownload
    PROVE  FilesKnown'
<1> DEFINE v == run.change
<1>1. v.path \in Paths /\ Known(v.path, v.content) /\ UNCHANGED <<disk, work>>
      /\ HasFields(mem, DataFields)
  BY DEF FinishDownload, InHandKnown, Base, Fields, Ready, ChangeReady, Applying, Installing, Version,
     fileVars, Quiet, historyVars
<1>2. mem'.files = Recorded({v}) /\ saved'.files = mem'.files
  BY <1>1 DEF FinishDownload, HasFields, DataFields
<1>3. \A w \in {v} : w.path \in Paths /\ Known(w.path, w.content)'
  BY <1>1 DEF Known
<1> HIDE DEF v
<1> QED BY <1>2, <1>3, FilesRecorded

\* An answer records the result that is kept for the operation.
LEMMA FilesAnswered ==
    ASSUME Base, RecordsSound, Onward, KnownStays, Boxes, FilesKnown, OutboxKnown(mem),
           AnswerApplied \/ AnswerMoved \/ AnswerBatch
    PROVE  FilesKnown'
<1>1. /\ pc = "answer" /\ reply.kind = "ok" /\ mem.outbox # NoOperation
      /\ reply = answers[mem.outbox.id] /\ HasFields(mem, DataFields)
  BY DEF AnswerApplied, AnswerMoved, AnswerBatch, Boxes, Base, Fields
<1>2. \A v \in reply.versions : v.path \in Paths /\ Known(v.path, v.content)
  <2>1. reply.versions \in SUBSET Version
    BY <1>1 DEF Base, TypeOK, Reply, NoReply
  <2> QED BY <1>1, <2>1 DEF OutboxKnown, Version
<1>3. \A v \in reply.versions : v.path \in Paths /\ Known(v.path, v.content)'
  BY <1>2 DEF KnownStays
<1>4. mem'.files = Recorded(reply.versions) /\ saved'.files = mem'.files
  <2>1. PICK data : Complete(data) /\ data.files = Recorded(reply.versions) /\ HasFields(data, DataFields)
    <3>1. CASE AnswerApplied /\ Recovering
      <4> DEFINE e == [mem EXCEPT !.files = Recorded(reply.versions),
                                  !.pending = Queued({mem.outbox.request.path})]
      <4>1. Complete(e)
        BY <3>1, Zenon DEF AnswerApplied
      <4>2. e.files = Recorded(reply.versions) /\ HasFields(e, DataFields)
        BY <1>1 DEF HasFields, DataFields
      <4> HIDE DEF e
      <4> QED BY <4>1, <4>2
    <3>2. CASE (AnswerApplied /\ ~Recovering) \/ AnswerBatch
      <4> DEFINE e == [mem EXCEPT !.files = Recorded(reply.versions)]
      <4>1. Complete(e)
        BY <3>2, Zenon DEF AnswerApplied, AnswerBatch
      <4>2. e.files = Recorded(reply.versions) /\ HasFields(e, DataFields)
        BY <1>1 DEF HasFields, DataFields
      <4> HIDE DEF e
      <4> QED BY <4>1, <4>2
    <3>3. CASE AnswerMoved
      <4> DEFINE queue == IF Recovering THEN mem.renames ELSE Tail(mem.renames)
                 e == [mem EXCEPT !.files = Recorded(reply.versions),
                         !.pending = @ \ {mem.outbox.request.from, mem.outbox.request.path},
                         !.renames = queue]
      <4>1. Complete(e)
        BY <3>3, Zenon DEF AnswerMoved
      <4> HIDE DEF queue
      <4>2. e.files = Recorded(reply.versions) /\ HasFields(e, DataFields)
        BY <1>1 DEF HasFields, DataFields
      <4> HIDE DEF e
      <4> QED BY <4>1, <4>2
    <3> QED BY <3>1, <3>2, <3>3
  <2> QED BY <2>1 DEF Complete, HasFields, DataFields
<1> QED BY <1>3, <1>4, FilesRecorded

\* MergeSnapshot records in mode "local" versions that the user gives up.
LEMMA FilesMergeSnapshot ==
    ASSUME Base, RowsSound, RecordsSound, Onward, KnownStays, FilesKnown, MergeSnapshot
    PROVE  FilesKnown'
<1>1. pc = "merge" /\ saved' = saved /\ HasFields(mem, DataFields) /\ FilesSound(mem)
  BY DEF MergeSnapshot, Base, Fields, RecordsSound, DataSound
<1>2. CASE mem.mode = "local"
  <2> DEFINE vs == {SnapshotVersion(p) : p \in MergeDue}
  <2>1. /\ mem' = [mem EXCEPT !.files = Recorded(vs)]
        /\ work' = [p \in Paths |-> [work[p] EXCEPT
             !.left = @ \cup {v.content : v \in {w \in vs : w.path = p}}]]
    BY <1>2, Zenon DEF MergeSnapshot
  <2>2. ASSUME NEW v \in vs
        PROVE  v.path \in Paths /\ ~Current(mem, v.path) /\ Known(v.path, v.content)'
    <3>1. PICK p \in MergeDue : v = SnapshotVersion(p)
      OBVIOUS
    <3>2. /\ v.path = p /\ v.rev \in 1..run.upto /\ v = Logged(v.rev) /\ v \in Version
      BY <1>1, <3>1, SnapshotVersionType DEF MergeDue, Base
    <3>3. /\ ~(Tracked(p) /\ mem.files[p].rev >= v.rev) /\ v.rev \in DOMAIN log
      BY <1>1, <3>1, <3>2 DEF MergeDue, Base, Position, TypeOK, Loops
    <3>4. log[v.rev].path = p
      BY <3>2 DEF Logged
    <3>5. p \in Paths /\ ~Current(mem, p)
      BY <1>1, <3>3, <3>4, NewerIsNotCurrent
    <3> HIDE DEF vs
    <3>6. v.content \in work'[p].left
      BY <2>1, <3>2, <3>5 DEF Base, TypeOK
    <3> QED BY <3>2, <3>5, <3>6 DEF Known
  <2> HIDE DEF vs
  <2>3. mem'.files = Recorded(vs) /\ saved'.files = saved.files
    BY <1>1, <2>1 DEF HasFields, DataFields
  <2> QED BY <2>2, <2>3, FilesRecorded
<1>3. CASE mem.mode # "local"
  <2>1. mem' = mem
    BY <1>3, Zenon DEF MergeSnapshot
  <2> QED BY <1>1, <2>1, FilesKept
<1> QED BY <1>2, <1>3

\* The other steps.
LEMMA FilesKnownStep ==
    Base /\ Fields /\ RowsSound /\ RecordsSound /\ Onward /\ Boxes /\ KnownStays /\
      InHandNew /\ InHandKnown /\ LocalOnly /\ OutboxKnown(mem) /\ FilesKnown /\
      [Next]_vars => Takes \/ FilesKnown'
<1> SUFFICES ASSUME Base, Fields, RowsSound, RecordsSound, Onward, Boxes,
   KnownStays, InHandNew, InHandKnown, LocalOnly, OutboxKnown(mem), FilesKnown,
   [Next]_vars PROVE Takes \/ FilesKnown'
  OBVIOUS
<1>1. CASE ResumeInbox
  <2> USE DEF Fields, HasFields, DataFields, dataVars
  <2>1. CASE InboxInstalled
    BY <2>1, FilesKept DEF InboxInstalled, Quiet, NoRequest, CleanUp, serverVars,
       historyVars
  <2>2. CASE InboxReady
    BY <2>2, FilesKept DEF InboxReady, Quiet, NoRequest, fileVars, serverVars,
       historyVars
  <2>3. CASE InboxLost
    BY <2>3, FilesKept DEF InboxLost, Quiet, NoRequest, Persist, CleanUp,
       serverVars, historyVars
  <2>4. CASE InboxDone
    BY <2>4, FilesKept DEF InboxDone, Quiet, NoRequest, Goto, fileVars, serverVars,
       historyVars
  <2> HIDE DEF Fields, HasFields, DataFields, dataVars
  <2> QED BY <1>1, <2>1, <2>2, <2>3, <2>4 DEF ResumeInbox
<1>2. CASE ResumeOutbox
  <2> USE DEF Fields, HasFields, DataFields, dataVars
  <2>1. CASE OutboxCommitted
    BY <2>1, FilesKept DEF OutboxCommitted, Quiet, serverVars, fileVars,
       historyVars, NoRequest
  <2>2. CASE OutboxResent
    BY <2>2, FilesKept DEF OutboxResent, Quiet, NoRequest, fileVars, serverVars,
       historyVars
  <2>3. CASE OutboxAbandoned
    BY <2>3, FilesKept DEF OutboxAbandoned, Quiet, NoRequest, Persist, Discarded,
       Queued, fileVars, serverVars, historyVars
  <2>4. CASE OutboxDone
    BY <2>4, FilesKept DEF OutboxDone, Quiet, NoRequest, Goto, BeginRenames,
       fileVars, serverVars, historyVars
  <2> HIDE DEF Fields, HasFields, DataFields, dataVars
  <2> QED BY <1>2, <2>1, <2>2, <2>3, <2>4 DEF ResumeOutbox
<1>3. CASE Reconcile
  <2>1. CASE DiscardLocal
    BY <2>1, Zenon DEF Takes
  <2>2. CASE MergeSnapshot
    BY <2>2, FilesMergeSnapshot
  <2> USE DEF Fields, HasFields, DataFields, dataVars
  <2>3. CASE ReadSnapshot
    BY <2>3, FilesKept DEF ReadSnapshot, Quiet, NoRequest, fileVars, serverVars,
       historyVars
  <2>4. CASE PreserveLocal
    BY <2>4, FilesKept DEF PreserveLocal, Quiet, EndRun, serverVars, IdleRun,
       NoRequest, historyVars
  <2>5. CASE PreserveDone
    BY <2>5, FilesKept DEF PreserveDone, Quiet, NoRequest, Goto, fileVars,
       serverVars, historyVars
  <2>6. CASE MergeDone
    BY <2>6, FilesKept DEF MergeDone, Quiet, NoRequest, Persist, BeginRenames,
       fileVars, serverVars, historyVars
  <2> HIDE DEF Fields, HasFields, DataFields, dataVars
  <2> QED BY <1>3, <2>1, <2>2, <2>3, <2>4, <2>5, <2>6 DEF Reconcile
<1>4. CASE Renames
  <2> USE DEF Fields, HasFields, DataFields, dataVars
  <2>1. CASE RenameSkipped
    BY <2>1, FilesKept DEF RenameSkipped, Quiet, NoRequest, fileVars, serverVars,
       historyVars
  <2>2. CASE RenameStaged
    BY <2>2, FilesKept DEF RenameStaged, Quiet, Stage, fileVars, serverVars,
       historyVars, Persist, NoRequest
  <2>3. CASE RenamesDone
    BY <2>3, FilesKept DEF RenamesDone, Quiet, NoRequest, Goto, fileVars,
       serverVars, historyVars
  <2> HIDE DEF Fields, HasFields, DataFields, dataVars
  <2> QED BY <1>4, <2>1, <2>2, <2>3 DEF Renames
<1>5. CASE Push
  <2> USE DEF Fields, HasFields, DataFields, dataVars
  <2>1. CASE PlanFull
    BY <2>1, FilesKept DEF PlanFull, Plan, Quiet, NoRequest, fileVars, serverVars,
       historyVars
  <2>2. CASE PlanQueued
    BY <2>2, FilesKept DEF PlanQueued, Plan, Quiet, NoRequest, fileVars, serverVars,
       historyVars
  <2>3. CASE PushDone
    BY <2>3, FilesKept DEF PushDone, Quiet, NoRequest, Stage, fileVars, serverVars,
       historyVars, Persist
  <2>4. CASE DeletesDone
    BY <2>4, FilesKept DEF DeletesDone, Quiet, NoRequest, fileVars, serverVars,
       historyVars
  <2>5. ASSUME NEW p \in Paths, ScanPath(p) PROVE Takes \/ FilesKnown'
    BY <2>5, FilesKept DEF ScanPath, Quiet, NoRequest, fileVars, serverVars,
       historyVars
  <2>6. ASSUME NEW p \in Paths, PushPath(p) PROVE Takes \/ FilesKnown'
    BY <2>6, FilesKept DEF PushPath, Quiet, NoRequest, Stage, Queued, Unnoted,
       fileVars, serverVars, historyVars, Persist
  <2>7. ASSUME NEW p \in Paths, DeletePath(p) PROVE Takes \/ FilesKnown'
    BY <2>7, FilesKept DEF DeletePath, Quiet, Stage, fileVars, serverVars,
       historyVars, Persist, NoRequest
  <2> HIDE DEF Fields, HasFields, DataFields, dataVars
  <2> QED BY <1>5, <2>1, <2>2, <2>3, <2>4, <2>5, <2>6, <2>7 DEF Push
<1>6. CASE Answered
  <2>1. CASE AnswerApplied
    BY <2>1, FilesAnswered
  <2>2. CASE AnswerMoved
    BY <2>2, FilesAnswered
  <2>3. CASE AnswerBatch
    BY <2>3, FilesAnswered
  <2> USE DEF Fields, HasFields, DataFields, dataVars
  <2>4. CASE AnswerConflict
    BY <2>4, FilesKept DEF AnswerConflict, Quiet, Persist, Discarded, serverVars,
       fileVars, historyVars, NoRequest
  <2>5. CASE KeepRefused
    BY <2>5, FilesKept DEF KeepRefused, Quiet, NoRequest, serverVars, historyVars
  <2>6. CASE AnswerMoveConflict
    BY <2>6, FilesKept DEF AnswerMoveConflict, Quiet, Goto, Return, Discarded,
       Queued, serverVars, fileVars, historyVars, NoRequest
  <2>7. CASE AnswerBatchConflict
    BY <2>7, FilesKept DEF AnswerBatchConflict, Quiet, Persist, Discarded, Queued,
       serverVars, fileVars, historyVars, NoRequest
  <2> HIDE DEF Fields, HasFields, DataFields, dataVars
  <2> QED BY <1>6, <2>1, <2>2, <2>3, <2>4, <2>5, <2>6, <2>7 DEF Answered
<1>7. CASE Apply
  <2>1. CASE ApplyRemoteChange
    BY <2>1, FilesApplyRemoteChange
  <2>2. CASE RemoveLocal
    BY <2>2, Zenon DEF Takes
  <2>3. CASE SetAside
    BY <2>3, Zenon DEF Takes
  <2>4. CASE SwapIn
    BY <2>4, Zenon DEF Takes
  <2>5. CASE VerifyInstalled
    BY <2>5, Zenon DEF Takes
  <2>6. CASE FinishDownload
    BY <2>6, FilesFinishDownload
  <2> USE DEF Fields, HasFields, DataFields, dataVars
  <2>7. CASE Download
    BY <2>7, FilesKept DEF Download, Quiet, NoRequest, Goto, serverVars, historyVars
  <2>8. CASE Save
    BY <2>8, FilesKept DEF Save, Quiet, NoRequest, Return, fileVars, serverVars,
       historyVars
  <2> HIDE DEF Fields, HasFields, DataFields, dataVars
  <2> QED BY <1>7, <2>1, <2>2, <2>3, <2>4, <2>5, <2>6, <2>7, <2>8 DEF Apply
<1>8. CASE Pull
  <2> USE DEF Fields, HasFields, DataFields, dataVars
  <2>1. CASE PullPage
    BY <2>1, FilesKept DEF PullPage, Quiet, NoRequest, fileVars, serverVars,
       historyVars
  <2>2. CASE PageChange
    BY <2>2, FilesKept DEF PageChange, Quiet, NoRequest, fileVars, serverVars,
       historyVars
  <2>3. CASE PageDone
    BY <2>3, FilesKept DEF PageDone, Quiet, NoRequest, Persist, fileVars,
       serverVars, historyVars
  <2>4. CASE Finish
    BY <2>4, FilesKept DEF Finish, Quiet, NoRequest, Persist, Goto, fileVars,
       serverVars, historyVars
  <2>5. CASE AckCursor
    BY <2>5, FilesKept DEF AckCursor, Quiet, Goto, Acknowledge, fileVars,
       serverVars, historyVars, NoRequest
  <2>6. CASE CompleteRun
    BY <2>6, FilesKept DEF CompleteRun, Quiet, EndRun, serverVars, fileVars,
       historyVars, IdleRun, NoRequest
  <2> HIDE DEF Fields, HasFields, DataFields, dataVars
  <2> QED BY <1>8, <2>1, <2>2, <2>3, <2>4, <2>5, <2>6 DEF Pull
<1>9. ASSUME NEW p \in Paths, NEW content \in UserContents \cup {Absent},
   UserEdit(p, content) PROVE Takes \/ FilesKnown'
  BY <1>9, FilesKept, Noted DEF UserEdit
<1>10. ASSUME NEW from \in Paths, NEW to \in Paths, UserRename(from, to) PROVE Takes
   \/ FilesKnown'
  BY <1>10, FilesKept, Noted DEF UserRename
<1>11. CASE StartRun
  BY <1>11, FilesKept DEF StartRun, Fields, HasFields, DataFields, dataVars, Quiet,
     NoRequest, Goto, fileVars, serverVars, historyVars
<1>12. CASE Send
  BY <1>12, FilesKept DEF Send, Fields, HasFields, DataFields, dataVars, Quiet,
     Goto, fileVars, serverVars, historyVars, NoRequest
<1>13. CASE ServerMoves
  BY <1>13, FilesKept DEF ServerMoves, Fields, HasFields, DataFields, dataVars,
     Spend, fileVars, serverVars, historyVars
<1>14. CASE SaveEvents
  BY <1>14, FilesKept DEF SaveEvents, Fields, HasFields, DataFields, dataVars,
     Quiet, NoRequest, fileVars, serverVars, historyVars
<1>15. CASE RunFails
  BY <1>15, FilesKept DEF RunFails, Fields, HasFields, DataFields, dataVars, EndRun,
     Spend, serverVars, IdleRun
<1>16. CASE Crash
  BY <1>16, FilesCrash DEF Crash
<1>17. CASE Restart
  BY <1>17, FilesKept DEF Restart, Fields, HasFields, DataFields, dataVars,
     NoRequest, fileVars, historyVars, serverVars
<1>18. CASE UNCHANGED vars
  BY <1>18, FilesKept DEF Fields, HasFields, DataFields, dataVars, vars, serverVars,
     fileVars, historyVars
<1> QED BY <1>1, <1>2, <1>3, <1>4, <1>5, <1>6, <1>7, <1>8, <1>9, <1>10, <1>11, <1>12,
         <1>13, <1>14, <1>15, <1>16, <1>17, <1>18 DEF Next, Engine, User

\* So every step keeps the files known.
LEMMA FilesTakes ==
    ASSUME Base, RecordsSound, Onward, InHandBoxed, InHandNew, LocalOnly, FilesKnown, Takes
    PROVE  FilesKnown'
BY FilesRemoveLocal, FilesInstalled, FilesDiscardLocal DEF Takes
-----------------------------------------------------------------------------
(* What the outbox asks for is known to the user.                          *)

\* A request that the server has not executed stays known.
LEMMA RequestStays ==
    ASSUME Base, Onward, KnownStays, NEW q \in Request, RequestKnown(q)
    PROVE  RequestKnown(q)'
<1>1. ASSUME NEW d \in Removals(q)
      PROVE  /\ d.base <= Len(log')
             /\ head'[d.path].rev = d.base => GivenUp(d.path, head[d.path].content)'
  <2>1. d.path \in Paths /\ d.base \in Nat
    BY DEF Removals, Request, Item
  <2>2. /\ d.base <= Len(log)
        /\ head[d.path].rev = d.base => GivenUp(d.path, head[d.path].content)
    BY DEF RequestKnown
  <2>3. d.base <= Len(log') /\ Len(log) \in Nat
    BY <2>1, <2>2 DEF Onward, RowsMove
  <2>4. CASE head'[d.path] = head[d.path]
    BY <2>1, <2>2, <2>3, <2>4 DEF Onward, GivenUpStays, GivenUp
  <2>5. CASE head'[d.path] = NoRow
    BY <2>3, <2>5, ServerAssumption DEF GivenUp, NoRow
  <2>6. CASE head'[d.path].rev > Len(log)
    BY <2>1, <2>2, <2>3, <2>6
  <2> QED BY <2>1, <2>4, <2>5, <2>6 DEF Onward, RowsMove
<1>2. q.kind \in {"apply", "rename"} => Known(q.path, q.content)'
  <2>1. q.kind \in {"apply", "rename"} => q.path \in Paths
    BY DEF Request
  <2> QED BY <2>1 DEF RequestKnown, KnownStays
<1>3. ASSUME q.kind = "rename", head'[q.from].rev = q.base
      PROVE  head'[q.from].content \in {Absent, q.content}
  <2>1. q.from \in Paths /\ q.base \in Nat
    BY <1>3 DEF Request
  <2>2. q.base <= Len(log) /\ Len(log) \in Nat
    <3>1. [path |-> q.from, base |-> q.base] \in Removals(q)
      BY <1>3 DEF Removals
    <3>2. [path |-> q.from, base |-> q.base].base <= Len(log)
      BY <3>1 DEF RequestKnown
    <3> QED BY <3>2 DEF Onward, RowsMove
  <2>3. head'[q.from] = head[q.from] \/ head'[q.from] = NoRow
    BY <1>3, <2>1, <2>2 DEF Onward, RowsMove
  <2> QED BY <1>3, <2>3 DEF RequestKnown, NoRow
<1> QED BY <1>1, <1>2, <1>3, Zenon DEF RequestKnown, Removals

\* An outbox that stays, while the server keeps no result.
LEMMA OutboxStays ==
    ASSUME Base, Onward, KnownStays, answers' = answers,
           NEW d \in {mem, saved}, OutboxKnown(d), NEW e, e.outbox \in {d.outbox, NoOperation}
    PROVE  OutboxKnown(e)'
<1> SUFFICES ASSUME e.outbox = d.outbox, e.outbox # NoOperation PROVE OutboxKnown(e)'
  BY DEF OutboxKnown, NoOperation
<1>1. d.outbox \in Operation
  BY DEF Base, TypeOK, Data
<1>2. d.outbox.request \in Request
  BY <1>1 DEF Operation
<1>3. answers[d.outbox.id] = NoReply => RequestKnown(d.outbox.request)'
  BY <1>2, RequestStays DEF OutboxKnown
<1>4. ASSUME answers[d.outbox.id].kind = "ok", NEW v \in answers[d.outbox.id].versions
      PROVE  v.path \in Touched(d.outbox.request) /\ Known(v.path, v.content)'
  <2>1. v.path \in Touched(d.outbox.request) /\ Known(v.path, v.content)
    BY <1>4 DEF OutboxKnown
  <2>2. Touched(d.outbox.request) \subseteq Paths
    BY <1>2, TouchedPaths
  <2> QED BY <2>1, <2>2 DEF KnownStays
<1> QED BY <1>3, <1>4, Zenon DEF OutboxKnown, Touched, BatchPaths

\* Of data that a step makes of those before it.
OutboxesKept ==
    \A d \in {mem, saved} : \A e :
        OutboxKnown(d) /\ e.outbox \in {d.outbox, NoOperation} => OutboxKnown(e)'

LEMMA OutboxesAreKept ==
    ASSUME Base, Onward, KnownStays, answers' = answers
    PROVE  OutboxesKept
BY OutboxStays DEF OutboxesKept

\* A step that drops an operation or leaves it, and may save that.
LEMMA OutboxesStay ==
    ASSUME Base, Onward, KnownStays, answers' = answers, OutboxKnown(mem), OutboxKnown(saved),
           \/ mem'.outbox \in {mem.outbox, NoOperation}
                /\ saved'.outbox \in {saved.outbox, mem.outbox, NoOperation}
           \/ mem'.outbox = saved.outbox /\ saved'.outbox = saved.outbox
    PROVE  OutboxKnown(mem)' /\ OutboxKnown(saved)'
<1>1. OutboxesKept
  BY OutboxesAreKept
<1>2. ASSUME NEW d \in {mem, saved}, NEW e, e.outbox \in {d.outbox, NoOperation}
      PROVE  OutboxKnown(e)'
  BY <1>1, <1>2 DEF OutboxesKept
<1>3. \A e : e.outbox \in {mem.outbox, saved.outbox, NoOperation} => OutboxKnown(e)'
  BY <1>2
<1> QED BY <1>3

\* So where nothing is in the outbox.
LEMMA OutboxesEmpty ==
    ASSUME mem'.outbox = NoOperation, saved'.outbox = NoOperation
    PROVE  OutboxKnown(mem)' /\ OutboxKnown(saved)'
BY DEF OutboxKnown, NoOperation

\* A request that is staged.
LEMMA OutboxStaged ==
    ASSUME Base, NEW q, Stage(q), RequestKnown(q), UNCHANGED <<disk, work>>
    PROVE  OutboxKnown(mem)' /\ OutboxKnown(saved)'
<1>1. /\ mem'.outbox = [id |-> FreshId, request |-> q] /\ saved' = mem'
  <2>1. HasFields(mem, DataFields)
    BY DEF Base, Fields
  <2> QED BY <2>1 DEF Stage, Persist, HasFields, DataFields
<1>2. FreshId \in OpIds
  BY DEF FreshId, OpIds, Base, Shape, SoundData
<1>3. answers'[FreshId] = NoReply /\ UNCHANGED <<log, head>>
  BY <1>2 DEF Stage, Base, TypeOK
<1>4. PICK id : id = FreshId
  OBVIOUS
<1>5. mem'.outbox.id = id /\ mem'.outbox.request = q /\ answers'[id] = NoReply
  BY <1>1, <1>3, <1>4
<1>6. RequestKnown(q)'
  BY <1>3, Zenon DEF RequestKnown, Removals, GivenUp, Known
<1>7. answers'[mem'.outbox.id].kind # "ok"
  BY <1>5 DEF NoReply
<1> QED BY <1>1, <1>5, <1>6, <1>7 DEF OutboxKnown

\* What is recorded of a missed file is not newer than what the user gave up.
LEMMA RemovalKnown ==
    ASSUME Base, RowsSound, FilesSound(mem), NEW p \in Paths, Missed(p)
    PROVE  /\ mem.files[p].rev <= Len(log)
           /\ head[p].rev = mem.files[p].rev => GivenUp(p, head[p].content)
<1>1. mem.files[p] = Untracked \/ Genuine(p, mem.files[p])
  BY DEF FilesSound
<1>2. mem.files[p].rev <= Len(log)
  BY <1>1 DEF Untracked, Genuine, NoRow, Base, TypeOK
<1>3. ASSUME head[p].rev = mem.files[p].rev, head[p].content \in Contents
      PROVE  head[p].content \in work[p].left
  <2>1. Current(mem, p) /\ mem.files[p].content = head[p].content
    BY <1>1, <1>3, RowContent DEF Current
  <2> QED BY <1>3, <2>1 DEF Missed, GivenUp
<1> QED BY <1>2, <1>3 DEF GivenUp

\* A put, a deletion, a batch of deletions and a rename.
LEMMA PutKnown ==
    ASSUME NEW p \in Paths, disk[p] # Absent
    PROVE  RequestKnown(ApplyRequest(p, disk[p]))
BY DEF RequestKnown, Removals, ApplyRequest, Known

LEMMA DeleteKnown ==
    ASSUME Base, RowsSound, FilesSound(mem), NEW p \in Paths, Missed(p)
    PROVE  RequestKnown(ApplyRequest(p, Absent))
<1> DEFINE q == ApplyRequest(p, Absent)
           d == [path |-> p, base |-> mem.files[p].rev]
<1>1. /\ q.kind = "apply" /\ q.path = p /\ q.content = Absent
      /\ Removals(q) = {d} /\ d.path = p /\ d.base = mem.files[p].rev
  BY DEF ApplyRequest, Removals
<1> HIDE DEF q, d
<1>2. RequestKnown(q)
  BY <1>1, RemovalKnown, ServerAssumption DEF RequestKnown, Known
<1> QED BY <1>2 DEF q

LEMMA BatchKnown ==
    ASSUME Base, RowsSound, FilesSound(mem), NEW ps \in SUBSET Paths, \A p \in ps : Missed(p)
    PROVE  RequestKnown([kind |-> "batch",
                         items |-> {[path |-> p, base |-> mem.files[p].rev] : p \in ps}])
<1> DEFINE items == {[path |-> p, base |-> mem.files[p].rev] : p \in ps}
           q == [kind |-> "batch", items |-> items]
<1>1. q.kind = "batch" /\ Removals(q) = items
  BY DEF Removals
<1>2. ASSUME NEW d \in items
      PROVE  d.base <= Len(log) /\ (head[d.path].rev = d.base => GivenUp(d.path, head[d.path].content))
  <2>1. PICK p \in ps : d = [path |-> p, base |-> mem.files[p].rev]
    OBVIOUS
  <2>2. d.path = p /\ d.base = mem.files[p].rev /\ p \in Paths /\ Missed(p)
    BY <2>1
  <2> QED BY <2>2, RemovalKnown
<1> HIDE DEF items, q
<1>3. RequestKnown(q)
  BY <1>1, <1>2 DEF RequestKnown
<1> QED BY <1>3 DEF q, items

LEMMA RenameKnown ==
    ASSUME Base, RowsSound, FilesSound(mem), FilesKnown, NEW m \in Move, Sendable(m)
    PROVE  RequestKnown([kind |-> "rename", from |-> m.from, path |-> m.to,
                         base |-> mem.files[m.from].rev, content |-> mem.files[m.from].content])
<1> DEFINE q == [kind |-> "rename", from |-> m.from, path |-> m.to,
                 base |-> mem.files[m.from].rev, content |-> mem.files[m.from].content]
           d == [path |-> m.from, base |-> mem.files[m.from].rev]
<1>1. /\ q.kind = "rename" /\ q.from = m.from /\ q.path = m.to /\ q.base = mem.files[m.from].rev
      /\ q.content = mem.files[m.from].content
      /\ Removals(q) = {d} /\ d.path = m.from /\ d.base = mem.files[m.from].rev
  BY DEF Removals
<1>2. m.from \in Paths /\ m.to \in Paths /\ disk[m.from] = Absent
      /\ disk[m.to] = mem.files[m.from].content
  BY DEF Move, Sendable
<1> HIDE DEF q, d
<1>3. Missed(m.from)
  BY <1>2, ServerAssumption DEF Missed, FilesKnown, Known, GivenUp
<1>4. /\ mem.files[m.from].rev <= Len(log)
      /\ head[m.from].rev = mem.files[m.from].rev => GivenUp(m.from, head[m.from].content)
  BY <1>2, <1>3, RemovalKnown
<1>5. ASSUME head[m.from].rev = mem.files[m.from].rev
      PROVE  head[m.from].content \in {Absent, mem.files[m.from].content}
  <2>1. CASE head[m.from].content \in Contents
    <3>1. mem.files[m.from] = Untracked \/ Genuine(m.from, mem.files[m.from])
      BY <1>2 DEF FilesSound
    <3> QED BY <1>2, <1>5, <2>1, <3>1, RowContent
  <2>2. head[m.from].content \in Content
    BY <1>2 DEF Base, TypeOK, Row
  <2> QED BY <2>1, <2>2 DEF Content
<1>6. Known(q.path, q.content)
  BY <1>1, <1>2 DEF Known
<1>7. RequestKnown(q)
  BY <1>1, <1>4, <1>5, <1>6 DEF RequestKnown
<1> QED BY <1>7 DEF q

-----------------------------------------------------------------------------
(* Send, and the other steps of the outbox.                                *)

\* What an accepted request appends is known to the user; what it takes away, the
\* user has given up.
LEMMA EffectsKnown ==
    ASSUME Base, NEW q \in Request, Accepts(q), RequestKnown(q), NEW new \in Effects(q)
    PROVE  /\ new = <<>> /\ q.kind = "apply" => Known(q.path, head[q.path].content)
           /\ \A i \in DOMAIN new :
                /\ Known(new[i].path, new[i].content)
                /\ new[i].content = Absent =>
                     head[new[i].path].content \in work[new[i].path].left
<1>1. head \in [Paths -> Row]
  BY DEF Base, TypeOK
<1>2. ASSUME NEW p \in Paths, NEW base, base = head[p].rev, head[p].content # Absent,
             [path |-> p, base |-> base] \in Removals(q)
      PROVE  head[p].content \in work[p].left
  <2>1. [path |-> p, base |-> base].path = p /\ [path |-> p, base |-> base].base = base
    OBVIOUS
  <2>2. GivenUp(p, head[p].content)
    BY <1>2, <2>1 DEF RequestKnown
  <2>3. head[p].content \in Contents
    BY <1>1, <1>2 DEF Row, Content
  <2> QED BY <2>2, <2>3 DEF GivenUp
<1>3. CASE q.kind = "apply"
  <2> DEFINE e == [path |-> q.path, content |-> q.content, mine |-> TRUE]
  <2>1. q.path \in Paths /\ Known(q.path, q.content) /\ q.base \in Nat
    BY <1>3 DEF RequestKnown, Request
  <2>2. \/ AlreadySo(head[q.path], q) /\ new = <<>>
        \/ ~AlreadySo(head[q.path], q) /\ head[q.path].rev = q.base /\ new = <<e>>
    BY <1>3 DEF Effects, Accepts
  <2>3. CASE AlreadySo(head[q.path], q) /\ new = <<>>
    <3>1. head[q.path].content = q.content /\ DOMAIN new = {}
      BY <2>3 DEF AlreadySo
    <3> QED BY <2>1, <3>1
  <2>4. CASE ~AlreadySo(head[q.path], q) /\ head[q.path].rev = q.base /\ new = <<e>>
    <3>1. head[q.path].content # q.content
      BY <2>4 DEF AlreadySo
    <3>2. q.content = Absent => head[q.path].content \in work[q.path].left
      <4>1. q.content = Absent => [path |-> q.path, base |-> q.base] \in Removals(q)
        BY <1>3 DEF Removals
      <4> QED BY <1>2, <2>1, <2>4, <3>1, <4>1
    <3>3. e.path = q.path /\ e.content = q.content
      OBVIOUS
    <3> HIDE DEF e
    <3>4. DOMAIN new = {1} /\ new[1] = e /\ new # <<>>
      BY <2>4
    <3> QED BY <2>1, <3>2, <3>3, <3>4
  <2> QED BY <2>2, <2>3, <2>4
<1>4. CASE q.kind = "rename"
  <2> DEFINE d == [path |-> q.from, content |-> Absent, mine |-> TRUE]
             e == [path |-> q.path, content |-> head[q.from].content, mine |-> TRUE]
  <2>1. /\ q.from \in Paths /\ q.path \in Paths /\ Known(q.path, q.content)
        /\ head[q.from].content # Absent /\ head[q.from].rev = q.base /\ new = <<d, e>>
    BY <1>4 DEF RequestKnown, Request, Accepts, LiveAt, Effects
  <2>2. head[q.from].content = q.content
    BY <1>4, <2>1 DEF RequestKnown
  <2>3. head[q.from].content \in work[q.from].left
    <3>1. [path |-> q.from, base |-> q.base] \in Removals(q)
      BY <1>4 DEF Removals
    <3> QED BY <1>2, <2>1, <3>1
  <2>4. d.path = q.from /\ d.content = Absent /\ e.path = q.path /\ e.content = q.content
    BY <2>2
  <2>5. q.content # Absent /\ Known(q.from, Absent)
    BY <2>1, <2>2, ServerAssumption DEF Known
  <2> HIDE DEF d, e
  <2>6. DOMAIN new = {1, 2} /\ new[1] = d /\ new[2] = e /\ new # <<>>
    BY <2>1
  <2> QED BY <2>1, <2>3, <2>4, <2>5, <2>6
<1>5. CASE q.kind = "batch"
  <2> DEFINE S == {[path |-> item.path, content |-> Absent, mine |-> TRUE] : item \in q.items}
  <2>1. new \in SetToSeqs(S) /\ q.items \in SUBSET Item /\ Removals(q) = q.items
        /\ \A item \in q.items : LiveAt(item.path, item.base)
    BY <1>5 DEF Effects, Request, Removals, Accepts
  <2>2. ASSUME NEW x \in S
        PROVE  x.content = Absent /\ head[x.path].content \in work[x.path].left
    <3>1. PICK item \in q.items : x = [path |-> item.path, content |-> Absent, mine |-> TRUE]
      OBVIOUS
    <3>2. item \in Item /\ item.path \in Paths /\ item = [path |-> item.path, base |-> item.base]
      BY <2>1 DEF Item
    <3>3. head[item.path].content # Absent /\ head[item.path].rev = item.base
      BY <2>1 DEF LiveAt
    <3>4. head[item.path].content \in work[item.path].left
      BY <1>2, <2>1, <3>2, <3>3
    <3> QED BY <3>1, <3>4
  <2> HIDE DEF S
  <2>3. \A i \in DOMAIN new : new[i] \in S
    <3> DEFINE n == Cardinality(S)
    <3>1. new \in [1..n -> S]
      BY <2>1 DEF SetToSeqs
    <3> QED BY <3>1
  <2> QED BY <1>5, <2>2, <2>3, ServerAssumption DEF Known
<1> QED BY <1>3, <1>4, <1>5 DEF Request

\* The result that the server keeps of it.
LEMMA OutboxSend ==
    ASSUME TypeInv, Boxes, Onward, KnownStays, OutboxKnown(mem), OutboxKnown(saved), Send
    PROVE  OutboxKnown(mem)' /\ OutboxKnown(saved)'
<1> DEFINE q == mem.outbox.request
           id == mem.outbox.id
<1>1. Base /\ TypeOK /\ Shape /\ Ready
  BY HasBase DEF Base
<1>2. /\ mem.outbox # NoOperation /\ saved.outbox = mem.outbox /\ answers[id] = NoReply
      /\ UNCHANGED <<disk, work, mem, saved>>
  BY DEF Send, Boxes, fileVars, dataVars, Quiet, historyVars
<1>3. id \in OpIds /\ q \in Request
  BY <1>1, SendRequest
<1>4. CASE UNCHANGED answers
  BY <1>1, <1>2, <1>4, OutboxesStay
<1>5. CASE answers' # answers
  <2>1. PICK new \in Effects(q) :
               /\ Accepts(q) /\ Extends(new)
               /\ new = <<>> => q.kind = "apply" /\ q.path \in Paths
               /\ \A i \in DOMAIN new : new[i].mine /\ new[i].path \in Touched(q)
               /\ reply' = Accepted(q, new)
               /\ answers' = [answers EXCEPT ![mem.outbox.id] = reply']
    BY <1>5, SendAppends
  <2>2. answers'[id] = Accepted(q, new)
    BY <1>1, <1>3, <2>1 DEF TypeOK
  <2>3. RequestKnown(q)
    BY <1>2 DEF OutboxKnown
  <2> HIDE DEF q, id
  <2>4. /\ new = <<>> => Known(q.path, head[q.path].content)
        /\ \A i \in DOMAIN new : Known(new[i].path, new[i].content)
    BY <1>1, <1>3, <2>1, <2>3, EffectsKnown
  <2>5. ASSUME NEW v \in Accepted(q, new).versions
        PROVE  v.path \in Touched(q) /\ Known(v.path, v.content)
    <3>1. CASE new = <<>>
      <4>1. v = RowVersion(q.path) /\ q.path \in Touched(q)
        BY <2>1, <2>5, <3>1 DEF Accepted, Touched
      <4> QED BY <2>4, <3>1, <4>1 DEF RowVersion
    <3>2. CASE new # <<>>
      <4>1. PICK i \in DOMAIN new : v = [path |-> new[i].path, rev |-> Len(log) + i,
                                         content |-> new[i].content]
        BY <2>5, <3>2 DEF Accepted
      <4> QED BY <2>1, <2>4, <4>1
    <3> QED BY <3>1, <3>2
  <2>6. Accepted(q, new).kind = "ok"
    BY DEF Accepted
  <2>7. ASSUME NEW v \in answers'[id].versions
        PROVE  v.path \in Touched(q) /\ Known(v.path, v.content)'
    BY <1>2, <2>2, <2>5 DEF Known
  <2>8. answers'[id] # NoReply
    BY <2>2, <2>6 DEF NoReply
  <2>9. mem'.outbox.id = id /\ mem'.outbox.request = q /\ saved'.outbox = mem'.outbox
    BY <1>2 DEF q, id
  <2>10. /\ answers'[mem'.outbox.id] # NoReply
         /\ \A v \in answers'[mem'.outbox.id].versions :
              v.path \in Touched(mem'.outbox.request) /\ Known(v.path, v.content)'
    BY <2>7, <2>8, <2>9
  <2> QED BY <2>9, <2>10, Zenon DEF OutboxKnown, Touched, BatchPaths
<1> QED BY <1>4, <1>5

\* A rename, a put, a batch and a deletion are staged for what the user has done.
LEMMA OutboxRenameStaged ==
    ASSUME Base, RowsSound, RecordsSound, FilesKnown, RenameStaged
    PROVE  OutboxKnown(mem)' /\ OutboxKnown(saved)'
<1> DEFINE m == Head(mem.renames)
           q == [kind |-> "rename", from |-> m.from, path |-> m.to,
                 base |-> mem.files[m.from].rev, content |-> mem.files[m.from].content]
<1>1. m \in Move
  BY DEF RenameStaged, Base, Ready, MovesReady, TypeOK, Data, Run
<1>2. Stage(q) /\ Sendable(m) /\ UNCHANGED <<disk, work>>
  BY DEF RenameStaged, Quiet, fileVars, historyVars
<1>3. FilesSound(mem)
  BY DEF RecordsSound, DataSound
<1> HIDE DEF m
<1>4. RequestKnown(q)
  BY <1>1, <1>2, <1>3, RenameKnown
<1> HIDE DEF q
<1> QED BY <1>2, <1>4, OutboxStaged

LEMMA OutboxPushPath ==
    ASSUME Base, Onward, KnownStays, Boxes, MissingKnown, OutboxKnown(mem), OutboxKnown(saved),
           NEW p \in Paths, PushPath(p)
    PROVE  OutboxKnown(mem)' /\ OutboxKnown(saved)'
<1>1. UNCHANGED <<disk, work>> /\ HasFields(mem, DataFields)
  BY DEF PushPath, Quiet, fileVars, historyVars, Base, Fields
<1>2. CASE disk[p] = run.found[p]
  <2>1. Stage(ApplyRequest(p, disk[p]))
    BY <1>2, Zenon DEF PushPath
  <2>2. run.found[p] # Absent
    BY DEF PushPath, PushDue, MissingKnown
  <2>3. RequestKnown(ApplyRequest(p, disk[p]))
    BY <1>2, <2>2, PutKnown
  <2> QED BY <1>1, <2>1, <2>3, OutboxStaged
<1>3. CASE disk[p] # run.found[p]
  <2>1. /\ mem' = IF disk[p] = Absent THEN mem ELSE [mem EXCEPT !.pending = Queued({p})]
        /\ saved' = saved /\ NoRequest
    BY <1>3, Zenon DEF PushPath
  <2>2. mem'.outbox = mem.outbox /\ saved'.outbox = saved.outbox /\ answers' = answers
    BY <1>1, <2>1 DEF HasFields, DataFields, NoRequest, serverVars
  <2> QED BY <2>2, OutboxesStay
<1> QED BY <1>2, <1>3

LEMMA OutboxPushDone ==
    ASSUME Base, RowsSound, RecordsSound, Onward, KnownStays, MissingKnown, OutboxKnown(mem),
           OutboxKnown(saved), PushDone
    PROVE  OutboxKnown(mem)' /\ OutboxKnown(saved)'
<1>1. UNCHANGED <<disk, work>> /\ FilesSound(mem)
  BY DEF PushDone, Quiet, fileVars, historyVars, RecordsSound, DataSound
<1>2. CASE Cardinality(Deletions) > 1
  <2> DEFINE ps == Deletions
  <2>1. Stage([kind |-> "batch",
               items |-> {[path |-> p, base |-> mem.files[p].rev] : p \in ps}])
    BY <1>2, Zenon DEF PushDone
  <2>2. ps \in SUBSET Paths /\ \A p \in ps : Missed(p)
    BY DEF PushDone, MissingKnown, Gone, Deletions, Base, TypeOK, Run
  <2> HIDE DEF ps
  <2>3. RequestKnown([kind |-> "batch",
                      items |-> {[path |-> p, base |-> mem.files[p].rev] : p \in ps}])
    BY <1>1, <2>2, BatchKnown
  <2> QED BY <1>1, <2>1, <2>3, OutboxStaged
<1>3. CASE ~(Cardinality(Deletions) > 1)
  <2>1. UNCHANGED dataVars /\ NoRequest
    BY <1>3, Zenon DEF PushDone
  <2>2. mem' = mem /\ saved' = saved /\ answers' = answers
    BY <2>1 DEF dataVars, NoRequest, serverVars
  <2> QED BY <2>2, OutboxesStay
<1> QED BY <1>2, <1>3

LEMMA OutboxDeletePath ==
    ASSUME Base, RowsSound, RecordsSound, MissingKnown, NEW p \in Paths, DeletePath(p)
    PROVE  OutboxKnown(mem)' /\ OutboxKnown(saved)'
<1>1. UNCHANGED <<disk, work>> /\ FilesSound(mem) /\ Missed(p) /\ Stage(ApplyRequest(p, Absent))
  BY DEF DeletePath, Quiet, fileVars, historyVars, RecordsSound, DataSound, MissingKnown, Gone
<1>2. RequestKnown(ApplyRequest(p, Absent))
  BY <1>1, DeleteKnown
<1> QED BY <1>1, <1>2, OutboxStaged

\* An operation that is over.
LEMMA OutboxCompleted ==
    ASSUME Base, Onward, KnownStays, OutboxKnown(mem), OutboxKnown(saved), answers' = answers,
           NEW data, HasFields(data, DataFields), data.outbox = mem.outbox, Complete(data)
    PROVE  OutboxKnown(mem)' /\ OutboxKnown(saved)'
<1>1. saved'.outbox = mem.outbox /\ mem'.outbox = NoOperation
  BY DEF Complete, HasFields, DataFields
<1> QED BY <1>1, OutboxesStay

LEMMA OutboxAnswered ==
    ASSUME Base, Onward, KnownStays, OutboxKnown(mem), OutboxKnown(saved),
           AnswerApplied \/ AnswerMoved \/ AnswerBatch
    PROVE  OutboxKnown(mem)' /\ OutboxKnown(saved)'
<1>1. answers' = answers /\ HasFields(mem, DataFields)
  BY DEF AnswerApplied, AnswerMoved, AnswerBatch, serverVars, Base, Fields
<1>2. PICK data : Complete(data) /\ HasFields(data, DataFields) /\ data.outbox = mem.outbox
  <2>1. CASE AnswerApplied /\ Recovering
    <3> DEFINE e == [mem EXCEPT !.files = Recorded(reply.versions),
                                !.pending = Queued({mem.outbox.request.path})]
    <3>1. Complete(e)
      BY <2>1, Zenon DEF AnswerApplied
    <3>2. HasFields(e, DataFields) /\ e.outbox = mem.outbox
      BY <1>1 DEF HasFields, DataFields
    <3> HIDE DEF e
    <3> QED BY <3>1, <3>2
  <2>2. CASE (AnswerApplied /\ ~Recovering) \/ AnswerBatch
    <3> DEFINE e == [mem EXCEPT !.files = Recorded(reply.versions)]
    <3>1. Complete(e)
      BY <2>2, Zenon DEF AnswerApplied, AnswerBatch
    <3>2. HasFields(e, DataFields) /\ e.outbox = mem.outbox
      BY <1>1 DEF HasFields, DataFields
    <3> HIDE DEF e
    <3> QED BY <3>1, <3>2
  <2>3. CASE AnswerMoved
    <3> DEFINE queue == IF Recovering THEN mem.renames ELSE Tail(mem.renames)
               e == [mem EXCEPT !.files = Recorded(reply.versions),
                       !.pending = @ \ {mem.outbox.request.from, mem.outbox.request.path},
                       !.renames = queue]
    <3>1. Complete(e)
      BY <2>3, Zenon DEF AnswerMoved
    <3> HIDE DEF queue
    <3>2. HasFields(e, DataFields) /\ e.outbox = mem.outbox
      BY <1>1 DEF HasFields, DataFields
    <3> HIDE DEF e
    <3> QED BY <3>1, <3>2
  <2> QED BY <2>1, <2>2, <2>3
<1> QED BY <1>1, <1>2, OutboxCompleted

\* The other devices and the collector leave the results alone.
LEMMA OutboxServerMoves ==
    ASSUME Base, Onward, KnownStays, OutboxKnown(mem), OutboxKnown(saved), ServerMoves
    PROVE  OutboxKnown(mem)' /\ OutboxKnown(saved)'
<1>1. answers' = answers /\ mem' = mem /\ saved' = saved
  BY DEF ServerMoves, OtherCommit, Collect, dataVars
<1> QED BY <1>1, OutboxesStay

\* Where the engine takes a file away, the outbox is empty.
LEMMA OutboxTakes ==
    ASSUME Base, Boxes, OutboxOver, Takes
    PROVE  mem'.outbox = NoOperation /\ saved'.outbox = NoOperation
<1>1. pc \in {"remove", "install", "swap", "verify", "discard"}
  BY DEF Takes, RemoveLocal, SetAside, SwapIn, VerifyInstalled, DiscardLocal
<1>2. mem.outbox = NoOperation /\ saved.outbox = NoOperation
  BY <1>1 DEF Boxes, OutboxOver
<1>3. mem'.outbox = mem.outbox /\ saved' \in {saved, mem}
  BY DEF Takes, RemoveLocal, SetAside, SwapIn, VerifyInstalled, DiscardLocal, EndRun, dataVars,
     Base, Fields, HasFields, DataFields
<1> QED BY <1>2, <1>3

\* Every other step keeps the outbox known.
LEMMA OutboxKnownStep ==
    TypeInv /\ Base /\ Fields /\ RowsSound /\ RecordsSound /\ Onward /\ Boxes /\
      KnownStays /\ FilesKnown /\ MissingKnown /\ OutboxKnown(mem) /\
      OutboxKnown(saved) /\ [Next]_vars
      => Takes \/ (OutboxKnown(mem)' /\ OutboxKnown(saved)')
<1> SUFFICES ASSUME TypeInv, Base, Fields, RowsSound, RecordsSound, Onward, Boxes,
   KnownStays, FilesKnown, MissingKnown, OutboxKnown(mem), OutboxKnown(saved),
   [Next]_vars PROVE Takes \/ (OutboxKnown(mem)' /\ OutboxKnown(saved)')
  OBVIOUS
<1>1. CASE ResumeInbox
  <2> USE DEF Fields, HasFields, DataFields, dataVars, NoRequest, serverVars
  <2>1. CASE InboxInstalled
    BY <2>1, OutboxesStay DEF InboxInstalled, Quiet, CleanUp, historyVars
  <2>2. CASE InboxReady
    BY <2>2, OutboxesStay DEF InboxReady, Quiet, fileVars, historyVars
  <2>3. CASE InboxLost
    BY <2>3, OutboxesStay DEF InboxLost, Quiet, Persist, CleanUp, historyVars
  <2>4. CASE InboxDone
    BY <2>4, OutboxesStay DEF InboxDone, Quiet, Goto, fileVars, historyVars
  <2> HIDE DEF Fields, HasFields, DataFields, dataVars, NoRequest, serverVars
  <2> QED BY <1>1, <2>1, <2>2, <2>3, <2>4 DEF ResumeInbox
<1>2. CASE ResumeOutbox
  <2> USE DEF Fields, HasFields, DataFields, dataVars, NoRequest, serverVars
  <2>1. CASE OutboxCommitted
    BY <2>1, OutboxesStay DEF OutboxCommitted, Quiet, fileVars, historyVars
  <2>2. CASE OutboxResent
    BY <2>2, OutboxesStay DEF OutboxResent, Quiet, fileVars, historyVars
  <2>3. CASE OutboxAbandoned
    BY <2>3, OutboxesStay DEF OutboxAbandoned, Quiet, Persist, Discarded, Queued,
       fileVars, historyVars
  <2>4. CASE OutboxDone
    BY <2>4, OutboxesStay DEF OutboxDone, Quiet, Goto, BeginRenames, fileVars,
       historyVars
  <2> HIDE DEF Fields, HasFields, DataFields, dataVars, NoRequest, serverVars
  <2> QED BY <1>2, <2>1, <2>2, <2>3, <2>4 DEF ResumeOutbox
<1>3. CASE Reconcile
  <2>1. CASE DiscardLocal
    BY <2>1, Zenon DEF Takes
  <2> USE DEF Fields, HasFields, DataFields, dataVars, NoRequest, serverVars
  <2>2. CASE ReadSnapshot
    BY <2>2, OutboxesStay DEF ReadSnapshot, Quiet, fileVars, historyVars
  <2>3. CASE PreserveLocal
    BY <2>3, OutboxesStay DEF PreserveLocal, Quiet, EndRun, IdleRun, historyVars
  <2>4. CASE PreserveDone
    BY <2>4, OutboxesStay DEF PreserveDone, Quiet, Goto, fileVars, historyVars
  <2>5. CASE MergeSnapshot
    BY <2>5, OutboxesStay DEF MergeSnapshot, fileVars, historyVars
  <2>6. CASE MergeDone
    BY <2>6, OutboxesStay DEF MergeDone, Quiet, Persist, BeginRenames, fileVars,
       historyVars
  <2> HIDE DEF Fields, HasFields, DataFields, dataVars, NoRequest, serverVars
  <2> QED BY <1>3, <2>1, <2>2, <2>3, <2>4, <2>5, <2>6 DEF Reconcile
<1>4. CASE Renames
  <2>1. CASE RenameStaged
    BY <2>1, OutboxRenameStaged
  <2> USE DEF Fields, HasFields, DataFields, dataVars, NoRequest, serverVars
  <2>2. CASE RenameSkipped
    BY <2>2, OutboxesStay DEF RenameSkipped, Quiet, fileVars, historyVars
  <2>3. CASE RenamesDone
    BY <2>3, OutboxesStay DEF RenamesDone, Quiet, Goto, fileVars, historyVars
  <2> HIDE DEF Fields, HasFields, DataFields, dataVars, NoRequest, serverVars
  <2> QED BY <1>4, <2>1, <2>2, <2>3 DEF Renames
<1>5. CASE Push
  <2>1. CASE PushDone
    BY <2>1, OutboxPushDone
  <2>2. ASSUME NEW p \in Paths, PushPath(p) PROVE Takes \/ (OutboxKnown(mem)' /\ OutboxKnown(saved)')
    BY <2>2, OutboxPushPath
  <2>3. ASSUME NEW p \in Paths, DeletePath(p) PROVE Takes \/ (OutboxKnown(mem)' /\ OutboxKnown(saved)')
    BY <2>3, OutboxDeletePath
  <2> USE DEF Fields, HasFields, DataFields, dataVars, NoRequest, serverVars
  <2>4. CASE PlanFull
    BY <2>4, OutboxesStay DEF PlanFull, Plan, Quiet, fileVars, historyVars
  <2>5. CASE PlanQueued
    BY <2>5, OutboxesStay DEF PlanQueued, Plan, Quiet, fileVars, historyVars
  <2>6. CASE DeletesDone
    BY <2>6, OutboxesStay DEF DeletesDone, Quiet, fileVars, historyVars
  <2>7. ASSUME NEW p \in Paths, ScanPath(p) PROVE Takes \/ (OutboxKnown(mem)' /\ OutboxKnown(saved)')
    BY <2>7, OutboxesStay DEF ScanPath, Quiet, fileVars, historyVars
  <2> HIDE DEF Fields, HasFields, DataFields, dataVars, NoRequest, serverVars
  <2> QED BY <1>5, <2>1, <2>2, <2>3, <2>4, <2>5, <2>6, <2>7 DEF Push
<1>6. CASE Answered
  <2>1. CASE AnswerApplied
    BY <2>1, OutboxAnswered
  <2>2. CASE AnswerMoved
    BY <2>2, OutboxAnswered
  <2>3. CASE AnswerBatch
    BY <2>3, OutboxAnswered
  <2> USE DEF Fields, HasFields, DataFields, dataVars, NoRequest, serverVars
  <2>4. CASE AnswerConflict
    BY <2>4, OutboxesStay DEF AnswerConflict, Quiet, Persist, Discarded, fileVars,
       historyVars
  <2>5. CASE KeepRefused
    BY <2>5, OutboxesStay DEF KeepRefused, Quiet, historyVars
  <2>6. CASE AnswerMoveConflict
    BY <2>6, OutboxesStay DEF AnswerMoveConflict, Quiet, Goto, Return, Discarded,
       Queued, fileVars, historyVars
  <2>7. CASE AnswerBatchConflict
    BY <2>7, OutboxesStay DEF AnswerBatchConflict, Quiet, Persist, Discarded,
       Queued, fileVars, historyVars
  <2> HIDE DEF Fields, HasFields, DataFields, dataVars, NoRequest, serverVars
  <2> QED BY <1>6, <2>1, <2>2, <2>3, <2>4, <2>5, <2>6, <2>7 DEF Answered
<1>7. CASE Apply
  <2>1. CASE RemoveLocal
    BY <2>1, Zenon DEF Takes
  <2>2. CASE SetAside
    BY <2>2, Zenon DEF Takes
  <2>3. CASE SwapIn
    BY <2>3, Zenon DEF Takes
  <2>4. CASE VerifyInstalled
    BY <2>4, Zenon DEF Takes
  <2> USE DEF Fields, HasFields, DataFields, dataVars, NoRequest, serverVars
  <2>5. CASE ApplyRemoteChange
    BY <2>5, OutboxesStay DEF ApplyRemoteChange, Quiet, Goto, Return, StageDownload,
       Persist, historyVars
  <2>6. CASE Download
    BY <2>6, OutboxesStay DEF Download, Quiet, Goto, historyVars
  <2>7. CASE FinishDownload
    BY <2>7, OutboxesStay DEF FinishDownload, Quiet, Goto, fileVars, historyVars
  <2>8. CASE Save
    BY <2>8, OutboxesStay DEF Save, Quiet, Return, fileVars, historyVars
  <2> HIDE DEF Fields, HasFields, DataFields, dataVars, NoRequest, serverVars
  <2> QED BY <1>7, <2>1, <2>2, <2>3, <2>4, <2>5, <2>6, <2>7, <2>8 DEF Apply
<1>8. CASE Pull
  <2> USE DEF Fields, HasFields, DataFields, dataVars, NoRequest, serverVars
  <2>1. CASE PullPage
    BY <2>1, OutboxesStay DEF PullPage, Quiet, fileVars, historyVars
  <2>2. CASE PageChange
    BY <2>2, OutboxesStay DEF PageChange, Quiet, fileVars, historyVars
  <2>3. CASE PageDone
    BY <2>3, OutboxesStay DEF PageDone, Quiet, Persist, fileVars, historyVars
  <2>4. CASE Finish
    BY <2>4, OutboxesStay DEF Finish, Quiet, Persist, Goto, fileVars, historyVars
  <2>5. CASE AckCursor
    BY <2>5, OutboxesStay DEF AckCursor, Quiet, Goto, Acknowledge, fileVars,
       historyVars
  <2>6. CASE CompleteRun
    BY <2>6, OutboxesStay DEF CompleteRun, Quiet, EndRun, fileVars, historyVars,
       IdleRun
  <2> HIDE DEF Fields, HasFields, DataFields, dataVars, NoRequest, serverVars
  <2> QED BY <1>8, <2>1, <2>2, <2>3, <2>4, <2>5, <2>6 DEF Pull
<1>9. ASSUME NEW p \in Paths, NEW content \in UserContents \cup {Absent},
   UserEdit(p, content) PROVE Takes \/ (OutboxKnown(mem)' /\ OutboxKnown(saved)')
  BY <1>9, OutboxesStay, Noted DEF UserEdit, NoRequest, serverVars
<1>10. ASSUME NEW from \in Paths, NEW to \in Paths, UserRename(from, to) PROVE Takes
   \/ (OutboxKnown(mem)' /\ OutboxKnown(saved)')
  BY <1>10, OutboxesStay, Noted DEF UserRename, NoRequest, serverVars
<1>11. CASE StartRun
  BY <1>11, OutboxesStay DEF StartRun, Fields, HasFields, DataFields, dataVars,
     NoRequest, serverVars, Quiet, Goto, fileVars, historyVars
<1>12. CASE Send
  BY <1>12, OutboxSend
<1>13. CASE ServerMoves
  BY <1>13, OutboxServerMoves
<1>14. CASE SaveEvents
  BY <1>14, OutboxesStay DEF SaveEvents, Fields, HasFields, DataFields, dataVars,
     NoRequest, serverVars, Quiet, fileVars, historyVars
<1>15. CASE RunFails
  BY <1>15, OutboxesStay DEF RunFails, Fields, HasFields, DataFields, dataVars,
     NoRequest, serverVars, EndRun, Spend, IdleRun
<1>16. CASE Crash
  BY <1>16, OutboxesStay DEF Crash, Fields, HasFields, DataFields, dataVars,
     NoRequest, serverVars, IdleRun, Spend, fileVars, historyVars
<1>17. CASE Restart
  BY <1>17, OutboxesStay DEF Restart, Fields, HasFields, DataFields, dataVars,
     NoRequest, serverVars, fileVars, historyVars
<1>18. CASE UNCHANGED vars
  BY <1>18, OutboxesStay DEF Fields, HasFields, DataFields, dataVars, NoRequest,
     serverVars, vars, fileVars, historyVars
<1> QED BY <1>1, <1>2, <1>3, <1>4, <1>5, <1>6, <1>7, <1>8, <1>9, <1>10, <1>11, <1>12,
         <1>13, <1>14, <1>15, <1>16, <1>17, <1>18 DEF Next, Engine, User
-----------------------------------------------------------------------------
(* An operation that is over.                                              *)

\* AnswerApplied goes on with a save, or with the next file.
LEMMA OverAnswerApplied ==
    ASSUME Base, Calls, AnswerApplied
    PROVE  OutboxOver'
<1>1. run.ret \in {"outbox", "push", "deletes"}
  BY DEF AnswerApplied, Calls
<1>2. pc' = IF Recovering THEN "save" ELSE run.ret
  BY Zenon DEF AnswerApplied, Goto, Return
<1> QED BY <1>1, <1>2 DEF OutboxOver, Recovering

\* Every step keeps it off the disk before a file is touched.
LEMMA OutboxOverStep ==
    Base /\ Fields /\ Calls /\ Artifacts /\ Boxes /\ OutboxOver /\ [Next]_vars
      => OutboxOver'
<1> SUFFICES ASSUME Base, Fields, Calls, Artifacts, Boxes, OutboxOver, [Next]_vars
   PROVE OutboxOver'
  OBVIOUS
<1>1. CASE ResumeInbox
  <2> USE DEF OutboxOver, Calls, Requesters, Appliers, Artifacts, Boxes, Fields,
     HasFields, DataFields, RunFields, Installing, dataVars, Loops
  <2>1. CASE InboxInstalled
    BY <2>1 DEF InboxInstalled, Quiet, NoRequest, CleanUp, serverVars, historyVars
  <2>2. CASE InboxReady
    BY <2>2 DEF InboxReady, Quiet, NoRequest, fileVars, serverVars, historyVars
  <2>3. CASE InboxLost
    BY <2>3 DEF InboxLost, Quiet, NoRequest, Persist, CleanUp, serverVars,
       historyVars
  <2>4. CASE InboxDone
    BY <2>4 DEF InboxDone, Quiet, NoRequest, Goto, fileVars, serverVars, historyVars
  <2> HIDE DEF OutboxOver, Calls, Requesters, Appliers, Artifacts, Boxes, Fields,
     HasFields, DataFields, RunFields, Installing, dataVars, Loops
  <2> QED BY <1>1, <2>1, <2>2, <2>3, <2>4 DEF ResumeInbox
<1>2. CASE ResumeOutbox
  <2> USE DEF OutboxOver, Calls, Requesters, Appliers, Artifacts, Boxes, Fields,
     HasFields, DataFields, RunFields, Installing, dataVars, Loops
  <2>1. CASE OutboxCommitted
    BY <2>1 DEF OutboxCommitted, Quiet, serverVars, fileVars, historyVars, NoRequest
  <2>2. CASE OutboxResent
    BY <2>2 DEF OutboxResent, Quiet, NoRequest, fileVars, serverVars, historyVars
  <2>3. CASE OutboxAbandoned
    BY <2>3 DEF OutboxAbandoned, Quiet, NoRequest, Persist, Discarded, Queued,
       fileVars, serverVars, historyVars
  <2>4. CASE OutboxDone
    BY <2>4 DEF OutboxDone, Quiet, NoRequest, Goto, BeginRenames, fileVars,
       serverVars, historyVars
  <2> HIDE DEF OutboxOver, Calls, Requesters, Appliers, Artifacts, Boxes, Fields,
     HasFields, DataFields, RunFields, Installing, dataVars, Loops
  <2> QED BY <1>2, <2>1, <2>2, <2>3, <2>4 DEF ResumeOutbox
<1>3. CASE Reconcile
  <2> USE DEF OutboxOver, Calls, Requesters, Appliers, Artifacts, Boxes, Fields,
     HasFields, DataFields, RunFields, Installing, dataVars, Loops
  <2>1. CASE ReadSnapshot
    BY <2>1 DEF ReadSnapshot, Quiet, NoRequest, fileVars, serverVars, historyVars
  <2>2. CASE PreserveLocal
    BY <2>2 DEF PreserveLocal, Quiet, EndRun, serverVars, IdleRun, NoRequest,
       historyVars
  <2>3. CASE DiscardLocal
    BY <2>3 DEF DiscardLocal, Quiet, Return, EndRun, serverVars, IdleRun, NoRequest,
       historyVars
  <2>4. CASE PreserveDone
    BY <2>4 DEF PreserveDone, Quiet, NoRequest, Goto, fileVars, serverVars,
       historyVars
  <2>5. CASE MergeSnapshot
    BY <2>5 DEF MergeSnapshot, NoRequest, fileVars, serverVars, historyVars
  <2>6. CASE MergeDone
    BY <2>6 DEF MergeDone, Quiet, NoRequest, Persist, BeginRenames, fileVars,
       serverVars, historyVars
  <2> HIDE DEF OutboxOver, Calls, Requesters, Appliers, Artifacts, Boxes, Fields,
     HasFields, DataFields, RunFields, Installing, dataVars, Loops
  <2> QED BY <1>3, <2>1, <2>2, <2>3, <2>4, <2>5, <2>6 DEF Reconcile
<1>4. CASE Renames
  <2> USE DEF OutboxOver, Calls, Requesters, Appliers, Artifacts, Boxes, Fields,
     HasFields, DataFields, RunFields, Installing, dataVars, Loops
  <2>1. CASE RenameSkipped
    BY <2>1 DEF RenameSkipped, Quiet, NoRequest, fileVars, serverVars, historyVars
  <2>2. CASE RenameStaged
    BY <2>2 DEF RenameStaged, Quiet, Stage, fileVars, serverVars, historyVars,
       Persist, NoRequest
  <2>3. CASE RenamesDone
    BY <2>3 DEF RenamesDone, Quiet, NoRequest, Goto, fileVars, serverVars,
       historyVars
  <2> HIDE DEF OutboxOver, Calls, Requesters, Appliers, Artifacts, Boxes, Fields,
     HasFields, DataFields, RunFields, Installing, dataVars, Loops
  <2> QED BY <1>4, <2>1, <2>2, <2>3 DEF Renames
<1>5. CASE Push
  <2> USE DEF OutboxOver, Calls, Requesters, Appliers, Artifacts, Boxes, Fields,
     HasFields, DataFields, RunFields, Installing, dataVars, Loops
  <2>1. CASE PlanFull
    BY <2>1 DEF PlanFull, Plan, Quiet, NoRequest, fileVars, serverVars, historyVars
  <2>2. CASE PlanQueued
    BY <2>2 DEF PlanQueued, Plan, Quiet, NoRequest, fileVars, serverVars,
       historyVars
  <2>3. CASE PushDone
    BY <2>3 DEF PushDone, Quiet, NoRequest, Stage, fileVars, serverVars,
       historyVars, Persist
  <2>4. CASE DeletesDone
    BY <2>4 DEF DeletesDone, Quiet, NoRequest, fileVars, serverVars, historyVars
  <2>5. ASSUME NEW p \in Paths, ScanPath(p) PROVE OutboxOver'
    BY <2>5 DEF ScanPath, Quiet, NoRequest, fileVars, serverVars, historyVars
  <2>6. ASSUME NEW p \in Paths, PushPath(p) PROVE OutboxOver'
    BY <2>6 DEF PushPath, Quiet, NoRequest, Stage, Queued, Unnoted, fileVars,
       serverVars, historyVars, Persist
  <2>7. ASSUME NEW p \in Paths, DeletePath(p) PROVE OutboxOver'
    BY <2>7 DEF DeletePath, Quiet, Stage, fileVars, serverVars, historyVars,
       Persist, NoRequest
  <2> HIDE DEF OutboxOver, Calls, Requesters, Appliers, Artifacts, Boxes, Fields,
     HasFields, DataFields, RunFields, Installing, dataVars, Loops
  <2> QED BY <1>5, <2>1, <2>2, <2>3, <2>4, <2>5, <2>6, <2>7 DEF Push
<1>6. CASE Answered
  <2>1. CASE AnswerApplied
    BY <2>1, OverAnswerApplied
  <2> USE DEF OutboxOver, Calls, Requesters, Appliers, Artifacts, Boxes, Fields,
     HasFields, DataFields, RunFields, Installing, dataVars, Loops
  <2>2. CASE AnswerConflict
    BY <2>2 DEF AnswerConflict, Quiet, Persist, Discarded, serverVars, fileVars,
       historyVars, NoRequest
  <2>3. CASE KeepRefused
    BY <2>3 DEF KeepRefused, Quiet, NoRequest, serverVars, historyVars
  <2>4. CASE AnswerMoved
    BY <2>4 DEF AnswerMoved, Quiet, Goto, Complete, serverVars, fileVars,
       historyVars, NoRequest
  <2>5. CASE AnswerMoveConflict
    BY <2>5 DEF AnswerMoveConflict, Quiet, Goto, Return, Discarded, Queued,
       serverVars, fileVars, historyVars, NoRequest
  <2>6. CASE AnswerBatch
    BY <2>6 DEF AnswerBatch, Quiet, Complete, serverVars, fileVars, historyVars,
       NoRequest
  <2>7. CASE AnswerBatchConflict
    BY <2>7 DEF AnswerBatchConflict, Quiet, Persist, Discarded, Queued, serverVars,
       fileVars, historyVars, NoRequest
  <2> HIDE DEF OutboxOver, Calls, Requesters, Appliers, Artifacts, Boxes, Fields,
     HasFields, DataFields, RunFields, Installing, dataVars, Loops
  <2> QED BY <1>6, <2>1, <2>2, <2>3, <2>4, <2>5, <2>6, <2>7 DEF Answered
<1>7. CASE Apply
  <2> USE DEF OutboxOver, Calls, Requesters, Appliers, Artifacts, Boxes, Fields,
     HasFields, DataFields, RunFields, Installing, dataVars, Loops
  <2>1. CASE ApplyRemoteChange
    BY <2>1 DEF ApplyRemoteChange, Quiet, NoRequest, Goto, Return, StageDownload,
       Persist, serverVars, historyVars
  <2>2. CASE RemoveLocal
    BY <2>2 DEF RemoveLocal, Quiet, Return, EndRun, serverVars, IdleRun, NoRequest,
       historyVars
  <2>3. CASE Download
    BY <2>3 DEF Download, Quiet, NoRequest, Goto, serverVars, historyVars
  <2>4. CASE SetAside
    BY <2>4 DEF SetAside, Quiet, NoRequest, Goto, serverVars, historyVars
  <2>5. CASE SwapIn
    BY <2>5 DEF SwapIn, Quiet, Goto, EndRun, serverVars, IdleRun, NoRequest,
       historyVars
  <2>6. CASE VerifyInstalled
    BY <2>6 DEF VerifyInstalled, Quiet, Goto, EndRun, serverVars, IdleRun,
       NoRequest, historyVars
  <2>7. CASE FinishDownload
    BY <2>7 DEF FinishDownload, Quiet, NoRequest, Goto, fileVars, serverVars,
       historyVars
  <2>8. CASE Save
    BY <2>8 DEF Save, Quiet, NoRequest, Return, fileVars, serverVars, historyVars
  <2> HIDE DEF OutboxOver, Calls, Requesters, Appliers, Artifacts, Boxes, Fields,
     HasFields, DataFields, RunFields, Installing, dataVars, Loops
  <2> QED BY <1>7, <2>1, <2>2, <2>3, <2>4, <2>5, <2>6, <2>7, <2>8 DEF Apply
<1>8. CASE Pull
  <2> USE DEF OutboxOver, Calls, Requesters, Appliers, Artifacts, Boxes, Fields,
     HasFields, DataFields, RunFields, Installing, dataVars, Loops
  <2>1. CASE PullPage
    BY <2>1 DEF PullPage, Quiet, NoRequest, fileVars, serverVars, historyVars
  <2>2. CASE PageChange
    BY <2>2 DEF PageChange, Quiet, NoRequest, fileVars, serverVars, historyVars
  <2>3. CASE PageDone
    BY <2>3 DEF PageDone, Quiet, NoRequest, Persist, fileVars, serverVars,
       historyVars
  <2>4. CASE Finish
    BY <2>4 DEF Finish, Quiet, NoRequest, Persist, Goto, fileVars, serverVars,
       historyVars
  <2>5. CASE AckCursor
    BY <2>5 DEF AckCursor, Quiet, Goto, Acknowledge, fileVars, serverVars,
       historyVars, NoRequest
  <2>6. CASE CompleteRun
    BY <2>6 DEF CompleteRun, Quiet, EndRun, serverVars, fileVars, historyVars,
       IdleRun, NoRequest
  <2> HIDE DEF OutboxOver, Calls, Requesters, Appliers, Artifacts, Boxes, Fields,
     HasFields, DataFields, RunFields, Installing, dataVars, Loops
  <2> QED BY <1>8, <2>1, <2>2, <2>3, <2>4, <2>5, <2>6 DEF Pull
<1>9. ASSUME NEW p \in Paths, NEW content \in UserContents \cup {Absent},
   UserEdit(p, content) PROVE OutboxOver'
  BY <1>9, Noted DEF OutboxOver, UserEdit
<1>10. ASSUME NEW from \in Paths, NEW to \in Paths, UserRename(from, to) PROVE
   OutboxOver'
  BY <1>10, Noted DEF OutboxOver, UserRename
<1>11. CASE StartRun
  BY <1>11 DEF StartRun, OutboxOver, Calls, Requesters, Appliers, Artifacts, Boxes,
     Fields, HasFields, DataFields, RunFields, Installing, dataVars, Loops, Quiet,
     NoRequest, Goto, fileVars, serverVars, historyVars
<1>12. CASE Send
  BY <1>12 DEF Send, OutboxOver, Calls, Requesters, Appliers, Artifacts, Boxes,
     Fields, HasFields, DataFields, RunFields, Installing, dataVars, Loops, Quiet,
     Goto, fileVars, serverVars, historyVars, NoRequest
<1>13. CASE ServerMoves
  BY <1>13 DEF ServerMoves, OutboxOver, Calls, Requesters, Appliers, Artifacts,
     Boxes, Fields, HasFields, DataFields, RunFields, Installing, dataVars, Loops,
     Spend, fileVars, serverVars, historyVars
<1>14. CASE SaveEvents
  BY <1>14 DEF SaveEvents, OutboxOver, Calls, Requesters, Appliers, Artifacts,
     Boxes, Fields, HasFields, DataFields, RunFields, Installing, dataVars, Loops,
     Quiet, NoRequest, fileVars, serverVars, historyVars
<1>15. CASE RunFails
  BY <1>15 DEF RunFails, OutboxOver, Calls, Requesters, Appliers, Artifacts, Boxes,
     Fields, HasFields, DataFields, RunFields, Installing, dataVars, Loops, EndRun,
     Spend, serverVars, IdleRun
<1>16. CASE Crash
  BY <1>16 DEF Crash, OutboxOver, Calls, Requesters, Appliers, Artifacts, Boxes,
     Fields, HasFields, DataFields, RunFields, Installing, dataVars, Loops, IdleRun,
     Spend, serverVars, fileVars, historyVars
<1>17. CASE Restart
  BY <1>17 DEF Restart, OutboxOver, Calls, Requesters, Appliers, Artifacts, Boxes,
     Fields, HasFields, DataFields, RunFields, Installing, dataVars, Loops,
     NoRequest, fileVars, historyVars, serverVars
<1>18. CASE UNCHANGED vars
  BY <1>18 DEF OutboxOver, Calls, Requesters, Appliers, Artifacts, Boxes, Fields,
     HasFields, DataFields, RunFields, Installing, dataVars, Loops, vars,
     serverVars, fileVars, historyVars
<1> QED BY <1>1, <1>2, <1>3, <1>4, <1>5, <1>6, <1>7, <1>8, <1>9, <1>10, <1>11, <1>12,
         <1>13, <1>14, <1>15, <1>16, <1>17, <1>18 DEF Next, Engine, User
-----------------------------------------------------------------------------
(* The change in hand is not what is recorded.                             *)

\* What is recorded of a path does not become its current row.
NewStays ==
    \A p \in Paths : mem'.files[p] = mem.files[p] /\ ~Current(mem, p) => ~Current(mem, p)'

LEMMA NewStaysStep == RecordsSound /\ Onward => NewStays
<1> SUFFICES ASSUME RecordsSound, Onward, NEW p \in Paths, mem'.files[p] = mem.files[p],
                    Current(mem, p)'
             PROVE  Current(mem, p)
  BY DEF NewStays
<1>1. mem.files[p] = Untracked \/ Genuine(p, mem.files[p])
  BY DEF RecordsSound, DataSound, FilesSound
<1> QED BY <1>1 DEF Onward, RowsStay, IsRow, Current

\* Where no change is in hand any more.
LEMMA HandEmptied ==
    ASSUME InHandBoxed, pc' \notin Applying \cup {"save"} => run'.change = NoDownload,
           pc' \notin Installing \cup {"remove"},
           mem'.inbox \in {mem.inbox, saved.inbox, NoDownload},
           saved'.inbox \in {mem.inbox, saved.inbox, NoDownload}
    PROVE  InHandBoxed'
BY DEF InHandBoxed

LEMMA BoxedApplyRemoteChange ==
    ASSUME Base, InHandBoxed, ApplyRemoteChange
    PROVE  InHandBoxed'
<1> DEFINE v == run.change
<1>1. HasFields(mem, DataFields) /\ HasFields(run, RunFields) /\ run.ret \in Appliers
  BY DEF ApplyRemoteChange, Base, Fields, Calls
<1>2. CASE /\ mem' = [mem EXCEPT !.files = Recorded({v})] /\ saved' = saved /\ Return
  <2>1. mem'.inbox = mem.inbox /\ run'.change = NoDownload /\ pc' = run.ret
    BY <1>1, <1>2 DEF HasFields, DataFields, RunFields, Return
  <2> QED BY <1>1, <1>2, <2>1, HandEmptied DEF Appliers, Installing
<1>3. CASE v.content = Absent /\ Goto("remove") /\ UNCHANGED dataVars
  BY <1>3 DEF InHandBoxed, Goto, dataVars, Applying, Installing
<1>4. CASE v.content # Absent /\ StageDownload(v) /\ Goto("download")
  <2>1. mem'.inbox = v /\ saved' = mem' /\ run' = run /\ pc' = "download"
    BY <1>1, <1>4 DEF HasFields, DataFields, StageDownload, Persist, Goto
  <2> QED BY <1>4, <2>1 DEF InHandBoxed, Applying, Installing
<1> QED BY <1>2, <1>3, <1>4, Zenon DEF ApplyRemoteChange

LEMMA BoxedRemoveLocal ==
    ASSUME Base, InHandBoxed, RemoveLocal
    PROVE  InHandBoxed'
<1>1. HasFields(mem, DataFields) /\ HasFields(run, RunFields) /\ run.ret \in Appliers
  BY DEF RemoveLocal, Base, Fields, Calls
<1>2. CASE EndRun
  BY <1>2, HandEmptied DEF EndRun, IdleRun, Installing
<1>3. CASE mem' = [mem EXCEPT !.files = Recorded({run.change})] /\ Return /\ saved' = saved
  <2>1. mem'.inbox = mem.inbox /\ run'.change = NoDownload /\ pc' = run.ret
    BY <1>1, <1>3 DEF HasFields, DataFields, RunFields, Return
  <2> QED BY <1>1, <1>3, <2>1, HandEmptied DEF Appliers, Installing
<1> QED BY <1>2, <1>3, Zenon DEF RemoveLocal

LEMMA BoxedDiscardLocal ==
    ASSUME Base, InHandBoxed, DiscardLocal
    PROVE  InHandBoxed'
<1>1. HasFields(run, RunFields) /\ run.ret = "preserve"
  BY DEF DiscardLocal, Base, Fields, Calls
<1>2. CASE EndRun
  BY <1>2, HandEmptied DEF EndRun, IdleRun, Installing
<1>3. CASE UNCHANGED dataVars /\ Return
  <2>1. mem' = mem /\ saved' = saved /\ run'.change = NoDownload /\ pc' = "preserve"
    BY <1>1, <1>3 DEF HasFields, RunFields, Return, dataVars
  <2> QED BY <2>1, HandEmptied DEF Installing
<1> QED BY <1>2, <1>3, Zenon DEF DiscardLocal

LEMMA BoxedAnswerApplied ==
    ASSUME Base, InHandBoxed, AnswerApplied
    PROVE  InHandBoxed'
<1>1. HasFields(mem, DataFields) /\ HasFields(run, RunFields)
      /\ run.ret \in {"outbox", "push", "deletes"} /\ run.change = NoDownload
  BY DEF AnswerApplied, Base, Fields, Calls, InHandBoxed, Applying, Installing
<1>2. mem'.inbox = mem.inbox /\ saved'.inbox = mem.inbox
  <2>1. CASE Recovering
    BY <1>1, <2>1 DEF AnswerApplied, Complete, HasFields, DataFields
  <2>2. CASE ~Recovering
    BY <1>1, <2>2 DEF AnswerApplied, Complete, HasFields, DataFields
  <2> QED BY <2>1, <2>2
<1>3. pc' \in {"save", run.ret} /\ run'.change = NoDownload
  <2>1. Goto("save") \/ Return
    BY Zenon DEF AnswerApplied
  <2> QED BY <1>1, <2>1 DEF Goto, Return, HasFields, RunFields
<1> QED BY <1>1, <1>2, <1>3, HandEmptied DEF Installing

LEMMA BoxedAnswerBatchConflict ==
    ASSUME Base, InHandBoxed, AnswerBatchConflict
    PROVE  InHandBoxed'
<1>1. HasFields(mem, DataFields) /\ HasFields(run, RunFields) /\ run.change = NoDownload
  BY DEF AnswerBatchConflict, Base, Fields, InHandBoxed, Applying, Installing
<1>2. CASE Recovering
  BY <1>1, <1>2, HandEmptied DEF AnswerBatchConflict, Persist, Discarded, HasFields, DataFields,
     RunFields, Installing
<1>3. CASE ~Recovering
  BY <1>1, <1>3, HandEmptied DEF AnswerBatchConflict, Persist, Discarded, HasFields, DataFields,
     RunFields, Installing
<1> QED BY <1>2, <1>3

LEMMA BoxedMergeSnapshot ==
    ASSUME Base, InHandBoxed, MergeSnapshot
    PROVE  InHandBoxed'
<1>1. /\ pc = "merge" /\ saved' = saved /\ run.change = NoDownload
      /\ HasFields(mem, DataFields)
  BY DEF MergeSnapshot, Base, Fields, InHandBoxed, Applying, Installing
<1>2. CASE mem.mode = "local"
  <2>1. PICK new : mem' = [mem EXCEPT !.files = new]
    BY <1>2, Zenon DEF MergeSnapshot
  <2>2. pc' = pc /\ run' = run
    BY <1>2, Zenon DEF MergeSnapshot
  <2> QED BY <1>1, <2>1, <2>2, HandEmptied DEF HasFields, DataFields, Installing
<1>3. CASE mem.mode # "local"
  <2>1. mem' = mem /\ pc' = "apply"
    BY <1>3, Zenon DEF MergeSnapshot
  <2> QED BY <1>1, <2>1, HandEmptied DEF Installing, Applying
<1> QED BY <1>2, <1>3

\* A request that is staged, or none.
LEMMA BoxedPushPath ==
    ASSUME Base, InHandBoxed, NEW p \in Paths, PushPath(p)
    PROVE  InHandBoxed'
<1>1. HasFields(mem, DataFields) /\ HasFields(run, RunFields) /\ pc = "push"
      /\ run.change = NoDownload
  BY DEF PushPath, Base, Fields, InHandBoxed, Applying, Installing
<1>2. run'.change = NoDownload /\ pc' \in {"push", "send"}
  BY <1>1 DEF PushPath, HasFields, RunFields, Stage
<1>3. mem'.inbox = mem.inbox /\ saved'.inbox \in {mem.inbox, saved.inbox}
  <2>1. CASE Stage(ApplyRequest(p, disk[p]))
    BY <1>1, <2>1 DEF Stage, Persist, HasFields, DataFields
  <2>2. CASE /\ mem' = IF disk[p] = Absent THEN mem ELSE [mem EXCEPT !.pending = Queued({p})]
             /\ saved' = saved
    BY <1>1, <2>2 DEF HasFields, DataFields
  <2> QED BY <2>1, <2>2, Zenon DEF PushPath
<1> QED BY <1>2, <1>3, HandEmptied DEF Installing

LEMMA BoxedPushDone ==
    ASSUME Base, InHandBoxed, PushDone
    PROVE  InHandBoxed'
<1>1. HasFields(mem, DataFields) /\ HasFields(run, RunFields) /\ pc = "push"
      /\ run.change = NoDownload
  BY DEF PushDone, Base, Fields, InHandBoxed, Applying, Installing
<1>2. run'.change = NoDownload /\ pc' \in {"deletes", "send"}
  BY <1>1 DEF PushDone, HasFields, RunFields, Stage
<1>3. mem'.inbox = mem.inbox /\ saved'.inbox \in {mem.inbox, saved.inbox}
  <2>1. ASSUME NEW q, Stage(q) PROVE mem'.inbox = mem.inbox /\ saved'.inbox = mem.inbox
    BY <1>1, <2>1 DEF Stage, Persist, HasFields, DataFields
  <2>2. UNCHANGED dataVars => mem' = mem /\ saved' = saved
    BY DEF dataVars
  <2>3. UNCHANGED dataVars \/ \E q : Stage(q)
    BY Zenon DEF PushDone
  <2> QED BY <2>1, <2>2, <2>3
<1> QED BY <1>2, <1>3, HandEmptied DEF Installing

\* Every step keeps the change in hand that of the inbox.
LEMMA InHandBoxedStep ==
    Base /\ Fields /\ Calls /\ Ready /\ Artifacts /\ Boxes /\ InHandBoxed /\ [Next]_vars
      => InHandBoxed'
<1> SUFFICES ASSUME Base, Fields, Calls, Ready, Artifacts, Boxes, InHandBoxed,
   [Next]_vars PROVE InHandBoxed'
  OBVIOUS
<1>1. CASE ResumeInbox
  <2> USE DEF InHandBoxed, Applying, Installing, Artifacts, Boxes, Calls,
     Requesters, Appliers, Fields, HasFields, DataFields, RunFields, Returns,
     dataVars
  <2>1. CASE InboxInstalled
    BY <2>1 DEF InboxInstalled, Quiet, NoRequest, CleanUp, serverVars, historyVars
  <2>2. CASE InboxReady
    BY <2>2 DEF InboxReady, Quiet, NoRequest, fileVars, serverVars, historyVars
  <2>3. CASE InboxLost
    BY <2>3 DEF InboxLost, Quiet, NoRequest, Persist, CleanUp, serverVars,
       historyVars
  <2>4. CASE InboxDone
    BY <2>4 DEF InboxDone, Quiet, NoRequest, Goto, fileVars, serverVars, historyVars
  <2> HIDE DEF InHandBoxed, Applying, Installing, Artifacts, Boxes, Calls,
     Requesters, Appliers, Fields, HasFields, DataFields, RunFields, Returns,
     dataVars
  <2> QED BY <1>1, <2>1, <2>2, <2>3, <2>4 DEF ResumeInbox
<1>2. CASE ResumeOutbox
  <2> USE DEF InHandBoxed, Applying, Installing, Artifacts, Boxes, Calls,
     Requesters, Appliers, Fields, HasFields, DataFields, RunFields, Returns,
     dataVars
  <2>1. CASE OutboxCommitted
    BY <2>1 DEF OutboxCommitted, Quiet, serverVars, fileVars, historyVars, NoRequest
  <2>2. CASE OutboxResent
    BY <2>2 DEF OutboxResent, Quiet, NoRequest, fileVars, serverVars, historyVars
  <2>3. CASE OutboxAbandoned
    BY <2>3 DEF OutboxAbandoned, Quiet, NoRequest, Persist, Discarded, Queued,
       fileVars, serverVars, historyVars
  <2>4. CASE OutboxDone
    BY <2>4 DEF OutboxDone, Quiet, NoRequest, Goto, BeginRenames, fileVars,
       serverVars, historyVars
  <2> HIDE DEF InHandBoxed, Applying, Installing, Artifacts, Boxes, Calls,
     Requesters, Appliers, Fields, HasFields, DataFields, RunFields, Returns,
     dataVars
  <2> QED BY <1>2, <2>1, <2>2, <2>3, <2>4 DEF ResumeOutbox
<1>3. CASE Reconcile
  <2>1. CASE DiscardLocal
    BY <2>1, BoxedDiscardLocal
  <2>2. CASE MergeSnapshot
    BY <2>2, BoxedMergeSnapshot
  <2> USE DEF InHandBoxed, Applying, Installing, Artifacts, Boxes, Calls,
     Requesters, Appliers, Fields, HasFields, DataFields, RunFields, Returns,
     dataVars
  <2>3. CASE ReadSnapshot
    BY <2>3 DEF ReadSnapshot, Quiet, NoRequest, fileVars, serverVars, historyVars
  <2>4. CASE PreserveLocal
    BY <2>4 DEF PreserveLocal, Quiet, EndRun, serverVars, IdleRun, NoRequest,
       historyVars
  <2>5. CASE PreserveDone
    BY <2>5 DEF PreserveDone, Quiet, NoRequest, Goto, fileVars, serverVars,
       historyVars
  <2>6. CASE MergeDone
    BY <2>6 DEF MergeDone, Quiet, NoRequest, Persist, BeginRenames, fileVars,
       serverVars, historyVars
  <2> HIDE DEF InHandBoxed, Applying, Installing, Artifacts, Boxes, Calls,
     Requesters, Appliers, Fields, HasFields, DataFields, RunFields, Returns,
     dataVars
  <2> QED BY <1>3, <2>1, <2>2, <2>3, <2>4, <2>5, <2>6 DEF Reconcile
<1>4. CASE Renames
  <2> USE DEF InHandBoxed, Applying, Installing, Artifacts, Boxes, Calls,
     Requesters, Appliers, Fields, HasFields, DataFields, RunFields, Returns,
     dataVars
  <2>1. CASE RenameSkipped
    BY <2>1 DEF RenameSkipped, Quiet, NoRequest, fileVars, serverVars, historyVars
  <2>2. CASE RenameStaged
    BY <2>2 DEF RenameStaged, Quiet, Stage, fileVars, serverVars, historyVars,
       Persist, NoRequest
  <2>3. CASE RenamesDone
    BY <2>3 DEF RenamesDone, Quiet, NoRequest, Goto, fileVars, serverVars,
       historyVars
  <2> HIDE DEF InHandBoxed, Applying, Installing, Artifacts, Boxes, Calls,
     Requesters, Appliers, Fields, HasFields, DataFields, RunFields, Returns,
     dataVars
  <2> QED BY <1>4, <2>1, <2>2, <2>3 DEF Renames
<1>5. CASE Push
  <2>1. CASE PushDone
    BY <2>1, BoxedPushDone
  <2>2. ASSUME NEW p \in Paths, PushPath(p) PROVE InHandBoxed'
    BY <2>2, BoxedPushPath
  <2> USE DEF InHandBoxed, Applying, Installing, Artifacts, Boxes, Calls,
     Requesters, Appliers, Fields, HasFields, DataFields, RunFields, Returns,
     dataVars
  <2>3. CASE PlanFull
    BY <2>3 DEF PlanFull, Plan, Quiet, NoRequest, fileVars, serverVars, historyVars
  <2>4. CASE PlanQueued
    BY <2>4 DEF PlanQueued, Plan, Quiet, NoRequest, fileVars, serverVars,
       historyVars
  <2>5. CASE DeletesDone
    BY <2>5 DEF DeletesDone, Quiet, NoRequest, fileVars, serverVars, historyVars
  <2>6. ASSUME NEW p \in Paths, ScanPath(p) PROVE InHandBoxed'
    BY <2>6 DEF ScanPath, Quiet, NoRequest, fileVars, serverVars, historyVars
  <2>7. ASSUME NEW p \in Paths, DeletePath(p) PROVE InHandBoxed'
    BY <2>7 DEF DeletePath, Quiet, Stage, fileVars, serverVars, historyVars,
       Persist, NoRequest
  <2> HIDE DEF InHandBoxed, Applying, Installing, Artifacts, Boxes, Calls,
     Requesters, Appliers, Fields, HasFields, DataFields, RunFields, Returns,
     dataVars
  <2> QED BY <1>5, <2>1, <2>2, <2>3, <2>4, <2>5, <2>6, <2>7 DEF Push
<1>6. CASE Answered
  <2>1. CASE AnswerApplied
    BY <2>1, BoxedAnswerApplied
  <2>2. CASE AnswerBatchConflict
    BY <2>2, BoxedAnswerBatchConflict
  <2> USE DEF InHandBoxed, Applying, Installing, Artifacts, Boxes, Calls,
     Requesters, Appliers, Fields, HasFields, DataFields, RunFields, Returns,
     dataVars
  <2>3. CASE AnswerConflict
    BY <2>3 DEF AnswerConflict, Quiet, Persist, Discarded, serverVars, fileVars,
       historyVars, NoRequest
  <2>4. CASE KeepRefused
    BY <2>4 DEF KeepRefused, Quiet, NoRequest, serverVars, historyVars
  <2>5. CASE AnswerMoved
    BY <2>5 DEF AnswerMoved, Quiet, Goto, Complete, serverVars, fileVars,
       historyVars, NoRequest
  <2>6. CASE AnswerMoveConflict
    BY <2>6 DEF AnswerMoveConflict, Quiet, Goto, Return, Discarded, Queued,
       serverVars, fileVars, historyVars, NoRequest
  <2>7. CASE AnswerBatch
    BY <2>7 DEF AnswerBatch, Quiet, Complete, serverVars, fileVars, historyVars,
       NoRequest
  <2> HIDE DEF InHandBoxed, Applying, Installing, Artifacts, Boxes, Calls,
     Requesters, Appliers, Fields, HasFields, DataFields, RunFields, Returns,
     dataVars
  <2> QED BY <1>6, <2>1, <2>2, <2>3, <2>4, <2>5, <2>6, <2>7 DEF Answered
<1>7. CASE Apply
  <2>1. CASE ApplyRemoteChange
    BY <2>1, BoxedApplyRemoteChange
  <2>2. CASE RemoveLocal
    BY <2>2, BoxedRemoveLocal
  <2> USE DEF InHandBoxed, Applying, Installing, Artifacts, Boxes, Calls,
     Requesters, Appliers, Fields, HasFields, DataFields, RunFields, Returns,
     dataVars
  <2>3. CASE Download
    BY <2>3 DEF Download, Quiet, NoRequest, Goto, serverVars, historyVars
  <2>4. CASE SetAside
    BY <2>4 DEF SetAside, Quiet, NoRequest, Goto, serverVars, historyVars
  <2>5. CASE SwapIn
    BY <2>5 DEF SwapIn, Quiet, Goto, EndRun, serverVars, IdleRun, NoRequest,
       historyVars
  <2>6. CASE VerifyInstalled
    BY <2>6 DEF VerifyInstalled, Quiet, Goto, EndRun, serverVars, IdleRun,
       NoRequest, historyVars
  <2>7. CASE FinishDownload
    BY <2>7 DEF FinishDownload, Quiet, NoRequest, Goto, fileVars, serverVars,
       historyVars
  <2>8. CASE Save
    BY <2>8 DEF Save, Quiet, NoRequest, Return, fileVars, serverVars, historyVars
  <2> HIDE DEF InHandBoxed, Applying, Installing, Artifacts, Boxes, Calls,
     Requesters, Appliers, Fields, HasFields, DataFields, RunFields, Returns,
     dataVars
  <2> QED BY <1>7, <2>1, <2>2, <2>3, <2>4, <2>5, <2>6, <2>7, <2>8 DEF Apply
<1>8. CASE Pull
  <2> USE DEF InHandBoxed, Applying, Installing, Artifacts, Boxes, Calls,
     Requesters, Appliers, Fields, HasFields, DataFields, RunFields, Returns,
     dataVars
  <2>1. CASE PullPage
    BY <2>1 DEF PullPage, Quiet, NoRequest, fileVars, serverVars, historyVars
  <2>2. CASE PageChange
    BY <2>2 DEF PageChange, Quiet, NoRequest, fileVars, serverVars, historyVars
  <2>3. CASE PageDone
    BY <2>3 DEF PageDone, Quiet, NoRequest, Persist, fileVars, serverVars,
       historyVars
  <2>4. CASE Finish
    BY <2>4 DEF Finish, Quiet, NoRequest, Persist, Goto, fileVars, serverVars,
       historyVars
  <2>5. CASE AckCursor
    BY <2>5 DEF AckCursor, Quiet, Goto, Acknowledge, fileVars, serverVars,
       historyVars, NoRequest
  <2>6. CASE CompleteRun
    BY <2>6 DEF CompleteRun, Quiet, EndRun, serverVars, fileVars, historyVars,
       IdleRun, NoRequest
  <2> HIDE DEF InHandBoxed, Applying, Installing, Artifacts, Boxes, Calls,
     Requesters, Appliers, Fields, HasFields, DataFields, RunFields, Returns,
     dataVars
  <2> QED BY <1>8, <2>1, <2>2, <2>3, <2>4, <2>5, <2>6 DEF Pull
<1>9. ASSUME NEW p \in Paths, NEW content \in UserContents \cup {Absent},
   UserEdit(p, content) PROVE InHandBoxed'
  BY <1>9, Noted DEF InHandBoxed, UserEdit
<1>10. ASSUME NEW from \in Paths, NEW to \in Paths, UserRename(from, to) PROVE
   InHandBoxed'
  BY <1>10, Noted DEF InHandBoxed, UserRename
<1>11. CASE StartRun
  BY <1>11 DEF StartRun, InHandBoxed, Applying, Installing, Artifacts, Boxes, Calls,
     Requesters, Appliers, Fields, HasFields, DataFields, RunFields, Returns,
     dataVars, Quiet, NoRequest, Goto, fileVars, serverVars, historyVars
<1>12. CASE Send
  BY <1>12 DEF Send, InHandBoxed, Applying, Installing, Artifacts, Boxes, Calls,
     Requesters, Appliers, Fields, HasFields, DataFields, RunFields, Returns,
     dataVars, Quiet, Goto, fileVars, serverVars, historyVars, NoRequest
<1>13. CASE ServerMoves
  BY <1>13 DEF ServerMoves, InHandBoxed, Applying, Installing, Artifacts, Boxes,
     Calls, Requesters, Appliers, Fields, HasFields, DataFields, RunFields, Returns,
     dataVars, Spend, fileVars, serverVars, historyVars
<1>14. CASE SaveEvents
  BY <1>14 DEF SaveEvents, InHandBoxed, Applying, Installing, Artifacts, Boxes,
     Calls, Requesters, Appliers, Fields, HasFields, DataFields, RunFields, Returns,
     dataVars, Quiet, NoRequest, fileVars, serverVars, historyVars
<1>15. CASE RunFails
  BY <1>15 DEF RunFails, InHandBoxed, Applying, Installing, Artifacts, Boxes, Calls,
     Requesters, Appliers, Fields, HasFields, DataFields, RunFields, Returns,
     dataVars, EndRun, Spend, serverVars, IdleRun
<1>16. CASE Crash
  BY <1>16 DEF Crash, InHandBoxed, Applying, Installing, Artifacts, Boxes, Calls,
     Requesters, Appliers, Fields, HasFields, DataFields, RunFields, Returns,
     dataVars, IdleRun, Spend, serverVars, fileVars, historyVars
<1>17. CASE Restart
  BY <1>17 DEF Restart, InHandBoxed, Applying, Installing, Artifacts, Boxes, Calls,
     Requesters, Appliers, Fields, HasFields, DataFields, RunFields, Returns,
     dataVars, NoRequest, fileVars, historyVars, serverVars
<1>18. CASE UNCHANGED vars
  BY <1>18 DEF InHandBoxed, Applying, Installing, Artifacts, Boxes, Calls,
     Requesters, Appliers, Fields, HasFields, DataFields, RunFields, Returns,
     dataVars, vars, serverVars, fileVars, historyVars
<1> QED BY <1>1, <1>2, <1>3, <1>4, <1>5, <1>6, <1>7, <1>8, <1>9, <1>10, <1>11, <1>12,
         <1>13, <1>14, <1>15, <1>16, <1>17, <1>18 DEF Next, Engine, User
-----------------------------------------------------------------------------
(* What is in hand, and what a request was refused for, is new.            *)

\* A version of the snapshot that is merged is not the one that is recorded.
LEMMA MergeIsNew ==
    ASSUME Base, RowsSound, FilesSound(mem), pc = "merge", NEW p \in MergeDue
    PROVE  /\ p \in Paths /\ SnapshotVersion(p) \in Version /\ SnapshotVersion(p).path = p
           /\ ~Current(mem, p)
<1> DEFINE v == SnapshotVersion(p)
<1>1. /\ v.path = p /\ v.rev \in 1..run.upto /\ v = Logged(v.rev) /\ v \in Version
      /\ ~(Tracked(p) /\ mem.files[p].rev >= v.rev)
  BY SnapshotVersionType DEF MergeDue, Base
<1>2. v.rev \in DOMAIN log
  BY <1>1 DEF Base, Position, TypeOK, Loops
<1>3. log[v.rev].path = p
  BY <1>1 DEF Logged
<1> QED BY <1>1, <1>2, <1>3, NewerIsNotCurrent

\* Nor is the change of a page.
LEMMA PageIsNew ==
    ASSUME Base, RowsSound, FilesSound(mem), pc = "page", PageDue # {}
    PROVE  Logged(Min(PageDue)).path \in Paths /\ ~Current(mem, Logged(Min(PageDue)).path)
<1> DEFINE r == Min(PageDue)
<1>1. r \in PageDue /\ r \in DOMAIN log
  BY PageDueTypes DEF Base
<1>2. ~(Tracked(log[r].path) /\ mem.files[log[r].path].rev >= r)
  BY <1>1 DEF PageDue
<1> HIDE DEF r
<1>3. Logged(r).path = log[r].path
  BY DEF Logged
<1>4. Logged(r).path \in Paths /\ ~Current(mem, Logged(r).path)
  BY <1>1, <1>2, <1>3, NewerIsNotCurrent
<1> QED BY <1>4 DEF r

LEMMA NewMergeSnapshot ==
    ASSUME Base, Artifacts, Boxes, RowsSound, RecordsSound, NewStays, InHandNew, MergeSnapshot
    PROVE  InHandNew'
<1>1. /\ pc = "merge" /\ FilesSound(mem) /\ UNCHANGED <<temp, backup>>
      /\ temp = Absent /\ backup = Absent /\ HasFields(run, RunFields)
  BY DEF MergeSnapshot, RecordsSound, DataSound, Artifacts, Boxes, fileVars, Installing, Base, Fields
<1>2. CASE mem.mode = "local"
  <2>1. pc' = pc
    BY <1>2, Zenon DEF MergeSnapshot
  <2> QED BY <1>1, <2>1 DEF InHandNew
<1>3. CASE mem.mode # "local"
  <2>1. PICK p \in MergeDue :
          run' = [run EXCEPT !.todo = @ \ {p}, !.change = SnapshotVersion(p), !.ret = "merge"]
    BY <1>3, Zenon DEF MergeSnapshot
  <2>2. mem' = mem
    BY <1>3, Zenon DEF MergeSnapshot
  <2>3. PICK v : v = SnapshotVersion(p)
    OBVIOUS
  <2>4. run'.change = v
    BY <1>1, <2>1, <2>3 DEF HasFields, RunFields
  <2>5. v.path = p /\ p \in Paths /\ ~Current(mem, p)
    BY <1>1, <2>3, MergeIsNew
  <2>6. ~Current(mem, p)'
    BY <2>2, <2>5 DEF NewStays
  <2> QED BY <1>1, <2>4, <2>5, <2>6 DEF InHandNew, Current
<1> QED BY <1>2, <1>3

LEMMA NewPageChange ==
    ASSUME Base, Artifacts, Boxes, RowsSound, RecordsSound, NewStays, InHandNew, PageChange
    PROVE  InHandNew'
<1>1. /\ pc = "page" /\ FilesSound(mem) /\ UNCHANGED <<temp, backup, mem>>
      /\ temp = Absent /\ backup = Absent /\ PageDue # {}
  BY DEF PageChange, RecordsSound, DataSound, Artifacts, Boxes, fileVars, dataVars, Installing
<1>2. PICK v : v = Logged(Min(PageDue))
  OBVIOUS
<1>3. run'.change = v
  BY <1>2 DEF PageChange, Base, Fields, HasFields, RunFields
<1>4. v.path \in Paths /\ ~Current(mem, v.path)
  BY <1>1, <1>2, PageIsNew
<1>5. PICK p : p = v.path
  OBVIOUS
<1>6. ~Current(mem, p)'
  BY <1>1, <1>4, <1>5 DEF NewStays
<1> QED BY <1>1, <1>3, <1>5, <1>6 DEF InHandNew, Current

\* A put or a delete was refused for the version that is applied then.
LEMMA NewAnswerConflict ==
    ASSUME Base, Artifacts, Boxes, NewStays, InHandNew, RefusedNew, AnswerConflict
    PROVE  InHandNew'
<1>1. /\ pc = "answer" /\ UNCHANGED <<temp, backup>> /\ mem'.files = mem.files
      /\ mem.outbox # NoOperation /\ mem.outbox.request.kind = "apply"
  BY DEF AnswerConflict, Boxes, fileVars, Base, Fields, HasFields, DataFields, Persist, Discarded
<1>2. temp = Absent /\ backup = Absent
  BY <1>1 DEF Artifacts, Boxes, Installing
<1>3. PICK v : v \in reply.versions /\ run'.change = v
  <2>1. PICK w : reply.versions = {w}
    BY <1>1 DEF AnswerConflict, Base, Replies
  <2>2. run'.change = CHOOSE v \in reply.versions : TRUE
    BY DEF AnswerConflict, Base, Fields, HasFields, RunFields
  <2> QED BY <2>1, <2>2
<1>4. v.path \in Paths /\ ~Current(mem, v.path)
  BY <1>1, <1>3 DEF AnswerConflict, RefusedNew, Base, TypeOK, Data, Operation, Request
<1>5. PICK p : p = v.path
  OBVIOUS
<1>6. ~Current(mem, p)'
  BY <1>1, <1>4, <1>5 DEF NewStays
<1> QED BY <1>1, <1>2, <1>3, <1>5, <1>6 DEF InHandNew, Current

\* After a crash the file of a download is still new to what is recorded on disk.
LEMMA NewCrash ==
    ASSUME Base, Artifacts, Boxes, RecordsSound, Onward, FilesKnown, InHandNew, Crash
    PROVE  InHandNew'
<1>1. pc' = "idle" /\ mem' = saved /\ UNCHANGED <<temp, backup>>
  BY DEF Crash, fileVars
<1>2. CASE temp = Absent /\ backup = Absent
  BY <1>1, <1>2 DEF InHandNew
<1>3. CASE temp # Absent \/ backup # Absent
  <2>1. PICK p : p = mem.inbox.path
    OBVIOUS
  <2>2. /\ p \in Paths /\ ~Current(mem, p) /\ saved.inbox = mem.inbox /\ saved.inbox.path = p
    BY <1>3, <2>1 DEF Artifacts, Boxes, InHandNew, Base, TypeOK, Data, Version
  <2>3. ~Current(saved, p)
    BY <2>2 DEF FilesKnown, Current
  <2>4. saved.files[p] = Untracked \/ Genuine(p, saved.files[p])
    BY <2>2 DEF RecordsSound, DataSound, FilesSound
  <2>5. ~IsRow(p, saved.files[p])'  \/ saved'.files[p] # saved.files[p]
    BY <2>2, <2>3, <2>4 DEF Onward, RowsStay, IsRow, Current
  <2>6. ~Current(mem, p)'
    BY <1>1, <2>5 DEF Current, IsRow, Crash
  <2> QED BY <1>1, <2>2, <2>6 DEF InHandNew, Current
<1> QED BY <1>2, <1>3

\* Events, the other devices and the collector leave the change in hand as it is.
LEMMA NewKept ==
    ASSUME Base, Artifacts, NewStays, InHandNew, UNCHANGED <<pc, temp, backup>>,
           run'.change = run.change, mem'.files = mem.files, mem'.inbox = mem.inbox
    PROVE  InHandNew'
<1>1. ASSUME NEW p, p \in Paths, ~Current(mem, p) PROVE ~Current(mem, p)'
  BY <1>1 DEF NewStays
<1>2. pc \in {"apply", "refused", "remove", "download", "install", "swap", "verify"} =>
        run.change.path \in Paths
  BY DEF Base, Ready, ChangeReady, Applying, Installing, Version
<1>3. temp # Absent \/ backup # Absent => mem.inbox.path \in Paths
  BY DEF Artifacts, Base, TypeOK, Data, Version
<1>4. PICK p, q : p = run.change.path /\ q = mem.inbox.path
  OBVIOUS
<1> QED BY <1>1, <1>2, <1>3, <1>4 DEF InHandNew, Current, IsRow

\* Every step keeps it new.
LEMMA InHandNewStep ==
    Base /\ Fields /\ Calls /\ Ready /\ Artifacts /\ Boxes /\ RowsSound /\
      RecordsSound /\ Onward /\ NewStays /\ FilesKnown /\ InHandBoxed /\ InHandNew /\
      RefusedNew /\ [Next]_vars => InHandNew'
<1> SUFFICES ASSUME Base, Fields, Calls, Ready, Artifacts, Boxes, RowsSound,
   RecordsSound, Onward, NewStays, FilesKnown, InHandBoxed, InHandNew, RefusedNew,
   [Next]_vars PROVE InHandNew'
  OBVIOUS
<1>1. CASE ResumeInbox
  <2> USE DEF InHandNew, Applying, Installing, Artifacts, Boxes, Calls, Requesters,
     Appliers, Fields, HasFields, DataFields, RunFields, Returns, dataVars, Ready,
     ChangeReady, Version, NewStays, Current, IsRow, InHandBoxed, RefusedNew
  <2>1. CASE InboxInstalled
    BY <2>1 DEF InboxInstalled, Quiet, NoRequest, CleanUp, serverVars, historyVars
  <2>2. CASE InboxReady
    BY <2>2 DEF InboxReady, Quiet, NoRequest, fileVars, serverVars, historyVars
  <2>3. CASE InboxLost
    BY <2>3 DEF InboxLost, Quiet, NoRequest, Persist, CleanUp, serverVars,
       historyVars
  <2>4. CASE InboxDone
    BY <2>4 DEF InboxDone, Quiet, NoRequest, Goto, fileVars, serverVars, historyVars
  <2> HIDE DEF InHandNew, Applying, Installing, Artifacts, Boxes, Calls, Requesters,
     Appliers, Fields, HasFields, DataFields, RunFields, Returns, dataVars, Ready,
     ChangeReady, Version, NewStays, Current, IsRow, InHandBoxed, RefusedNew
  <2> QED BY <1>1, <2>1, <2>2, <2>3, <2>4 DEF ResumeInbox
<1>2. CASE ResumeOutbox
  <2> USE DEF InHandNew, Applying, Installing, Artifacts, Boxes, Calls, Requesters,
     Appliers, Fields, HasFields, DataFields, RunFields, Returns, dataVars, Ready,
     ChangeReady, Version, NewStays, Current, IsRow, InHandBoxed, RefusedNew
  <2>1. CASE OutboxCommitted
    BY <2>1 DEF OutboxCommitted, Quiet, serverVars, fileVars, historyVars, NoRequest
  <2>2. CASE OutboxResent
    BY <2>2 DEF OutboxResent, Quiet, NoRequest, fileVars, serverVars, historyVars
  <2>3. CASE OutboxAbandoned
    BY <2>3 DEF OutboxAbandoned, Quiet, NoRequest, Persist, Discarded, Queued,
       fileVars, serverVars, historyVars
  <2>4. CASE OutboxDone
    BY <2>4 DEF OutboxDone, Quiet, NoRequest, Goto, BeginRenames, fileVars,
       serverVars, historyVars
  <2> HIDE DEF InHandNew, Applying, Installing, Artifacts, Boxes, Calls, Requesters,
     Appliers, Fields, HasFields, DataFields, RunFields, Returns, dataVars, Ready,
     ChangeReady, Version, NewStays, Current, IsRow, InHandBoxed, RefusedNew
  <2> QED BY <1>2, <2>1, <2>2, <2>3, <2>4 DEF ResumeOutbox
<1>3. CASE Reconcile
  <2>1. CASE MergeSnapshot
    BY <2>1, NewMergeSnapshot
  <2> USE DEF InHandNew, Applying, Installing, Artifacts, Boxes, Calls, Requesters,
     Appliers, Fields, HasFields, DataFields, RunFields, Returns, dataVars, Ready,
     ChangeReady, Version, NewStays, Current, IsRow, InHandBoxed, RefusedNew
  <2>2. CASE ReadSnapshot
    BY <2>2 DEF ReadSnapshot, Quiet, NoRequest, fileVars, serverVars, historyVars
  <2>3. CASE PreserveLocal
    BY <2>3 DEF PreserveLocal, Quiet, EndRun, serverVars, IdleRun, NoRequest,
       historyVars
  <2>4. CASE DiscardLocal
    BY <2>4 DEF DiscardLocal, Quiet, Return, EndRun, serverVars, IdleRun, NoRequest,
       historyVars
  <2>5. CASE PreserveDone
    BY <2>5 DEF PreserveDone, Quiet, NoRequest, Goto, fileVars, serverVars,
       historyVars
  <2>6. CASE MergeDone
    BY <2>6 DEF MergeDone, Quiet, NoRequest, Persist, BeginRenames, fileVars,
       serverVars, historyVars
  <2> HIDE DEF InHandNew, Applying, Installing, Artifacts, Boxes, Calls, Requesters,
     Appliers, Fields, HasFields, DataFields, RunFields, Returns, dataVars, Ready,
     ChangeReady, Version, NewStays, Current, IsRow, InHandBoxed, RefusedNew
  <2> QED BY <1>3, <2>1, <2>2, <2>3, <2>4, <2>5, <2>6 DEF Reconcile
<1>4. CASE Renames
  <2> USE DEF InHandNew, Applying, Installing, Artifacts, Boxes, Calls, Requesters,
     Appliers, Fields, HasFields, DataFields, RunFields, Returns, dataVars, Ready,
     ChangeReady, Version, NewStays, Current, IsRow, InHandBoxed, RefusedNew
  <2>1. CASE RenameSkipped
    BY <2>1 DEF RenameSkipped, Quiet, NoRequest, fileVars, serverVars, historyVars
  <2>2. CASE RenameStaged
    BY <2>2 DEF RenameStaged, Quiet, Stage, fileVars, serverVars, historyVars,
       Persist, NoRequest
  <2>3. CASE RenamesDone
    BY <2>3 DEF RenamesDone, Quiet, NoRequest, Goto, fileVars, serverVars,
       historyVars
  <2> HIDE DEF InHandNew, Applying, Installing, Artifacts, Boxes, Calls, Requesters,
     Appliers, Fields, HasFields, DataFields, RunFields, Returns, dataVars, Ready,
     ChangeReady, Version, NewStays, Current, IsRow, InHandBoxed, RefusedNew
  <2> QED BY <1>4, <2>1, <2>2, <2>3 DEF Renames
<1>5. CASE Push
  <2> USE DEF InHandNew, Applying, Installing, Artifacts, Boxes, Calls, Requesters,
     Appliers, Fields, HasFields, DataFields, RunFields, Returns, dataVars, Ready,
     ChangeReady, Version, NewStays, Current, IsRow, InHandBoxed, RefusedNew
  <2>1. CASE PlanFull
    BY <2>1 DEF PlanFull, Plan, Quiet, NoRequest, fileVars, serverVars, historyVars
  <2>2. CASE PlanQueued
    BY <2>2 DEF PlanQueued, Plan, Quiet, NoRequest, fileVars, serverVars,
       historyVars
  <2>3. CASE PushDone
    BY <2>3 DEF PushDone, Quiet, NoRequest, Stage, fileVars, serverVars,
       historyVars, Persist
  <2>4. CASE DeletesDone
    BY <2>4 DEF DeletesDone, Quiet, NoRequest, fileVars, serverVars, historyVars
  <2>5. ASSUME NEW p \in Paths, ScanPath(p) PROVE InHandNew'
    BY <2>5 DEF ScanPath, Quiet, NoRequest, fileVars, serverVars, historyVars
  <2>6. ASSUME NEW p \in Paths, PushPath(p) PROVE InHandNew'
    BY <2>6 DEF PushPath, Quiet, NoRequest, Stage, Queued, Unnoted, fileVars,
       serverVars, historyVars, Persist
  <2>7. ASSUME NEW p \in Paths, DeletePath(p) PROVE InHandNew'
    BY <2>7 DEF DeletePath, Quiet, Stage, fileVars, serverVars, historyVars,
       Persist, NoRequest
  <2> HIDE DEF InHandNew, Applying, Installing, Artifacts, Boxes, Calls, Requesters,
     Appliers, Fields, HasFields, DataFields, RunFields, Returns, dataVars, Ready,
     ChangeReady, Version, NewStays, Current, IsRow, InHandBoxed, RefusedNew
  <2> QED BY <1>5, <2>1, <2>2, <2>3, <2>4, <2>5, <2>6, <2>7 DEF Push
<1>6. CASE Answered
  <2>1. CASE AnswerConflict
    BY <2>1, NewAnswerConflict
  <2> USE DEF InHandNew, Applying, Installing, Artifacts, Boxes, Calls, Requesters,
     Appliers, Fields, HasFields, DataFields, RunFields, Returns, dataVars, Ready,
     ChangeReady, Version, NewStays, Current, IsRow, InHandBoxed, RefusedNew
  <2>2. CASE AnswerApplied
    BY <2>2 DEF AnswerApplied, Quiet, Goto, Return, Complete, Queued, serverVars,
       fileVars, historyVars, NoRequest
  <2>3. CASE KeepRefused
    BY <2>3 DEF KeepRefused, Quiet, NoRequest, serverVars, historyVars
  <2>4. CASE AnswerMoved
    BY <2>4 DEF AnswerMoved, Quiet, Goto, Complete, serverVars, fileVars,
       historyVars, NoRequest
  <2>5. CASE AnswerMoveConflict
    BY <2>5 DEF AnswerMoveConflict, Quiet, Goto, Return, Discarded, Queued,
       serverVars, fileVars, historyVars, NoRequest
  <2>6. CASE AnswerBatch
    BY <2>6 DEF AnswerBatch, Quiet, Complete, serverVars, fileVars, historyVars,
       NoRequest
  <2>7. CASE AnswerBatchConflict
    BY <2>7 DEF AnswerBatchConflict, Quiet, Persist, Discarded, Queued, serverVars,
       fileVars, historyVars, NoRequest
  <2> HIDE DEF InHandNew, Applying, Installing, Artifacts, Boxes, Calls, Requesters,
     Appliers, Fields, HasFields, DataFields, RunFields, Returns, dataVars, Ready,
     ChangeReady, Version, NewStays, Current, IsRow, InHandBoxed, RefusedNew
  <2> QED BY <1>6, <2>1, <2>2, <2>3, <2>4, <2>5, <2>6, <2>7 DEF Answered
<1>7. CASE Apply
  <2> USE DEF InHandNew, Applying, Installing, Artifacts, Boxes, Calls, Requesters,
     Appliers, Fields, HasFields, DataFields, RunFields, Returns, dataVars, Ready,
     ChangeReady, Version, NewStays, Current, IsRow, InHandBoxed, RefusedNew
  <2>1. CASE ApplyRemoteChange
    BY <2>1 DEF ApplyRemoteChange, Quiet, NoRequest, Goto, Return, StageDownload,
       Persist, serverVars, historyVars
  <2>2. CASE RemoveLocal
    BY <2>2 DEF RemoveLocal, Quiet, Return, EndRun, serverVars, IdleRun, NoRequest,
       historyVars
  <2>3. CASE Download
    BY <2>3 DEF Download, Quiet, NoRequest, Goto, serverVars, historyVars
  <2>4. CASE SetAside
    BY <2>4 DEF SetAside, Quiet, NoRequest, Goto, serverVars, historyVars
  <2>5. CASE SwapIn
    BY <2>5 DEF SwapIn, Quiet, Goto, EndRun, serverVars, IdleRun, NoRequest,
       historyVars
  <2>6. CASE VerifyInstalled
    BY <2>6 DEF VerifyInstalled, Quiet, Goto, EndRun, serverVars, IdleRun,
       NoRequest, historyVars
  <2>7. CASE FinishDownload
    BY <2>7 DEF FinishDownload, Quiet, NoRequest, Goto, fileVars, serverVars,
       historyVars
  <2>8. CASE Save
    BY <2>8 DEF Save, Quiet, NoRequest, Return, fileVars, serverVars, historyVars
  <2> HIDE DEF InHandNew, Applying, Installing, Artifacts, Boxes, Calls, Requesters,
     Appliers, Fields, HasFields, DataFields, RunFields, Returns, dataVars, Ready,
     ChangeReady, Version, NewStays, Current, IsRow, InHandBoxed, RefusedNew
  <2> QED BY <1>7, <2>1, <2>2, <2>3, <2>4, <2>5, <2>6, <2>7, <2>8 DEF Apply
<1>8. CASE Pull
  <2>1. CASE PageChange
    BY <2>1, NewPageChange
  <2> USE DEF InHandNew, Applying, Installing, Artifacts, Boxes, Calls, Requesters,
     Appliers, Fields, HasFields, DataFields, RunFields, Returns, dataVars, Ready,
     ChangeReady, Version, NewStays, Current, IsRow, InHandBoxed, RefusedNew
  <2>2. CASE PullPage
    BY <2>2 DEF PullPage, Quiet, NoRequest, fileVars, serverVars, historyVars
  <2>3. CASE PageDone
    BY <2>3 DEF PageDone, Quiet, NoRequest, Persist, fileVars, serverVars,
       historyVars
  <2>4. CASE Finish
    BY <2>4 DEF Finish, Quiet, NoRequest, Persist, Goto, fileVars, serverVars,
       historyVars
  <2>5. CASE AckCursor
    BY <2>5 DEF AckCursor, Quiet, Goto, Acknowledge, fileVars, serverVars,
       historyVars, NoRequest
  <2>6. CASE CompleteRun
    BY <2>6 DEF CompleteRun, Quiet, EndRun, serverVars, fileVars, historyVars,
       IdleRun, NoRequest
  <2> HIDE DEF InHandNew, Applying, Installing, Artifacts, Boxes, Calls, Requesters,
     Appliers, Fields, HasFields, DataFields, RunFields, Returns, dataVars, Ready,
     ChangeReady, Version, NewStays, Current, IsRow, InHandBoxed, RefusedNew
  <2> QED BY <1>8, <2>1, <2>2, <2>3, <2>4, <2>5, <2>6 DEF Pull
<1>9. ASSUME NEW p \in Paths, NEW content \in UserContents \cup {Absent},
   UserEdit(p, content) PROVE InHandNew'
  BY <1>9, NewKept, Noted DEF UserEdit
<1>10. ASSUME NEW from \in Paths, NEW to \in Paths, UserRename(from, to) PROVE
   InHandNew'
  BY <1>10, NewKept, Noted DEF UserRename
<1>11. CASE StartRun
  BY <1>11 DEF StartRun, InHandNew, Applying, Installing, Artifacts, Boxes, Calls,
     Requesters, Appliers, Fields, HasFields, DataFields, RunFields, Returns,
     dataVars, Ready, ChangeReady, Version, NewStays, Current, IsRow, InHandBoxed,
     RefusedNew, Quiet, NoRequest, Goto, fileVars, serverVars, historyVars
<1>12. CASE Send
  BY <1>12 DEF Send, InHandNew, Applying, Installing, Artifacts, Boxes, Calls,
     Requesters, Appliers, Fields, HasFields, DataFields, RunFields, Returns,
     dataVars, Ready, ChangeReady, Version, NewStays, Current, IsRow, InHandBoxed,
     RefusedNew, Quiet, Goto, fileVars, serverVars, historyVars, NoRequest
<1>13. CASE ServerMoves
  BY <1>13, NewKept DEF ServerMoves, fileVars, dataVars
<1>14. CASE SaveEvents
  BY <1>14 DEF SaveEvents, InHandNew, Applying, Installing, Artifacts, Boxes, Calls,
     Requesters, Appliers, Fields, HasFields, DataFields, RunFields, Returns,
     dataVars, Ready, ChangeReady, Version, NewStays, Current, IsRow, InHandBoxed,
     RefusedNew, Quiet, NoRequest, fileVars, serverVars, historyVars
<1>15. CASE RunFails
  BY <1>15 DEF RunFails, InHandNew, Applying, Installing, Artifacts, Boxes, Calls,
     Requesters, Appliers, Fields, HasFields, DataFields, RunFields, Returns,
     dataVars, Ready, ChangeReady, Version, NewStays, Current, IsRow, InHandBoxed,
     RefusedNew, EndRun, Spend, serverVars, IdleRun
<1>16. CASE Crash
  BY <1>16, NewCrash
<1>17. CASE Restart
  BY <1>17 DEF Restart, InHandNew, Applying, Installing, Artifacts, Boxes, Calls,
     Requesters, Appliers, Fields, HasFields, DataFields, RunFields, Returns,
     dataVars, Ready, ChangeReady, Version, NewStays, Current, IsRow, InHandBoxed,
     RefusedNew, NoRequest, fileVars, historyVars, serverVars
<1>18. CASE UNCHANGED vars
  BY <1>18 DEF InHandNew, Applying, Installing, Artifacts, Boxes, Calls, Requesters,
     Appliers, Fields, HasFields, DataFields, RunFields, Returns, dataVars, Ready,
     ChangeReady, Version, NewStays, Current, IsRow, InHandBoxed, RefusedNew, vars,
     serverVars, fileVars, historyVars
<1> QED BY <1>1, <1>2, <1>3, <1>4, <1>5, <1>6, <1>7, <1>8, <1>9, <1>10, <1>11, <1>12,
         <1>13, <1>14, <1>15, <1>16, <1>17, <1>18 DEF Next, Engine, User
-----------------------------------------------------------------------------
(* What a request was refused for, and what was installed.                 *)

\* A put or a delete is refused for another row than the recorded one.
LEMMA RefusedSend ==
    ASSUME Base, TypeInv, Boxes, Based, Send
    PROVE  RefusedNew'
<1> DEFINE q == mem.outbox.request
<1>1. mem' = mem /\ mem.outbox # NoOperation /\ answers[mem.outbox.id] = NoReply
  BY DEF Send, Boxes, dataVars
<1>2. SUFFICES ASSUME reply'.kind = "conflict", q.kind = "apply", NEW v \in reply'.versions
               PROVE  v.path = q.path /\ ~Current(mem, v.path)'
  BY <1>1, Zenon DEF RefusedNew
<1>3. ~Accepts(q) /\ reply' = ConflictWith(q) /\ head' = head
  BY <1>2, SendAppends DEF Accepted
<1>4. v = RowVersion(q.path)
  BY <1>2, <1>3 DEF ConflictWith
<1>5. v.path = q.path
  BY <1>4 DEF RowVersion
<1>6. q.base = mem.files[q.path].rev /\ head[q.path].rev # q.base
  BY <1>1, <1>2, <1>3 DEF Based, Accepts
<1> QED BY <1>1, <1>3, <1>5, <1>6 DEF Current, IsRow

\* A result that the server keeps is no refusal.
LEMMA RefusedOutboxCommitted ==
    ASSUME Base, OutboxCommitted
    PROVE  RefusedNew'
<1>1. mem.outbox.id \in OpIds
  BY DEF OutboxCommitted, Base, Shape, SoundData
<1> QED BY <1>1 DEF OutboxCommitted, Base, Replies, RefusedNew

LEMMA RefusedKept ==
    ASSUME Base, NewStays, Boxes, RefusedNew, UNCHANGED <<pc, reply>>, mem'.outbox = mem.outbox,
           mem'.files = mem.files
    PROVE  RefusedNew'
<1>1. pc = "answer" => mem.outbox.request \in Request
  BY DEF Boxes, Base, TypeOK, Data, Operation
<1>2. mem.outbox.request \in Request /\ mem.outbox.request.kind = "apply" => mem.outbox.request.path \in Paths
  BY DEF Request
<1>3. PICK q : q = mem.outbox.request
  OBVIOUS
<1>4. q.path \in Paths /\ ~Current(mem, q.path) => ~Current(mem, q.path)'
  BY DEF NewStays
<1> QED BY <1>1, <1>2, <1>3, <1>4 DEF RefusedNew, Current, IsRow

\* Every step keeps it so.
LEMMA RefusedNewStep ==
    TypeInv /\ Base /\ Fields /\ Calls /\ Boxes /\ Based /\ NewStays /\ RefusedNew /\
      [Next]_vars => RefusedNew'
<1> SUFFICES ASSUME TypeInv, Base, Fields, Calls, Boxes, Based, NewStays,
   RefusedNew, [Next]_vars PROVE RefusedNew'
  OBVIOUS
<1>1. CASE ResumeInbox
  <2> USE DEF RefusedNew, Calls, Requesters, Appliers, Fields, HasFields,
     DataFields, RunFields, Returns, dataVars, NoRequest
  <2>1. CASE InboxInstalled
    BY <2>1, RefusedKept DEF InboxInstalled, Quiet, CleanUp, serverVars, historyVars
  <2>2. CASE InboxReady
    BY <2>2, RefusedKept DEF InboxReady, Quiet, fileVars, serverVars, historyVars
  <2>3. CASE InboxLost
    BY <2>3, RefusedKept DEF InboxLost, Quiet, Persist, CleanUp, serverVars,
       historyVars
  <2>4. CASE InboxDone
    BY <2>4, RefusedKept DEF InboxDone, Quiet, Goto, fileVars, serverVars,
       historyVars
  <2> HIDE DEF RefusedNew, Calls, Requesters, Appliers, Fields, HasFields,
     DataFields, RunFields, Returns, dataVars, NoRequest
  <2> QED BY <1>1, <2>1, <2>2, <2>3, <2>4 DEF ResumeInbox
<1>2. CASE ResumeOutbox
  <2>1. CASE OutboxCommitted
    BY <2>1, RefusedOutboxCommitted
  <2> USE DEF RefusedNew, Calls, Requesters, Appliers, Fields, HasFields,
     DataFields, RunFields, Returns, dataVars, NoRequest
  <2>2. CASE OutboxResent
    BY <2>2, RefusedKept DEF OutboxResent, Quiet, fileVars, serverVars, historyVars
  <2>3. CASE OutboxAbandoned
    BY <2>3, RefusedKept DEF OutboxAbandoned, Quiet, Persist, Discarded, Queued,
       fileVars, serverVars, historyVars
  <2>4. CASE OutboxDone
    BY <2>4, RefusedKept DEF OutboxDone, Quiet, Goto, BeginRenames, fileVars,
       serverVars, historyVars
  <2> HIDE DEF RefusedNew, Calls, Requesters, Appliers, Fields, HasFields,
     DataFields, RunFields, Returns, dataVars, NoRequest
  <2> QED BY <1>2, <2>1, <2>2, <2>3, <2>4 DEF ResumeOutbox
<1>3. CASE Reconcile
  <2> USE DEF RefusedNew, Calls, Requesters, Appliers, Fields, HasFields,
     DataFields, RunFields, Returns, dataVars, NoRequest
  <2>1. CASE ReadSnapshot
    BY <2>1, RefusedKept DEF ReadSnapshot, Quiet, fileVars, serverVars, historyVars
  <2>2. CASE PreserveLocal
    BY <2>2, RefusedKept DEF PreserveLocal, Quiet, EndRun, serverVars, IdleRun,
       historyVars
  <2>3. CASE DiscardLocal
    BY <2>3, RefusedKept DEF DiscardLocal, Quiet, Return, EndRun, serverVars,
       IdleRun, historyVars
  <2>4. CASE PreserveDone
    BY <2>4, RefusedKept DEF PreserveDone, Quiet, Goto, fileVars, serverVars,
       historyVars
  <2>5. CASE MergeSnapshot
    BY <2>5, RefusedKept DEF MergeSnapshot, fileVars, serverVars, historyVars
  <2>6. CASE MergeDone
    BY <2>6, RefusedKept DEF MergeDone, Quiet, Persist, BeginRenames, fileVars,
       serverVars, historyVars
  <2> HIDE DEF RefusedNew, Calls, Requesters, Appliers, Fields, HasFields,
     DataFields, RunFields, Returns, dataVars, NoRequest
  <2> QED BY <1>3, <2>1, <2>2, <2>3, <2>4, <2>5, <2>6 DEF Reconcile
<1>4. CASE Renames
  <2> USE DEF RefusedNew, Calls, Requesters, Appliers, Fields, HasFields,
     DataFields, RunFields, Returns, dataVars, NoRequest
  <2>1. CASE RenameSkipped
    BY <2>1, RefusedKept DEF RenameSkipped, Quiet, fileVars, serverVars, historyVars
  <2>2. CASE RenameStaged
    BY <2>2, RefusedKept DEF RenameStaged, Quiet, Stage, fileVars, serverVars,
       historyVars, Persist
  <2>3. CASE RenamesDone
    BY <2>3, RefusedKept DEF RenamesDone, Quiet, Goto, fileVars, serverVars,
       historyVars
  <2> HIDE DEF RefusedNew, Calls, Requesters, Appliers, Fields, HasFields,
     DataFields, RunFields, Returns, dataVars, NoRequest
  <2> QED BY <1>4, <2>1, <2>2, <2>3 DEF Renames
<1>5. CASE Push
  <2> USE DEF RefusedNew, Calls, Requesters, Appliers, Fields, HasFields,
     DataFields, RunFields, Returns, dataVars, NoRequest
  <2>1. CASE PlanFull
    BY <2>1, RefusedKept DEF PlanFull, Plan, Quiet, fileVars, serverVars,
       historyVars
  <2>2. CASE PlanQueued
    BY <2>2, RefusedKept DEF PlanQueued, Plan, Quiet, fileVars, serverVars,
       historyVars
  <2>3. CASE PushDone
    BY <2>3, RefusedKept DEF PushDone, Quiet, Stage, fileVars, serverVars,
       historyVars, Persist
  <2>4. CASE DeletesDone
    BY <2>4, RefusedKept DEF DeletesDone, Quiet, fileVars, serverVars, historyVars
  <2>5. ASSUME NEW p \in Paths, ScanPath(p) PROVE RefusedNew'
    BY <2>5, RefusedKept DEF ScanPath, Quiet, fileVars, serverVars, historyVars
  <2>6. ASSUME NEW p \in Paths, PushPath(p) PROVE RefusedNew'
    BY <2>6, RefusedKept DEF PushPath, Quiet, Stage, Queued, Unnoted, fileVars,
       serverVars, historyVars, Persist
  <2>7. ASSUME NEW p \in Paths, DeletePath(p) PROVE RefusedNew'
    BY <2>7, RefusedKept DEF DeletePath, Quiet, Stage, fileVars, serverVars,
       historyVars, Persist
  <2> HIDE DEF RefusedNew, Calls, Requesters, Appliers, Fields, HasFields,
     DataFields, RunFields, Returns, dataVars, NoRequest
  <2> QED BY <1>5, <2>1, <2>2, <2>3, <2>4, <2>5, <2>6, <2>7 DEF Push
<1>6. CASE Answered
  <2> USE DEF RefusedNew, Calls, Requesters, Appliers, Fields, HasFields,
     DataFields, RunFields, Returns, dataVars, NoRequest
  <2>1. CASE AnswerApplied
    BY <2>1, RefusedKept DEF AnswerApplied, Quiet, Goto, Return, Complete, Queued,
       serverVars, fileVars, historyVars
  <2>2. CASE AnswerConflict
    BY <2>2, RefusedKept DEF AnswerConflict, Quiet, Persist, Discarded, serverVars,
       fileVars, historyVars
  <2>3. CASE KeepRefused
    BY <2>3, RefusedKept DEF KeepRefused, Quiet, serverVars, historyVars
  <2>4. CASE AnswerMoved
    BY <2>4, RefusedKept DEF AnswerMoved, Quiet, Goto, Complete, serverVars,
       fileVars, historyVars
  <2>5. CASE AnswerMoveConflict
    BY <2>5, RefusedKept DEF AnswerMoveConflict, Quiet, Goto, Return, Discarded,
       Queued, serverVars, fileVars, historyVars
  <2>6. CASE AnswerBatch
    BY <2>6, RefusedKept DEF AnswerBatch, Quiet, Complete, serverVars, fileVars,
       historyVars
  <2>7. CASE AnswerBatchConflict
    BY <2>7, RefusedKept DEF AnswerBatchConflict, Quiet, Persist, Discarded, Queued,
       serverVars, fileVars, historyVars
  <2> HIDE DEF RefusedNew, Calls, Requesters, Appliers, Fields, HasFields,
     DataFields, RunFields, Returns, dataVars, NoRequest
  <2> QED BY <1>6, <2>1, <2>2, <2>3, <2>4, <2>5, <2>6, <2>7 DEF Answered
<1>7. CASE Apply
  <2> USE DEF RefusedNew, Calls, Requesters, Appliers, Fields, HasFields,
     DataFields, RunFields, Returns, dataVars, NoRequest
  <2>1. CASE ApplyRemoteChange
    BY <2>1, RefusedKept DEF ApplyRemoteChange, Quiet, Goto, Return, StageDownload,
       Persist, serverVars, historyVars
  <2>2. CASE RemoveLocal
    BY <2>2, RefusedKept DEF RemoveLocal, Quiet, Return, EndRun, serverVars,
       IdleRun, historyVars
  <2>3. CASE Download
    BY <2>3, RefusedKept DEF Download, Quiet, Goto, serverVars, historyVars
  <2>4. CASE SetAside
    BY <2>4, RefusedKept DEF SetAside, Quiet, Goto, serverVars, historyVars
  <2>5. CASE SwapIn
    BY <2>5, RefusedKept DEF SwapIn, Quiet, Goto, EndRun, serverVars, IdleRun,
       historyVars
  <2>6. CASE VerifyInstalled
    BY <2>6, RefusedKept DEF VerifyInstalled, Quiet, Goto, EndRun, serverVars,
       IdleRun, historyVars
  <2>7. CASE FinishDownload
    BY <2>7, RefusedKept DEF FinishDownload, Quiet, Goto, fileVars, serverVars,
       historyVars
  <2>8. CASE Save
    BY <2>8, RefusedKept DEF Save, Quiet, Return, fileVars, serverVars, historyVars
  <2> HIDE DEF RefusedNew, Calls, Requesters, Appliers, Fields, HasFields,
     DataFields, RunFields, Returns, dataVars, NoRequest
  <2> QED BY <1>7, <2>1, <2>2, <2>3, <2>4, <2>5, <2>6, <2>7, <2>8 DEF Apply
<1>8. CASE Pull
  <2> USE DEF RefusedNew, Calls, Requesters, Appliers, Fields, HasFields,
     DataFields, RunFields, Returns, dataVars, NoRequest
  <2>1. CASE PullPage
    BY <2>1, RefusedKept DEF PullPage, Quiet, fileVars, serverVars, historyVars
  <2>2. CASE PageChange
    BY <2>2, RefusedKept DEF PageChange, Quiet, fileVars, serverVars, historyVars
  <2>3. CASE PageDone
    BY <2>3, RefusedKept DEF PageDone, Quiet, Persist, fileVars, serverVars,
       historyVars
  <2>4. CASE Finish
    BY <2>4, RefusedKept DEF Finish, Quiet, Persist, Goto, fileVars, serverVars,
       historyVars
  <2>5. CASE AckCursor
    BY <2>5, RefusedKept DEF AckCursor, Quiet, Goto, Acknowledge, fileVars,
       serverVars, historyVars
  <2>6. CASE CompleteRun
    BY <2>6, RefusedKept DEF CompleteRun, Quiet, EndRun, serverVars, fileVars,
       historyVars, IdleRun
  <2> HIDE DEF RefusedNew, Calls, Requesters, Appliers, Fields, HasFields,
     DataFields, RunFields, Returns, dataVars, NoRequest
  <2> QED BY <1>8, <2>1, <2>2, <2>3, <2>4, <2>5, <2>6 DEF Pull
<1>9. ASSUME NEW p \in Paths, NEW content \in UserContents \cup {Absent},
   UserEdit(p, content) PROVE RefusedNew'
  BY <1>9, RefusedKept, Noted DEF UserEdit, NoRequest
<1>10. ASSUME NEW from \in Paths, NEW to \in Paths, UserRename(from, to) PROVE
   RefusedNew'
  BY <1>10, RefusedKept, Noted DEF UserRename, NoRequest
<1>11. CASE StartRun
  BY <1>11, RefusedKept DEF StartRun, RefusedNew, Calls, Requesters, Appliers,
     Fields, HasFields, DataFields, RunFields, Returns, dataVars, NoRequest, Quiet,
     Goto, fileVars, serverVars, historyVars
<1>12. CASE Send
  BY <1>12, RefusedSend
<1>13. CASE ServerMoves
  BY <1>13, RefusedKept DEF ServerMoves, dataVars
<1>14. CASE SaveEvents
  BY <1>14, RefusedKept DEF SaveEvents, NoRequest
<1>15. CASE RunFails
  BY <1>15, RefusedKept DEF RunFails, RefusedNew, Calls, Requesters, Appliers,
     Fields, HasFields, DataFields, RunFields, Returns, dataVars, NoRequest, EndRun,
     Spend, serverVars, IdleRun
<1>16. CASE Crash
  BY <1>16, RefusedKept DEF Crash, RefusedNew, Calls, Requesters, Appliers, Fields,
     HasFields, DataFields, RunFields, Returns, dataVars, NoRequest, IdleRun, Spend,
     serverVars, fileVars, historyVars
<1>17. CASE Restart
  BY <1>17, RefusedKept DEF Restart, NoRequest, dataVars
<1>18. CASE UNCHANGED vars
  BY <1>18, RefusedKept DEF RefusedNew, Calls, Requesters, Appliers, Fields,
     HasFields, DataFields, RunFields, Returns, dataVars, NoRequest, vars,
     serverVars, fileVars, historyVars
<1> QED BY <1>1, <1>2, <1>3, <1>4, <1>5, <1>6, <1>7, <1>8, <1>9, <1>10, <1>11, <1>12,
         <1>13, <1>14, <1>15, <1>16, <1>17, <1>18 DEF Next, Engine, User
\* What stays in hand to be recorded stays known.
LEMMA HandKnownKept ==
    ASSUME Base, pc = "record" => KnownStays, InHandKnown, pc' = pc, run'.change = run.change
    PROVE  InHandKnown'
<1>1. pc = "record" => run.change.path \in Paths
  BY DEF Base, Ready, ChangeReady, Applying, Installing, Version
<1>2. PICK c : c = run.change
  OBVIOUS
<1>3. c.path \in Paths /\ KnownStays /\ Known(c.path, c.content) => Known(c.path, c.content)'
  BY DEF KnownStays
<1> QED BY <1>1, <1>2, <1>3 DEF InHandKnown, Known

\* Every step keeps it known.
LEMMA InHandKnownStep ==
    Base /\ Fields /\ Calls /\ (pc = "record" => KnownStays) /\ InHandKnown /\
      [Next]_vars => InHandKnown'
<1> SUFFICES ASSUME Base, Fields, Calls, (pc = "record" => KnownStays), InHandKnown,
   [Next]_vars PROVE InHandKnown'
  OBVIOUS
<1>1. CASE ResumeInbox
  <2> USE DEF InHandKnown, Known, Calls, Requesters, Appliers, Fields, HasFields,
     DataFields, RunFields, Returns, dataVars
  <2>1. CASE InboxInstalled
    BY <2>1, HandKnownKept DEF InboxInstalled, Quiet, NoRequest, CleanUp,
       serverVars, historyVars
  <2>2. CASE InboxReady
    BY <2>2, HandKnownKept DEF InboxReady, Quiet, NoRequest, fileVars, serverVars,
       historyVars
  <2>3. CASE InboxLost
    BY <2>3, HandKnownKept DEF InboxLost, Quiet, NoRequest, Persist, CleanUp,
       serverVars, historyVars
  <2>4. CASE InboxDone
    BY <2>4, HandKnownKept DEF InboxDone, Quiet, NoRequest, Goto, fileVars,
       serverVars, historyVars
  <2> HIDE DEF InHandKnown, Known, Calls, Requesters, Appliers, Fields, HasFields,
     DataFields, RunFields, Returns, dataVars
  <2> QED BY <1>1, <2>1, <2>2, <2>3, <2>4 DEF ResumeInbox
<1>2. CASE ResumeOutbox
  <2> USE DEF InHandKnown, Known, Calls, Requesters, Appliers, Fields, HasFields,
     DataFields, RunFields, Returns, dataVars
  <2>1. CASE OutboxCommitted
    BY <2>1, HandKnownKept DEF OutboxCommitted, Quiet, serverVars, fileVars,
       historyVars, NoRequest
  <2>2. CASE OutboxResent
    BY <2>2, HandKnownKept DEF OutboxResent, Quiet, NoRequest, fileVars, serverVars,
       historyVars
  <2>3. CASE OutboxAbandoned
    BY <2>3, HandKnownKept DEF OutboxAbandoned, Quiet, NoRequest, Persist,
       Discarded, Queued, fileVars, serverVars, historyVars
  <2>4. CASE OutboxDone
    BY <2>4, HandKnownKept DEF OutboxDone, Quiet, NoRequest, Goto, BeginRenames,
       fileVars, serverVars, historyVars
  <2> HIDE DEF InHandKnown, Known, Calls, Requesters, Appliers, Fields, HasFields,
     DataFields, RunFields, Returns, dataVars
  <2> QED BY <1>2, <2>1, <2>2, <2>3, <2>4 DEF ResumeOutbox
<1>3. CASE Reconcile
  <2> USE DEF InHandKnown, Known, Calls, Requesters, Appliers, Fields, HasFields,
     DataFields, RunFields, Returns, dataVars
  <2>1. CASE ReadSnapshot
    BY <2>1, HandKnownKept DEF ReadSnapshot, Quiet, NoRequest, fileVars, serverVars,
       historyVars
  <2>2. CASE PreserveLocal
    BY <2>2, HandKnownKept DEF PreserveLocal, Quiet, EndRun, serverVars, IdleRun,
       NoRequest, historyVars
  <2>3. CASE DiscardLocal
    BY <2>3, HandKnownKept DEF DiscardLocal, Quiet, Return, EndRun, serverVars,
       IdleRun, NoRequest, historyVars
  <2>4. CASE PreserveDone
    BY <2>4, HandKnownKept DEF PreserveDone, Quiet, NoRequest, Goto, fileVars,
       serverVars, historyVars
  <2>5. CASE MergeSnapshot
    BY <2>5, HandKnownKept DEF MergeSnapshot, NoRequest, fileVars, serverVars,
       historyVars
  <2>6. CASE MergeDone
    BY <2>6, HandKnownKept DEF MergeDone, Quiet, NoRequest, Persist, BeginRenames,
       fileVars, serverVars, historyVars
  <2> HIDE DEF InHandKnown, Known, Calls, Requesters, Appliers, Fields, HasFields,
     DataFields, RunFields, Returns, dataVars
  <2> QED BY <1>3, <2>1, <2>2, <2>3, <2>4, <2>5, <2>6 DEF Reconcile
<1>4. CASE Renames
  <2> USE DEF InHandKnown, Known, Calls, Requesters, Appliers, Fields, HasFields,
     DataFields, RunFields, Returns, dataVars
  <2>1. CASE RenameSkipped
    BY <2>1, HandKnownKept DEF RenameSkipped, Quiet, NoRequest, fileVars,
       serverVars, historyVars
  <2>2. CASE RenameStaged
    BY <2>2, HandKnownKept DEF RenameStaged, Quiet, Stage, fileVars, serverVars,
       historyVars, Persist, NoRequest
  <2>3. CASE RenamesDone
    BY <2>3, HandKnownKept DEF RenamesDone, Quiet, NoRequest, Goto, fileVars,
       serverVars, historyVars
  <2> HIDE DEF InHandKnown, Known, Calls, Requesters, Appliers, Fields, HasFields,
     DataFields, RunFields, Returns, dataVars
  <2> QED BY <1>4, <2>1, <2>2, <2>3 DEF Renames
<1>5. CASE Push
  <2> USE DEF InHandKnown, Known, Calls, Requesters, Appliers, Fields, HasFields,
     DataFields, RunFields, Returns, dataVars
  <2>1. CASE PlanFull
    BY <2>1, HandKnownKept DEF PlanFull, Plan, Quiet, NoRequest, fileVars,
       serverVars, historyVars
  <2>2. CASE PlanQueued
    BY <2>2, HandKnownKept DEF PlanQueued, Plan, Quiet, NoRequest, fileVars,
       serverVars, historyVars
  <2>3. CASE PushDone
    BY <2>3, HandKnownKept DEF PushDone, Quiet, NoRequest, Stage, fileVars,
       serverVars, historyVars, Persist
  <2>4. CASE DeletesDone
    BY <2>4, HandKnownKept DEF DeletesDone, Quiet, NoRequest, fileVars, serverVars,
       historyVars
  <2>5. ASSUME NEW p \in Paths, ScanPath(p) PROVE InHandKnown'
    BY <2>5, HandKnownKept DEF ScanPath, Quiet, NoRequest, fileVars, serverVars,
       historyVars
  <2>6. ASSUME NEW p \in Paths, PushPath(p) PROVE InHandKnown'
    BY <2>6, HandKnownKept DEF PushPath, Quiet, NoRequest, Stage, Queued, Unnoted,
       fileVars, serverVars, historyVars, Persist
  <2>7. ASSUME NEW p \in Paths, DeletePath(p) PROVE InHandKnown'
    BY <2>7, HandKnownKept DEF DeletePath, Quiet, Stage, fileVars, serverVars,
       historyVars, Persist, NoRequest
  <2> HIDE DEF InHandKnown, Known, Calls, Requesters, Appliers, Fields, HasFields,
     DataFields, RunFields, Returns, dataVars
  <2> QED BY <1>5, <2>1, <2>2, <2>3, <2>4, <2>5, <2>6, <2>7 DEF Push
<1>6. CASE Answered
  <2> USE DEF InHandKnown, Known, Calls, Requesters, Appliers, Fields, HasFields,
     DataFields, RunFields, Returns, dataVars
  <2>1. CASE AnswerApplied
    BY <2>1, HandKnownKept DEF AnswerApplied, Quiet, Goto, Return, Complete, Queued,
       serverVars, fileVars, historyVars, NoRequest
  <2>2. CASE AnswerConflict
    BY <2>2, HandKnownKept DEF AnswerConflict, Quiet, Persist, Discarded,
       serverVars, fileVars, historyVars, NoRequest
  <2>3. CASE KeepRefused
    BY <2>3, HandKnownKept DEF KeepRefused, Quiet, NoRequest, serverVars,
       historyVars
  <2>4. CASE AnswerMoved
    BY <2>4, HandKnownKept DEF AnswerMoved, Quiet, Goto, Complete, serverVars,
       fileVars, historyVars, NoRequest
  <2>5. CASE AnswerMoveConflict
    BY <2>5, HandKnownKept DEF AnswerMoveConflict, Quiet, Goto, Return, Discarded,
       Queued, serverVars, fileVars, historyVars, NoRequest
  <2>6. CASE AnswerBatch
    BY <2>6, HandKnownKept DEF AnswerBatch, Quiet, Complete, serverVars, fileVars,
       historyVars, NoRequest
  <2>7. CASE AnswerBatchConflict
    BY <2>7, HandKnownKept DEF AnswerBatchConflict, Quiet, Persist, Discarded,
       Queued, serverVars, fileVars, historyVars, NoRequest
  <2> HIDE DEF InHandKnown, Known, Calls, Requesters, Appliers, Fields, HasFields,
     DataFields, RunFields, Returns, dataVars
  <2> QED BY <1>6, <2>1, <2>2, <2>3, <2>4, <2>5, <2>6, <2>7 DEF Answered
<1>7. CASE Apply
  <2> USE DEF InHandKnown, Known, Calls, Requesters, Appliers, Fields, HasFields,
     DataFields, RunFields, Returns, dataVars
  <2>1. CASE ApplyRemoteChange
    BY <2>1, HandKnownKept DEF ApplyRemoteChange, Quiet, NoRequest, Goto, Return,
       StageDownload, Persist, serverVars, historyVars
  <2>2. CASE RemoveLocal
    BY <2>2, HandKnownKept DEF RemoveLocal, Quiet, Return, EndRun, serverVars,
       IdleRun, NoRequest, historyVars
  <2>3. CASE Download
    BY <2>3, HandKnownKept DEF Download, Quiet, NoRequest, Goto, serverVars,
       historyVars
  <2>4. CASE SetAside
    BY <2>4, HandKnownKept DEF SetAside, Quiet, NoRequest, Goto, serverVars,
       historyVars
  <2>5. CASE SwapIn
    BY <2>5, HandKnownKept DEF SwapIn, Quiet, Goto, EndRun, serverVars, IdleRun,
       NoRequest, historyVars
  <2>6. CASE VerifyInstalled
    BY <2>6, HandKnownKept DEF VerifyInstalled, Quiet, Goto, EndRun, serverVars,
       IdleRun, NoRequest, historyVars
  <2>7. CASE FinishDownload
    BY <2>7, HandKnownKept DEF FinishDownload, Quiet, NoRequest, Goto, fileVars,
       serverVars, historyVars
  <2>8. CASE Save
    BY <2>8, HandKnownKept DEF Save, Quiet, NoRequest, Return, fileVars, serverVars,
       historyVars
  <2> HIDE DEF InHandKnown, Known, Calls, Requesters, Appliers, Fields, HasFields,
     DataFields, RunFields, Returns, dataVars
  <2> QED BY <1>7, <2>1, <2>2, <2>3, <2>4, <2>5, <2>6, <2>7, <2>8 DEF Apply
<1>8. CASE Pull
  <2> USE DEF InHandKnown, Known, Calls, Requesters, Appliers, Fields, HasFields,
     DataFields, RunFields, Returns, dataVars
  <2>1. CASE PullPage
    BY <2>1, HandKnownKept DEF PullPage, Quiet, NoRequest, fileVars, serverVars,
       historyVars
  <2>2. CASE PageChange
    BY <2>2, HandKnownKept DEF PageChange, Quiet, NoRequest, fileVars, serverVars,
       historyVars
  <2>3. CASE PageDone
    BY <2>3, HandKnownKept DEF PageDone, Quiet, NoRequest, Persist, fileVars,
       serverVars, historyVars
  <2>4. CASE Finish
    BY <2>4, HandKnownKept DEF Finish, Quiet, NoRequest, Persist, Goto, fileVars,
       serverVars, historyVars
  <2>5. CASE AckCursor
    BY <2>5, HandKnownKept DEF AckCursor, Quiet, Goto, Acknowledge, fileVars,
       serverVars, historyVars, NoRequest
  <2>6. CASE CompleteRun
    BY <2>6, HandKnownKept DEF CompleteRun, Quiet, EndRun, serverVars, fileVars,
       historyVars, IdleRun, NoRequest
  <2> HIDE DEF InHandKnown, Known, Calls, Requesters, Appliers, Fields, HasFields,
     DataFields, RunFields, Returns, dataVars
  <2> QED BY <1>8, <2>1, <2>2, <2>3, <2>4, <2>5, <2>6 DEF Pull
<1>9. ASSUME NEW p \in Paths, NEW content \in UserContents \cup {Absent},
   UserEdit(p, content) PROVE InHandKnown'
  BY <1>9, HandKnownKept, Noted DEF UserEdit
<1>10. ASSUME NEW from \in Paths, NEW to \in Paths, UserRename(from, to) PROVE
   InHandKnown'
  BY <1>10, HandKnownKept, Noted DEF UserRename
<1>11. CASE StartRun
  BY <1>11, HandKnownKept DEF StartRun, InHandKnown, Known, Calls, Requesters,
     Appliers, Fields, HasFields, DataFields, RunFields, Returns, dataVars, Quiet,
     NoRequest, Goto, fileVars, serverVars, historyVars
<1>12. CASE Send
  BY <1>12, HandKnownKept DEF Send, InHandKnown, Known, Calls, Requesters, Appliers,
     Fields, HasFields, DataFields, RunFields, Returns, dataVars, Quiet, Goto,
     fileVars, serverVars, historyVars, NoRequest
<1>13. CASE ServerMoves
  BY <1>13, HandKnownKept DEF ServerMoves, InHandKnown, Known, Calls, Requesters,
     Appliers, Fields, HasFields, DataFields, RunFields, Returns, dataVars, Spend,
     fileVars, serverVars, historyVars
<1>14. CASE SaveEvents
  BY <1>14, HandKnownKept DEF SaveEvents, InHandKnown, Known, Calls, Requesters,
     Appliers, Fields, HasFields, DataFields, RunFields, Returns, dataVars, Quiet,
     NoRequest, fileVars, serverVars, historyVars
<1>15. CASE RunFails
  BY <1>15, HandKnownKept DEF RunFails, InHandKnown, Known, Calls, Requesters,
     Appliers, Fields, HasFields, DataFields, RunFields, Returns, dataVars, EndRun,
     Spend, serverVars, IdleRun
<1>16. CASE Crash
  BY <1>16, HandKnownKept DEF Crash, InHandKnown, Known, Calls, Requesters,
     Appliers, Fields, HasFields, DataFields, RunFields, Returns, dataVars, IdleRun,
     Spend, serverVars, fileVars, historyVars
<1>17. CASE Restart
  BY <1>17, HandKnownKept DEF Restart, InHandKnown, Known, Calls, Requesters,
     Appliers, Fields, HasFields, DataFields, RunFields, Returns, dataVars,
     NoRequest, fileVars, historyVars, serverVars
<1>18. CASE UNCHANGED vars
  BY <1>18, HandKnownKept DEF InHandKnown, Known, Calls, Requesters, Appliers,
     Fields, HasFields, DataFields, RunFields, Returns, dataVars, vars, serverVars,
     fileVars, historyVars
<1> QED BY <1>1, <1>2, <1>3, <1>4, <1>5, <1>6, <1>7, <1>8, <1>9, <1>10, <1>11, <1>12,
         <1>13, <1>14, <1>15, <1>16, <1>17, <1>18 DEF Next, Engine, User
-----------------------------------------------------------------------------
(* The files that are only on this device.                                 *)

\* A path without a version is not recorded as one that is a row.
LEMMA LocalReadSnapshot ==
    ASSUME Base, NewStays, RecordsSound, ReadSnapshot
    PROVE  LocalOnly'
<1> DEFINE remote == {log[r].path : r \in DOMAIN log}
<1>1. /\ mem' = mem /\ pc' = "preserve" /\ run'.ret = "idle"
      /\ run'.scope \subseteq Paths \ remote
  <2>1. run.ret = "idle" /\ HasFields(run, RunFields)
    BY DEF ReadSnapshot, Base, Calls, Inner, Fields
  <2> QED BY <2>1 DEF ReadSnapshot, HasFields, RunFields, dataVars
<1>2. ASSUME NEW p \in Paths \ remote
      PROVE  ~Current(mem, p)
  <2>1. mem.files[p] = Untracked \/ Genuine(p, mem.files[p])
    BY DEF RecordsSound, DataSound, FilesSound
  <2>2. mem.files[p] = Untracked \/ mem.files[p] = NoRow
    BY <2>1 DEF Genuine
  <2> QED BY <2>2, ServerAssumption, EngineAssumption DEF Current, IsRow, Untracked, NoRow, Content
<1>3. ASSUME NEW p \in run'.scope
      PROVE  ~Current(mem, p)'
  <2>1. p \in Paths /\ ~Current(mem, p)
    BY <1>1, <1>2, <1>3
  <2> QED BY <1>1, <2>1 DEF NewStays
<1> QED BY <1>1, <1>3 DEF LocalOnly, Current

\* What was local only stays so.
LEMMA LocalKept ==
    ASSUME Base, NewStays, LocalOnly, mem'.files = mem.files, run'.scope \subseteq run.scope,
           pc' = "preserve" \/ run'.ret = "preserve" => pc = "preserve" \/ run.ret = "preserve",
           run'.ret = "preserve" =>
             \/ run.ret = "preserve" /\ run'.change = run.change
             \/ run'.change.path \in run.scope
    PROVE  LocalOnly'
<1>1. ASSUME NEW p \in Paths, ~Current(mem, p)
      PROVE  ~Current(mem, p)'
  BY <1>1 DEF NewStays
<1>2. run.scope \subseteq Paths
  BY DEF Base, RunTypes
<1>3. run.ret = "preserve" => run.change.path \in Paths
  <2>1. run.ret = "preserve" => pc \in Applying
    BY DEF Base, Calls, Appliers, Requesters, Inner, Applying, Installing
  <2> QED BY <2>1 DEF Base, Ready, ChangeReady, Version
<1>4. ASSUME pc' = "preserve" \/ run'.ret = "preserve", NEW p \in run'.scope
      PROVE  ~Current(mem, p)'
  BY <1>1, <1>2, <1>4 DEF LocalOnly
<1>5. ASSUME run'.ret = "preserve"
      PROVE  ~Current(mem, run.change.path)'
  <2>1. PICK p : p = run'.change.path
    OBVIOUS
  <2>2. p \in Paths /\ ~Current(mem, p)
    BY <1>2, <1>3, <1>5, <2>1 DEF LocalOnly
  <2> QED BY <1>1, <2>1, <2>2 DEF Current
<1> QED BY <1>4, <1>5 DEF LocalOnly

LEMMA LocalPreserveLocal ==
    ASSUME Base, NewStays, LocalOnly, PreserveLocal
    PROVE  LocalOnly'
<1>1. pc = "preserve" /\ HasFields(run, RunFields)
  BY DEF PreserveLocal, Base, Fields
<1>2. CASE EndRun
  BY <1>2 DEF EndRun, IdleRun, LocalOnly
<1>3. ASSUME ~EndRun PROVE LocalOnly'
  <2>1. PICK p \in run.scope :
          /\ run' = [run EXCEPT !.scope = @ \ {p}, !.ret = "preserve",
                        !.change = [path |-> p, rev |-> 0, content |-> Absent]]
          /\ pc' = "discard" /\ UNCHANGED dataVars
    BY <1>3, Zenon DEF PreserveLocal
  <2>2. PICK v : v = [path |-> p, rev |-> 0, content |-> Absent]
    OBVIOUS
  <2>3. run'.change = v /\ run'.scope = run.scope \ {p} /\ mem' = mem
    BY <1>1, <2>1, <2>2 DEF HasFields, RunFields, dataVars
  <2>4. v.path = p
    BY <2>2
  <2> QED BY <1>1, <2>3, <2>4, LocalKept
<1> QED BY <1>2, <1>3

\* Each removal leads back to the next file; that of a run that is applying changes
\* does not.
LEMMA LocalRemoved ==
    ASSUME Base, NewStays, LocalOnly, RemoveLocal \/ DiscardLocal
    PROVE  LocalOnly'
<1>1. HasFields(run, RunFields)
  BY DEF Base, Fields
<1>2. CASE EndRun
  BY <1>2 DEF EndRun, IdleRun, LocalOnly
<1>3. CASE Return
  <2>1. pc' = run.ret /\ run'.ret = "idle" /\ run'.scope = run.scope
    BY <1>1, <1>3 DEF Return, HasFields, RunFields
  <2>2. CASE RemoveLocal
    BY <2>1, <2>2 DEF RemoveLocal, LocalOnly, Base, Calls, Appliers
  <2>3. CASE DiscardLocal
    <3>1. mem' = mem \/ EndRun
      BY <2>3, Zenon DEF DiscardLocal, dataVars
    <3>2. run.ret = "preserve"
      BY <2>3 DEF DiscardLocal, Base, Calls
    <3> QED BY <1>2, <2>1, <3>1, <3>2, LocalKept
  <2> QED BY <2>2, <2>3
<1> QED BY <1>2, <1>3, Zenon DEF RemoveLocal, DiscardLocal

\* Every step keeps it so.
LEMMA LocalOnlyStep ==
    Base /\ Fields /\ Calls /\ RecordsSound /\ NewStays /\ LocalOnly /\ [Next]_vars
      => LocalOnly'
<1> SUFFICES ASSUME Base, Fields, Calls, RecordsSound, NewStays, LocalOnly,
   [Next]_vars PROVE LocalOnly'
  OBVIOUS
<1>1. CASE ResumeInbox
  <2> USE DEF LocalOnly, Calls, Requesters, Appliers, Inner, Fields, HasFields,
     DataFields, RunFields, Returns, dataVars
  <2>1. CASE InboxInstalled
    BY <2>1, LocalKept DEF InboxInstalled, Quiet, NoRequest, CleanUp, serverVars,
       historyVars
  <2>2. CASE InboxReady
    BY <2>2, LocalKept DEF InboxReady, Quiet, NoRequest, fileVars, serverVars,
       historyVars
  <2>3. CASE InboxLost
    BY <2>3, LocalKept DEF InboxLost, Quiet, NoRequest, Persist, CleanUp,
       serverVars, historyVars
  <2>4. CASE InboxDone
    BY <2>4, LocalKept DEF InboxDone, Quiet, NoRequest, Goto, fileVars, serverVars,
       historyVars
  <2> HIDE DEF LocalOnly, Calls, Requesters, Appliers, Inner, Fields, HasFields,
     DataFields, RunFields, Returns, dataVars
  <2> QED BY <1>1, <2>1, <2>2, <2>3, <2>4 DEF ResumeInbox
<1>2. CASE ResumeOutbox
  <2> USE DEF LocalOnly, Calls, Requesters, Appliers, Inner, Fields, HasFields,
     DataFields, RunFields, Returns, dataVars
  <2>1. CASE OutboxCommitted
    BY <2>1, LocalKept DEF OutboxCommitted, Quiet, serverVars, fileVars,
       historyVars, NoRequest
  <2>2. CASE OutboxResent
    BY <2>2, LocalKept DEF OutboxResent, Quiet, NoRequest, fileVars, serverVars,
       historyVars
  <2>3. CASE OutboxAbandoned
    BY <2>3, LocalKept DEF OutboxAbandoned, Quiet, NoRequest, Persist, Discarded,
       Queued, fileVars, serverVars, historyVars
  <2>4. CASE OutboxDone
    BY <2>4, LocalKept DEF OutboxDone, Quiet, NoRequest, Goto, BeginRenames,
       fileVars, serverVars, historyVars
  <2> HIDE DEF LocalOnly, Calls, Requesters, Appliers, Inner, Fields, HasFields,
     DataFields, RunFields, Returns, dataVars
  <2> QED BY <1>2, <2>1, <2>2, <2>3, <2>4 DEF ResumeOutbox
<1>3. CASE Reconcile
  <2>1. CASE ReadSnapshot
    BY <2>1, LocalReadSnapshot
  <2>2. CASE PreserveLocal
    BY <2>2, LocalPreserveLocal
  <2>3. CASE DiscardLocal
    BY <2>3, LocalRemoved
  <2> USE DEF LocalOnly, Calls, Requesters, Appliers, Inner, Fields, HasFields,
     DataFields, RunFields, Returns, dataVars
  <2>4. CASE PreserveDone
    BY <2>4, LocalKept DEF PreserveDone, Quiet, NoRequest, Goto, fileVars,
       serverVars, historyVars
  <2>5. CASE MergeSnapshot
    BY <2>5, LocalKept DEF MergeSnapshot, NoRequest, fileVars, serverVars,
       historyVars
  <2>6. CASE MergeDone
    BY <2>6, LocalKept DEF MergeDone, Quiet, NoRequest, Persist, BeginRenames,
       fileVars, serverVars, historyVars
  <2> HIDE DEF LocalOnly, Calls, Requesters, Appliers, Inner, Fields, HasFields,
     DataFields, RunFields, Returns, dataVars
  <2> QED BY <1>3, <2>1, <2>2, <2>3, <2>4, <2>5, <2>6 DEF Reconcile
<1>4. CASE Renames
  <2> USE DEF LocalOnly, Calls, Requesters, Appliers, Inner, Fields, HasFields,
     DataFields, RunFields, Returns, dataVars
  <2>1. CASE RenameSkipped
    BY <2>1, LocalKept DEF RenameSkipped, Quiet, NoRequest, fileVars, serverVars,
       historyVars
  <2>2. CASE RenameStaged
    BY <2>2, LocalKept DEF RenameStaged, Quiet, Stage, fileVars, serverVars,
       historyVars, Persist, NoRequest
  <2>3. CASE RenamesDone
    BY <2>3, LocalKept DEF RenamesDone, Quiet, NoRequest, Goto, fileVars,
       serverVars, historyVars
  <2> HIDE DEF LocalOnly, Calls, Requesters, Appliers, Inner, Fields, HasFields,
     DataFields, RunFields, Returns, dataVars
  <2> QED BY <1>4, <2>1, <2>2, <2>3 DEF Renames
<1>5. CASE Push
  <2> USE DEF LocalOnly, Calls, Requesters, Appliers, Inner, Fields, HasFields,
     DataFields, RunFields, Returns, dataVars
  <2>1. CASE PlanFull
    BY <2>1, LocalKept DEF PlanFull, Plan, Quiet, NoRequest, fileVars, serverVars,
       historyVars
  <2>2. CASE PlanQueued
    BY <2>2, LocalKept DEF PlanQueued, Plan, Quiet, NoRequest, fileVars, serverVars,
       historyVars
  <2>3. CASE PushDone
    BY <2>3, LocalKept DEF PushDone, Quiet, NoRequest, Stage, fileVars, serverVars,
       historyVars, Persist
  <2>4. CASE DeletesDone
    BY <2>4, LocalKept DEF DeletesDone, Quiet, NoRequest, fileVars, serverVars,
       historyVars
  <2>5. ASSUME NEW p \in Paths, ScanPath(p) PROVE LocalOnly'
    BY <2>5, LocalKept DEF ScanPath, Quiet, NoRequest, fileVars, serverVars,
       historyVars
  <2>6. ASSUME NEW p \in Paths, PushPath(p) PROVE LocalOnly'
    BY <2>6, LocalKept DEF PushPath, Quiet, NoRequest, Stage, Queued, Unnoted,
       fileVars, serverVars, historyVars, Persist
  <2>7. ASSUME NEW p \in Paths, DeletePath(p) PROVE LocalOnly'
    BY <2>7, LocalKept DEF DeletePath, Quiet, Stage, fileVars, serverVars,
       historyVars, Persist, NoRequest
  <2> HIDE DEF LocalOnly, Calls, Requesters, Appliers, Inner, Fields, HasFields,
     DataFields, RunFields, Returns, dataVars
  <2> QED BY <1>5, <2>1, <2>2, <2>3, <2>4, <2>5, <2>6, <2>7 DEF Push
<1>6. CASE Answered
  <2> USE DEF LocalOnly, Calls, Requesters, Appliers, Inner, Fields, HasFields,
     DataFields, RunFields, Returns, dataVars
  <2>1. CASE AnswerApplied
    BY <2>1, LocalKept DEF AnswerApplied, Quiet, Goto, Return, Complete, Queued,
       serverVars, fileVars, historyVars, NoRequest
  <2>2. CASE AnswerConflict
    BY <2>2, LocalKept DEF AnswerConflict, Quiet, Persist, Discarded, serverVars,
       fileVars, historyVars, NoRequest
  <2>3. CASE KeepRefused
    BY <2>3, LocalKept DEF KeepRefused, Quiet, NoRequest, serverVars, historyVars
  <2>4. CASE AnswerMoved
    BY <2>4, LocalKept DEF AnswerMoved, Quiet, Goto, Complete, serverVars, fileVars,
       historyVars, NoRequest
  <2>5. CASE AnswerMoveConflict
    BY <2>5, LocalKept DEF AnswerMoveConflict, Quiet, Goto, Return, Discarded,
       Queued, serverVars, fileVars, historyVars, NoRequest
  <2>6. CASE AnswerBatch
    BY <2>6, LocalKept DEF AnswerBatch, Quiet, Complete, serverVars, fileVars,
       historyVars, NoRequest
  <2>7. CASE AnswerBatchConflict
    BY <2>7, LocalKept DEF AnswerBatchConflict, Quiet, Persist, Discarded, Queued,
       serverVars, fileVars, historyVars, NoRequest
  <2> HIDE DEF LocalOnly, Calls, Requesters, Appliers, Inner, Fields, HasFields,
     DataFields, RunFields, Returns, dataVars
  <2> QED BY <1>6, <2>1, <2>2, <2>3, <2>4, <2>5, <2>6, <2>7 DEF Answered
<1>7. CASE Apply
  <2>1. CASE RemoveLocal
    BY <2>1, LocalRemoved
  <2> USE DEF LocalOnly, Calls, Requesters, Appliers, Inner, Fields, HasFields,
     DataFields, RunFields, Returns, dataVars
  <2>2. CASE ApplyRemoteChange
    BY <2>2, LocalKept DEF ApplyRemoteChange, Quiet, NoRequest, Goto, Return,
       StageDownload, Persist, serverVars, historyVars
  <2>3. CASE Download
    BY <2>3, LocalKept DEF Download, Quiet, NoRequest, Goto, serverVars, historyVars
  <2>4. CASE SetAside
    BY <2>4, LocalKept DEF SetAside, Quiet, NoRequest, Goto, serverVars, historyVars
  <2>5. CASE SwapIn
    BY <2>5, LocalKept DEF SwapIn, Quiet, Goto, EndRun, serverVars, IdleRun,
       NoRequest, historyVars
  <2>6. CASE VerifyInstalled
    BY <2>6, LocalKept DEF VerifyInstalled, Quiet, Goto, EndRun, serverVars,
       IdleRun, NoRequest, historyVars
  <2>7. CASE FinishDownload
    BY <2>7, LocalKept DEF FinishDownload, Quiet, NoRequest, Goto, fileVars,
       serverVars, historyVars
  <2>8. CASE Save
    BY <2>8, LocalKept DEF Save, Quiet, NoRequest, Return, fileVars, serverVars,
       historyVars
  <2> HIDE DEF LocalOnly, Calls, Requesters, Appliers, Inner, Fields, HasFields,
     DataFields, RunFields, Returns, dataVars
  <2> QED BY <1>7, <2>1, <2>2, <2>3, <2>4, <2>5, <2>6, <2>7, <2>8 DEF Apply
<1>8. CASE Pull
  <2> USE DEF LocalOnly, Calls, Requesters, Appliers, Inner, Fields, HasFields,
     DataFields, RunFields, Returns, dataVars
  <2>1. CASE PullPage
    BY <2>1, LocalKept DEF PullPage, Quiet, NoRequest, fileVars, serverVars,
       historyVars
  <2>2. CASE PageChange
    BY <2>2, LocalKept DEF PageChange, Quiet, NoRequest, fileVars, serverVars,
       historyVars
  <2>3. CASE PageDone
    BY <2>3, LocalKept DEF PageDone, Quiet, NoRequest, Persist, fileVars,
       serverVars, historyVars
  <2>4. CASE Finish
    BY <2>4, LocalKept DEF Finish, Quiet, NoRequest, Persist, Goto, fileVars,
       serverVars, historyVars
  <2>5. CASE AckCursor
    BY <2>5, LocalKept DEF AckCursor, Quiet, Goto, Acknowledge, fileVars,
       serverVars, historyVars, NoRequest
  <2>6. CASE CompleteRun
    BY <2>6, LocalKept DEF CompleteRun, Quiet, EndRun, serverVars, fileVars,
       historyVars, IdleRun, NoRequest
  <2> HIDE DEF LocalOnly, Calls, Requesters, Appliers, Inner, Fields, HasFields,
     DataFields, RunFields, Returns, dataVars
  <2> QED BY <1>8, <2>1, <2>2, <2>3, <2>4, <2>5, <2>6 DEF Pull
<1>9. ASSUME NEW p \in Paths, NEW content \in UserContents \cup {Absent},
   UserEdit(p, content) PROVE LocalOnly'
  BY <1>9, LocalKept, Noted DEF UserEdit
<1>10. ASSUME NEW from \in Paths, NEW to \in Paths, UserRename(from, to) PROVE
   LocalOnly'
  BY <1>10, LocalKept, Noted DEF UserRename
<1>11. CASE StartRun
  BY <1>11, LocalKept DEF StartRun, LocalOnly, Calls, Requesters, Appliers, Inner,
     Fields, HasFields, DataFields, RunFields, Returns, dataVars, Quiet, NoRequest,
     Goto, fileVars, serverVars, historyVars
<1>12. CASE Send
  BY <1>12, LocalKept DEF Send, LocalOnly, Calls, Requesters, Appliers, Inner,
     Fields, HasFields, DataFields, RunFields, Returns, dataVars, Quiet, Goto,
     fileVars, serverVars, historyVars, NoRequest
<1>13. CASE ServerMoves
  BY <1>13, LocalKept DEF ServerMoves, LocalOnly, Calls, Requesters, Appliers,
     Inner, Fields, HasFields, DataFields, RunFields, Returns, dataVars, Spend,
     fileVars, serverVars, historyVars
<1>14. CASE SaveEvents
  BY <1>14, LocalKept DEF SaveEvents, LocalOnly, Calls, Requesters, Appliers, Inner,
     Fields, HasFields, DataFields, RunFields, Returns, dataVars, Quiet, NoRequest,
     fileVars, serverVars, historyVars
<1>15. CASE RunFails
  BY <1>15, LocalKept DEF RunFails, LocalOnly, Calls, Requesters, Appliers, Inner,
     Fields, HasFields, DataFields, RunFields, Returns, dataVars, EndRun, Spend,
     serverVars, IdleRun
<1>16. CASE Crash
  BY <1>16, LocalKept DEF Crash, LocalOnly, Calls, Requesters, Appliers, Inner,
     Fields, HasFields, DataFields, RunFields, Returns, dataVars, IdleRun, Spend,
     serverVars, fileVars, historyVars
<1>17. CASE Restart
  BY <1>17, LocalKept DEF Restart, LocalOnly, Calls, Requesters, Appliers, Inner,
     Fields, HasFields, DataFields, RunFields, Returns, dataVars, NoRequest,
     fileVars, historyVars, serverVars
<1>18. CASE UNCHANGED vars
  BY <1>18, LocalKept DEF LocalOnly, Calls, Requesters, Appliers, Inner, Fields,
     HasFields, DataFields, RunFields, Returns, dataVars, vars, serverVars,
     fileVars, historyVars
<1> QED BY <1>1, <1>2, <1>3, <1>4, <1>5, <1>6, <1>7, <1>8, <1>9, <1>10, <1>11, <1>12,
         <1>13, <1>14, <1>15, <1>16, <1>17, <1>18 DEF Next, Engine, User
-----------------------------------------------------------------------------
(* The files that the scan has missed.                                     *)

\* What was missed, and is not recorded anew, was given up.
MissedStays ==
    \A p \in Paths : mem'.files[p] = mem.files[p] /\ Missed(p) => Missed(p)'

LEMMA MissedStaysStep == RecordsSound /\ Onward => MissedStays
<1> SUFFICES ASSUME RecordsSound, Onward, NEW p \in Paths, mem'.files[p] = mem.files[p], Missed(p),
                    Current(mem, p)'
             PROVE  GivenUp(p, mem.files[p].content)'
  BY DEF MissedStays, Missed
<1>1. mem.files[p] = Untracked \/ Genuine(p, mem.files[p])
  BY DEF RecordsSound, DataSound, FilesSound
<1>2. Current(mem, p)
  BY <1>1 DEF Onward, RowsStay, IsRow, Current
<1> QED BY <1>2 DEF Missed, Onward, GivenUpStays, GivenUp

InPush == pc = "push" \/ run.ret = "push"
InDeletes == pc = "deletes" \/ run.ret = "deletes"

\* Only busy paths are recorded, and no other becomes busy.
BusyAlone ==
    \A p \in Paths : (Busy(p)' => Busy(p)) /\ (~Busy(p) => mem'.files[p] = mem.files[p])

\* Elsewhere nothing is asked.
LEMMA MissingNothing ==
    ASSUME pc' \notin {"scan", "push", "deletes"}, run'.ret \notin {"push", "deletes", "pull"}
    PROVE  MissingKnown'
BY DEF MissingKnown

\* A step within a part of the run.
LEMMA MissingKept ==
    ASSUME Base, MissedStays, MissingKnown, BusyAlone,
           run'.scope = run.scope, run'.found = run.found, run'.todo = run.todo,
           pc' # "scan", run'.ret # "pull", InPush' => InPush, InDeletes' => InDeletes
    PROVE  MissingKnown'
<1>1. ASSUME NEW p \in Paths, Gone(p) PROVE Gone(p)'
  BY <1>1 DEF MissedStays, BusyAlone, Gone
<1>2. run.scope \subseteq Paths /\ run.todo \subseteq Paths
  BY DEF Base, RunTypes
<1>3. ASSUME InPush', NEW p \in run.scope, run.found[p] = Absent PROVE Gone(p)'
  BY <1>1, <1>2, <1>3 DEF MissingKnown, InPush
<1>4. ASSUME InDeletes', NEW p \in run.todo PROVE Gone(p)'
  BY <1>1, <1>2, <1>4 DEF MissingKnown, InDeletes
<1>5. InPush' => \A p \in run.todo : run.found[p] # Absent
  BY DEF MissingKnown, InPush
<1> QED BY <1>3, <1>4, <1>5 DEF MissingKnown, InPush, InDeletes

\* A step that records nothing, and takes nothing in hand.
LEMMA MissingUntouched ==
    ASSUME Base, MissedStays, MissingKnown,
           mem'.files = mem.files, mem'.outbox \in {mem.outbox, NoOperation},
           run'.change \in {run.change, NoDownload},
           run'.scope = run.scope, run'.found = run.found, run'.todo = run.todo,
           pc' = "scan" => pc = "scan", run'.ret = "pull" => run.ret = "pull",
           InPush' => InPush, InDeletes' => InDeletes
    PROVE  MissingKnown'
<1>1. BusyAlone
  BY DEF BusyAlone, Busy
<1>2. ASSUME NEW p \in Paths, Missed(p) PROVE Missed(p)'
  BY <1>2 DEF MissedStays
<1>3. ASSUME NEW p \in Paths, Gone(p) PROVE Gone(p)'
  BY <1>1, <1>2, <1>3 DEF BusyAlone, Gone
<1>4. run.scope \subseteq Paths /\ run.todo \subseteq Paths
  BY DEF Base, RunTypes
<1>5. ASSUME InPush', NEW p \in run.scope, run.found[p] = Absent PROVE Gone(p)'
  BY <1>3, <1>4, <1>5 DEF MissingKnown, InPush
<1>6. ASSUME InDeletes', NEW p \in run.todo PROVE Gone(p)'
  BY <1>3, <1>4, <1>6 DEF MissingKnown, InDeletes
<1>7. InPush' => \A p \in run.todo : run.found[p] # Absent
  BY DEF MissingKnown, InPush
<1>8. ASSUME pc' = "scan", NEW p \in run.scope \ run.todo, run.found[p] = Absent PROVE Missed(p)'
  BY <1>2, <1>4, <1>8 DEF MissingKnown
<1>9. ASSUME run'.ret = "pull", NEW p \in run.todo PROVE Missed(p)'
  BY <1>2, <1>4, <1>9 DEF MissingKnown
<1> QED BY <1>5, <1>6, <1>7, <1>8, <1>9 DEF MissingKnown, InPush, InDeletes

\* A step that records the change in hand.
LEMMA MissingChangeRecorded ==
    ASSUME Base, MissedStays, MissingKnown, pc \in Applying, mem'.files = Recorded({run.change}),
           mem'.outbox = mem.outbox,
           \/ Return
           \/ Goto("save") /\ run.ret # "pull"
    PROVE  MissingKnown'
<1>1. run.change \in Version /\ run.change # NoDownload
  <2>1. run.change \in Version
    BY DEF Base, Ready, ChangeReady
  <2>2. IsVersion(run.change)
    BY <2>1 DEF IsVersion, Version
  <2> QED BY <2>1, <2>2, VersionIsNoDownload
<1>2. HasFields(run, RunFields) /\ run.ret \in Returns
  BY DEF Base, Fields
<1>3. /\ run'.change \in {run.change, NoDownload} /\ run'.scope = run.scope
      /\ run'.found = run.found /\ run'.todo = run.todo
      /\ \/ pc' = run.ret /\ run'.ret = "idle"
         \/ pc' = "save" /\ run'.ret = run.ret /\ run.ret # "pull"
  BY <1>2 DEF Return, Goto, HasFields, RunFields
<1>4. BusyAlone
  BY <1>1, <1>3 DEF BusyAlone, Busy, Recorded
<1> QED BY <1>2, <1>3, <1>4, MissingKept DEF Returns, InPush, InDeletes

LEMMA MissingApplyRemoteChange ==
    ASSUME Base, MissedStays, MissingKnown, ApplyRemoteChange
    PROVE  MissingKnown'
<1> DEFINE v == run.change
<1>1. HasFields(mem, DataFields) /\ pc = "apply" /\ run.ret \in Appliers
  BY DEF ApplyRemoteChange, Base, Fields, Calls
<1>2. CASE mem' = [mem EXCEPT !.files = Recorded({v})] /\ Return
  <2>1. mem'.files = Recorded({run.change}) /\ mem'.outbox = mem.outbox
    BY <1>1, <1>2 DEF HasFields, DataFields
  <2> QED BY <1>1, <1>2, <2>1, MissingChangeRecorded DEF Applying
<1>3. CASE UNCHANGED dataVars /\ Goto("remove")
  BY <1>1, <1>3, MissingUntouched DEF Goto, dataVars, InPush, InDeletes
<1>4. CASE StageDownload(v) /\ Goto("download")
  <2>1. mem'.files = mem.files /\ mem'.outbox = mem.outbox
    BY <1>1, <1>4 DEF HasFields, DataFields, StageDownload, Persist
  <2> QED BY <1>1, <1>4, <2>1, MissingUntouched DEF Goto, InPush, InDeletes
<1> QED BY <1>2, <1>3, <1>4, Zenon DEF ApplyRemoteChange

LEMMA MissingRemoveLocal ==
    ASSUME Base, MissedStays, MissingKnown, RemoveLocal
    PROVE  MissingKnown'
<1>1. HasFields(mem, DataFields) /\ pc = "remove"
  BY DEF RemoveLocal, Base, Fields
<1>2. CASE EndRun
  BY <1>2, MissingNothing DEF EndRun, IdleRun
<1>3. CASE mem' = [mem EXCEPT !.files = Recorded({run.change})] /\ Return
  <2>1. mem'.files = Recorded({run.change}) /\ mem'.outbox = mem.outbox
    BY <1>1, <1>3 DEF HasFields, DataFields
  <2> QED BY <1>1, <1>3, <2>1, MissingChangeRecorded DEF Applying
<1> QED BY <1>2, <1>3, Zenon DEF RemoveLocal

LEMMA MissingFinishDownload ==
    ASSUME Base, MissedStays, MissingKnown, FinishDownload
    PROVE  MissingKnown'
<1>1. HasFields(mem, DataFields) /\ pc = "record" /\ Goto("save") /\ run.ret # "pull"
  BY DEF FinishDownload, Base, Fields, Calls, Appliers
<1>2. mem'.files = Recorded({run.change}) /\ mem'.outbox = mem.outbox
  BY <1>1 DEF FinishDownload, HasFields, DataFields
<1> QED BY <1>1, <1>2, MissingChangeRecorded DEF Applying, Installing

\* An answer records what the request was about.
LEMMA MissingAnswerApplied ==
    ASSUME Base, Boxes, InHandBoxed, OutboxKnown(mem), MissedStays, MissingKnown, AnswerApplied
    PROVE  MissingKnown'
<1>1. /\ pc = "answer" /\ run.change = NoDownload /\ mem.outbox # NoOperation
      /\ reply = answers[mem.outbox.id] /\ reply.kind = "ok"
      /\ HasFields(mem, DataFields) /\ HasFields(run, RunFields)
      /\ run.ret \in {"outbox", "push", "deletes"}
  BY DEF AnswerApplied, Boxes, InHandBoxed, Applying, Installing, Base, Fields, Calls
<1>2. mem'.files = Recorded(reply.versions) /\ mem'.outbox = NoOperation
  <2>1. CASE Recovering
    BY <1>1, <2>1 DEF AnswerApplied, Complete, HasFields, DataFields
  <2>2. CASE ~Recovering
    BY <1>1, <2>2 DEF AnswerApplied, Complete, HasFields, DataFields
  <2> QED BY <2>1, <2>2
<1>3. \A v \in reply.versions : v.path \in Touched(mem.outbox.request)
  BY <1>1 DEF OutboxKnown
<1>4. CASE Recovering
  <2>1. pc' = "save" /\ run' = run
    BY <1>4 DEF AnswerApplied, Goto
  <2> QED BY <1>4, <2>1, MissingNothing DEF Recovering
<1>5. CASE ~Recovering
  <2>1. /\ pc' = run.ret /\ run'.ret = "idle" /\ run'.change = NoDownload
        /\ run'.scope = run.scope /\ run'.found = run.found /\ run'.todo = run.todo
    BY <1>1, <1>5 DEF AnswerApplied, Return, HasFields, RunFields
  <2>2. BusyAlone
    BY <1>1, <1>2, <1>3, <2>1 DEF BusyAlone, Busy, Recorded
  <2>3. pc' # "scan" /\ run'.ret # "pull"
    BY <1>1, <2>1
  <2>4. (InPush' => InPush) /\ (InDeletes' => InDeletes)
    BY <2>1 DEF InPush, InDeletes
  <2> QED BY <2>1, <2>2, <2>3, <2>4, MissingKept
<1> QED BY <1>4, <1>5

\* A refusal leaves the path of the request in hand.
LEMMA MissingAnswerConflict ==
    ASSUME Base, Boxes, RefusedNew, MissedStays, MissingKnown, AnswerConflict
    PROVE  MissingKnown'
<1>1. /\ pc = "answer" /\ mem.outbox # NoOperation /\ mem.outbox.request.kind = "apply"
      /\ HasFields(mem, DataFields) /\ HasFields(run, RunFields)
      /\ run.ret \in {"outbox", "push", "deletes"}
  BY DEF AnswerConflict, Boxes, Base, Fields, Calls
<1>2. mem'.files = mem.files /\ mem'.outbox = NoOperation
  BY <1>1 DEF AnswerConflict, Persist, Discarded, HasFields, DataFields
<1>3. PICK v : v \in reply.versions /\ run'.change = v
  <2>1. PICK w : reply.versions = {w}
    BY <1>1 DEF AnswerConflict, Base, Replies
  <2>2. run'.change = CHOOSE v \in reply.versions : TRUE
    BY <1>1 DEF AnswerConflict, HasFields, RunFields
  <2> QED BY <2>1, <2>2
<1>4. v.path \in Touched(mem.outbox.request)
  BY <1>1, <1>3 DEF AnswerConflict, RefusedNew, Touched
<1>5. /\ pc' \in {"apply", "refused"} /\ run'.ret = run.ret /\ run'.scope = run.scope
      /\ run'.found = run.found /\ run'.todo = run.todo
  BY <1>1 DEF AnswerConflict, HasFields, RunFields
<1>6. BusyAlone
  BY <1>1, <1>2, <1>3, <1>4 DEF BusyAlone, Busy
<1> QED BY <1>1, <1>5, <1>6, MissingKept DEF InPush, InDeletes

LEMMA MissingAnswerBatch ==
    ASSUME Base, AnswerBatch
    PROVE  MissingKnown'
<1>1. pc' = "save" /\ run'.todo = {} /\ run'.ret = run.ret /\ run.ret \in {"outbox", "pull"}
  BY DEF AnswerBatch, Base, Fields, HasFields, RunFields, Calls
<1> QED BY <1>1 DEF MissingKnown

\* A batch that was refused leaves nothing in hand.
LEMMA MissingAnswerBatchConflict ==
    ASSUME Base, InHandBoxed, MissedStays, MissingKnown, AnswerBatchConflict
    PROVE  MissingKnown'
<1>1. /\ pc = "answer" /\ run.change = NoDownload
      /\ HasFields(mem, DataFields) /\ HasFields(run, RunFields) /\ run.todo \subseteq Paths
  BY DEF AnswerBatchConflict, InHandBoxed, Applying, Installing, Base, Fields, RunTypes
<1>2. CASE Recovering
  BY <1>1, <1>2, MissingNothing DEF AnswerBatchConflict, HasFields, RunFields
<1>3. CASE ~Recovering
  <2>1. run.ret = "pull"
    BY <1>3 DEF AnswerBatchConflict, Base, Calls, Recovering
  <2>2. mem'.files = mem.files /\ mem'.outbox = NoOperation
    BY <1>1, <1>3 DEF AnswerBatchConflict, Persist, Discarded, HasFields, DataFields
  <2>3. pc' = "deletes" /\ run'.ret = "idle" /\ run'.change = NoDownload /\ run'.todo = run.todo
    BY <1>1, <1>3 DEF AnswerBatchConflict, HasFields, RunFields
  <2>4. ASSUME NEW p \in run.todo PROVE Gone(p)'
    <3>1. Missed(p)'
      BY <1>1, <2>1, <2>2 DEF MissingKnown, MissedStays
    <3>2. ~Busy(p)'
      BY <2>2, <2>3 DEF Busy
    <3> QED BY <3>1, <3>2 DEF Gone
  <2> QED BY <2>3, <2>4 DEF MissingKnown
<1> QED BY <1>2, <1>3

LEMMA MissingPreserved ==
    ASSUME Base, PreserveLocal \/ DiscardLocal
    PROVE  MissingKnown'
<1>1. HasFields(run, RunFields) /\ (pc = "discard" => run.ret = "preserve")
  BY DEF Base, Fields, Calls
<1>2. CASE EndRun
  BY <1>2, MissingNothing DEF EndRun, IdleRun
<1>3. CASE PreserveLocal /\ ~EndRun
  <2>1. PICK p \in run.scope :
          /\ run' = [run EXCEPT !.scope = @ \ {p}, !.ret = "preserve",
                        !.change = [path |-> p, rev |-> 0, content |-> Absent]]
          /\ pc' = "discard"
    BY <1>3, Zenon DEF PreserveLocal
  <2> QED BY <1>1, <2>1, MissingNothing DEF HasFields, RunFields
<1>4. CASE DiscardLocal /\ ~EndRun
  BY <1>1, <1>4, MissingNothing DEF DiscardLocal, Return, HasFields, RunFields
<1> QED BY <1>2, <1>3, <1>4

\* At the beginning nothing is scanned, or there is nothing to scan.
LEMMA MissingPlan ==
    ASSUME Base, NEW full, Plan(full)
    PROVE  MissingKnown'
<1> DEFINE scope == IF full THEN Paths ELSE mem.pending
<1>1. run.ret = "idle" /\ HasFields(run, RunFields)
  BY DEF Plan, Base, Calls, Inner, Fields
<1>2. pc' = IF scope = {} THEN "push" ELSE "scan"
  BY Zenon DEF Plan
<1>3. run' = [run EXCEPT !.full = full, !.noted = mem.pending, !.scope = scope, !.todo = scope]
  BY Zenon DEF Plan
<1> HIDE DEF scope
<1>4. run'.scope = scope /\ run'.todo = scope /\ run'.ret = "idle"
  BY <1>1, <1>3 DEF HasFields, RunFields
<1> QED BY <1>2, <1>4 DEF MissingKnown

\* A file that the scan does not find is one that the user has taken away.
LEMMA MissingScanPath ==
    ASSUME Base, Boxes, InHandBoxed, FilesKnown, MissedStays, MissingKnown, NEW p \in Paths, ScanPath(p)
    PROVE  MissingKnown'
<1>1. /\ pc = "scan" /\ run.ret = "idle" /\ HasFields(run, RunFields) /\ mem' = mem
      /\ mem.outbox = NoOperation /\ run.change = NoDownload
      /\ run.scope \subseteq Paths /\ run.found \in [Paths -> Content]
  BY DEF ScanPath, Base, Calls, Inner, Fields, dataVars, Boxes, InHandBoxed, Applying, Installing,
     RunTypes
<1>2. PICK found : found = [run.found EXCEPT ![p] = disk[p]]
  OBVIOUS
<1>3. ASSUME NEW q \in Paths, Missed(q) PROVE Missed(q)'
  BY <1>1, <1>3 DEF MissedStays
<1>4. ASSUME disk[p] = Absent PROVE Missed(p)
  BY <1>4, ServerAssumption DEF Missed, FilesKnown, Known, GivenUp
<1>5. ASSUME NEW q \in run.scope, q = p \/ q \notin run.todo, found[q] = Absent
      PROVE  Missed(q)'
  <2>1. Missed(q)
    BY <1>1, <1>2, <1>4, <1>5 DEF MissingKnown
  <2> QED BY <1>1, <1>3, <2>1
<1>6. CASE run.todo \ {p} # {}
  <2>1. run' = [run EXCEPT !.found = found, !.todo = run.todo \ {p}] /\ pc' = "scan"
    BY <1>1, <1>2, <1>6 DEF ScanPath
  <2>2. /\ run'.found = found /\ run'.todo = run.todo \ {p} /\ run'.scope = run.scope
        /\ run'.ret = "idle"
    BY <1>1, <2>1 DEF HasFields, RunFields
  <2> QED BY <1>5, <2>1, <2>2 DEF MissingKnown
<1>7. CASE run.todo \ {p} = {}
  <2>1. run' = [run EXCEPT !.found = found, !.todo = {q \in Paths : found[q] # Absent}]
        /\ pc' = "push"
    BY <1>1, <1>2, <1>7 DEF ScanPath
  <2>2. /\ run'.found = found /\ run'.todo = {q \in Paths : found[q] # Absent}
        /\ run'.scope = run.scope /\ run'.ret = "idle" /\ run'.change = NoDownload
    BY <1>1, <2>1 DEF HasFields, RunFields
  <2>3. ASSUME NEW q \in run.scope, found[q] = Absent PROVE Gone(q)'
    <3>1. Missed(q)'
      BY <1>5, <1>7, <2>3
    <3>2. ~Busy(q)'
      BY <1>1, <2>2 DEF Busy
    <3> QED BY <3>1, <3>2 DEF Gone
  <2> QED BY <2>1, <2>2, <2>3 DEF MissingKnown
<1> QED BY <1>6, <1>7

\* A request that is staged makes its path busy, and no other.
LEMMA MissingStaged ==
    ASSUME Base, Boxes, InHandBoxed, MissedStays, NEW p \in Paths, NEW c,
           pc \in {"push", "deletes"}, Stage(ApplyRequest(p, c)), run'.change = run.change
    PROVE  \A q \in Paths : Gone(q) /\ q # p => Gone(q)'
<1>1. mem.outbox = NoOperation /\ run.change = NoDownload /\ HasFields(mem, DataFields)
  BY DEF Boxes, InHandBoxed, Applying, Installing, Base, Fields
<1>2. /\ mem'.files = mem.files /\ mem'.outbox.request = ApplyRequest(p, c)
  BY <1>1 DEF Stage, Persist, HasFields, DataFields
<1>3. Touched(ApplyRequest(p, c)) = {p}
  BY DEF Touched, ApplyRequest
<1>4. PICK q0 : q0 = ApplyRequest(p, c)
  OBVIOUS
<1>5. Touched(mem'.outbox.request) = {p}
  BY <1>2, <1>3
<1>6. ASSUME NEW q \in Paths, q # p PROVE ~Busy(q)'
  BY <1>1, <1>5, <1>6, Zenon DEF Busy, Touched, BatchPaths
<1>7. ASSUME NEW q \in Paths, Missed(q) PROVE Missed(q)'
  BY <1>2, <1>7 DEF MissedStays
<1> QED BY <1>6, <1>7 DEF Gone

LEMMA MissingPushPath ==
    ASSUME Base, Boxes, InHandBoxed, MissedStays, MissingKnown, NEW p \in Paths, PushPath(p)
    PROVE  MissingKnown'
<1>1. /\ pc = "push" /\ run.ret = "idle" /\ HasFields(run, RunFields) /\ HasFields(mem, DataFields)
      /\ run.scope \subseteq Paths /\ run.todo \subseteq Paths /\ p \in run.todo
  BY DEF PushPath, PushDue, Base, Calls, Inner, Fields, RunTypes
<1>2. CASE disk[p] = run.found[p]
  <2>1. Stage(ApplyRequest(p, disk[p])) /\ pc' = "send"
    BY <1>2, Zenon DEF PushPath, Stage
  <2>2. run' = [run EXCEPT !.todo = @ \ {p}, !.ret = "push"]
    BY <1>2, Zenon DEF PushPath
  <2>3. /\ run'.todo = run.todo \ {p} /\ run'.ret = "push" /\ run'.scope = run.scope
        /\ run'.found = run.found /\ run'.change = run.change
    BY <1>1, <2>2 DEF HasFields, RunFields
  <2>4. \A q \in Paths : Gone(q) /\ q # p => Gone(q)'
    BY <1>1, <2>1, <2>3, MissingStaged
  <2>5. ASSUME NEW q \in run.scope, run.found[q] = Absent PROVE Gone(q)'
    BY <1>1, <2>4, <2>5 DEF MissingKnown
  <2>6. \A q \in run'.todo : run.found[q] # Absent
    BY <1>1, <2>3 DEF MissingKnown
  <2> QED BY <2>1, <2>3, <2>5, <2>6 DEF MissingKnown
<1>3. CASE disk[p] # run.found[p]
  <2>1. /\ mem' = IF disk[p] = Absent THEN mem ELSE [mem EXCEPT !.pending = Queued({p})]
        /\ pc' = pc
    BY <1>3, Zenon DEF PushPath
  <2>2. \E noted : run' = [run EXCEPT !.todo = @ \ {p}, !.noted = noted]
    BY <1>3, Zenon DEF PushPath
  <2>3. /\ run'.todo = run.todo \ {p} /\ run'.ret = "idle" /\ run'.scope = run.scope
        /\ run'.found = run.found /\ run'.change = run.change
    BY <1>1, <2>2 DEF HasFields, RunFields
  <2>4. mem'.files = mem.files /\ mem'.outbox = mem.outbox
    BY <1>1, <2>1 DEF HasFields, DataFields
  <2>5. ASSUME NEW q \in Paths, Gone(q) PROVE Gone(q)'
    BY <2>3, <2>4, <2>5 DEF MissedStays, Gone, Busy
  <2>6. ASSUME NEW q \in run.scope, run.found[q] = Absent PROVE Gone(q)'
    BY <1>1, <2>5, <2>6 DEF MissingKnown
  <2>7. \A q \in run'.todo : run.found[q] # Absent
    BY <1>1, <2>3 DEF MissingKnown
  <2> QED BY <1>1, <2>1, <2>3, <2>6, <2>7 DEF MissingKnown
<1> QED BY <1>2, <1>3

LEMMA MissingDeletePath ==
    ASSUME Base, Boxes, InHandBoxed, MissedStays, MissingKnown, NEW p \in Paths, DeletePath(p)
    PROVE  MissingKnown'
<1>1. /\ pc = "deletes" /\ HasFields(run, RunFields) /\ run.todo \subseteq Paths
      /\ Stage(ApplyRequest(p, Absent)) /\ pc' = "send"
      /\ run' = [run EXCEPT !.todo = @ \ {p}, !.ret = "deletes"]
  BY DEF DeletePath, Base, Fields, RunTypes, Stage
<1>2. run'.todo = run.todo \ {p} /\ run'.ret = "deletes" /\ run'.change = run.change
  BY <1>1 DEF HasFields, RunFields
<1>3. \A q \in Paths : Gone(q) /\ q # p => Gone(q)'
  BY <1>1, <1>2, MissingStaged
<1>4. ASSUME NEW q \in run'.todo PROVE Gone(q)'
  BY <1>1, <1>2, <1>3, <1>4 DEF MissingKnown
<1> QED BY <1>1, <1>2, <1>4 DEF MissingKnown

LEMMA MissingPushDone ==
    ASSUME Base, InHandBoxed, MissedStays, MissingKnown, PushDone
    PROVE  MissingKnown'
<1>1. /\ pc = "push" /\ run.ret = "idle" /\ HasFields(run, RunFields) /\ HasFields(mem, DataFields)
      /\ run.scope \subseteq Paths
  BY DEF PushDone, Base, Calls, Inner, Fields, RunTypes
<1>2. PICK ps : ps = Deletions
  OBVIOUS
<1>3. \A p \in ps : p \in Paths /\ Gone(p)
  BY <1>1, <1>2 DEF MissingKnown, Deletions
<1>4. CASE Cardinality(Deletions) > 1
  <2>1. PICK q : Stage(q)
    BY <1>4, Zenon DEF PushDone
  <2>2. run' = [run EXCEPT !.todo = ps, !.ret = "pull"]
    BY <1>2, <1>4, Zenon DEF PushDone
  <2>3. run'.todo = ps /\ run'.ret = "pull"
    BY <1>1, <2>2 DEF HasFields, RunFields
  <2>4. mem'.files = mem.files /\ pc' = "send"
    BY <1>1, <2>1 DEF Stage, Persist, HasFields, DataFields
  <2>5. \A p \in ps : Missed(p)'
    BY <1>3, <2>4 DEF MissedStays, Gone
  <2> QED BY <2>3, <2>4, <2>5 DEF MissingKnown
<1>5. CASE ~(Cardinality(Deletions) > 1)
  <2>1. run' = [run EXCEPT !.todo = ps] /\ pc' = "deletes" /\ UNCHANGED dataVars
    BY <1>2, <1>5, Zenon DEF PushDone
  <2>2. run'.todo = ps /\ run'.ret = "idle" /\ run'.change = run.change /\ mem' = mem
    BY <1>1, <2>1 DEF HasFields, RunFields, dataVars
  <2>3. \A p \in ps : Gone(p)'
    BY <1>3, <2>2 DEF MissedStays, Gone, Busy
  <2> QED BY <2>1, <2>2, <2>3 DEF MissingKnown
<1> QED BY <1>4, <1>5

\* Every step keeps it.
LEMMA MissingKnownStep ==
    Base /\ Fields /\ Calls /\ Boxes /\ InHandBoxed /\ RefusedNew /\ OutboxKnown(mem) /\
      FilesKnown /\ MissedStays /\ MissingKnown /\ [Next]_vars => MissingKnown'
<1> SUFFICES ASSUME Base, Fields, Calls, Boxes, InHandBoxed, RefusedNew,
   OutboxKnown(mem), FilesKnown, MissedStays, MissingKnown, [Next]_vars PROVE
   MissingKnown'
  OBVIOUS
<1>1. CASE ResumeInbox
  <2> USE DEF InPush, InDeletes, Calls, Requesters, Appliers, Inner, Fields,
     HasFields, DataFields, RunFields, Returns, dataVars
  <2>1. CASE InboxInstalled
    BY <2>1, MissingUntouched, MissingNothing DEF InboxInstalled, Quiet, NoRequest,
       CleanUp, serverVars, historyVars
  <2>2. CASE InboxReady
    BY <2>2, MissingUntouched, MissingNothing DEF InboxReady, Quiet, NoRequest,
       fileVars, serverVars, historyVars
  <2>3. CASE InboxLost
    BY <2>3, MissingUntouched, MissingNothing DEF InboxLost, Quiet, NoRequest,
       Persist, CleanUp, serverVars, historyVars
  <2>4. CASE InboxDone
    BY <2>4, MissingUntouched, MissingNothing DEF InboxDone, Quiet, NoRequest, Goto,
       fileVars, serverVars, historyVars
  <2> HIDE DEF InPush, InDeletes, Calls, Requesters, Appliers, Inner, Fields,
     HasFields, DataFields, RunFields, Returns, dataVars
  <2> QED BY <1>1, <2>1, <2>2, <2>3, <2>4 DEF ResumeInbox
<1>2. CASE ResumeOutbox
  <2> USE DEF InPush, InDeletes, Calls, Requesters, Appliers, Inner, Fields,
     HasFields, DataFields, RunFields, Returns, dataVars
  <2>1. CASE OutboxCommitted
    BY <2>1, MissingUntouched, MissingNothing DEF OutboxCommitted, Quiet,
       serverVars, fileVars, historyVars, NoRequest
  <2>2. CASE OutboxResent
    BY <2>2, MissingUntouched, MissingNothing DEF OutboxResent, Quiet, NoRequest,
       fileVars, serverVars, historyVars
  <2>3. CASE OutboxAbandoned
    BY <2>3, MissingUntouched, MissingNothing DEF OutboxAbandoned, Quiet, NoRequest,
       Persist, Discarded, Queued, fileVars, serverVars, historyVars
  <2>4. CASE OutboxDone
    BY <2>4, MissingUntouched, MissingNothing DEF OutboxDone, Quiet, NoRequest,
       Goto, BeginRenames, fileVars, serverVars, historyVars
  <2> HIDE DEF InPush, InDeletes, Calls, Requesters, Appliers, Inner, Fields,
     HasFields, DataFields, RunFields, Returns, dataVars
  <2> QED BY <1>2, <2>1, <2>2, <2>3, <2>4 DEF ResumeOutbox
<1>3. CASE Reconcile
  <2>1. CASE PreserveLocal
    BY <2>1, MissingPreserved
  <2>2. CASE DiscardLocal
    BY <2>2, MissingPreserved
  <2> USE DEF InPush, InDeletes, Calls, Requesters, Appliers, Inner, Fields,
     HasFields, DataFields, RunFields, Returns, dataVars
  <2>3. CASE ReadSnapshot
    BY <2>3, MissingUntouched, MissingNothing DEF ReadSnapshot, Quiet, NoRequest,
       fileVars, serverVars, historyVars
  <2>4. CASE PreserveDone
    BY <2>4, MissingUntouched, MissingNothing DEF PreserveDone, Quiet, NoRequest,
       Goto, fileVars, serverVars, historyVars
  <2>5. CASE MergeSnapshot
    BY <2>5, MissingUntouched, MissingNothing DEF MergeSnapshot, NoRequest,
       fileVars, serverVars, historyVars
  <2>6. CASE MergeDone
    BY <2>6, MissingUntouched, MissingNothing DEF MergeDone, Quiet, NoRequest,
       Persist, BeginRenames, fileVars, serverVars, historyVars
  <2> HIDE DEF InPush, InDeletes, Calls, Requesters, Appliers, Inner, Fields,
     HasFields, DataFields, RunFields, Returns, dataVars
  <2> QED BY <1>3, <2>1, <2>2, <2>3, <2>4, <2>5, <2>6 DEF Reconcile
<1>4. CASE Renames
  <2> USE DEF InPush, InDeletes, Calls, Requesters, Appliers, Inner, Fields,
     HasFields, DataFields, RunFields, Returns, dataVars
  <2>1. CASE RenameSkipped
    BY <2>1, MissingUntouched, MissingNothing DEF RenameSkipped, Quiet, NoRequest,
       fileVars, serverVars, historyVars
  <2>2. CASE RenameStaged
    BY <2>2, MissingUntouched, MissingNothing DEF RenameStaged, Quiet, Stage,
       fileVars, serverVars, historyVars, Persist, NoRequest
  <2>3. CASE RenamesDone
    BY <2>3, MissingUntouched, MissingNothing DEF RenamesDone, Quiet, NoRequest,
       Goto, fileVars, serverVars, historyVars
  <2> HIDE DEF InPush, InDeletes, Calls, Requesters, Appliers, Inner, Fields,
     HasFields, DataFields, RunFields, Returns, dataVars
  <2> QED BY <1>4, <2>1, <2>2, <2>3 DEF Renames
<1>5. CASE Push
  <2>1. CASE PlanFull
    BY <2>1, MissingPlan DEF PlanFull
  <2>2. CASE PlanQueued
    BY <2>2, MissingPlan DEF PlanQueued
  <2>3. CASE PushDone
    BY <2>3, MissingPushDone
  <2>4. ASSUME NEW p \in Paths, ScanPath(p) PROVE MissingKnown'
    BY <2>4, MissingScanPath
  <2>5. ASSUME NEW p \in Paths, PushPath(p) PROVE MissingKnown'
    BY <2>5, MissingPushPath
  <2>6. ASSUME NEW p \in Paths, DeletePath(p) PROVE MissingKnown'
    BY <2>6, MissingDeletePath
  <2> USE DEF InPush, InDeletes, Calls, Requesters, Appliers, Inner, Fields,
     HasFields, DataFields, RunFields, Returns, dataVars
  <2>7. CASE DeletesDone
    BY <2>7, MissingUntouched, MissingNothing DEF DeletesDone, Quiet, NoRequest,
       fileVars, serverVars, historyVars
  <2> HIDE DEF InPush, InDeletes, Calls, Requesters, Appliers, Inner, Fields,
     HasFields, DataFields, RunFields, Returns, dataVars
  <2> QED BY <1>5, <2>1, <2>2, <2>3, <2>4, <2>5, <2>6, <2>7 DEF Push
<1>6. CASE Answered
  <2>1. CASE AnswerApplied
    BY <2>1, MissingAnswerApplied
  <2>2. CASE AnswerConflict
    BY <2>2, MissingAnswerConflict
  <2>3. CASE AnswerBatch
    BY <2>3, MissingAnswerBatch
  <2>4. CASE AnswerBatchConflict
    BY <2>4, MissingAnswerBatchConflict
  <2> USE DEF InPush, InDeletes, Calls, Requesters, Appliers, Inner, Fields,
     HasFields, DataFields, RunFields, Returns, dataVars
  <2>5. CASE KeepRefused
    BY <2>5, MissingUntouched, MissingNothing DEF KeepRefused, Quiet, NoRequest,
       serverVars, historyVars
  <2>6. CASE AnswerMoved
    BY <2>6, MissingUntouched, MissingNothing DEF AnswerMoved, Quiet, Goto,
       Complete, serverVars, fileVars, historyVars, NoRequest
  <2>7. CASE AnswerMoveConflict
    BY <2>7, MissingUntouched, MissingNothing DEF AnswerMoveConflict, Quiet, Goto,
       Return, Discarded, Queued, serverVars, fileVars, historyVars, NoRequest
  <2> HIDE DEF InPush, InDeletes, Calls, Requesters, Appliers, Inner, Fields,
     HasFields, DataFields, RunFields, Returns, dataVars
  <2> QED BY <1>6, <2>1, <2>2, <2>3, <2>4, <2>5, <2>6, <2>7 DEF Answered
<1>7. CASE Apply
  <2>1. CASE ApplyRemoteChange
    BY <2>1, MissingApplyRemoteChange
  <2>2. CASE RemoveLocal
    BY <2>2, MissingRemoveLocal
  <2>3. CASE FinishDownload
    BY <2>3, MissingFinishDownload
  <2> USE DEF InPush, InDeletes, Calls, Requesters, Appliers, Inner, Fields,
     HasFields, DataFields, RunFields, Returns, dataVars
  <2>4. CASE Download
    BY <2>4, MissingUntouched, MissingNothing DEF Download, Quiet, NoRequest, Goto,
       serverVars, historyVars
  <2>5. CASE SetAside
    BY <2>5, MissingUntouched, MissingNothing DEF SetAside, Quiet, NoRequest, Goto,
       serverVars, historyVars
  <2>6. CASE SwapIn
    BY <2>6, MissingUntouched, MissingNothing DEF SwapIn, Quiet, Goto, EndRun,
       serverVars, IdleRun, NoRequest, historyVars
  <2>7. CASE VerifyInstalled
    BY <2>7, MissingUntouched, MissingNothing DEF VerifyInstalled, Quiet, Goto,
       EndRun, serverVars, IdleRun, NoRequest, historyVars
  <2>8. CASE Save
    BY <2>8, MissingUntouched, MissingNothing DEF Save, Quiet, NoRequest, Return,
       fileVars, serverVars, historyVars
  <2> HIDE DEF InPush, InDeletes, Calls, Requesters, Appliers, Inner, Fields,
     HasFields, DataFields, RunFields, Returns, dataVars
  <2> QED BY <1>7, <2>1, <2>2, <2>3, <2>4, <2>5, <2>6, <2>7, <2>8 DEF Apply
<1>8. CASE Pull
  <2> USE DEF InPush, InDeletes, Calls, Requesters, Appliers, Inner, Fields,
     HasFields, DataFields, RunFields, Returns, dataVars
  <2>1. CASE PullPage
    BY <2>1, MissingUntouched, MissingNothing DEF PullPage, Quiet, NoRequest,
       fileVars, serverVars, historyVars
  <2>2. CASE PageChange
    BY <2>2, MissingUntouched, MissingNothing DEF PageChange, Quiet, NoRequest,
       fileVars, serverVars, historyVars
  <2>3. CASE PageDone
    BY <2>3, MissingUntouched, MissingNothing DEF PageDone, Quiet, NoRequest,
       Persist, fileVars, serverVars, historyVars
  <2>4. CASE Finish
    BY <2>4, MissingUntouched, MissingNothing DEF Finish, Quiet, NoRequest, Persist,
       Goto, fileVars, serverVars, historyVars
  <2>5. CASE AckCursor
    BY <2>5, MissingUntouched, MissingNothing DEF AckCursor, Quiet, Goto,
       Acknowledge, fileVars, serverVars, historyVars, NoRequest
  <2>6. CASE CompleteRun
    BY <2>6, MissingUntouched, MissingNothing DEF CompleteRun, Quiet, EndRun,
       serverVars, fileVars, historyVars, IdleRun, NoRequest
  <2> HIDE DEF InPush, InDeletes, Calls, Requesters, Appliers, Inner, Fields,
     HasFields, DataFields, RunFields, Returns, dataVars
  <2> QED BY <1>8, <2>1, <2>2, <2>3, <2>4, <2>5, <2>6 DEF Pull
<1>9. ASSUME NEW p \in Paths, NEW content \in UserContents \cup {Absent},
   UserEdit(p, content) PROVE MissingKnown'
  BY <1>9, MissingUntouched, Noted DEF InPush, InDeletes, UserEdit
<1>10. ASSUME NEW from \in Paths, NEW to \in Paths, UserRename(from, to) PROVE
   MissingKnown'
  BY <1>10, MissingUntouched, Noted DEF InPush, InDeletes, UserRename
<1>11. CASE StartRun
  BY <1>11, MissingUntouched, MissingNothing DEF StartRun, InPush, InDeletes, Calls,
     Requesters, Appliers, Inner, Fields, HasFields, DataFields, RunFields, Returns,
     dataVars, Quiet, NoRequest, Goto, fileVars, serverVars, historyVars
<1>12. CASE Send
  BY <1>12, MissingUntouched, MissingNothing DEF Send, InPush, InDeletes, Calls,
     Requesters, Appliers, Inner, Fields, HasFields, DataFields, RunFields, Returns,
     dataVars, Quiet, Goto, fileVars, serverVars, historyVars, NoRequest
<1>13. CASE ServerMoves
  BY <1>13, MissingUntouched, MissingNothing DEF ServerMoves, InPush, InDeletes,
     Calls, Requesters, Appliers, Inner, Fields, HasFields, DataFields, RunFields,
     Returns, dataVars, Spend, fileVars, serverVars, historyVars
<1>14. CASE SaveEvents
  BY <1>14, MissingUntouched, MissingNothing DEF SaveEvents, InPush, InDeletes,
     Calls, Requesters, Appliers, Inner, Fields, HasFields, DataFields, RunFields,
     Returns, dataVars, Quiet, NoRequest, fileVars, serverVars, historyVars
<1>15. CASE RunFails
  BY <1>15, MissingUntouched, MissingNothing DEF RunFails, InPush, InDeletes, Calls,
     Requesters, Appliers, Inner, Fields, HasFields, DataFields, RunFields, Returns,
     dataVars, EndRun, Spend, serverVars, IdleRun
<1>16. CASE Crash
  BY <1>16, MissingUntouched, MissingNothing DEF Crash, InPush, InDeletes, Calls,
     Requesters, Appliers, Inner, Fields, HasFields, DataFields, RunFields, Returns,
     dataVars, IdleRun, Spend, serverVars, fileVars, historyVars
<1>17. CASE Restart
  BY <1>17, MissingUntouched, MissingNothing DEF Restart, InPush, InDeletes, Calls,
     Requesters, Appliers, Inner, Fields, HasFields, DataFields, RunFields, Returns,
     dataVars, NoRequest, fileVars, historyVars, serverVars
<1>18. CASE UNCHANGED vars
  BY <1>18, MissingUntouched, MissingNothing DEF InPush, InDeletes, Calls,
     Requesters, Appliers, Inner, Fields, HasFields, DataFields, RunFields, Returns,
     dataVars, vars, serverVars, fileVars, historyVars
<1> QED BY <1>1, <1>2, <1>3, <1>4, <1>5, <1>6, <1>7, <1>8, <1>9, <1>10, <1>11, <1>12,
         <1>13, <1>14, <1>15, <1>16, <1>17, <1>18 DEF Next, Engine, User
-----------------------------------------------------------------------------
(* The invariant of what the user has seen, and the deletions.             *)

\* At the start nothing is recorded, asked for or in hand.
LEMMA InitSeen == Init => SeenInv
<1> SUFFICES ASSUME Init PROVE SeenInv
  OBVIOUS
<1>1. PICK mode \in InitialModes : mem = EmptyData(mode) /\ saved = mem
  BY DEF Init
<1>2. /\ mem.inbox = NoDownload /\ mem.outbox = NoOperation /\ saved = mem
      /\ \A p \in Paths : mem.files[p] = Untracked
  BY <1>1 DEF EmptyData
<1>3. /\ pc = "idle" /\ run.ret = "idle" /\ run.change = NoDownload
      /\ temp = Absent /\ backup = Absent
  BY DEF Init, IdleRun
<1>4. \A p \in Paths : ~Current(mem, p)
  BY <1>2, EngineAssumption DEF Current, IsRow, Untracked, Content
<1>5. FilesKnown
  BY <1>2, <1>4 DEF FilesKnown
<1>6. OutboxKnown(mem) /\ OutboxKnown(saved) /\ OutboxOver
  BY <1>2 DEF OutboxKnown, OutboxOver
<1>7. InHandBoxed /\ InHandNew /\ RefusedNew /\ InHandKnown
  BY <1>2, <1>3 DEF InHandBoxed, InHandNew, RefusedNew, InHandKnown, Installing
<1>8. LocalOnly /\ MissingKnown
  BY <1>3 DEF LocalOnly, MissingKnown
<1> QED BY <1>5, <1>6, <1>7, <1>8 DEF SeenInv

\* Every step keeps the invariant.  Where the engine takes a file away, it is not the
\* current row; everywhere else what the user knows stays known.
LEMMA SeenInvStep == RecordInv /\ SeenInv /\ [Next]_vars => SeenInv'
<1> SUFFICES ASSUME RecordInv, SeenInv, [Next]_vars PROVE SeenInv'
  OBVIOUS
<1>1. /\ TypeInv /\ Base /\ Fields /\ Calls /\ Ready /\ Artifacts /\ TypeOK
      /\ Boxes /\ Based /\ RowsSound /\ RecordsSound
  BY HasBase DEF RecordInv, Base
<1>2. /\ FilesKnown /\ OutboxKnown(mem) /\ OutboxKnown(saved) /\ OutboxOver
      /\ InHandBoxed /\ InHandNew /\ RefusedNew /\ InHandKnown /\ LocalOnly /\ MissingKnown
  BY DEF SeenInv
<1>3. Onward
  BY <1>1, OnwardStep
<1>4. NewStays /\ MissedStays
  BY <1>1, <1>3, NewStaysStep, MissedStaysStep
<1>5. Takes \/ KnownStays
  <2>1. disk \in [Paths -> Content]
    BY <1>1 DEF TypeOK
  <2>2. LeftStays /\ (Takes \/ DiskGivenUp)
    BY <1>1, <2>1, LeftStaysStep, DiskGivenUpStep
  <2> QED BY <2>2, KnownKept
<1>6. FilesKnown'
  BY <1>1, <1>2, <1>3, <1>5, FilesTakes, FilesKnownStep
<1>7. OutboxKnown(mem)' /\ OutboxKnown(saved)'
  <2>1. CASE Takes
    BY <1>1, <1>2, <2>1, OutboxTakes, OutboxesEmpty
  <2>2. CASE ~Takes
    BY <1>1, <1>2, <1>3, <1>5, <2>2, OutboxKnownStep
  <2> QED BY <2>1, <2>2
<1>8. OutboxOver' /\ InHandBoxed' /\ InHandNew'
  BY <1>1, <1>2, <1>3, <1>4, OutboxOverStep, InHandBoxedStep, InHandNewStep
<1>9. RefusedNew' /\ LocalOnly' /\ MissingKnown'
  BY <1>1, <1>2, <1>4, RefusedNewStep, LocalOnlyStep, MissingKnownStep
<1>10. InHandKnown'
  <2>1. pc = "record" => KnownStays
    BY <1>5 DEF Takes, RemoveLocal, SetAside, SwapIn, VerifyInstalled, DiscardLocal
  <2> QED BY <1>1, <1>2, <2>1, InHandKnownStep
<1> QED BY <1>6, <1>7, <1>8, <1>9, <1>10 DEF SeenInv

\* What this device deletes in a step, its user has given up.
DeletesGivenUp ==
    \A r \in (DOMAIN log') \ DOMAIN log :
        log'[r].mine /\ log'[r].content = Absent =>
          head[log'[r].path].content \in work[log'[r].path].left

LEMMA DeletesGivenUpStep == RecordInv /\ SeenInv /\ [Next]_vars => DeletesGivenUp
<1> SUFFICES ASSUME RecordInv, SeenInv, [Next]_vars PROVE DeletesGivenUp
  OBVIOUS
<1>1. TypeInv /\ Base /\ Boxes /\ OutboxKnown(mem) /\ log \in Seq(Entry) /\ head \in [Paths -> Row]
  BY HasBase DEF RecordInv, SeenInv, Base, TypeOK
<1>2. CASE log' = log
  BY <1>2 DEF DeletesGivenUp
<1>3. ASSUME NEW new \in Seq(Entry), AppendEntries(new),
             \A i \in DOMAIN new : new[i].mine /\ new[i].content = Absent =>
               head[new[i].path].content \in work[new[i].path].left
      PROVE  DeletesGivenUp
  <2> SUFFICES ASSUME NEW r \in (DOMAIN log') \ DOMAIN log, log'[r].mine, log'[r].content = Absent
               PROVE  head[log'[r].path].content \in work[log'[r].path].left
    BY DEF DeletesGivenUp
  <2>1. /\ Len(log) \in Nat /\ Len(new) \in Nat /\ Len(log') = Len(log) + Len(new)
        /\ log' \in Seq(Entry) /\ \A i \in 1..Len(new) : log'[Len(log) + i] = new[i]
    BY <1>1, <1>3, Appended
  <2>2. DOMAIN log' = 1..Len(log') /\ DOMAIN log = 1..Len(log) /\ DOMAIN new = 1..Len(new)
    BY <1>1, <2>1
  <2>3. r - Len(log) \in DOMAIN new /\ r = Len(log) + (r - Len(log))
    BY <2>1, <2>2
  <2>4. PICK i \in DOMAIN new : log'[r] = new[i]
    BY <2>1, <2>2, <2>3
  <2> QED BY <1>3, <2>4
<1>4. CASE Send
  <2>1. PICK q : q = mem.outbox.request
    OBVIOUS
  <2>2. q \in Request /\ RequestKnown(q)
    <3>1. mem.outbox # NoOperation /\ answers[mem.outbox.id] = NoReply
      BY <1>1, <1>4 DEF Send, Boxes
    <3> QED BY <1>1, <1>4, <2>1, <3>1, SendRequest DEF OutboxKnown, Base
  <2>3. log' = log \/ \E new \in Effects(q) : Accepts(q) /\ Extends(new)
    BY <1>1, <1>4, <2>1, SendAppends
  <2>4. ASSUME NEW new \in Effects(q), Accepts(q), Extends(new) PROVE DeletesGivenUp
    BY <1>1, <1>3, <2>2, <2>4, EffectsKnown DEF Extends
  <2> QED BY <1>2, <2>3, <2>4
<1>5. CASE ServerMoves
  <2>1. CASE \E p \in Paths : Collect(p)
    BY <1>2, <2>1 DEF Collect
  <2>2. CASE \E p \in Paths, c \in OtherContents \cup {Absent} : OtherCommit(p, c)
    <3>1. PICK p \in Paths, c \in OtherContents \cup {Absent} : OtherCommit(p, c)
      BY <2>2
    <3>2. PICK e : e = [path |-> p, content |-> c, mine |-> FALSE]
      OBVIOUS
    <3>3. <<e>> \in Seq(Entry) /\ AppendEntries(<<e>>) /\ DOMAIN <<e>> = {1} /\ ~e.mine
      BY <3>1, <3>2, OtherEntry DEF OtherCommit
    <3>4. \A i \in DOMAIN <<e>> : ~(<<e>>[i]).mine
      BY <3>3
    <3> QED BY <1>3, <3>3, <3>4
  <2> QED BY <1>5, <2>1, <2>2 DEF ServerMoves
<1>6. CASE AckCursor
  BY <1>2, <1>6 DEF AckCursor, Acknowledge
<1> QED BY <1>2, <1>4, <1>5, <1>6, LogQuiet

\* The device deletes on the server only a content that its user has deleted, moved
\* away or written over: never what a download, a failed run, a crash or a partial
\* scan made disappear, nor a version that the user has not seen (sync-engine.ts,
\* scanAndPush, deleteMissingFiles and the recovery of the outbox).
THEOREM OnlyUsersDelete == Spec => DeletionsAreTheUsers
<1>1. Init => RecordInv /\ SeenInv
  BY InitRecords, InitSeen
<1>2. RecordInv /\ SeenInv /\ [Next]_vars => RecordInv' /\ SeenInv'
  BY RecordInvStep, SeenInvStep
<1>3. RecordInv /\ SeenInv /\ [Next]_vars =>
        [\A r \in (DOMAIN log') \ DOMAIN log :
           log'[r].mine /\ log'[r].content = Absent =>
             head[log'[r].path].content \in work[log'[r].path].left]_vars
  BY DeletesGivenUpStep DEF DeletesGivenUp
<1> QED BY <1>1, <1>2, <1>3, PTL DEF Spec, DeletionsAreTheUsers

=============================================================================
