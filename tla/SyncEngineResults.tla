-------------------------- MODULE SyncEngineResults --------------------------
(***************************************************************************)
(* What the engine and its server promise each other, for all values of    *)
(* the constants: the server of the exchange implements the versioned map; *)
(* every version that the cursor covers is recorded, held by a conflict or *)
(* in the outbox; a conflict has a rival, a version of another device that *)
(* the user had not seen; and an event that is newer than the scan that a  *)
(* run acknowledges stays queued.  The invariant is RecordInv; SyncEngine- *)
(* Proofs has the shape and the types of the data, the place in the log    *)
(* and the files of a download.                                            *)
(***************************************************************************)
EXTENDS SyncEngineProofs

-----------------------------------------------------------------------------
(* What the log and the rows keep.                                         *)

\* A step of this device leaves the log and the rows alone, but for a request
\* that the server executes and the acknowledgement of the cursor.
LEMMA LogQuiet ==
    [Next]_vars => Send \/ ServerMoves \/ AckCursor \/ UNCHANGED <<log, head, ack>>
<1> SUFFICES ASSUME [Next]_vars, ~Send, ~ServerMoves, ~AckCursor
             PROVE  UNCHANGED <<log, head, ack>>
  OBVIOUS
<1>1. CASE ResumeInbox
  BY <1>1 DEF ResumeInbox, InboxInstalled, NoRequest, serverVars, InboxReady,
     InboxLost, InboxDone
<1>2. CASE ResumeOutbox
  BY <1>2 DEF ResumeOutbox, OutboxCommitted, serverVars, NoRequest, OutboxResent,
     OutboxAbandoned, OutboxDone
<1>3. CASE Reconcile
  BY <1>3 DEF Reconcile, ReadSnapshot, NoRequest, serverVars, PreserveLocal,
     DiscardLocal, PreserveDone, MergeSnapshot, MergeDone
<1>4. CASE Renames
  BY <1>4 DEF Renames, RenameSkipped, NoRequest, serverVars, RenameStaged, Stage,
     RenamesDone
<1>5. CASE Push
  BY <1>5 DEF Push, PlanFull, Plan, NoRequest, serverVars, PlanQueued, PushDone,
     Stage, DeletesDone, ScanPath, PushPath, DeletePath
<1>6. CASE Answered
  BY <1>6 DEF Answered, AnswerApplied, serverVars, NoRequest, AnswerConflict,
     KeepRefused, AnswerMoved, AnswerMoveConflict, AnswerBatch, AnswerBatchConflict
<1>7. CASE Apply
  BY <1>7 DEF Apply, ApplyRemoteChange, NoRequest, serverVars, RemoveLocal,
     Download, SetAside, SwapIn, VerifyInstalled, FinishDownload, Save
<1>8. CASE Pull
  BY <1>8 DEF Pull, PullPage, NoRequest, serverVars, PageChange, PageDone, Finish,
     CompleteRun
<1>9. CASE StartRun
  BY <1>9 DEF StartRun, NoRequest, serverVars
<1>10. CASE SaveEvents
  BY <1>10 DEF SaveEvents, NoRequest, serverVars
<1>11. CASE RunFails
  BY <1>11 DEF RunFails, serverVars
<1>12. CASE Crash
  BY <1>12 DEF Crash, serverVars
<1>13. CASE Restart
  BY <1>13 DEF Restart, NoRequest, serverVars
<1>14. CASE User
  BY <1>14 DEF User, UserEdit, UserRename, NoRequest, serverVars
<1>15. CASE UNCHANGED vars
  BY <1>15 DEF vars, serverVars
<1> QED BY <1>1, <1>2, <1>3, <1>4, <1>5, <1>6, <1>7, <1>8, <1>9, <1>10, <1>11,
   <1>12, <1>13, <1>14, <1>15 DEF Next, Engine

\* What an executed request or another device appends.
Extends(new) ==
    /\ new \in Seq(Entry) /\ Distinct(new)
    /\ AppendEntries(new)
    /\ UNCHANGED ack

\* What a step does to the server.
ServerStepsTo ==
    \/ \E new : Extends(new)
    \/ \E p \in Paths : Collect(p)
    \/ UNCHANGED <<log, head>> /\ ack' \in Nat /\ ack <= ack' /\ ack' <= Len(log)

\* Send appends the effects of a request, or nothing.
LEMMA SendAppends ==
    ASSUME TypeInv, Send
    PROVE  LET q == mem.outbox.request
           IN  \/ /\ ~Accepts(q) /\ reply' = ConflictWith(q)
                  /\ UNCHANGED <<log, head, answers, ack>>
               \/ \E new \in Effects(q) :
                    /\ Accepts(q) /\ Extends(new)
                    /\ new = <<>> => q.kind = "apply" /\ q.path \in Paths
                    /\ \A i \in DOMAIN new : new[i].mine /\ new[i].path \in Touched(q)
                    /\ reply' = Accepted(q, new)
                    /\ answers' = [answers EXCEPT ![mem.outbox.id] = reply']
<1> DEFINE q == mem.outbox.request
           id == mem.outbox.id
<1>1. TypeOK /\ Shape /\ Ready
  BY ShapeFields, TypesSuffice DEF TypeInv, EngineInv
<1>2. q \in Request /\ SoundRequest(q) /\ (q.kind = "batch" => q.items # {}) /\ id \in OpIds
  BY <1>1, SendRequest
<1>3. head \in [Paths -> Row]
  BY <1>1 DEF TypeOK
<1>4. ack' = ack /\ Serve(id, q, reply')
  BY DEF Send, Serve
<1> HIDE DEF q, id
<1>5. CASE Accepts(q)
  <2>1. PICK new \in Effects(q) : /\ AppendEntries(new)
                                  /\ reply' = Accepted(q, new)
                                  /\ answers' = [answers EXCEPT ![id] = reply']
    BY <1>4, <1>5, Zenon DEF Serve
  <2>2. /\ new \in Seq(Entry) /\ Distinct(new)
        /\ \A i \in DOMAIN new : new[i].mine /\ new[i].path \in Touched(q)
        /\ new = <<>> => q.kind = "apply" /\ q.path \in Paths
    BY <1>2, <1>3, <1>5, EffectsTypes
  <2>3. Extends(new)
    BY <1>4, <2>1, <2>2 DEF Extends
  <2> QED BY <1>5, <2>1, <2>2, <2>3, Zenon DEF q, id
<1>6. CASE ~Accepts(q)
  BY <1>4, <1>6, Zenon DEF Serve, q, id
<1> QED BY <1>5, <1>6

\* Every step does one of these to the server.
LEMMA ServerStepsKinds == TypeInv /\ [Next]_vars => ServerStepsTo
<1> SUFFICES ASSUME TypeInv, [Next]_vars PROVE ServerStepsTo
  OBVIOUS
<1>1. TypeOK /\ Position /\ Len(log) \in Nat
  BY ShapeFields, TypesSuffice DEF TypeInv, EngineInv, TypeOK
<1>2. CASE Send
  <2>1. UNCHANGED <<log, head, ack>> \/ \E new : Extends(new)
    BY <1>2, SendAppends, Zenon
  <2> QED BY <1>1, <2>1 DEF ServerStepsTo, Position
<1>3. CASE ServerMoves
  <2>1. CASE \E p \in Paths, c \in OtherContents \cup {Absent} : OtherCommit(p, c)
    <3>1. PICK p \in Paths, c \in OtherContents \cup {Absent} : OtherCommit(p, c)
      BY <2>1
    <3>2. Extends(<<[path |-> p, content |-> c, mine |-> FALSE]>>)
      BY <3>1, OtherEntry DEF OtherCommit, Extends
    <3> QED BY <3>2 DEF ServerStepsTo
  <2> QED BY <1>3, <2>1 DEF ServerMoves, ServerStepsTo
<1>4. CASE AckCursor
  BY <1>1, <1>4 DEF AckCursor, Acknowledge, Position, ServerStepsTo
<1>5. CASE UNCHANGED <<log, head, ack>>
  BY <1>1, <1>5 DEF ServerStepsTo, Position
<1> QED BY <1>2, <1>3, <1>4, <1>5, LogQuiet

-----------------------------------------------------------------------------
(* The versions of the log.                                                *)

\* A record of a path is a version of it in the log, or that of no row.
Genuine(p, s) ==
    \/ s = NoRow
    \/ s.rev \in DOMAIN log /\ log[s.rev].path = p /\ log[s.rev].content = s.content

\* A record covers a revision of its path: it is not older, or the revision was
\* followed by a tombstone that the server has forgotten.
Covers(s, r) ==
    \/ r <= s.rev
    \/ s = NoRow /\ r <= ack /\ head[log[r].path].rev # r

\* A change that a conflict may be about: one of another device, or a forgotten
\* tombstone.
Rival(v) ==
    \/ v.rev \in DOMAIN log /\ ~log[v.rev].mine
    \/ v.rev = 0 /\ \E r \in 1..ack : log[r].path = v.path /\ log[r].content = Absent

\* The rows are the last versions of their paths; that of no row is left by a
\* path that never had one, or by a tombstone that was acknowledged.
RowsSound ==
    \A p \in Paths :
        /\ Genuine(p, head[p])
        /\ \A r \in DOMAIN log : log[r].path = p =>
             /\ Covers(head[p], r)
             /\ head[p] = NoRow => \E c \in 1..ack : log[c].path = p /\ log[c].content = Absent

\* What holds of the log stays so.
Grown ==
    /\ \A p, s : Genuine(p, s) => Genuine(p, s)'
    /\ \A s : \A r \in DOMAIN log : Covers(s, r) => Covers(s, r)'
    /\ \A v : Rival(v) => Rival(v)'
    /\ \A r \in DOMAIN log : r \in DOMAIN log' /\ log'[r] = log[r]
    /\ Len(log) \in Nat /\ Len(log') \in Nat /\ Len(log) <= Len(log')
    /\ DOMAIN log = 1..Len(log) /\ DOMAIN log' = 1..Len(log')

\* So far as the rows only move on.
LEMMA GrownBy ==
    ASSUME log \in Seq(Entry), log' \in Seq(Entry), Len(log) <= Len(log'),
           \A r \in 1..Len(log) : log'[r] = log[r],
           \A p \in Paths : head'[p].rev \in {head[p].rev, 0} \/ head'[p].rev > Len(log),
           ack \in Nat, ack' \in Nat, ack <= ack', ack <= Len(log)
    PROVE  Grown
<1>1. /\ Len(log) \in Nat /\ Len(log') \in Nat
      /\ DOMAIN log = 1..Len(log) /\ DOMAIN log' = 1..Len(log')
  OBVIOUS
<1>2. ASSUME NEW r \in DOMAIN log PROVE r \in DOMAIN log' /\ log'[r] = log[r]
  BY <1>1
<1>3. ASSUME NEW p, NEW s, Genuine(p, s) PROVE Genuine(p, s)'
  BY <1>2, <1>3 DEF Genuine, NoRow
<1>4. ASSUME NEW s, NEW r \in DOMAIN log, Covers(s, r) PROVE Covers(s, r)'
  <2>1. CASE r <= s.rev
    BY <2>1 DEF Covers
  <2>2. CASE s = NoRow /\ r <= ack /\ head[log[r].path].rev # r
    <3>1. r \in 1..Len(log) /\ log[r] \in Entry /\ log'[r] = log[r]
      BY <1>1
    <3>2. log[r].path \in Paths
      BY <3>1 DEF Entry
    <3>3. head'[log[r].path].rev # r
      BY <1>1, <2>2, <3>1, <3>2
    <3>4. s = NoRow' /\ r <= ack'
      BY <1>1, <2>2, <3>1 DEF NoRow
    <3> QED BY <3>1, <3>3, <3>4 DEF Covers
  <2> QED BY <1>4, <2>1, <2>2 DEF Covers
<1>5. ASSUME NEW v, Rival(v) PROVE Rival(v)'
  <2>1. CASE v.rev \in DOMAIN log /\ ~log[v.rev].mine
    BY <1>2, <2>1 DEF Rival
  <2>2. CASE v.rev = 0 /\ \E r \in 1..ack : log[r].path = v.path /\ log[r].content = Absent
    <3>1. PICK r \in 1..ack : log[r].path = v.path /\ log[r].content = Absent
      BY <2>2
    <3>2. r \in 1..ack' /\ r \in DOMAIN log
      BY <1>1
    <3> QED BY <1>2, <2>2, <3>1, <3>2 DEF Rival
  <2> QED BY <1>5, <2>1, <2>2 DEF Rival
<1> QED BY <1>1, <1>2, <1>3, <1>4, <1>5 DEF Grown

-----------------------------------------------------------------------------
(* The rows, and the map that they are.                                    *)

\* What the invariant of the types has, in a state and in the next one.
Base ==
    TypeOK /\ Shape /\ Fields /\ RunTypes /\ Position /\ Replies /\ Artifacts /\ Calls /\ Ready

LEMMA HasBase == TypeInv => Base
BY ShapeFields, TypesSuffice DEF TypeInv, EngineInv, Base, Types

LEMMA NextBase == TypeInv /\ [Next]_vars => Base /\ Base'
<1>1. TypeInv /\ [Next]_vars => TypeInv'
  BY TypeInvStep
<1> QED BY <1>1, HasBase, PTL

\* Every step keeps what holds of the log.
LEMMA GrownStep == TypeInv /\ [Next]_vars => Grown
<1> SUFFICES ASSUME TypeInv, [Next]_vars PROVE Grown
  OBVIOUS
<1>1. Base /\ Base'
  BY NextBase
<1>2. /\ log \in Seq(Entry) /\ log' \in Seq(Entry) /\ head \in [Paths -> Row]
      /\ ack \in Nat /\ ack' \in Nat /\ ack <= Len(log) /\ Len(log) \in Nat
  BY <1>1 DEF Base, TypeOK, Position
<1>3. ServerStepsTo
  BY ServerStepsKinds
<1>4. ASSUME NEW new, Extends(new) PROVE Grown
  <2>1. new \in Seq(Entry) /\ AppendEntries(new) /\ ack' = ack
    BY <1>4 DEF Extends
  <2>2. /\ Len(new) \in Nat /\ Len(log') = Len(log) + Len(new)
        /\ \A r \in 1..Len(log) : log'[r] = log[r]
        /\ RowsOf(head, new, Len(log), head')
    BY <1>2, <2>1, Appended
  <2>3. ASSUME NEW p \in Paths
        PROVE  head'[p].rev \in {head[p].rev, 0} \/ head'[p].rev > Len(log)
    <3>1. CASE head'[p] = head[p]
      BY <3>1
    <3>2. CASE \E i \in 1..Len(new) : head'[p] = [rev |-> Len(log) + i, content |-> new[i].content]
      BY <1>2, <2>2, <3>2
    <3> QED BY <2>2, <3>1, <3>2 DEF RowsOf
  <2>4. Len(log) <= Len(log') /\ ack <= ack'
    BY <1>2, <2>1, <2>2
  <2>5. \A r \in 1..Len(log) : log'[r] = log[r]
    BY <2>2
  <2> QED BY <1>2, <2>3, <2>4, <2>5, GrownBy
<1>5. ASSUME NEW p \in Paths, Collect(p) PROVE Grown
  <2>1. head' = [head EXCEPT ![p] = NoRow] /\ log' = log /\ ack' = ack
    BY <1>5 DEF Collect
  <2>2. \A q \in Paths : head'[q].rev \in {head[q].rev, 0}
    BY <1>2, <2>1 DEF NoRow
  <2> QED BY <1>2, <2>1, <2>2, GrownBy
<1>6. CASE UNCHANGED <<log, head>> /\ ack' \in Nat /\ ack <= ack' /\ ack' <= Len(log)
  BY <1>2, <1>6, GrownBy
<1> QED BY <1>3, <1>4, <1>5, <1>6 DEF ServerStepsTo

\* The rows stay the last versions of their paths.
LEMMA RowsExtended ==
    ASSUME log \in Seq(Entry), head \in [Paths -> Row], ack \in Nat, ack <= Len(log),
           Grown, RowsSound, NEW new, Extends(new)
    PROVE  RowsSound'
<1>1. new \in Seq(Entry) /\ AppendEntries(new) /\ ack' = ack /\ Distinct(new)
  BY DEF Extends
<1>2. /\ Len(log) \in Nat /\ Len(new) \in Nat /\ Len(log') = Len(log) + Len(new)
      /\ \A r \in 1..Len(log) : log'[r] = log[r]
      /\ \A i \in 1..Len(new) : log'[Len(log) + i] = new[i]
      /\ RowsOf(head, new, Len(log), head')
  BY <1>1, Appended
<1>3. DOMAIN log' = 1..Len(log') /\ DOMAIN log = 1..Len(log) /\ DOMAIN new = 1..Len(new)
  BY <1>1 DEF Grown
<1>4. ASSUME NEW r \in DOMAIN log', r \notin DOMAIN log
      PROVE  \E i \in 1..Len(new) : r = Len(log) + i /\ log'[r] = new[i]
  <2>1. r - Len(log) \in 1..Len(new) /\ r = Len(log) + (r - Len(log))
    BY <1>2, <1>3, <1>4
  <2> QED BY <1>2, <2>1
<1>5. ASSUME NEW p \in Paths
      PROVE  /\ Genuine(p, head[p])'
             /\ \A r \in DOMAIN log' : log'[r].path = p =>
                  /\ Covers(head[p], r)'
                  /\ head'[p] = NoRow => \E c \in 1..ack' : log'[c].path = p /\ log'[c].content = Absent
  <2>1. CASE \E i \in 1..Len(new) : /\ new[i].path = p
                                    /\ head'[p] = [rev |-> Len(log) + i, content |-> new[i].content]
    <3>1. PICK i \in 1..Len(new) :
            new[i].path = p /\ head'[p] = [rev |-> Len(log) + i, content |-> new[i].content]
      BY <2>1
    <3>2. head'[p].rev = Len(log) + i /\ head'[p].rev \in DOMAIN log' /\ head'[p] # NoRow
      BY <1>2, <1>3, <3>1 DEF NoRow
    <3>3. Genuine(p, head[p])'
      BY <1>2, <3>1, <3>2 DEF Genuine
    <3>4. ASSUME NEW r \in DOMAIN log', log'[r].path = p PROVE r <= head'[p].rev
      <4>1. CASE r \in DOMAIN log
        BY <1>2, <1>3, <3>2, <4>1
      <4>2. CASE r \notin DOMAIN log
        <5>1. PICK j \in 1..Len(new) : r = Len(log) + j /\ log'[r] = new[j]
          BY <1>4, <4>2
        <5>2. j = i
          BY <1>1, <1>3, <3>1, <3>4, <5>1 DEF Distinct
        <5> QED BY <1>2, <3>2, <5>1, <5>2
      <4> QED BY <4>1, <4>2
    <3> QED BY <3>2, <3>3, <3>4 DEF Covers
  <2>2. CASE (\A i \in 1..Len(new) : new[i].path # p) /\ head'[p] = head[p]
    <3>1. Genuine(p, head[p])'
      <4>1. Genuine(p, head[p])
        BY DEF RowsSound
      <4> QED BY <1>3, <2>2, <4>1 DEF Genuine, Grown
    <3>2. ASSUME NEW r \in DOMAIN log', log'[r].path = p
          PROVE  r \in DOMAIN log /\ log[r].path = p
      BY <1>2, <1>3, <1>4, <2>2, <3>2
    <3>3. ASSUME NEW r \in DOMAIN log, log[r].path = p
          PROVE  /\ Covers(head[p], r)'
                 /\ head[p] = NoRow => \E c \in 1..ack' : log'[c].path = p /\ log'[c].content = Absent
      <4>1. /\ Covers(head[p], r)
            /\ head[p] = NoRow => \E c \in 1..ack : log[c].path = p /\ log[c].content = Absent
        BY <3>3 DEF RowsSound
      <4>2. Covers(head[p], r)'
        BY <1>1, <1>2, <1>3, <2>2, <3>3, <4>1 DEF Covers, NoRow
      <4>3. ASSUME NEW c \in 1..ack, log[c].path = p /\ log[c].content = Absent
            PROVE  log'[c] = log[c]
        BY <1>2, <1>3
      <4> QED BY <1>1, <4>1, <4>2, <4>3
    <3> QED BY <2>2, <3>1, <3>2, <3>3
  <2> QED BY <1>2, <2>1, <2>2 DEF RowsOf
<1> QED BY <1>5 DEF RowsSound

\* Collection forgets tombstones that are acknowledged.
LEMMA RowsCollected ==
    ASSUME log \in Seq(Entry), head \in [Paths -> Row], ack \in Nat, ack <= Len(log),
           Grown, RowsSound, NEW p \in Paths, Collect(p)
    PROVE  RowsSound'
<1>1. /\ head' = [head EXCEPT ![p] = NoRow] /\ log' = log /\ ack' = ack
      /\ head[p].content = Absent /\ head[p].rev # 0 /\ head[p].rev <= ack
      /\ head[p].rev \in Nat
  BY DEF Collect, Collectable, Row
<1>2. ASSUME NEW q \in Paths, q # p
      PROVE  /\ Genuine(q, head[q])'
             /\ \A r \in DOMAIN log' : log'[r].path = q =>
                  /\ Covers(head[q], r)'
                  /\ head'[q] = NoRow => \E c \in 1..ack' : log'[c].path = q /\ log'[c].content = Absent
  BY <1>1, <1>2 DEF RowsSound, Genuine, Covers, NoRow
<1>3. head'[p] = NoRow
  BY <1>1
<1>4. Genuine(p, head[p])'
  BY <1>3 DEF Genuine, NoRow
<1>5. head[p].rev \in 1..ack /\ log[head[p].rev].path = p /\ log[head[p].rev].content = Absent
  BY <1>1 DEF RowsSound, Genuine, NoRow
<1>6. ASSUME NEW r \in DOMAIN log, log[r].path = p PROVE Covers(head[p], r)'
  <2>1. Covers(head[p], r)
    BY <1>6 DEF RowsSound
  <2>2. r <= head[p].rev /\ r \in 1..Len(log)
    BY <1>1, <2>1 DEF Covers, NoRow
  <2>3. head'[log'[r].path].rev # r /\ r <= ack'
    BY <1>1, <1>3, <1>6, <2>2 DEF NoRow
  <2> QED BY <1>3, <2>3 DEF Covers, NoRow
<1> QED BY <1>1, <1>2, <1>3, <1>4, <1>5, <1>6 DEF RowsSound

\* Every step keeps them so.
LEMMA RowsStep == TypeInv /\ RowsSound /\ [Next]_vars => RowsSound'
<1> SUFFICES ASSUME TypeInv, RowsSound, [Next]_vars PROVE RowsSound'
  OBVIOUS
<1>1. Base /\ Base' /\ Grown /\ ServerStepsTo
  BY NextBase, GrownStep, ServerStepsKinds
<1>2. /\ log \in Seq(Entry) /\ head \in [Paths -> Row]
      /\ ack \in Nat /\ ack' \in Nat /\ ack <= Len(log) /\ Len(log) \in Nat
  BY <1>1 DEF Base, TypeOK, Position
<1>3. ASSUME UNCHANGED <<log, head>>, ack <= ack' PROVE RowsSound'
  <2>1. ASSUME NEW p \in Paths PROVE Genuine(p, head[p])'
    BY <1>3 DEF RowsSound, Genuine, NoRow
  <2>2. ASSUME NEW p \in Paths, NEW r \in DOMAIN log, log[r].path = p
        PROVE  /\ Covers(head[p], r)'
               /\ head[p] = NoRow => \E c \in 1..ack' : log[c].path = p /\ log[c].content = Absent
    <3>1. /\ Covers(head[p], r)
          /\ head[p] = NoRow => \E c \in 1..ack : log[c].path = p /\ log[c].content = Absent
      BY <2>2 DEF RowsSound
    <3>2. Covers(head[p], r)'
      BY <1>1, <1>3, <2>2, <3>1 DEF Grown, Covers, NoRow
    <3>3. 1..ack \subseteq 1..ack'
      BY <1>2, <1>3
    <3> QED BY <3>1, <3>2, <3>3
  <2> QED BY <1>3, <2>1, <2>2 DEF RowsSound
<1> QED BY <1>1, <1>2, <1>3, RowsExtended, RowsCollected DEF ServerStepsTo

\* So they are at the start.
LEMMA InitRows == Init => RowsSound
<1> SUFFICES ASSUME Init PROVE RowsSound
  OBVIOUS
<1>1. /\ log \in Seq(Entry) /\ Distinct(log)
      /\ \A p \in Paths :
           \/ \E r \in 1..Len(log) :
                log[r].path = p /\ head[p] = [rev |-> r, content |-> log[r].content]
           \/ (\A r \in 1..Len(log) : log[r].path # p) /\ head[p] = NoRow
  BY InitServer DEF Init
<1>2. DOMAIN log = 1..Len(log) /\ Len(log) \in Nat
  BY <1>1
<1>3. ASSUME NEW p \in Paths
      PROVE  /\ Genuine(p, head[p])
             /\ \A r \in DOMAIN log : log[r].path = p => r = head[p].rev /\ head[p] # NoRow
  <2>1. CASE \E r \in 1..Len(log) :
                log[r].path = p /\ head[p] = [rev |-> r, content |-> log[r].content]
    <3>1. PICK r \in 1..Len(log) :
            log[r].path = p /\ head[p] = [rev |-> r, content |-> log[r].content]
      BY <2>1
    <3>2. head[p].rev = r /\ head[p] # NoRow /\ Genuine(p, head[p])
      BY <1>2, <3>1 DEF NoRow, Genuine
    <3>3. \A s \in DOMAIN log : log[s].path = p => s = r
      BY <1>1, <1>2, <3>1 DEF Distinct
    <3> QED BY <3>2, <3>3
  <2>2. CASE (\A r \in 1..Len(log) : log[r].path # p) /\ head[p] = NoRow
    BY <1>2, <2>2 DEF Genuine
  <2> QED BY <1>1, <2>1, <2>2
<1>4. ASSUME NEW p \in Paths, NEW r \in DOMAIN log, log[r].path = p
      PROVE  Covers(head[p], r) /\ head[p] # NoRow
  BY <1>2, <1>3, <1>4 DEF Covers
<1> QED BY <1>3, <1>4 DEF RowsSound

\* A step of the server is one of the abstract map.
LEMMA MapStep == TypeInv /\ [Next]_vars => [Map!Next]_<<head, Len(log)>>
<1> SUFFICES ASSUME TypeInv, [Next]_vars PROVE [Map!Next]_<<head, Len(log)>>
  OBVIOUS
<1>1. Base /\ Base' /\ ServerStepsTo
  BY NextBase, ServerStepsKinds
<1>2. /\ log \in Seq(Entry) /\ head \in [Paths -> Row] /\ head' \in [Paths -> Row]
      /\ Len(log) \in Nat
  BY <1>1 DEF Base, TypeOK, Position
<1>3. ASSUME NEW new, Extends(new) PROVE [Map!Next]_<<head, Len(log)>>
  <2>1. new \in Seq(Entry) /\ AppendEntries(new) /\ Distinct(new)
    BY <1>3 DEF Extends
  <2>2. /\ Len(new) \in Nat /\ Len(log') = Len(log) + Len(new)
        /\ RowsOf(head, new, Len(log), head') /\ DOMAIN new = 1..Len(new)
    BY <1>2, <2>1, Appended
  <2> DEFINE written == {p \in Paths : \E i \in 1..Len(new) : new[i].path = p}
  <2>3. ASSUME NEW p \in Paths \ written PROVE head'[p] = head[p]
    BY <2>2, <2>3 DEF RowsOf
  <2>4. ASSUME NEW p \in written
        PROVE  \E i \in 1..Len(new) : new[i].path = p /\ head'[p].rev = Len(log) + i
    <3>1. p \in Paths /\ ~(\A i \in 1..Len(new) : new[i].path # p)
      OBVIOUS
    <3>2. PICK i \in 1..Len(new) :
            new[i].path = p /\ head'[p] = [rev |-> Len(log) + i, content |-> new[i].content]
      BY <2>2, <3>1 DEF RowsOf
    <3> QED BY <3>2
  <2>5. ASSUME NEW p \in written
        PROVE  Len(log) < head'[p].rev /\ head'[p].rev <= Len(log')
    BY <1>2, <2>2, <2>4
  <2>6. ASSUME NEW p \in written, NEW q \in written, head'[p].rev = head'[q].rev PROVE p = q
    <3>1. PICK i \in 1..Len(new) : new[i].path = p /\ head'[p].rev = Len(log) + i
      BY <2>4
    <3>2. PICK j \in 1..Len(new) : new[j].path = q /\ head'[q].rev = Len(log) + j
      BY <2>4
    <3>3. Len(log) + i = Len(log) + j
      BY <2>6, <3>1, <3>2
    <3>4. i \in Int /\ j \in Int
      OBVIOUS
    <3>5. i = j
      BY <1>2, <3>3, <3>4
    <3> QED BY <3>1, <3>2, <3>5
  <2>7. CASE Len(new) = 0
    <3>1. written = {} /\ Len(log') = Len(log)
      BY <1>2, <2>2, <2>7
    <3>2. head' = head
      BY <1>2, <2>3, <3>1
    <3> QED BY <3>1, <3>2
  <2>8. CASE Len(new) # 0
    <3>1. Len(log') \in Nat /\ Len(log') > Len(log)
      BY <1>2, <2>2, <2>8
    <3>2. written \in SUBSET Paths
      OBVIOUS
    <3> HIDE DEF written
    <3>3. head' \in [Paths -> [rev : Nat, content : Contents \cup {Absent}]]
      BY <1>2 DEF Row, Content
    <3>4. Map!Commit(written)
      BY <2>3, <2>5, <2>6, <3>1, <3>3 DEF Map!Commit
    <3> QED BY <3>2, <3>4 DEF Map!Next
  <2> QED BY <2>2, <2>7, <2>8
<1>4. ASSUME NEW p \in Paths, Collect(p) PROVE [Map!Next]_<<head, Len(log)>>
  <2>1. head' = [head EXCEPT ![p] = NoRow] /\ log' = log /\ head[p].content = Absent
    BY <1>4 DEF Collect, Collectable
  <2>2. head' = [q \in Paths |-> IF q \in {p} THEN Map!None ELSE head[q]]
    BY <1>2, <2>1 DEF NoRow, Map!None
  <2>3. Map!Forget({p})
    BY <2>1, <2>2 DEF Map!Forget
  <2>4. {p} \in SUBSET Paths
    OBVIOUS
  <2> QED BY <2>3, <2>4 DEF Map!Next
<1>5. CASE UNCHANGED <<log, head>>
  BY <1>5
<1> QED BY <1>1, <1>3, <1>4, <1>5 DEF ServerStepsTo

\* The server that the engine is proved against keeps the promise that the store
\* was proved to keep: fresh revisions, one row a path, only tombstones forgotten
\* (storage-core.ts, store.ts).
THEOREM ServerKeepsPromise == Spec => ServerKeepsMap
<1>1. Init => TypeInv
  BY InitEngineInv, InitTypes DEF TypeInv
<1> QED BY <1>1, TypeInvStep, MapStep, PTL DEF Spec, ServerKeepsMap
-----------------------------------------------------------------------------
(* What the engine has recorded of the log.                                *)

\* Where the run has a change of the server in hand.
InHand == Applying \ {"discard"}

\* A device keeps an operation, a download, or neither.  An operation is on disk
\* before it is in memory, and is over once the run has gone on from it; the
\* result that is being applied is the one the server keeps.
Boxes ==
    /\ \A data \in {mem, saved} : data.inbox # NoDownload => data.outbox = NoOperation
    /\ mem.inbox # NoDownload => pc \in {"idle", "inbox"} \cup Installing
    /\ saved.inbox = mem.inbox \/ (pc = "save" /\ mem.inbox = NoDownload)
    /\ mem.outbox # NoOperation =>
         pc \in {"idle", "inbox", "outbox", "send", "answer"} /\ saved.outbox = mem.outbox
    /\ pc \in {"send", "answer"} => mem.outbox # NoOperation
    /\ pc = "send" => answers[mem.outbox.id] = NoReply
    /\ pc = "answer" =>
         \/ reply.kind = "ok" /\ reply = answers[mem.outbox.id]
         \/ reply.kind = "conflict" /\ answers[mem.outbox.id] = NoReply

\* An unanswered put or delete is based on the revision that is recorded.
Based ==
    \A data \in {mem, saved} :
        /\ data.outbox # NoOperation /\ data.outbox.request.kind = "apply"
        /\ answers[data.outbox.id] = NoReply
        => data.outbox.request.base = data.files[data.outbox.request.path].rev

\* Nothing is acknowledged before the first run is over.
FirstRun ==
    /\ saved.mode = mem.mode
    /\ mem.mode # "done" => ack = 0
    /\ pc = "ack" => mem.mode = "done"
    /\ pc = "snapshot" \/ InSnapshot => mem.mode # "done"

\* The revisions the device must know of: those the cursor has passed, and its
\* own changes.
Due == {r \in DOMAIN log : r <= mem.cursor \/ log[r].mine}

State(v) == [rev |-> v.rev, content |-> v.content]

\* A version that may be recorded: no due one of its path is newer.
Sound(v) ==
    /\ Genuine(v.path, State(v))
    /\ \A r \in Due : log[r].path = v.path => Covers(State(v), r)

\* The result kept for the operation in the outbox is about a path.
InOutbox(data, p) ==
    /\ data.outbox # NoOperation
    /\ answers[data.outbox.id].kind = "ok"
    /\ \E v \in answers[data.outbox.id].versions : v.path = p

\* What is recorded is a version of the log, none older than a due one, but for
\* changes whose result is still to be looked up.
FilesSound(data) ==
    \A p \in Paths :
        /\ data.files[p] = Untracked \/ Genuine(p, data.files[p])
        /\ \A r \in Due : log[r].path = p =>
             Covers(data.files[p], r) \/ (r > mem.cursor /\ InOutbox(data, p))

\* What may be recorded later: a download and a result that is kept.
BoxesSound(data) ==
    /\ data.inbox # NoDownload => Sound(data.inbox)
    /\ data.outbox # NoOperation /\ answers[data.outbox.id].kind = "ok" =>
         \A v \in answers[data.outbox.id].versions : Sound(v)

DataSound(data) == FilesSound(data) /\ BoxesSound(data)

\* The change and the result in hand may be recorded.
Live ==
    /\ pc \in InHand => Sound(run.change)
    /\ pc = "answer" => \A v \in reply.versions : Sound(v)

Covered(r) == Covers(mem.files[log[r].path], r)

\* What of a page, and of a snapshot, has been recorded.
PageProgress ==
    pc = "page" \/ run.ret = "page" =>
        /\ mem.cursor <= run.at /\ run.at <= run.upto
        /\ \A r \in 1..run.at : Covered(r) \/ (pc \in InHand /\ r = run.at)
        /\ pc \in InHand => run.change = Logged(run.at) /\ run.at \in DOMAIN log

MergeProgress ==
    InSnapshot =>
        \A r \in 1..run.upto :
            IF pc \in InHand /\ run.ret = "merge" /\ run.change.path = log[r].path
            THEN r <= run.change.rev
            ELSE log[r].path \in run.todo \/ Covered(r)

\* What is applied after a conflict, or copied before it is, has a rival.
Rivals ==
    /\ pc \in {"apply", "refused"} => Rival(run.change)
    /\ pc = "answer" /\ reply.kind = "conflict" => \A v \in reply.versions : Rival(v)
-----------------------------------------------------------------------------
(* The outbox and the inbox.                                               *)

\* A request is staged under an id that is known to nobody.
LEMMA BoxesStaged ==
    ASSUME Base, Boxes, NEW q, Stage(q), mem.inbox = NoDownload
    PROVE  Boxes'
<1>1. /\ mem'.outbox = [id |-> FreshId, request |-> q] /\ mem'.inbox = NoDownload
      /\ saved' = mem' /\ pc' = "send"
  <2>1. HasFields(mem, DataFields)
    BY DEF Base, Fields
  <2> QED BY <2>1 DEF Stage, Persist, HasFields, DataFields
<1>2. FreshId \in OpIds
  BY DEF FreshId, OpIds, Base, Shape, SoundData
<1>3. mem'.outbox # NoOperation /\ mem'.outbox.id = FreshId
  BY <1>1, <1>2 DEF NoOperation, OpIds
<1>4. answers'[FreshId] = NoReply
  BY <1>2 DEF Stage, Base, TypeOK
<1> QED BY <1>1, <1>3, <1>4 DEF Boxes

\* The result that the server keeps is the one it has given.
LEMMA BoxesSend == ASSUME Base, Boxes, Send PROVE Boxes'
<1>1. /\ mem.outbox.id \in OpIds /\ mem.outbox # NoOperation
      /\ answers[mem.outbox.id] = NoReply
  BY DEF Send, Base, Shape, Boxes
<1>2. pc' = "answer" /\ UNCHANGED <<mem, saved>>
  BY DEF Send, Goto, dataVars
<1>3. \/ reply'.kind = "ok" /\ reply' = answers'[mem.outbox.id]
      \/ reply'.kind = "conflict" /\ answers' = answers
  <2>1. Serve(mem.outbox.id, mem.outbox.request, reply')
    BY DEF Send
  <2>2. CASE Accepts(mem.outbox.request)
    <3>1. PICK new : /\ reply' = Accepted(mem.outbox.request, new)
                     /\ answers' = [answers EXCEPT ![mem.outbox.id] = reply']
      BY <2>1, <2>2, Zenon DEF Serve
    <3>2. reply'.kind = "ok"
      BY <3>1 DEF Accepted
    <3>3. answers'[mem.outbox.id] = reply'
      BY <1>1, <3>1 DEF Base, TypeOK
    <3> QED BY <3>2, <3>3
  <2>3. CASE ~Accepts(mem.outbox.request)
    BY <2>1, <2>3 DEF Serve, ConflictWith
  <2> QED BY <2>2, <2>3
<1> QED BY <1>1, <1>2, <1>3 DEF Boxes, Send

\* AnswerApplied ends the operation.
LEMMA BoxesAnswerApplied == ASSUME Base, Boxes, AnswerApplied PROVE Boxes'
<1>1. /\ pc = "answer" /\ mem.outbox # NoOperation /\ mem.inbox = NoDownload
      /\ saved.inbox = NoDownload
  BY DEF AnswerApplied, Boxes, Installing
<1>2. HasFields(mem, DataFields) /\ run.ret \in Returns
  BY DEF Base, Fields
<1>3. mem'.outbox = NoOperation /\ mem'.inbox = mem.inbox /\ saved'.inbox = mem.inbox
  <2>1. CASE Recovering
    BY <1>2, <2>1 DEF AnswerApplied, Complete, HasFields, DataFields
  <2>2. CASE ~Recovering
    BY <1>2, <2>2 DEF AnswerApplied, Complete, HasFields, DataFields
  <2> QED BY <2>1, <2>2
<1>4. pc' \in Returns \cup {"save"}
  BY <1>2 DEF AnswerApplied, Goto, Return
<1> QED BY <1>1, <1>3, <1>4 DEF Boxes, Returns

\* So does AnswerBatchConflict.
LEMMA BoxesAnswerBatchConflict == ASSUME Base, Boxes, AnswerBatchConflict PROVE Boxes'
<1>1. pc = "answer" /\ mem.outbox # NoOperation /\ mem.inbox = NoDownload
  BY DEF AnswerBatchConflict, Boxes, Installing
<1>2. HasFields(mem, DataFields)
  BY DEF Base, Fields
<1>3. mem'.outbox = NoOperation /\ mem'.inbox = mem.inbox /\ saved' = mem'
  <2>1. CASE Recovering
    BY <1>2, <2>1 DEF AnswerBatchConflict, Persist, Discarded, HasFields, DataFields
  <2>2. CASE ~Recovering
    BY <1>2, <2>2 DEF AnswerBatchConflict, Persist, Discarded, HasFields, DataFields
  <2> QED BY <2>1, <2>2
<1>4. pc' \in {"outbox", "deletes"}
  BY DEF AnswerBatchConflict
<1> QED BY <1>1, <1>3, <1>4 DEF Boxes

\* What the server knows is a result.
LEMMA BoxesOutboxCommitted == ASSUME Base, Boxes, OutboxCommitted PROVE Boxes'
<1>1. mem.outbox.id \in OpIds /\ answers[mem.outbox.id] # NoReply
  BY DEF OutboxCommitted, Committed, Base, Shape, SoundData
<1>2. answers[mem.outbox.id].kind = "ok"
  BY <1>1 DEF Base, TypeOK, Replies, Reply
<1> QED BY <1>1, <1>2 DEF OutboxCommitted, Boxes, serverVars, dataVars, Quiet

\* PushPath and PushDone stage a request, or leave the boxes alone.
LEMMA BoxesPushPath == ASSUME Base, Boxes, NEW p \in Paths, PushPath(p) PROVE Boxes'
<1>1. mem.inbox = NoDownload /\ mem.outbox = NoOperation /\ pc = "push"
  BY DEF PushPath, Boxes, Installing
<1>2. CASE \E q : Stage(q)
  BY <1>1, <1>2, BoxesStaged
<1>3. CASE ~\E q : Stage(q)
  <2>1. /\ mem' = IF disk[p] = Absent THEN mem ELSE [mem EXCEPT !.pending = Queued({p})]
        /\ UNCHANGED <<saved, pc>>
    BY <1>3, Zenon DEF PushPath
  <2>2. mem'.inbox = mem.inbox /\ mem'.outbox = mem.outbox
    BY <2>1 DEF Base, Fields, HasFields, DataFields
  <2> QED BY <1>1, <2>1, <2>2 DEF Boxes
<1> QED BY <1>2, <1>3

LEMMA BoxesPushDone == ASSUME Base, Boxes, PushDone PROVE Boxes'
<1>1. mem.inbox = NoDownload /\ mem.outbox = NoOperation /\ pc = "push"
  BY DEF PushDone, Boxes, Installing
<1>2. CASE \E q : Stage(q)
  BY <1>1, <1>2, BoxesStaged
<1>3. CASE ~\E q : Stage(q)
  <2>1. UNCHANGED dataVars /\ pc' = "deletes"
    BY <1>3, Zenon DEF PushDone
  <2> QED BY <1>1, <2>1 DEF Boxes, dataVars
<1> QED BY <1>2, <1>3

\* Other devices and the collector leave the results alone.
LEMMA BoxesServerMoves == ASSUME Boxes, ServerMoves PROVE Boxes'
<1>1. answers' = answers /\ UNCHANGED <<mem, saved, pc, reply>>
  BY DEF ServerMoves, OtherCommit, Collect, dataVars
<1> QED BY <1>1 DEF Boxes

\* The user's events leave the boxes alone.
LEMMA BoxesNoteEvents ==
    ASSUME Base, Boxes, NEW ps, NEW queue, NoteEvents(ps, queue), NoRequest, UNCHANGED <<saved, pc>>
    PROVE  Boxes'
<1>1. mem'.inbox = mem.inbox /\ mem'.outbox = mem.outbox
  BY DEF NoteEvents, Base, Fields, HasFields, DataFields
<1> QED BY <1>1 DEF Boxes, NoRequest, serverVars

\* A request is only sent again if the server does not know it.
LEMMA BoxesOutboxResent == ASSUME Boxes, OutboxResent PROVE Boxes'
<1>1. /\ pc = "outbox" /\ mem.outbox # NoOperation /\ answers[mem.outbox.id] = NoReply
      /\ pc' = "send" /\ UNCHANGED <<mem, saved, answers, reply>>
  BY DEF OutboxResent, Committed, NoRequest, serverVars, dataVars
<1> QED BY <1>1 DEF Boxes, Installing

\* Every step keeps the boxes.
LEMMA BoxesStep ==
    Base /\ Fields /\ Artifacts /\ Boxes /\ [Next]_vars => Boxes'
<1> SUFFICES ASSUME Base, Fields, Artifacts, Boxes, [Next]_vars PROVE Boxes'
  OBVIOUS
<1>1. CASE ResumeInbox
  <2> USE DEF Boxes, Fields, HasFields, DataFields, RunFields, Returns, Installing,
     NoRequest, serverVars, dataVars
  <2>1. CASE InboxInstalled
    BY <2>1 DEF InboxInstalled, Quiet, CleanUp, historyVars
  <2>2. CASE InboxReady
    BY <2>2 DEF InboxReady, Quiet, fileVars, historyVars
  <2>3. CASE InboxLost
    BY <2>3 DEF InboxLost, Quiet, Persist, CleanUp, historyVars
  <2>4. CASE InboxDone
    BY <2>4 DEF InboxDone, Quiet, Goto, fileVars, historyVars
  <2> HIDE DEF Boxes, Fields, HasFields, DataFields, RunFields, Returns, Installing,
     NoRequest, serverVars, dataVars
  <2> QED BY <1>1, <2>1, <2>2, <2>3, <2>4 DEF ResumeInbox
<1>2. CASE ResumeOutbox
  <2>1. CASE OutboxCommitted
    BY <2>1, BoxesOutboxCommitted
  <2>2. CASE OutboxResent
    BY <2>2, BoxesOutboxResent
  <2> USE DEF Boxes, Fields, HasFields, DataFields, RunFields, Returns, Installing,
     NoRequest, serverVars, dataVars
  <2>3. CASE OutboxAbandoned
    BY <2>3 DEF OutboxAbandoned, Quiet, Persist, Discarded, Queued, fileVars,
       historyVars
  <2>4. CASE OutboxDone
    BY <2>4 DEF OutboxDone, Quiet, Goto, BeginRenames, fileVars, historyVars
  <2> HIDE DEF Boxes, Fields, HasFields, DataFields, RunFields, Returns, Installing,
     NoRequest, serverVars, dataVars
  <2> QED BY <1>2, <2>1, <2>2, <2>3, <2>4 DEF ResumeOutbox
<1>3. CASE Reconcile
  <2> USE DEF Boxes, Fields, HasFields, DataFields, RunFields, Returns, Installing,
     NoRequest, serverVars, dataVars
  <2>1. CASE ReadSnapshot
    BY <2>1 DEF ReadSnapshot, Quiet, fileVars, historyVars
  <2>2. CASE PreserveLocal
    BY <2>2 DEF PreserveLocal, Quiet, EndRun, IdleRun, historyVars
  <2>3. CASE DiscardLocal
    BY <2>3 DEF DiscardLocal, Quiet, Return, EndRun, IdleRun, historyVars
  <2>4. CASE PreserveDone
    BY <2>4 DEF PreserveDone, Quiet, Goto, fileVars, historyVars
  <2>5. CASE MergeSnapshot
    BY <2>5, ZenonT(60) DEF MergeSnapshot, fileVars, historyVars
  <2>6. CASE MergeDone
    BY <2>6 DEF MergeDone, Quiet, Persist, BeginRenames, fileVars, historyVars
  <2> HIDE DEF Boxes, Fields, HasFields, DataFields, RunFields, Returns, Installing,
     NoRequest, serverVars, dataVars
  <2> QED BY <1>3, <2>1, <2>2, <2>3, <2>4, <2>5, <2>6 DEF Reconcile
<1>4. CASE Renames
  <2>1. CASE RenameStaged
    BY <2>1, BoxesStaged DEF RenameStaged, Boxes, Installing
  <2> USE DEF Boxes, Fields, HasFields, DataFields, RunFields, Returns, Installing,
     NoRequest, serverVars, dataVars
  <2>2. CASE RenameSkipped
    BY <2>2 DEF RenameSkipped, Quiet, fileVars, historyVars
  <2>3. CASE RenamesDone
    BY <2>3 DEF RenamesDone, Quiet, Goto, fileVars, historyVars
  <2> HIDE DEF Boxes, Fields, HasFields, DataFields, RunFields, Returns, Installing,
     NoRequest, serverVars, dataVars
  <2> QED BY <1>4, <2>1, <2>2, <2>3 DEF Renames
<1>5. CASE Push
  <2>1. CASE PushDone
    BY <2>1, BoxesPushDone
  <2>2. ASSUME NEW p \in Paths, PushPath(p) PROVE Boxes'
    BY <2>2, BoxesPushPath
  <2>3. ASSUME NEW p \in Paths, DeletePath(p) PROVE Boxes'
    BY <2>3, BoxesStaged DEF DeletePath, Boxes, Installing
  <2> USE DEF Boxes, Fields, HasFields, DataFields, RunFields, Returns, Installing,
     NoRequest, serverVars, dataVars
  <2>4. CASE PlanFull
    BY <2>4 DEF PlanFull, Plan, Quiet, fileVars, historyVars
  <2>5. CASE PlanQueued
    BY <2>5 DEF PlanQueued, Plan, Quiet, fileVars, historyVars
  <2>6. CASE DeletesDone
    BY <2>6 DEF DeletesDone, Quiet, fileVars, historyVars
  <2>7. ASSUME NEW p \in Paths, ScanPath(p) PROVE Boxes'
    BY <2>7 DEF ScanPath, Quiet, fileVars, historyVars
  <2> HIDE DEF Boxes, Fields, HasFields, DataFields, RunFields, Returns, Installing,
     NoRequest, serverVars, dataVars
  <2> QED BY <1>5, <2>1, <2>2, <2>3, <2>4, <2>5, <2>6, <2>7 DEF Push
<1>6. CASE Answered
  <2>1. CASE AnswerApplied
    BY <2>1, BoxesAnswerApplied
  <2>2. CASE AnswerBatchConflict
    BY <2>2, BoxesAnswerBatchConflict
  <2> USE DEF Boxes, Fields, HasFields, DataFields, RunFields, Returns, Installing,
     NoRequest, serverVars, dataVars
  <2>3. CASE AnswerConflict
    BY <2>3 DEF AnswerConflict, Quiet, Persist, Discarded, fileVars, historyVars
  <2>4. CASE KeepRefused
    BY <2>4 DEF KeepRefused, Quiet, historyVars
  <2>5. CASE AnswerMoved
    BY <2>5 DEF AnswerMoved, Quiet, Goto, Complete, fileVars, historyVars
  <2>6. CASE AnswerMoveConflict
    BY <2>6 DEF AnswerMoveConflict, Quiet, Goto, Return, Discarded, Queued,
       fileVars, historyVars
  <2>7. CASE AnswerBatch
    BY <2>7 DEF AnswerBatch, Quiet, Complete, fileVars, historyVars
  <2> HIDE DEF Boxes, Fields, HasFields, DataFields, RunFields, Returns, Installing,
     NoRequest, serverVars, dataVars
  <2> QED BY <1>6, <2>1, <2>2, <2>3, <2>4, <2>5, <2>6, <2>7 DEF Answered
<1>7. CASE Apply
  <2> USE DEF Boxes, Fields, HasFields, DataFields, RunFields, Returns, Installing,
     NoRequest, serverVars, dataVars
  <2>1. CASE ApplyRemoteChange
    BY <2>1 DEF ApplyRemoteChange, Quiet, Goto, Return, StageDownload, Persist,
       historyVars
  <2>2. CASE RemoveLocal
    BY <2>2 DEF RemoveLocal, Quiet, Return, EndRun, IdleRun, historyVars
  <2>3. CASE Download
    BY <2>3 DEF Download, Quiet, Goto, historyVars
  <2>4. CASE SetAside
    BY <2>4 DEF SetAside, Quiet, Goto, historyVars
  <2>5. CASE SwapIn
    BY <2>5 DEF SwapIn, Quiet, Goto, EndRun, IdleRun, historyVars
  <2>6. CASE VerifyInstalled
    BY <2>6 DEF VerifyInstalled, Quiet, Goto, EndRun, IdleRun, historyVars
  <2>7. CASE FinishDownload
    BY <2>7 DEF FinishDownload, Quiet, Goto, fileVars, historyVars
  <2>8. CASE Save
    BY <2>8 DEF Save, Quiet, Return, fileVars, historyVars
  <2> HIDE DEF Boxes, Fields, HasFields, DataFields, RunFields, Returns, Installing,
     NoRequest, serverVars, dataVars
  <2> QED BY <1>7, <2>1, <2>2, <2>3, <2>4, <2>5, <2>6, <2>7, <2>8 DEF Apply
<1>8. CASE Pull
  <2> USE DEF Boxes, Fields, HasFields, DataFields, RunFields, Returns, Installing,
     NoRequest, serverVars, dataVars
  <2>1. CASE PullPage
    BY <2>1 DEF PullPage, Quiet, fileVars, historyVars
  <2>2. CASE PageChange
    BY <2>2 DEF PageChange, Quiet, fileVars, historyVars
  <2>3. CASE PageDone
    BY <2>3 DEF PageDone, Quiet, Persist, fileVars, historyVars
  <2>4. CASE Finish
    BY <2>4 DEF Finish, Quiet, Persist, Goto, fileVars, historyVars
  <2>5. CASE AckCursor
    BY <2>5 DEF AckCursor, Quiet, Goto, Acknowledge, fileVars, historyVars
  <2>6. CASE CompleteRun
    BY <2>6 DEF CompleteRun, Quiet, EndRun, fileVars, historyVars, IdleRun
  <2> HIDE DEF Boxes, Fields, HasFields, DataFields, RunFields, Returns, Installing,
     NoRequest, serverVars, dataVars
  <2> QED BY <1>8, <2>1, <2>2, <2>3, <2>4, <2>5, <2>6 DEF Pull
<1>9. ASSUME NEW p \in Paths, NEW content \in UserContents \cup {Absent},
   UserEdit(p, content) PROVE Boxes'
  BY <1>9, BoxesNoteEvents DEF UserEdit
<1>10. ASSUME NEW from \in Paths, NEW to \in Paths, UserRename(from, to) PROVE
   Boxes'
  BY <1>10, BoxesNoteEvents DEF UserRename
<1>11. CASE StartRun
  BY <1>11 DEF StartRun, Boxes, Fields, HasFields, DataFields, RunFields, Returns,
     Installing, NoRequest, serverVars, dataVars, Quiet, Goto, fileVars, historyVars
<1>12. CASE Send
  BY <1>12, BoxesSend
<1>13. CASE ServerMoves
  BY <1>13, BoxesServerMoves
<1>14. CASE SaveEvents
  BY <1>14 DEF SaveEvents, Boxes, Fields, HasFields, DataFields, RunFields, Returns,
     Installing, NoRequest, serverVars, dataVars, Quiet, fileVars, historyVars
<1>15. CASE RunFails
  BY <1>15 DEF RunFails, Boxes, Fields, HasFields, DataFields, RunFields, Returns,
     Installing, NoRequest, serverVars, dataVars, EndRun, Spend, IdleRun
<1>16. CASE Crash
  BY <1>16 DEF Crash, Boxes, Fields, HasFields, DataFields, RunFields, Returns,
     Installing, NoRequest, serverVars, dataVars, IdleRun, Spend, fileVars,
     historyVars
<1>17. CASE Restart
  BY <1>17 DEF Restart, Boxes, Fields, HasFields, DataFields, RunFields, Returns,
     Installing, NoRequest, serverVars, dataVars, fileVars, historyVars
<1>18. CASE UNCHANGED vars
  BY <1>18 DEF Boxes, Fields, HasFields, DataFields, RunFields, Returns, Installing,
     NoRequest, serverVars, dataVars, vars, fileVars, historyVars
<1> QED BY <1>1, <1>2, <1>3, <1>4, <1>5, <1>6, <1>7, <1>8, <1>9, <1>10, <1>11, <1>12,
         <1>13, <1>14, <1>15, <1>16, <1>17, <1>18 DEF Next, Engine, User
-----------------------------------------------------------------------------
(* Bases of requests, and the first run.                                   *)

\* What the user's events leave alone.
LEMMA Noted ==
    ASSUME Base, NEW ps, NEW queue, NoteEvents(ps, queue)
    PROVE  /\ mem'.files = mem.files /\ mem'.cursor = mem.cursor /\ mem'.inbox = mem.inbox
           /\ mem'.outbox = mem.outbox /\ mem'.mode = mem.mode
           /\ run'.ret = run.ret /\ run'.change = run.change /\ run'.todo = run.todo
           /\ run'.at = run.at /\ run'.upto = run.upto
           /\ run'.scope = run.scope /\ run'.found = run.found
BY DEF NoteEvents, Base, Fields, HasFields, DataFields, RunFields

\* A staged request about a path is based on what is recorded.
LEMMA BasedStaged ==
    ASSUME Base, Based, NEW p \in Paths, NEW c, Stage(ApplyRequest(p, c))
    PROVE  Based'
<1>1. HasFields(mem, DataFields)
  BY DEF Base, Fields
<1>2. /\ mem'.files = mem.files /\ saved' = mem'
      /\ mem'.outbox.request = ApplyRequest(p, c)
  BY <1>1 DEF Stage, Persist, HasFields, DataFields
<1>3. mem'.outbox.request.base = mem'.files[mem'.outbox.request.path].rev
  BY <1>2 DEF ApplyRequest
<1> QED BY <1>2, <1>3 DEF Based

\* An operation that is over is based on nothing.
LEMMA BasedOver ==
    ASSUME mem'.outbox = NoOperation,
           saved'.outbox = NoOperation \/ answers'[saved'.outbox.id] # NoReply
    PROVE  Based'
BY DEF Based

\* AnswerApplied keeps the result until the operation is off the disk.
LEMMA BasedAnswerApplied == ASSUME Base, Boxes, AnswerApplied PROVE Based'
<1>1. HasFields(mem, DataFields) /\ answers' = answers
  BY DEF Base, Fields, AnswerApplied, serverVars
<1>2. mem'.outbox = NoOperation /\ saved'.outbox = mem.outbox
  <2>1. CASE Recovering
    BY <1>1, <2>1 DEF AnswerApplied, Complete, HasFields, DataFields
  <2>2. CASE ~Recovering
    BY <1>1, <2>2 DEF AnswerApplied, Complete, HasFields, DataFields
  <2> QED BY <2>1, <2>2
<1>3. answers[mem.outbox.id] # NoReply
  BY DEF AnswerApplied, Boxes, NoReply
<1> QED BY <1>1, <1>2, <1>3, BasedOver

\* AnswerBatchConflict discards the operation.
LEMMA BasedAnswerBatchConflict == ASSUME Base, AnswerBatchConflict PROVE Based'
<1>1. HasFields(mem, DataFields)
  BY DEF Base, Fields
<1>2. mem'.outbox = NoOperation /\ saved' = mem'
  <2>1. CASE Recovering
    BY <1>1, <2>1 DEF AnswerBatchConflict, Persist, Discarded, HasFields, DataFields
  <2>2. CASE ~Recovering
    BY <1>1, <2>2 DEF AnswerBatchConflict, Persist, Discarded, HasFields, DataFields
  <2> QED BY <2>1, <2>2
<1> QED BY <1>2, BasedOver

\* PushPath stages a put, or queues the path.
LEMMA BasedPushPath == ASSUME Base, Boxes, Based, NEW p \in Paths, PushPath(p) PROVE Based'
<1>1. CASE Stage(ApplyRequest(p, disk[p]))
  BY <1>1, BasedStaged
<1>2. CASE ~Stage(ApplyRequest(p, disk[p]))
  <2>1. /\ mem' = IF disk[p] = Absent THEN mem ELSE [mem EXCEPT !.pending = Queued({p})]
        /\ NoRequest /\ UNCHANGED <<saved, pc>>
    BY <1>2, Zenon DEF PushPath
  <2>2. mem'.files = mem.files /\ mem'.outbox = mem.outbox
    BY <2>1 DEF Base, Fields, HasFields, DataFields
  <2> QED BY <2>1, <2>2 DEF Based, NoRequest, serverVars
<1> QED BY <1>1, <1>2

\* Other devices and the collector leave the results alone.
LEMMA BasedServerMoves == ASSUME Based, ServerMoves PROVE Based'
<1>1. answers' = answers /\ UNCHANGED <<mem, saved>>
  BY DEF ServerMoves, OtherCommit, Collect, dataVars
<1> QED BY <1>1 DEF Based

\* The user's events leave the operation and the record alone.
LEMMA BasedNoteEvents ==
    ASSUME Base, Based, NEW ps, NEW queue, NoteEvents(ps, queue), NoRequest, UNCHANGED saved
    PROVE  Based'
BY Noted DEF Based, NoRequest, serverVars

\* Every step keeps requests based.
LEMMA BasedStep ==
    Base /\ Fields /\ Boxes /\ Based /\ [Next]_vars => Based'
<1> SUFFICES ASSUME Base, Fields, Boxes, Based, [Next]_vars PROVE Based'
  OBVIOUS
<1>1. CASE ResumeInbox
  <2> USE DEF Based, Boxes, Fields, HasFields, DataFields, RunFields, Returns,
     Installing, NoRequest, serverVars, dataVars
  <2>1. CASE InboxInstalled
    BY <2>1 DEF InboxInstalled, Quiet, CleanUp, historyVars
  <2>2. CASE InboxReady
    BY <2>2 DEF InboxReady, Quiet, fileVars, historyVars
  <2>3. CASE InboxLost
    BY <2>3 DEF InboxLost, Quiet, Persist, CleanUp, historyVars
  <2>4. CASE InboxDone
    BY <2>4 DEF InboxDone, Quiet, Goto, fileVars, historyVars
  <2> HIDE DEF Based, Boxes, Fields, HasFields, DataFields, RunFields, Returns,
     Installing, NoRequest, serverVars, dataVars
  <2> QED BY <1>1, <2>1, <2>2, <2>3, <2>4 DEF ResumeInbox
<1>2. CASE ResumeOutbox
  <2> USE DEF Based, Boxes, Fields, HasFields, DataFields, RunFields, Returns,
     Installing, NoRequest, serverVars, dataVars
  <2>1. CASE OutboxCommitted
    BY <2>1 DEF OutboxCommitted, Quiet, fileVars, historyVars
  <2>2. CASE OutboxResent
    BY <2>2 DEF OutboxResent, Quiet, fileVars, historyVars
  <2>3. CASE OutboxAbandoned
    BY <2>3 DEF OutboxAbandoned, Quiet, Persist, Discarded, Queued, fileVars,
       historyVars
  <2>4. CASE OutboxDone
    BY <2>4 DEF OutboxDone, Quiet, Goto, BeginRenames, fileVars, historyVars
  <2> HIDE DEF Based, Boxes, Fields, HasFields, DataFields, RunFields, Returns,
     Installing, NoRequest, serverVars, dataVars
  <2> QED BY <1>2, <2>1, <2>2, <2>3, <2>4 DEF ResumeOutbox
<1>3. CASE Reconcile
  <2> USE DEF Based, Boxes, Fields, HasFields, DataFields, RunFields, Returns,
     Installing, NoRequest, serverVars, dataVars
  <2>1. CASE ReadSnapshot
    BY <2>1 DEF ReadSnapshot, Quiet, fileVars, historyVars
  <2>2. CASE PreserveLocal
    BY <2>2 DEF PreserveLocal, Quiet, EndRun, IdleRun, historyVars
  <2>3. CASE DiscardLocal
    BY <2>3 DEF DiscardLocal, Quiet, Return, EndRun, IdleRun, historyVars
  <2>4. CASE PreserveDone
    BY <2>4 DEF PreserveDone, Quiet, Goto, fileVars, historyVars
  <2>5. CASE MergeSnapshot
    BY <2>5, ZenonT(60) DEF MergeSnapshot, fileVars, historyVars
  <2>6. CASE MergeDone
    BY <2>6 DEF MergeDone, Quiet, Persist, BeginRenames, fileVars, historyVars
  <2> HIDE DEF Based, Boxes, Fields, HasFields, DataFields, RunFields, Returns,
     Installing, NoRequest, serverVars, dataVars
  <2> QED BY <1>3, <2>1, <2>2, <2>3, <2>4, <2>5, <2>6 DEF Reconcile
<1>4. CASE Renames
  <2> USE DEF Based, Boxes, Fields, HasFields, DataFields, RunFields, Returns,
     Installing, NoRequest, serverVars, dataVars
  <2>1. CASE RenameSkipped
    BY <2>1 DEF RenameSkipped, Quiet, fileVars, historyVars
  <2>2. CASE RenameStaged
    BY <2>2 DEF RenameStaged, Quiet, Stage, fileVars, historyVars, Persist
  <2>3. CASE RenamesDone
    BY <2>3 DEF RenamesDone, Quiet, Goto, fileVars, historyVars
  <2> HIDE DEF Based, Boxes, Fields, HasFields, DataFields, RunFields, Returns,
     Installing, NoRequest, serverVars, dataVars
  <2> QED BY <1>4, <2>1, <2>2, <2>3 DEF Renames
<1>5. CASE Push
  <2>1. ASSUME NEW p \in Paths, PushPath(p) PROVE Based'
    BY <2>1, BasedPushPath
  <2>2. ASSUME NEW p \in Paths, DeletePath(p) PROVE Based'
    BY <2>2, BasedStaged DEF DeletePath
  <2> USE DEF Based, Boxes, Fields, HasFields, DataFields, RunFields, Returns,
     Installing, NoRequest, serverVars, dataVars
  <2>3. CASE PlanFull
    BY <2>3 DEF PlanFull, Plan, Quiet, fileVars, historyVars
  <2>4. CASE PlanQueued
    BY <2>4 DEF PlanQueued, Plan, Quiet, fileVars, historyVars
  <2>5. CASE PushDone
    BY <2>5 DEF PushDone, Quiet, Stage, fileVars, historyVars, Persist
  <2>6. CASE DeletesDone
    BY <2>6 DEF DeletesDone, Quiet, fileVars, historyVars
  <2>7. ASSUME NEW p \in Paths, ScanPath(p) PROVE Based'
    BY <2>7 DEF ScanPath, Quiet, fileVars, historyVars
  <2> HIDE DEF Based, Boxes, Fields, HasFields, DataFields, RunFields, Returns,
     Installing, NoRequest, serverVars, dataVars
  <2> QED BY <1>5, <2>1, <2>2, <2>3, <2>4, <2>5, <2>6, <2>7 DEF Push
<1>6. CASE Answered
  <2>1. CASE AnswerApplied
    BY <2>1, BasedAnswerApplied
  <2>2. CASE AnswerBatchConflict
    BY <2>2, BasedAnswerBatchConflict
  <2> USE DEF Based, Boxes, Fields, HasFields, DataFields, RunFields, Returns,
     Installing, NoRequest, serverVars, dataVars
  <2>3. CASE AnswerConflict
    BY <2>3 DEF AnswerConflict, Quiet, Persist, Discarded, fileVars, historyVars
  <2>4. CASE KeepRefused
    BY <2>4 DEF KeepRefused, Quiet, historyVars
  <2>5. CASE AnswerMoved
    BY <2>5 DEF AnswerMoved, Quiet, Goto, Complete, fileVars, historyVars
  <2>6. CASE AnswerMoveConflict
    BY <2>6 DEF AnswerMoveConflict, Quiet, Goto, Return, Discarded, Queued,
       fileVars, historyVars
  <2>7. CASE AnswerBatch
    BY <2>7 DEF AnswerBatch, Quiet, Complete, fileVars, historyVars
  <2> HIDE DEF Based, Boxes, Fields, HasFields, DataFields, RunFields, Returns,
     Installing, NoRequest, serverVars, dataVars
  <2> QED BY <1>6, <2>1, <2>2, <2>3, <2>4, <2>5, <2>6, <2>7 DEF Answered
<1>7. CASE Apply
  <2> USE DEF Based, Boxes, Fields, HasFields, DataFields, RunFields, Returns,
     Installing, NoRequest, serverVars, dataVars
  <2>1. CASE ApplyRemoteChange
    BY <2>1 DEF ApplyRemoteChange, Quiet, Goto, Return, StageDownload, Persist,
       historyVars
  <2>2. CASE RemoveLocal
    BY <2>2 DEF RemoveLocal, Quiet, Return, EndRun, IdleRun, historyVars
  <2>3. CASE Download
    BY <2>3 DEF Download, Quiet, Goto, historyVars
  <2>4. CASE SetAside
    BY <2>4 DEF SetAside, Quiet, Goto, historyVars
  <2>5. CASE SwapIn
    BY <2>5 DEF SwapIn, Quiet, Goto, EndRun, IdleRun, historyVars
  <2>6. CASE VerifyInstalled
    BY <2>6 DEF VerifyInstalled, Quiet, Goto, EndRun, IdleRun, historyVars
  <2>7. CASE FinishDownload
    BY <2>7 DEF FinishDownload, Quiet, Goto, fileVars, historyVars
  <2>8. CASE Save
    BY <2>8 DEF Save, Quiet, Return, fileVars, historyVars
  <2> HIDE DEF Based, Boxes, Fields, HasFields, DataFields, RunFields, Returns,
     Installing, NoRequest, serverVars, dataVars
  <2> QED BY <1>7, <2>1, <2>2, <2>3, <2>4, <2>5, <2>6, <2>7, <2>8 DEF Apply
<1>8. CASE Pull
  <2> USE DEF Based, Boxes, Fields, HasFields, DataFields, RunFields, Returns,
     Installing, NoRequest, serverVars, dataVars
  <2>1. CASE PullPage
    BY <2>1 DEF PullPage, Quiet, fileVars, historyVars
  <2>2. CASE PageChange
    BY <2>2 DEF PageChange, Quiet, fileVars, historyVars
  <2>3. CASE PageDone
    BY <2>3 DEF PageDone, Quiet, Persist, fileVars, historyVars
  <2>4. CASE Finish
    BY <2>4 DEF Finish, Quiet, Persist, Goto, fileVars, historyVars
  <2>5. CASE AckCursor
    BY <2>5 DEF AckCursor, Quiet, Goto, Acknowledge, fileVars, historyVars
  <2>6. CASE CompleteRun
    BY <2>6 DEF CompleteRun, Quiet, EndRun, fileVars, historyVars, IdleRun
  <2> HIDE DEF Based, Boxes, Fields, HasFields, DataFields, RunFields, Returns,
     Installing, NoRequest, serverVars, dataVars
  <2> QED BY <1>8, <2>1, <2>2, <2>3, <2>4, <2>5, <2>6 DEF Pull
<1>9. ASSUME NEW p \in Paths, NEW content \in UserContents \cup {Absent},
   UserEdit(p, content) PROVE Based'
  BY <1>9, BasedNoteEvents DEF UserEdit
<1>10. ASSUME NEW from \in Paths, NEW to \in Paths, UserRename(from, to) PROVE
   Based'
  BY <1>10, BasedNoteEvents DEF UserRename
<1>11. CASE StartRun
  BY <1>11 DEF StartRun, Based, Boxes, Fields, HasFields, DataFields, RunFields,
     Returns, Installing, NoRequest, serverVars, dataVars, Quiet, Goto, fileVars,
     historyVars
<1>12. CASE Send
  BY <1>12 DEF Send, Based, Boxes, Fields, HasFields, DataFields, RunFields,
     Returns, Installing, NoRequest, serverVars, dataVars, Quiet, Goto, fileVars,
     historyVars
<1>13. CASE ServerMoves
  BY <1>13, BasedServerMoves
<1>14. CASE SaveEvents
  BY <1>14 DEF SaveEvents, Based, Boxes, Fields, HasFields, DataFields, RunFields,
     Returns, Installing, NoRequest, serverVars, dataVars, Quiet, fileVars,
     historyVars
<1>15. CASE RunFails
  BY <1>15 DEF RunFails, Based, Boxes, Fields, HasFields, DataFields, RunFields,
     Returns, Installing, NoRequest, serverVars, dataVars, EndRun, Spend, IdleRun
<1>16. CASE Crash
  BY <1>16 DEF Crash, Based, Boxes, Fields, HasFields, DataFields, RunFields,
     Returns, Installing, NoRequest, serverVars, dataVars, IdleRun, Spend, fileVars,
     historyVars
<1>17. CASE Restart
  BY <1>17 DEF Restart, Based, Boxes, Fields, HasFields, DataFields, RunFields,
     Returns, Installing, NoRequest, serverVars, dataVars, fileVars, historyVars
<1>18. CASE UNCHANGED vars
  BY <1>18 DEF Based, Boxes, Fields, HasFields, DataFields, RunFields, Returns,
     Installing, NoRequest, serverVars, dataVars, vars, fileVars, historyVars
<1> QED BY <1>1, <1>2, <1>3, <1>4, <1>5, <1>6, <1>7, <1>8, <1>9, <1>10, <1>11, <1>12,
         <1>13, <1>14, <1>15, <1>16, <1>17, <1>18 DEF Next, Engine, User

\* Between runs, and where the run is in no snapshot.
LEMMA FirstRunKept ==
    ASSUME FirstRun, mem'.mode = mem.mode, saved'.mode = saved.mode, ack' = ack,
           pc' # "ack", pc' # "snapshot", InSnapshot' => InSnapshot
    PROVE  FirstRun'
BY DEF FirstRun

\* RemoveLocal ends the run or returns.
LEMMA FirstRunRemoveLocal == ASSUME Base, FirstRun, RemoveLocal PROVE FirstRun'
<1>1. HasFields(mem, DataFields) /\ HasFields(run, RunFields) /\ run.ret \in Returns
  BY DEF Base, Fields
<1>2. CASE EndRun
  BY <1>2 DEF RemoveLocal, EndRun, FirstRun, InSnapshot, IdleRun, serverVars
<1>3. CASE ~EndRun
  <2>1. /\ mem' = [mem EXCEPT !.files = Recorded({run.change})]
        /\ saved' = saved /\ ack' = ack /\ Return
    BY <1>3, Zenon DEF RemoveLocal, serverVars
  <2>2. mem'.mode = mem.mode
    BY <1>1, <2>1 DEF HasFields, DataFields
  <2>3. pc' = run.ret /\ run'.ret = "idle"
    BY <1>1, <2>1 DEF Return, HasFields, RunFields
  <2> QED BY <1>1, <2>1, <2>2, <2>3, FirstRunKept DEF InSnapshot, Returns
<1> QED BY <1>2, <1>3

\* The server moves on, whatever run this is.
LEMMA FirstRunServer ==
    ASSUME FirstRun, ack' = ack, pc' \in {pc, "answer"}, UNCHANGED <<mem, saved, run>>
    PROVE  FirstRun'
BY DEF FirstRun, InSnapshot

\* The user's events are no part of it.
LEMMA FirstRunNoteEvents ==
    ASSUME Base, FirstRun, NEW ps, NEW queue, NoteEvents(ps, queue), NoRequest, UNCHANGED <<saved, pc>>
    PROVE  FirstRun'
BY Noted DEF FirstRun, InSnapshot, NoRequest, serverVars

\* Every step keeps to the first run.
LEMMA FirstRunStep ==
    Base /\ Calls /\ Fields /\ FirstRun /\ [Next]_vars => FirstRun'
<1> SUFFICES ASSUME Base, Calls, Fields, FirstRun, [Next]_vars PROVE FirstRun'
  OBVIOUS
<1>1. CASE ResumeInbox
  <2> USE DEF FirstRun, InSnapshot, Calls, Inner, Fields, HasFields, DataFields,
     RunFields, Returns, Installing, NoRequest, serverVars, dataVars
  <2>1. CASE InboxInstalled
    BY <2>1 DEF InboxInstalled, Quiet, CleanUp, historyVars
  <2>2. CASE InboxReady
    BY <2>2 DEF InboxReady, Quiet, fileVars, historyVars
  <2>3. CASE InboxLost
    BY <2>3 DEF InboxLost, Quiet, Persist, CleanUp, historyVars
  <2>4. CASE InboxDone
    BY <2>4 DEF InboxDone, Quiet, Goto, fileVars, historyVars
  <2> HIDE DEF FirstRun, InSnapshot, Calls, Inner, Fields, HasFields, DataFields,
     RunFields, Returns, Installing, NoRequest, serverVars, dataVars
  <2> QED BY <1>1, <2>1, <2>2, <2>3, <2>4 DEF ResumeInbox
<1>2. CASE ResumeOutbox
  <2> USE DEF FirstRun, InSnapshot, Calls, Inner, Fields, HasFields, DataFields,
     RunFields, Returns, Installing, NoRequest, serverVars, dataVars
  <2>1. CASE OutboxCommitted
    BY <2>1 DEF OutboxCommitted, Quiet, fileVars, historyVars
  <2>2. CASE OutboxResent
    BY <2>2 DEF OutboxResent, Quiet, fileVars, historyVars
  <2>3. CASE OutboxAbandoned
    BY <2>3 DEF OutboxAbandoned, Quiet, Persist, Discarded, Queued, fileVars,
       historyVars
  <2>4. CASE OutboxDone
    BY <2>4 DEF OutboxDone, Quiet, Goto, BeginRenames, fileVars, historyVars
  <2> HIDE DEF FirstRun, InSnapshot, Calls, Inner, Fields, HasFields, DataFields,
     RunFields, Returns, Installing, NoRequest, serverVars, dataVars
  <2> QED BY <1>2, <2>1, <2>2, <2>3, <2>4 DEF ResumeOutbox
<1>3. CASE Reconcile
  <2> USE DEF FirstRun, InSnapshot, Calls, Inner, Fields, HasFields, DataFields,
     RunFields, Returns, Installing, NoRequest, serverVars, dataVars
  <2>1. CASE ReadSnapshot
    BY <2>1 DEF ReadSnapshot, Quiet, fileVars, historyVars
  <2>2. CASE PreserveLocal
    BY <2>2 DEF PreserveLocal, Quiet, EndRun, IdleRun, historyVars
  <2>3. CASE DiscardLocal
    BY <2>3 DEF DiscardLocal, Quiet, Return, EndRun, IdleRun, historyVars
  <2>4. CASE PreserveDone
    BY <2>4 DEF PreserveDone, Quiet, Goto, fileVars, historyVars
  <2>5. CASE MergeSnapshot
    BY <2>5 DEF MergeSnapshot, fileVars, historyVars
  <2>6. CASE MergeDone
    BY <2>6 DEF MergeDone, Quiet, Persist, BeginRenames, fileVars, historyVars
  <2> HIDE DEF FirstRun, InSnapshot, Calls, Inner, Fields, HasFields, DataFields,
     RunFields, Returns, Installing, NoRequest, serverVars, dataVars
  <2> QED BY <1>3, <2>1, <2>2, <2>3, <2>4, <2>5, <2>6 DEF Reconcile
<1>4. CASE Renames
  <2> USE DEF FirstRun, InSnapshot, Calls, Inner, Fields, HasFields, DataFields,
     RunFields, Returns, Installing, NoRequest, serverVars, dataVars
  <2>1. CASE RenameSkipped
    BY <2>1 DEF RenameSkipped, Quiet, fileVars, historyVars
  <2>2. CASE RenameStaged
    BY <2>2 DEF RenameStaged, Quiet, Stage, fileVars, historyVars, Persist
  <2>3. CASE RenamesDone
    BY <2>3 DEF RenamesDone, Quiet, Goto, fileVars, historyVars
  <2> HIDE DEF FirstRun, InSnapshot, Calls, Inner, Fields, HasFields, DataFields,
     RunFields, Returns, Installing, NoRequest, serverVars, dataVars
  <2> QED BY <1>4, <2>1, <2>2, <2>3 DEF Renames
<1>5. CASE Push
  <2> USE DEF FirstRun, InSnapshot, Calls, Inner, Fields, HasFields, DataFields,
     RunFields, Returns, Installing, NoRequest, serverVars, dataVars
  <2>1. CASE PlanFull
    BY <2>1 DEF PlanFull, Plan, Quiet, fileVars, historyVars
  <2>2. CASE PlanQueued
    BY <2>2 DEF PlanQueued, Plan, Quiet, fileVars, historyVars
  <2>3. CASE PushDone
    BY <2>3 DEF PushDone, Quiet, Stage, fileVars, historyVars, Persist
  <2>4. CASE DeletesDone
    BY <2>4 DEF DeletesDone, Quiet, fileVars, historyVars
  <2>5. ASSUME NEW p \in Paths, ScanPath(p) PROVE FirstRun'
    BY <2>5 DEF ScanPath, Quiet, fileVars, historyVars
  <2>6. ASSUME NEW p \in Paths, PushPath(p) PROVE FirstRun'
    BY <2>6 DEF PushPath, Quiet, Stage, Queued, Unnoted, fileVars, historyVars,
       Persist
  <2>7. ASSUME NEW p \in Paths, DeletePath(p) PROVE FirstRun'
    BY <2>7 DEF DeletePath, Quiet, Stage, fileVars, historyVars, Persist
  <2> HIDE DEF FirstRun, InSnapshot, Calls, Inner, Fields, HasFields, DataFields,
     RunFields, Returns, Installing, NoRequest, serverVars, dataVars
  <2> QED BY <1>5, <2>1, <2>2, <2>3, <2>4, <2>5, <2>6, <2>7 DEF Push
<1>6. CASE Answered
  <2> USE DEF FirstRun, InSnapshot, Calls, Inner, Fields, HasFields, DataFields,
     RunFields, Returns, Installing, NoRequest, serverVars, dataVars
  <2>1. CASE AnswerApplied
    BY <2>1, ZenonT(60) DEF AnswerApplied, Quiet, Goto, Return, Complete, Queued, fileVars,
       historyVars
  <2>2. CASE AnswerConflict
    BY <2>2 DEF AnswerConflict, Quiet, Persist, Discarded, fileVars, historyVars
  <2>3. CASE KeepRefused
    BY <2>3 DEF KeepRefused, Quiet, historyVars
  <2>4. CASE AnswerMoved
    BY <2>4 DEF AnswerMoved, Quiet, Goto, Complete, fileVars, historyVars
  <2>5. CASE AnswerMoveConflict
    BY <2>5 DEF AnswerMoveConflict, Quiet, Goto, Return, Discarded, Queued,
       fileVars, historyVars
  <2>6. CASE AnswerBatch
    BY <2>6 DEF AnswerBatch, Quiet, Complete, fileVars, historyVars
  <2>7. CASE AnswerBatchConflict
    BY <2>7 DEF AnswerBatchConflict, Quiet, Persist, Discarded, Queued, fileVars,
       historyVars
  <2> HIDE DEF FirstRun, InSnapshot, Calls, Inner, Fields, HasFields, DataFields,
     RunFields, Returns, Installing, NoRequest, serverVars, dataVars
  <2> QED BY <1>6, <2>1, <2>2, <2>3, <2>4, <2>5, <2>6, <2>7 DEF Answered
<1>7. CASE Apply
  <2>1. CASE RemoveLocal
    BY <2>1, FirstRunRemoveLocal
  <2> USE DEF FirstRun, InSnapshot, Calls, Inner, Fields, HasFields, DataFields,
     RunFields, Returns, Installing, NoRequest, serverVars, dataVars
  <2>2. CASE ApplyRemoteChange
    BY <2>2 DEF ApplyRemoteChange, Quiet, Goto, Return, StageDownload, Persist,
       historyVars
  <2>3. CASE Download
    BY <2>3 DEF Download, Quiet, Goto, historyVars
  <2>4. CASE SetAside
    BY <2>4 DEF SetAside, Quiet, Goto, historyVars
  <2>5. CASE SwapIn
    BY <2>5 DEF SwapIn, Quiet, Goto, EndRun, IdleRun, historyVars
  <2>6. CASE VerifyInstalled
    BY <2>6 DEF VerifyInstalled, Quiet, Goto, EndRun, IdleRun, historyVars
  <2>7. CASE FinishDownload
    BY <2>7 DEF FinishDownload, Quiet, Goto, fileVars, historyVars
  <2>8. CASE Save
    BY <2>8 DEF Save, Quiet, Return, fileVars, historyVars
  <2> HIDE DEF FirstRun, InSnapshot, Calls, Inner, Fields, HasFields, DataFields,
     RunFields, Returns, Installing, NoRequest, serverVars, dataVars
  <2> QED BY <1>7, <2>1, <2>2, <2>3, <2>4, <2>5, <2>6, <2>7, <2>8 DEF Apply
<1>8. CASE Pull
  <2> USE DEF FirstRun, InSnapshot, Calls, Inner, Fields, HasFields, DataFields,
     RunFields, Returns, Installing, NoRequest, serverVars, dataVars
  <2>1. CASE PullPage
    BY <2>1 DEF PullPage, Quiet, fileVars, historyVars
  <2>2. CASE PageChange
    BY <2>2 DEF PageChange, Quiet, fileVars, historyVars
  <2>3. CASE PageDone
    BY <2>3 DEF PageDone, Quiet, Persist, fileVars, historyVars
  <2>4. CASE Finish
    BY <2>4 DEF Finish, Quiet, Persist, Goto, fileVars, historyVars
  <2>5. CASE AckCursor
    BY <2>5 DEF AckCursor, Quiet, Goto, Acknowledge, fileVars, historyVars
  <2>6. CASE CompleteRun
    BY <2>6 DEF CompleteRun, Quiet, EndRun, fileVars, historyVars, IdleRun
  <2> HIDE DEF FirstRun, InSnapshot, Calls, Inner, Fields, HasFields, DataFields,
     RunFields, Returns, Installing, NoRequest, serverVars, dataVars
  <2> QED BY <1>8, <2>1, <2>2, <2>3, <2>4, <2>5, <2>6 DEF Pull
<1>9. ASSUME NEW p \in Paths, NEW content \in UserContents \cup {Absent},
   UserEdit(p, content) PROVE FirstRun'
  BY <1>9, FirstRunNoteEvents DEF UserEdit
<1>10. ASSUME NEW from \in Paths, NEW to \in Paths, UserRename(from, to) PROVE
   FirstRun'
  BY <1>10, FirstRunNoteEvents DEF UserRename
<1>11. CASE StartRun
  BY <1>11 DEF StartRun, FirstRun, InSnapshot, Calls, Inner, Fields, HasFields,
     DataFields, RunFields, Returns, Installing, NoRequest, serverVars, dataVars,
     Quiet, Goto, fileVars, historyVars
<1>12. CASE Send
  BY <1>12, FirstRunServer, Zenon DEF Send, Serve, Goto, dataVars
<1>13. CASE ServerMoves
  BY <1>13, FirstRunServer DEF ServerMoves, OtherCommit, Collect, dataVars
<1>14. CASE SaveEvents
  BY <1>14 DEF SaveEvents, FirstRun, InSnapshot, Calls, Inner, Fields, HasFields,
     DataFields, RunFields, Returns, Installing, NoRequest, serverVars, dataVars,
     Quiet, fileVars, historyVars
<1>15. CASE RunFails
  BY <1>15 DEF RunFails, FirstRun, InSnapshot, Calls, Inner, Fields, HasFields,
     DataFields, RunFields, Returns, Installing, NoRequest, serverVars, dataVars,
     EndRun, Spend, IdleRun
<1>16. CASE Crash
  BY <1>16 DEF Crash, FirstRun, InSnapshot, Calls, Inner, Fields, HasFields,
     DataFields, RunFields, Returns, Installing, NoRequest, serverVars, dataVars,
     IdleRun, Spend, fileVars, historyVars
<1>17. CASE Restart
  BY <1>17 DEF Restart, FirstRun, InSnapshot, Calls, Inner, Fields, HasFields,
     DataFields, RunFields, Returns, Installing, NoRequest, serverVars, dataVars,
     fileVars, historyVars
<1>18. CASE UNCHANGED vars
  BY <1>18 DEF FirstRun, InSnapshot, Calls, Inner, Fields, HasFields, DataFields,
     RunFields, Returns, Installing, NoRequest, serverVars, dataVars, vars,
     fileVars, historyVars
<1> QED BY <1>1, <1>2, <1>3, <1>4, <1>5, <1>6, <1>7, <1>8, <1>9, <1>10, <1>11, <1>12,
         <1>13, <1>14, <1>15, <1>16, <1>17, <1>18 DEF Next, Engine, User
-----------------------------------------------------------------------------
(* What may be recorded stays so.                                          *)

\* A step after which the device must know of what it had to know before.
KeepsDue == Grown /\ Due' = Due /\ mem'.cursor = mem.cursor

SoundsKept ==
    /\ \A v : Sound(v) => Sound(v)'
    /\ \A v : Rival(v) => Rival(v)'

DataKept ==
    answers' = answers =>
        \A d, e : /\ DataSound(d)
                  /\ e.files = d.files
                  /\ e.inbox \in {d.inbox, NoDownload}
                  /\ e.outbox = d.outbox
                  => DataSound(e)'

\* Such a step keeps the versions that may be recorded.
LEMMA SoundsAreKept == KeepsDue => SoundsKept
<1> SUFFICES ASSUME KeepsDue PROVE SoundsKept
  OBVIOUS
<1>1. /\ Due' = Due /\ Due \subseteq DOMAIN log
      /\ \A r \in DOMAIN log : log'[r] = log[r]
  BY DEF KeepsDue, Grown, Due
<1>2. ASSUME NEW v, Sound(v) PROVE Sound(v)'
  <2>1. Genuine(v.path, State(v))'
    BY <1>2 DEF Sound, KeepsDue, Grown, State
  <2>2. ASSUME NEW r \in Due, log[r].path = v.path PROVE Covers(State(v), r)'
    BY <1>1, <1>2, <2>2 DEF Sound, KeepsDue, Grown, State
  <2> QED BY <1>1, <2>1, <2>2 DEF Sound, State
<1>3. \A v : Rival(v) => Rival(v)'
  BY DEF KeepsDue, Grown
<1> QED BY <1>2, <1>3 DEF SoundsKept

\* And files that are sound, unless a result is dropped from the outbox.
LEMMA FilesAreKept ==
    ASSUME KeepsDue, NEW d, NEW e, FilesSound(d), e.files = d.files,
           \A p \in Paths : InOutbox(d, p) => InOutbox(e, p)'
    PROVE  FilesSound(e)'
<1>1. /\ Due' = Due /\ Due \subseteq DOMAIN log /\ mem'.cursor = mem.cursor
      /\ \A r \in DOMAIN log : log'[r] = log[r]
  BY DEF KeepsDue, Grown, Due
<1>2. ASSUME NEW p \in Paths PROVE e.files[p] = Untracked \/ Genuine(p, e.files[p])'
  <2>1. d.files[p] = Untracked \/ Genuine(p, d.files[p])
    BY DEF FilesSound
  <2> QED BY <2>1 DEF KeepsDue, Grown
<1>3. ASSUME NEW p \in Paths, NEW r \in Due, log[r].path = p
      PROVE  Covers(e.files[p], r)' \/ (r > mem.cursor /\ InOutbox(e, p)')
  <2>1. Covers(d.files[p], r) \/ (r > mem.cursor /\ InOutbox(d, p))
    BY <1>3 DEF FilesSound
  <2> QED BY <1>1, <2>1 DEF KeepsDue, Grown
<1> QED BY <1>1, <1>2, <1>3 DEF FilesSound, Untracked

\* So data of which only other parts have changed.
LEMMA DataIsKept == KeepsDue => DataKept
<1> SUFFICES ASSUME KeepsDue, answers' = answers, NEW d, NEW e, DataSound(d),
                    e.files = d.files, e.inbox \in {d.inbox, NoDownload}, e.outbox = d.outbox
             PROVE  DataSound(e)'
  BY DEF DataKept
<1>1. \A p \in Paths : InOutbox(d, p) => InOutbox(e, p)'
  BY DEF InOutbox, NoOperation
<1>2. FilesSound(e)'
  BY <1>1, FilesAreKept DEF DataSound
<1>3. SoundsKept
  BY SoundsAreKept
<1>4. BoxesSound(e)'
  BY <1>3 DEF DataSound, BoxesSound, SoundsKept, NoOperation, NoDownload
<1> QED BY <1>2, <1>4 DEF DataSound

\* Versions that may be recorded are, if they are those the outbox was about.
LEMMA RecordedSound ==
    ASSUME KeepsDue, FilesSound(mem), NEW vs, \A v \in vs : Sound(v),
           \A p \in Paths : InOutbox(mem, p) => \E v \in vs : v.path = p,
           NEW d, d.files = Recorded(vs)
    PROVE  FilesSound(d)'
<1>1. /\ Due' = Due /\ Due \subseteq DOMAIN log /\ mem'.cursor = mem.cursor
      /\ \A r \in DOMAIN log : log'[r] = log[r]
  BY DEF KeepsDue, Grown, Due
<1>2. \A v \in vs : Sound(v)'
  BY SoundsAreKept DEF SoundsKept
<1>3. ASSUME NEW p \in Paths
      PROVE  /\ d.files[p] = Untracked \/ Genuine(p, d.files[p])'
             /\ \A r \in Due : log[r].path = p => Covers(d.files[p], r)'
  <2>1. CASE \E v \in vs : v.path = p
    <3> DEFINE v == CHOOSE v \in vs : v.path = p
    <3>1. v \in vs /\ v.path = p
      BY <2>1
    <3>2. d.files[p] = State(v)
      BY <2>1 DEF Recorded, State
    <3> HIDE DEF v
    <3>3. Sound(v)'
      BY <1>2, <3>1
    <3>4. Genuine(p, State(v))' /\ \A r \in Due' : log'[r].path = p => Covers(State(v), r)'
      BY <3>1, <3>3 DEF Sound, State
    <3> QED BY <1>1, <3>2, <3>4
  <2>2. CASE ~\E v \in vs : v.path = p
    <3>1. d.files[p] = mem.files[p] /\ ~InOutbox(mem, p)
      BY <2>2 DEF Recorded
    <3>2. PICK s : s = mem.files[p]
      OBVIOUS
    <3>3. /\ s = Untracked \/ Genuine(p, s)
          /\ \A r \in Due : log[r].path = p => Covers(s, r)
      BY <3>1, <3>2 DEF FilesSound
    <3>4. s = Untracked \/ Genuine(p, s)'
      BY <3>3 DEF KeepsDue, Grown
    <3>5. \A r \in Due : log[r].path = p => Covers(s, r)'
      BY <1>1, <3>3 DEF KeepsDue, Grown
    <3> QED BY <3>1, <3>2, <3>4, <3>5
  <2> QED BY <2>1, <2>2
<1> QED BY <1>1, <1>3 DEF FilesSound, Untracked
-----------------------------------------------------------------------------
(* The cursor moves, and own changes are appended, in three steps only.    *)

\* The user's events leave the cursor alone.
LEMMA CursorNoteEvents ==
    ASSUME Base, NEW ps, NEW queue, NoteEvents(ps, queue)
    PROVE  PageDone \/ MergeDone \/ mem'.cursor = mem.cursor
BY Noted

\* No other step moves the cursor.
LEMMA CursorKept ==
    Base /\ Fields /\ [Next]_vars => PageDone \/ MergeDone \/ mem'.cursor = mem.cursor
<1> SUFFICES ASSUME Base, Fields, [Next]_vars PROVE PageDone \/ MergeDone \/
   mem'.cursor = mem.cursor
  OBVIOUS
<1>1. CASE ResumeInbox
  <2> USE DEF Fields, HasFields, DataFields
  <2>1. CASE InboxInstalled
    BY <2>1 DEF InboxInstalled, Quiet, NoRequest, dataVars, CleanUp, serverVars,
       historyVars
  <2>2. CASE InboxReady
    BY <2>2 DEF InboxReady, Quiet, NoRequest, dataVars, fileVars, serverVars,
       historyVars
  <2>3. CASE InboxLost
    BY <2>3 DEF InboxLost, Quiet, NoRequest, Persist, CleanUp, serverVars,
       historyVars
  <2>4. CASE InboxDone
    BY <2>4 DEF InboxDone, Quiet, NoRequest, Goto, dataVars, fileVars, serverVars,
       historyVars
  <2> HIDE DEF Fields, HasFields, DataFields
  <2> QED BY <1>1, <2>1, <2>2, <2>3, <2>4 DEF ResumeInbox
<1>2. CASE ResumeOutbox
  <2> USE DEF Fields, HasFields, DataFields
  <2>1. CASE OutboxCommitted
    BY <2>1 DEF OutboxCommitted, Quiet, dataVars, serverVars, fileVars, historyVars,
       NoRequest
  <2>2. CASE OutboxResent
    BY <2>2 DEF OutboxResent, Quiet, NoRequest, dataVars, fileVars, serverVars,
       historyVars
  <2>3. CASE OutboxAbandoned
    BY <2>3 DEF OutboxAbandoned, Quiet, NoRequest, Persist, Discarded, Queued,
       fileVars, dataVars, serverVars, historyVars
  <2>4. CASE OutboxDone
    BY <2>4 DEF OutboxDone, Quiet, NoRequest, Goto, BeginRenames, dataVars,
       fileVars, serverVars, historyVars
  <2> HIDE DEF Fields, HasFields, DataFields
  <2> QED BY <1>2, <2>1, <2>2, <2>3, <2>4 DEF ResumeOutbox
<1>3. CASE Reconcile
  <2>1. CASE MergeDone
    BY <2>1, Zenon
  <2> USE DEF Fields, HasFields, DataFields
  <2>2. CASE ReadSnapshot
    BY <2>2 DEF ReadSnapshot, Quiet, NoRequest, dataVars, fileVars, serverVars,
       historyVars
  <2>3. CASE PreserveLocal
    BY <2>3 DEF PreserveLocal, Quiet, EndRun, dataVars, serverVars, IdleRun,
       NoRequest, historyVars
  <2>4. CASE DiscardLocal
    BY <2>4 DEF DiscardLocal, Quiet, Return, EndRun, dataVars, serverVars, IdleRun,
       NoRequest, historyVars
  <2>5. CASE PreserveDone
    BY <2>5 DEF PreserveDone, Quiet, NoRequest, Goto, dataVars, fileVars,
       serverVars, historyVars
  <2>6. CASE MergeSnapshot
    BY <2>6 DEF MergeSnapshot, NoRequest, fileVars, dataVars, serverVars,
       historyVars
  <2> HIDE DEF Fields, HasFields, DataFields
  <2> QED BY <1>3, <2>1, <2>2, <2>3, <2>4, <2>5, <2>6 DEF Reconcile
<1>4. CASE Renames
  <2> USE DEF Fields, HasFields, DataFields
  <2>1. CASE RenameSkipped
    BY <2>1 DEF RenameSkipped, Quiet, NoRequest, fileVars, dataVars, serverVars,
       historyVars
  <2>2. CASE RenameStaged
    BY <2>2 DEF RenameStaged, Quiet, Stage, fileVars, dataVars, serverVars,
       historyVars, Persist, NoRequest
  <2>3. CASE RenamesDone
    BY <2>3 DEF RenamesDone, Quiet, NoRequest, Goto, fileVars, dataVars, serverVars,
       historyVars
  <2> HIDE DEF Fields, HasFields, DataFields
  <2> QED BY <1>4, <2>1, <2>2, <2>3 DEF Renames
<1>5. CASE Push
  <2> USE DEF Fields, HasFields, DataFields
  <2>1. CASE PlanFull
    BY <2>1 DEF PlanFull, Plan, Quiet, NoRequest, dataVars, fileVars, serverVars,
       historyVars
  <2>2. CASE PlanQueued
    BY <2>2 DEF PlanQueued, Plan, Quiet, NoRequest, dataVars, fileVars, serverVars,
       historyVars
  <2>3. CASE PushDone
    BY <2>3 DEF PushDone, Quiet, NoRequest, Stage, dataVars, fileVars, serverVars,
       historyVars, Persist
  <2>4. CASE DeletesDone
    BY <2>4 DEF DeletesDone, Quiet, NoRequest, fileVars, dataVars, serverVars,
       historyVars
  <2>5. ASSUME NEW p \in Paths, ScanPath(p) PROVE PageDone \/ MergeDone \/ mem'.cursor = mem.cursor
    BY <2>5 DEF ScanPath, Quiet, NoRequest, dataVars, fileVars, serverVars,
       historyVars
  <2>6. ASSUME NEW p \in Paths, PushPath(p) PROVE PageDone \/ MergeDone \/ mem'.cursor = mem.cursor
    BY <2>6 DEF PushPath, Quiet, NoRequest, Stage, Queued, Unnoted, fileVars,
       dataVars, serverVars, historyVars, Persist
  <2>7. ASSUME NEW p \in Paths, DeletePath(p) PROVE PageDone \/ MergeDone \/ mem'.cursor = mem.cursor
    BY <2>7 DEF DeletePath, Quiet, Stage, fileVars, dataVars, serverVars,
       historyVars, Persist, NoRequest
  <2> HIDE DEF Fields, HasFields, DataFields
  <2> QED BY <1>5, <2>1, <2>2, <2>3, <2>4, <2>5, <2>6, <2>7 DEF Push
<1>6. CASE Answered
  <2> USE DEF Fields, HasFields, DataFields
  <2>1. CASE AnswerApplied
    BY <2>1 DEF AnswerApplied, Quiet, Goto, Return, Complete, Queued, serverVars,
       fileVars, dataVars, historyVars, NoRequest
  <2>2. CASE AnswerConflict
    BY <2>2 DEF AnswerConflict, Quiet, Persist, Discarded, serverVars, fileVars,
       dataVars, historyVars, NoRequest
  <2>3. CASE KeepRefused
    BY <2>3 DEF KeepRefused, Quiet, NoRequest, dataVars, serverVars, historyVars
  <2>4. CASE AnswerMoved
    BY <2>4 DEF AnswerMoved, Quiet, Goto, Complete, serverVars, fileVars, dataVars,
       historyVars, NoRequest
  <2>5. CASE AnswerMoveConflict
    BY <2>5 DEF AnswerMoveConflict, Quiet, Goto, Return, Discarded, Queued,
       serverVars, fileVars, dataVars, historyVars, NoRequest
  <2>6. CASE AnswerBatch
    BY <2>6 DEF AnswerBatch, Quiet, Complete, serverVars, fileVars, dataVars,
       historyVars, NoRequest
  <2>7. CASE AnswerBatchConflict
    BY <2>7 DEF AnswerBatchConflict, Quiet, Persist, Discarded, Queued, serverVars,
       fileVars, dataVars, historyVars, NoRequest
  <2> HIDE DEF Fields, HasFields, DataFields
  <2> QED BY <1>6, <2>1, <2>2, <2>3, <2>4, <2>5, <2>6, <2>7 DEF Answered
<1>7. CASE Apply
  <2> USE DEF Fields, HasFields, DataFields
  <2>1. CASE ApplyRemoteChange
    BY <2>1 DEF ApplyRemoteChange, Quiet, NoRequest, Goto, Return, StageDownload,
       dataVars, Persist, serverVars, historyVars
  <2>2. CASE RemoveLocal
    BY <2>2 DEF RemoveLocal, Quiet, Return, EndRun, serverVars, IdleRun, NoRequest,
       historyVars
  <2>3. CASE Download
    BY <2>3 DEF Download, Quiet, NoRequest, Goto, serverVars, historyVars
  <2>4. CASE SetAside
    BY <2>4 DEF SetAside, Quiet, NoRequest, Goto, serverVars, historyVars
  <2>5. CASE SwapIn
    BY <2>5 DEF SwapIn, Quiet, Goto, EndRun, dataVars, serverVars, IdleRun,
       NoRequest, historyVars
  <2>6. CASE VerifyInstalled
    BY <2>6 DEF VerifyInstalled, Quiet, Goto, EndRun, dataVars, serverVars, IdleRun,
       NoRequest, historyVars
  <2>7. CASE FinishDownload
    BY <2>7 DEF FinishDownload, Quiet, NoRequest, Goto, fileVars, dataVars,
       serverVars, historyVars
  <2>8. CASE Save
    BY <2>8 DEF Save, Quiet, NoRequest, Return, fileVars, dataVars, serverVars,
       historyVars
  <2> HIDE DEF Fields, HasFields, DataFields
  <2> QED BY <1>7, <2>1, <2>2, <2>3, <2>4, <2>5, <2>6, <2>7, <2>8 DEF Apply
<1>8. CASE Pull
  <2>1. CASE PageDone
    BY <2>1, Zenon
  <2> USE DEF Fields, HasFields, DataFields
  <2>2. CASE PullPage
    BY <2>2 DEF PullPage, Quiet, NoRequest, dataVars, fileVars, serverVars,
       historyVars
  <2>3. CASE PageChange
    BY <2>3 DEF PageChange, Quiet, NoRequest, dataVars, fileVars, serverVars,
       historyVars
  <2>4. CASE Finish
    BY <2>4 DEF Finish, Quiet, NoRequest, Persist, Goto, fileVars, dataVars,
       serverVars, historyVars
  <2>5. CASE AckCursor
    BY <2>5 DEF AckCursor, Quiet, Goto, Acknowledge, dataVars, fileVars, serverVars,
       historyVars, NoRequest
  <2>6. CASE CompleteRun
    BY <2>6 DEF CompleteRun, Quiet, EndRun, serverVars, fileVars, dataVars,
       historyVars, IdleRun, NoRequest
  <2> HIDE DEF Fields, HasFields, DataFields
  <2> QED BY <1>8, <2>1, <2>2, <2>3, <2>4, <2>5, <2>6 DEF Pull
<1>9. ASSUME NEW p \in Paths, NEW content \in UserContents \cup {Absent},
   UserEdit(p, content) PROVE PageDone \/ MergeDone \/ mem'.cursor = mem.cursor
  BY <1>9, CursorNoteEvents DEF UserEdit
<1>10. ASSUME NEW from \in Paths, NEW to \in Paths, UserRename(from, to) PROVE
   PageDone \/ MergeDone \/ mem'.cursor = mem.cursor
  BY <1>10, CursorNoteEvents DEF UserRename
<1>11. CASE StartRun
  BY <1>11 DEF StartRun, Fields, HasFields, DataFields, Quiet, NoRequest, Goto,
     dataVars, fileVars, serverVars, historyVars
<1>12. CASE Send
  BY <1>12 DEF Send, Fields, HasFields, DataFields, Quiet, Goto, dataVars, fileVars,
     serverVars, historyVars, NoRequest
<1>13. CASE ServerMoves
  BY <1>13 DEF ServerMoves, Fields, HasFields, DataFields, Spend, dataVars,
     fileVars, serverVars, historyVars
<1>14. CASE SaveEvents
  BY <1>14 DEF SaveEvents, Fields, HasFields, DataFields, Quiet, NoRequest,
     fileVars, dataVars, serverVars, historyVars
<1>15. CASE RunFails
  BY <1>15 DEF RunFails, Fields, HasFields, DataFields, EndRun, Spend, serverVars,
     IdleRun
<1>16. CASE Crash
  BY <1>16, Zenon DEF Crash, Base, Position
<1>17. CASE Restart
  BY <1>17 DEF Restart, Fields, HasFields, DataFields, NoRequest, dataVars,
     fileVars, historyVars, serverVars
<1>18. CASE UNCHANGED vars
  BY <1>18 DEF Fields, HasFields, DataFields, vars, serverVars, fileVars, dataVars,
     historyVars
<1> QED BY <1>1, <1>2, <1>3, <1>4, <1>5, <1>6, <1>7, <1>8, <1>9, <1>10, <1>11, <1>12,
         <1>13, <1>14, <1>15, <1>16, <1>17, <1>18 DEF Next, Engine, User

\* And no other step than these and Send gives the device more to know of.
LEMMA DueKept == TypeInv /\ [Next]_vars => Send \/ PageDone \/ MergeDone \/ KeepsDue
<1> SUFFICES ASSUME TypeInv, [Next]_vars, ~Send, ~PageDone, ~MergeDone
             PROVE  KeepsDue
  OBVIOUS
<1>1. Base /\ Grown
  BY NextBase, GrownStep
<1>2. mem'.cursor = mem.cursor
  BY <1>1, CursorKept DEF Base
<1>3. /\ mem.cursor \in Nat /\ mem.cursor <= Len(log) /\ log \in Seq(Entry)
      /\ head \in [Paths -> Row]
  BY <1>1 DEF Base, Position, TypeOK
<1>4. ASSUME NEW r \in DOMAIN log', r \notin DOMAIN log
      PROVE  r > mem.cursor /\ ~log'[r].mine
  <2>1. CASE ServerMoves
    <3>1. log' = log \/ \E p \in Paths, c \in OtherContents \cup {Absent} : OtherCommit(p, c)
      BY <2>1 DEF ServerMoves, Collect
    <3>2. PICK p \in Paths, c \in OtherContents \cup {Absent} : OtherCommit(p, c)
      BY <1>4, <3>1
    <3> DEFINE e == [path |-> p, content |-> c, mine |-> FALSE]
    <3>3. <<e>> \in Seq(Entry) /\ AppendEntries(<<e>>)
      BY <3>2, OtherEntry DEF OtherCommit
    <3> HIDE DEF e
    <3>4. /\ Len(log') = Len(log) + 1 /\ log'[Len(log) + 1] = e
      <4>1. PICK new : new = <<e>> /\ Len(new) = 1 /\ new[1] = e /\ new \in Seq(Entry)
        BY <3>3
      <4>2. /\ Len(log') = Len(log) + Len(new)
            /\ \A i \in 1..Len(new) : log'[Len(log) + i] = new[i]
        BY <1>3, <3>3, <4>1, Appended
      <4>3. 1 \in 1..Len(new)
        BY <4>1
      <4> QED BY <4>1, <4>2, <4>3
    <3>5. r = Len(log) + 1
      BY <1>1, <1>4, <3>4 DEF Grown
    <3> QED BY <1>1, <1>3, <3>4, <3>5 DEF e, Grown
  <2>2. CASE log' = log
    BY <1>4, <2>2
  <2> QED BY <2>1, <2>2, LogQuiet DEF AckCursor, Acknowledge
<1>5. \A r \in DOMAIN log : r \in DOMAIN log' /\ log'[r] = log[r]
  BY <1>1 DEF Grown
<1>6. ASSUME NEW r \in Due PROVE r \in Due'
  BY <1>2, <1>5 DEF Due
<1>7. ASSUME NEW r \in Due' PROVE r \in Due
  <2>1. r \in DOMAIN log' /\ (r <= mem.cursor \/ log'[r].mine) /\ r \in Int
    BY <1>1, <1>2 DEF Due, Grown
  <2>2. r \in DOMAIN log
    BY <1>3, <1>4, <2>1
  <2> QED BY <1>5, <2>1, <2>2 DEF Due
<1> QED BY <1>1, <1>2, <1>6, <1>7 DEF KeepsDue
-----------------------------------------------------------------------------
(* The record stays sound.                                                 *)

RecordsSound == DataSound(mem) /\ DataSound(saved)

\* What may lie in the boxes of a record.
BoxesFine(e) ==
    /\ e.inbox = NoDownload \/ Sound(e.inbox)
    /\ \/ e.outbox = NoOperation
       \/ answers'[e.outbox.id].kind # "ok"
       \/ \A v \in answers'[e.outbox.id].versions : Sound(v)

\* A record whose files are as they were, unless a result was in the outbox.
LEMMA DataUnrecorded ==
    ASSUME KeepsDue, RecordsSound,
           mem.outbox = NoOperation \/ answers[mem.outbox.id].kind # "ok",
           NEW e, e.files = mem.files, BoxesFine(e)
    PROVE  DataSound(e)'
<1>1. FilesSound(e)'
  <2>1. FilesSound(mem) /\ \A p \in Paths : ~InOutbox(mem, p)
    BY DEF RecordsSound, DataSound, InOutbox
  <2> QED BY <2>1, FilesAreKept
<1>2. BoxesSound(e)'
  BY SoundsAreKept DEF BoxesFine, BoxesSound, SoundsKept, NoOperation, NoDownload
<1> QED BY <1>1, <1>2 DEF DataSound

\* A record in which versions were recorded, those of the outbox among them.
LEMMA DataRecorded ==
    ASSUME KeepsDue, RecordsSound, NEW vs, \A v \in vs : Sound(v),
           \/ mem.outbox = NoOperation
           \/ answers[mem.outbox.id].versions = vs,
           NEW e, e.files = Recorded(vs), BoxesFine(e)
    PROVE  DataSound(e)'
<1>1. FilesSound(e)'
  <2>1. FilesSound(mem) /\ \A p \in Paths : InOutbox(mem, p) => \E v \in vs : v.path = p
    BY DEF RecordsSound, DataSound, InOutbox
  <2> QED BY <2>1, RecordedSound
<1>2. BoxesSound(e)'
  BY SoundsAreKept DEF BoxesFine, BoxesSound, SoundsKept, NoOperation, NoDownload
<1> QED BY <1>1, <1>2 DEF DataSound

\* ApplyRemoteChange records the change or puts it into the inbox.
LEMMA RecordsApplyRemoteChange ==
    ASSUME Base, KeepsDue, Boxes, Live, RecordsSound, ApplyRemoteChange
    PROVE  RecordsSound'
<1>1. /\ mem.inbox = NoDownload /\ mem.outbox = NoOperation /\ Sound(run.change)
      /\ HasFields(mem, DataFields) /\ answers' = answers
  BY DEF ApplyRemoteChange, Boxes, Installing, Live, InHand, Applying, Base, Fields, NoRequest,
     serverVars
<1>2. DataKept
  BY DataIsKept
<1>3. CASE mem' = [mem EXCEPT !.files = Recorded({run.change})] /\ saved' = saved
  <2>1. /\ mem'.files = Recorded({run.change})
        /\ mem'.inbox = NoDownload /\ mem'.outbox = NoOperation
    BY <1>1, <1>3 DEF HasFields, DataFields
  <2>2. DataSound(mem)'
    BY <1>1, <2>1, DataRecorded DEF BoxesFine
  <2> QED BY <1>1, <1>2, <1>3, <2>2 DEF RecordsSound, DataKept
<1>4. CASE UNCHANGED dataVars
  BY <1>1, <1>2, <1>4 DEF RecordsSound, DataKept, dataVars
<1>5. CASE StageDownload(run.change)
  <2>1. /\ mem'.files = mem.files /\ mem'.inbox = run.change /\ mem'.outbox = NoOperation
        /\ saved' = mem'
    BY <1>1, <1>5 DEF StageDownload, Persist, HasFields, DataFields
  <2>2. DataSound(mem)'
    BY <1>1, <2>1, DataUnrecorded DEF BoxesFine
  <2> QED BY <2>1, <2>2 DEF RecordsSound
<1> QED BY <1>3, <1>4, <1>5 DEF ApplyRemoteChange

\* RemoveLocal records it, or the run ends.
LEMMA RecordsRemoveLocal ==
    ASSUME Base, KeepsDue, Boxes, Live, RecordsSound, RemoveLocal
    PROVE  RecordsSound'
<1>1. /\ mem.inbox = NoDownload /\ mem.outbox = NoOperation /\ Sound(run.change)
      /\ HasFields(mem, DataFields) /\ answers' = answers
  BY DEF RemoveLocal, Boxes, Installing, Live, InHand, Applying, Base, Fields, serverVars
<1>2. DataKept
  BY DataIsKept
<1>3. CASE mem' = [mem EXCEPT !.files = Recorded({run.change})] /\ saved' = saved
  <2>1. /\ mem'.files = Recorded({run.change})
        /\ mem'.inbox = NoDownload /\ mem'.outbox = NoOperation
    BY <1>1, <1>3 DEF HasFields, DataFields
  <2>2. DataSound(mem)'
    BY <1>1, <2>1, DataRecorded DEF BoxesFine
  <2> QED BY <1>1, <1>2, <1>3, <2>2 DEF RecordsSound, DataKept
<1>4. CASE EndRun
  BY <1>1, <1>2, <1>4 DEF RecordsSound, DataKept, EndRun
<1> QED BY <1>3, <1>4, Zenon DEF RemoveLocal

\* FinishDownload records it, in memory as on disk.
LEMMA RecordsFinishDownload ==
    ASSUME Base, KeepsDue, Boxes, Live, RecordsSound, FinishDownload
    PROVE  RecordsSound'
<1>1. /\ mem.outbox = NoOperation /\ Sound(run.change) /\ HasFields(mem, DataFields)
      /\ mem.inbox # NoDownload => Sound(mem.inbox)
  BY DEF FinishDownload, Boxes, Live, InHand, Applying, Installing, Base, Fields,
     RecordsSound, DataSound, BoxesSound
<1>2. /\ mem'.files = Recorded({run.change}) /\ mem'.inbox = NoDownload
      /\ mem'.outbox = NoOperation
      /\ saved'.files = Recorded({run.change}) /\ saved'.inbox = mem.inbox
      /\ saved'.outbox = NoOperation
  BY <1>1 DEF FinishDownload, HasFields, DataFields
<1>3. BoxesFine(mem') /\ BoxesFine(saved')
  BY <1>1, <1>2 DEF BoxesFine
<1>4. DataSound(mem)' /\ DataSound(saved)'
  BY <1>1, <1>2, <1>3, DataRecorded
<1> QED BY <1>4 DEF RecordsSound

\* What is recorded when an operation has succeeded.
LEMMA RecordsCompleted ==
    ASSUME Base, KeepsDue, Boxes, Live, RecordsSound, pc = "answer", reply.kind = "ok",
           answers' = answers,
           mem'.files = Recorded(reply.versions), saved'.files = mem'.files,
           mem'.inbox = mem.inbox, saved'.inbox = mem.inbox,
           mem'.outbox = NoOperation, saved'.outbox = mem.outbox
    PROVE  RecordsSound'
<1>1. /\ mem.inbox = NoDownload /\ reply = answers[mem.outbox.id]
      /\ \A v \in reply.versions : Sound(v)
  BY DEF Boxes, Installing, Live
<1>2. BoxesFine(mem') /\ BoxesFine(saved')
  BY <1>1 DEF BoxesFine
<1>3. DataSound(mem)' /\ DataSound(saved)'
  BY <1>1, <1>2, DataRecorded
<1> QED BY <1>3 DEF RecordsSound

LEMMA RecordsAnswerApplied ==
    ASSUME Base, KeepsDue, Boxes, Live, RecordsSound, AnswerApplied
    PROVE  RecordsSound'
<1>1. /\ pc = "answer" /\ reply.kind = "ok" /\ answers' = answers
      /\ HasFields(mem, DataFields)
  BY DEF AnswerApplied, serverVars, Base, Fields
<1>2. /\ mem'.files = Recorded(reply.versions) /\ saved'.files = mem'.files
      /\ mem'.inbox = mem.inbox /\ saved'.inbox = mem.inbox
      /\ mem'.outbox = NoOperation /\ saved'.outbox = mem.outbox
  <2>1. CASE Recovering
    BY <1>1, <2>1 DEF AnswerApplied, Complete, HasFields, DataFields
  <2>2. CASE ~Recovering
    BY <1>1, <2>2 DEF AnswerApplied, Complete, HasFields, DataFields
  <2> QED BY <2>1, <2>2
<1> QED BY <1>1, <1>2, RecordsCompleted

LEMMA RecordsAnswerMoved ==
    ASSUME Base, KeepsDue, Boxes, Live, RecordsSound, AnswerMoved
    PROVE  RecordsSound'
<1>1. /\ pc = "answer" /\ reply.kind = "ok" /\ answers' = answers
      /\ HasFields(mem, DataFields)
  BY DEF AnswerMoved, serverVars, Base, Fields
<1>2. /\ mem'.files = Recorded(reply.versions) /\ saved'.files = mem'.files
      /\ mem'.inbox = mem.inbox /\ saved'.inbox = mem.inbox
      /\ mem'.outbox = NoOperation /\ saved'.outbox = mem.outbox
  BY <1>1 DEF AnswerMoved, Complete, HasFields, DataFields
<1> QED BY <1>1, <1>2, RecordsCompleted

LEMMA RecordsAnswerBatch ==
    ASSUME Base, KeepsDue, Boxes, Live, RecordsSound, AnswerBatch
    PROVE  RecordsSound'
<1>1. /\ pc = "answer" /\ reply.kind = "ok" /\ answers' = answers
      /\ HasFields(mem, DataFields)
  BY DEF AnswerBatch, serverVars, Base, Fields
<1>2. /\ mem'.files = Recorded(reply.versions) /\ saved'.files = mem'.files
      /\ mem'.inbox = mem.inbox /\ saved'.inbox = mem.inbox
      /\ mem'.outbox = NoOperation /\ saved'.outbox = mem.outbox
  BY <1>1 DEF AnswerBatch, Complete, HasFields, DataFields
<1> QED BY <1>1, <1>2, RecordsCompleted

\* An operation that the server does not know leaves the record as it is.
LEMMA RecordsDiscarded ==
    ASSUME KeepsDue, RecordsSound, answers[mem.outbox.id] = NoReply, mem.inbox = NoDownload,
           mem'.files = mem.files, saved'.files = mem.files,
           mem'.inbox = mem.inbox, saved'.inbox = mem.inbox,
           mem'.outbox = NoOperation, saved'.outbox = NoOperation
    PROVE  RecordsSound'
<1>1. BoxesFine(mem') /\ BoxesFine(saved') /\ answers[mem.outbox.id].kind # "ok"
  BY DEF BoxesFine, NoReply
<1>2. DataSound(mem)' /\ DataSound(saved)'
  BY <1>1, DataUnrecorded
<1> QED BY <1>2 DEF RecordsSound

LEMMA RecordsConflict ==
    ASSUME Base, KeepsDue, Boxes, RecordsSound,
           AnswerConflict \/ AnswerMoveConflict \/ AnswerBatchConflict \/ OutboxAbandoned
    PROVE  RecordsSound'
<1>1. /\ answers[mem.outbox.id] = NoReply /\ mem.inbox = NoDownload
      /\ HasFields(mem, DataFields)
  BY DEF AnswerConflict, AnswerMoveConflict, AnswerBatchConflict, OutboxAbandoned, Committed,
     Boxes, Installing, Base, Fields
<1>2. Discarded.files = mem.files /\ Discarded.inbox = mem.inbox /\ Discarded.outbox = NoOperation
      /\ HasFields(Discarded, DataFields)
  BY <1>1 DEF Discarded, HasFields, DataFields
<1> DEFINE After(d) == d.files = mem.files /\ d.inbox = mem.inbox /\ d.outbox = NoOperation
<1>3. \A ps : After([Discarded EXCEPT !.pending = ps])
  BY <1>2 DEF HasFields, DataFields
<1>4. \A q : After([Discarded EXCEPT !.renames = q])
  BY <1>2 DEF HasFields, DataFields
<1>5. After(Discarded)
  BY <1>2
<1>6. CASE AnswerConflict
  BY <1>1, <1>5, <1>6, RecordsDiscarded DEF AnswerConflict, Persist
<1>7. CASE AnswerMoveConflict
  <2>1. /\ saved' = Discarded
        /\ \/ \E ps : mem' = [Discarded EXCEPT !.pending = ps]
           \/ \E q : mem' = [Discarded EXCEPT !.renames = q]
    <3>1. CASE Recovering
      BY <1>7, <3>1, Zenon DEF AnswerMoveConflict
    <3>2. CASE ~Recovering
      <4>1. mem' = [Discarded EXCEPT !.renames = Tail(@)] /\ saved' = Discarded
        BY <1>7, <3>2, Zenon DEF AnswerMoveConflict
      <4> QED BY <4>1
    <3> QED BY <3>1, <3>2
  <2>2. After(mem')
    BY <1>3, <1>4, <2>1
  <2> QED BY <1>1, <1>5, <2>1, <2>2, RecordsDiscarded
<1>8. CASE AnswerBatchConflict
  <2>1. saved' = mem' /\ (mem' = Discarded \/ \E ps : mem' = [Discarded EXCEPT !.pending = ps])
    <3>1. CASE Recovering
      BY <1>8, <3>1, Zenon DEF AnswerBatchConflict, Persist
    <3>2. CASE ~Recovering
      BY <1>8, <3>2, Zenon DEF AnswerBatchConflict, Persist
    <3> QED BY <3>1, <3>2
  <2>2. After(mem')
    BY <1>3, <1>5, <2>1
  <2> QED BY <1>1, <2>1, <2>2, RecordsDiscarded
<1>9. CASE OutboxAbandoned
  <2>1. saved' = mem' /\ (\E ps : mem' = [Discarded EXCEPT !.pending = ps])
    BY <1>9, Zenon DEF OutboxAbandoned, Persist
  <2>2. After(mem')
    BY <1>3, <2>1
  <2> QED BY <1>1, <2>1, <2>2, RecordsDiscarded
<1> QED BY <1>6, <1>7, <1>8, <1>9

\* A staged request has no result.
LEMMA RecordsStaged ==
    ASSUME Base, KeepsDue, RecordsSound, mem.outbox = NoOperation, mem.inbox = NoDownload,
           NEW q, Stage(q)
    PROVE  RecordsSound'
<1>1. HasFields(mem, DataFields)
  BY DEF Base, Fields
<1>2. /\ mem'.outbox = [id |-> FreshId, request |-> q] /\ mem'.inbox = NoDownload
      /\ mem'.files = mem.files /\ saved' = mem'
  BY <1>1 DEF Stage, Persist, HasFields, DataFields
<1>3. FreshId \in OpIds
  BY DEF FreshId, OpIds, Base, Shape, SoundData
<1>4. answers'[FreshId] = NoReply
  BY <1>3 DEF Stage, Base, TypeOK
<1>5. BoxesFine(mem')
  BY <1>2, <1>4 DEF BoxesFine, NoReply
<1>6. DataSound(mem)'
  BY <1>2, <1>5, DataUnrecorded
<1> QED BY <1>2, <1>6 DEF RecordsSound

LEMMA RecordsPushPath ==
    ASSUME Base, KeepsDue, Boxes, RecordsSound, NEW p \in Paths, PushPath(p)
    PROVE  RecordsSound'
<1>1. mem.inbox = NoDownload /\ mem.outbox = NoOperation /\ pc = "push"
  BY DEF PushPath, Boxes, Installing
<1>2. CASE \E q : Stage(q)
  BY <1>1, <1>2, RecordsStaged
<1>3. CASE ~\E q : Stage(q)
  <2>1. /\ mem' = IF disk[p] = Absent THEN mem ELSE [mem EXCEPT !.pending = Queued({p})]
        /\ NoRequest /\ UNCHANGED <<saved, pc>>
    BY <1>3, Zenon DEF PushPath
  <2>2. mem'.files = mem.files /\ mem'.inbox = mem.inbox /\ mem'.outbox = mem.outbox
    BY <2>1 DEF Base, Fields, HasFields, DataFields
  <2> QED BY <2>1, <2>2, DataIsKept DEF RecordsSound, DataKept, NoRequest, serverVars
<1> QED BY <1>2, <1>3

LEMMA RecordsPushDone ==
    ASSUME Base, KeepsDue, Boxes, RecordsSound, PushDone
    PROVE  RecordsSound'
<1>1. mem.inbox = NoDownload /\ mem.outbox = NoOperation /\ pc = "push"
  BY DEF PushDone, Boxes, Installing
<1>2. CASE \E q : Stage(q)
  BY <1>1, <1>2, RecordsStaged
<1>3. CASE ~\E q : Stage(q)
  <2>1. UNCHANGED dataVars /\ NoRequest
    BY <1>3, Zenon DEF PushDone
  <2> QED BY <2>1, DataIsKept DEF RecordsSound, DataKept, dataVars, NoRequest, serverVars
<1> QED BY <1>2, <1>3

\* Other devices and the collector leave the record alone.
LEMMA RecordsServerMoves == ASSUME KeepsDue, RecordsSound, ServerMoves PROVE RecordsSound'
<1>1. answers' = answers /\ UNCHANGED <<mem, saved>>
  BY DEF ServerMoves, OtherCommit, Collect, dataVars
<1> QED BY <1>1, DataIsKept DEF RecordsSound, DataKept

\* So do the user's events.
LEMMA RecordsNoteEvents ==
    ASSUME Base, KeepsDue, RecordsSound, NEW ps, NEW queue, NoteEvents(ps, queue), NoRequest,
           UNCHANGED saved
    PROVE  RecordsSound'
BY Noted, DataIsKept DEF RecordsSound, DataKept, NoRequest, serverVars

\* A recorded revision of a path is one of the log.
LEMMA RecordedRevision ==
    ASSUME Base, FilesSound(mem), NEW p \in Paths
    PROVE  /\ mem.files[p].rev \in Nat
           /\ mem.files[p].rev # 0 =>
                /\ mem.files[p].rev \in DOMAIN log /\ log[mem.files[p].rev].path = p
                /\ Tracked(p)
<1>1. mem.files[p] \in FileState \cup {Untracked}
  BY DEF Base, TypeOK, Data
<1>2. mem.files[p] = Untracked \/ Genuine(p, mem.files[p])
  BY DEF FilesSound
<1> QED BY <1>1, <1>2 DEF FileState, Untracked, Genuine, NoRow, Tracked

\* What a page or a snapshot has for a path that is not recorded.
LEMMA NewerSound ==
    ASSUME Base, Boxes, FilesSound(mem), mem.outbox = NoOperation,
           NEW r \in DOMAIN log, ack < r,
           ~(Tracked(log[r].path) /\ mem.files[log[r].path].rev >= r)
    PROVE  /\ ~log[r].mine
           /\ \A s \in Due : log[s].path = log[r].path => s <= r \/ s <= ack
<1> DEFINE p == log[r].path
           f == mem.files[p]
<1>1. /\ log \in Seq(Entry) /\ r \in 1..Len(log) /\ Len(log) \in Nat
      /\ ack \in Nat /\ DOMAIN log = 1..Len(log)
  BY DEF Base, TypeOK
<1>2. p \in Paths
  <2>1. log[r] \in Entry
    BY <1>1
  <2> QED BY <2>1 DEF Entry
<1>3. f.rev \in Nat /\ (f.rev # 0 => Tracked(p))
  BY <1>2, RecordedRevision
<1>4. f.rev < r
  BY <1>1, <1>3
<1>5. ~InOutbox(mem, p)
  BY DEF InOutbox
<1>6. ASSUME NEW s \in Due, log[s].path = p PROVE s <= f.rev \/ s <= ack
  BY <1>2, <1>5, <1>6 DEF FilesSound, Covers
<1>7. r \notin Due
  <2>1. r <= f.rev \/ r <= ack \/ r \notin Due
    BY <1>6
  <2> QED BY <1>1, <1>3, <1>4, <2>1
<1>8. ~log[r].mine
  BY <1>7 DEF Due
<1>9. ASSUME NEW s \in Due, log[s].path = p PROVE s <= r \/ s <= ack
  <2>1. s \in Int
    BY <1>1 DEF Due
  <2> QED BY <1>1, <1>3, <1>4, <1>6, <1>9, <2>1
<1> QED BY <1>8, <1>9

\* A logged version that is not recorded may be, and is of another device.
LEMMA LoggedSound ==
    ASSUME Base, Boxes, FilesSound(mem), mem.outbox = NoOperation,
           NEW r \in DOMAIN log, ack < r,
           ~(Tracked(log[r].path) /\ mem.files[log[r].path].rev >= r)
    PROVE  Sound(Logged(r)) /\ Rival(Logged(r))
<1>1. r \in Int /\ ack \in Int /\ \A s \in Due : s \in Int
  BY DEF Base, TypeOK, Due
<1>2. /\ Logged(r).path = log[r].path /\ Logged(r).rev = r
      /\ Logged(r).content = log[r].content
  BY DEF Logged
<1>3. ~log[r].mine /\ \A s \in Due : log[s].path = log[r].path => s <= r \/ s <= ack
  BY NewerSound
<1>4. \A s \in Due : log[s].path = log[r].path => s <= r
  BY <1>1, <1>3
<1> QED BY <1>2, <1>3, <1>4 DEF Sound, Rival, State, Genuine, Covers

\* So the versions that a page or a snapshot has due.
LEMMA PageSound ==
    ASSUME Base, Boxes, FilesSound(mem), PageProgress, pc = "page", NEW r \in PageDue
    PROVE  Sound(Logged(r)) /\ Rival(Logged(r))
<1>1. /\ mem.outbox = NoOperation /\ ack < r /\ r \in DOMAIN log
  <2>1. r \in (run.at + 1)..run.upto /\ mem.cursor <= run.at /\ run.at \in Nat
    BY DEF PageDue, PageProgress, Base, TypeOK, Run
  <2>2. ack <= mem.cursor /\ run.upto <= Len(log) /\ log \in Seq(Entry)
        /\ ack \in Nat /\ mem.cursor \in Nat /\ run.upto \in Nat /\ Len(log) \in Nat
    BY DEF Base, Position, TypeOK, Loops
  <2>3. mem.outbox = NoOperation
    BY DEF Boxes
  <2> QED BY <2>1, <2>2, <2>3
<1> QED BY <1>1, LoggedSound DEF PageDue

LEMMA SnapshotSound ==
    ASSUME Base, Boxes, FirstRun, FilesSound(mem), pc = "merge", NEW p \in MergeDue
    PROVE  Sound(SnapshotVersion(p)) /\ Rival(SnapshotVersion(p))
<1> DEFINE r == SnapshotVersion(p).rev
<1>1. /\ SnapshotVersion(p) = Logged(r) /\ r \in 1..run.upto /\ log[r].path = p
  BY SnapshotVersionType DEF MergeDue, Base, Logged
<1>2. ~(Tracked(p) /\ mem.files[p].rev >= r)
  BY DEF MergeDue
<1> HIDE DEF r
<1>3. mem.outbox = NoOperation /\ ack = 0
  BY DEF Boxes, FirstRun, InSnapshot
<1>4. ack < r /\ r \in DOMAIN log
  <2>1. run.upto <= Len(log) /\ log \in Seq(Entry) /\ run.upto \in Nat /\ Len(log) \in Nat
    BY DEF Base, Position, TypeOK, Loops
  <2> QED BY <1>1, <1>3, <2>1
<1> QED BY <1>1, <1>2, <1>3, <1>4, LoggedSound

\* MergeSnapshot records the versions of the snapshot, or has one applied.
LEMMA RecordsMergeSnapshot ==
    ASSUME Base, KeepsDue, Boxes, FirstRun, RecordsSound, MergeSnapshot
    PROVE  RecordsSound'
<1>1. /\ pc = "merge" /\ mem.inbox = NoDownload /\ mem.outbox = NoOperation
      /\ HasFields(mem, DataFields) /\ answers' = answers /\ saved' = saved
      /\ FilesSound(mem)
  BY DEF MergeSnapshot, Boxes, Installing, Base, Fields, NoRequest, serverVars, RecordsSound,
     DataSound
<1>2. DataKept
  BY DataIsKept
<1>3. CASE mem.mode = "local"
  <2> DEFINE vs == {SnapshotVersion(p) : p \in MergeDue}
  <2>1. mem' = [mem EXCEPT !.files = Recorded(vs)]
    BY <1>3, Zenon DEF MergeSnapshot
  <2>2. \A v \in vs : Sound(v)
    BY <1>1, SnapshotSound
  <2> HIDE DEF vs
  <2>3. mem'.files = Recorded(vs) /\ mem'.inbox = NoDownload /\ mem'.outbox = NoOperation
    BY <1>1, <2>1 DEF HasFields, DataFields
  <2>4. DataSound(mem)'
    BY <1>1, <2>2, <2>3, DataRecorded DEF BoxesFine
  <2> QED BY <1>1, <1>2, <2>4 DEF RecordsSound, DataKept
<1>4. CASE mem.mode # "local"
  <2>1. mem' = mem
    BY <1>4, Zenon DEF MergeSnapshot
  <2> QED BY <1>1, <1>2, <2>1 DEF RecordsSound, DataKept
<1> QED BY <1>3, <1>4

-----------------------------------------------------------------------------
(* Every step keeps the record and what is in hand sound.                  *)

\* The record.
LEMMA RecordsStep ==
    Base /\ Fields /\ Boxes /\ FirstRun /\ Live /\ RecordsSound /\ KeepsDue /\ DataKept /\ [Next]_vars => Send \/ PageDone \/ MergeDone \/ RecordsSound'
<1> SUFFICES ASSUME Base, Fields, Boxes, FirstRun, Live, RecordsSound, KeepsDue,
   DataKept, [Next]_vars PROVE Send \/ PageDone \/ MergeDone \/ RecordsSound'
  OBVIOUS
<1>1. CASE ResumeInbox
  <2> USE DEF RecordsSound, DataKept, Boxes, Fields, HasFields, DataFields,
     RunFields, Returns, Installing, NoRequest, serverVars, dataVars
  <2>1. CASE InboxInstalled
    BY <2>1 DEF InboxInstalled, Quiet, CleanUp, historyVars
  <2>2. CASE InboxReady
    BY <2>2 DEF InboxReady, Quiet, fileVars, historyVars
  <2>3. CASE InboxLost
    BY <2>3 DEF InboxLost, Quiet, Persist, CleanUp, historyVars
  <2>4. CASE InboxDone
    BY <2>4 DEF InboxDone, Quiet, Goto, fileVars, historyVars
  <2> HIDE DEF RecordsSound, DataKept, Boxes, Fields, HasFields, DataFields,
     RunFields, Returns, Installing, NoRequest, serverVars, dataVars
  <2> QED BY <1>1, <2>1, <2>2, <2>3, <2>4 DEF ResumeInbox
<1>2. CASE ResumeOutbox
  <2>1. CASE OutboxAbandoned
    BY <2>1, RecordsConflict
  <2> USE DEF RecordsSound, DataKept, Boxes, Fields, HasFields, DataFields,
     RunFields, Returns, Installing, NoRequest, serverVars, dataVars
  <2>2. CASE OutboxCommitted
    BY <2>2 DEF OutboxCommitted, Quiet, fileVars, historyVars
  <2>3. CASE OutboxResent
    BY <2>3 DEF OutboxResent, Quiet, fileVars, historyVars
  <2>4. CASE OutboxDone
    BY <2>4 DEF OutboxDone, Quiet, Goto, BeginRenames, fileVars, historyVars
  <2> HIDE DEF RecordsSound, DataKept, Boxes, Fields, HasFields, DataFields,
     RunFields, Returns, Installing, NoRequest, serverVars, dataVars
  <2> QED BY <1>2, <2>1, <2>2, <2>3, <2>4 DEF ResumeOutbox
<1>3. CASE Reconcile
  <2>1. CASE MergeSnapshot
    BY <2>1, RecordsMergeSnapshot
  <2>2. CASE MergeDone
    BY <2>2, Zenon
  <2> USE DEF RecordsSound, DataKept, Boxes, Fields, HasFields, DataFields,
     RunFields, Returns, Installing, NoRequest, serverVars, dataVars
  <2>3. CASE ReadSnapshot
    BY <2>3 DEF ReadSnapshot, Quiet, fileVars, historyVars
  <2>4. CASE PreserveLocal
    BY <2>4 DEF PreserveLocal, Quiet, EndRun, IdleRun, historyVars
  <2>5. CASE DiscardLocal
    BY <2>5 DEF DiscardLocal, Quiet, Return, EndRun, IdleRun, historyVars
  <2>6. CASE PreserveDone
    BY <2>6 DEF PreserveDone, Quiet, Goto, fileVars, historyVars
  <2> HIDE DEF RecordsSound, DataKept, Boxes, Fields, HasFields, DataFields,
     RunFields, Returns, Installing, NoRequest, serverVars, dataVars
  <2> QED BY <1>3, <2>1, <2>2, <2>3, <2>4, <2>5, <2>6 DEF Reconcile
<1>4. CASE Renames
  <2>1. CASE RenameStaged
    BY <2>1, RecordsStaged DEF RenameStaged, Boxes, Installing
  <2> USE DEF RecordsSound, DataKept, Boxes, Fields, HasFields, DataFields,
     RunFields, Returns, Installing, NoRequest, serverVars, dataVars
  <2>2. CASE RenameSkipped
    BY <2>2 DEF RenameSkipped, Quiet, fileVars, historyVars
  <2>3. CASE RenamesDone
    BY <2>3 DEF RenamesDone, Quiet, Goto, fileVars, historyVars
  <2> HIDE DEF RecordsSound, DataKept, Boxes, Fields, HasFields, DataFields,
     RunFields, Returns, Installing, NoRequest, serverVars, dataVars
  <2> QED BY <1>4, <2>1, <2>2, <2>3 DEF Renames
<1>5. CASE Push
  <2>1. CASE PushDone
    BY <2>1, RecordsPushDone
  <2>2. ASSUME NEW p \in Paths, PushPath(p) PROVE Send \/ PageDone \/ MergeDone \/ RecordsSound'
    BY <2>2, RecordsPushPath
  <2>3. ASSUME NEW p \in Paths, DeletePath(p) PROVE Send \/ PageDone \/ MergeDone \/ RecordsSound'
    BY <2>3, RecordsStaged DEF DeletePath, Boxes, Installing
  <2> USE DEF RecordsSound, DataKept, Boxes, Fields, HasFields, DataFields,
     RunFields, Returns, Installing, NoRequest, serverVars, dataVars
  <2>4. CASE PlanFull
    BY <2>4 DEF PlanFull, Plan, Quiet, fileVars, historyVars
  <2>5. CASE PlanQueued
    BY <2>5 DEF PlanQueued, Plan, Quiet, fileVars, historyVars
  <2>6. CASE DeletesDone
    BY <2>6 DEF DeletesDone, Quiet, fileVars, historyVars
  <2>7. ASSUME NEW p \in Paths, ScanPath(p) PROVE Send \/ PageDone \/ MergeDone \/ RecordsSound'
    BY <2>7 DEF ScanPath, Quiet, fileVars, historyVars
  <2> HIDE DEF RecordsSound, DataKept, Boxes, Fields, HasFields, DataFields,
     RunFields, Returns, Installing, NoRequest, serverVars, dataVars
  <2> QED BY <1>5, <2>1, <2>2, <2>3, <2>4, <2>5, <2>6, <2>7 DEF Push
<1>6. CASE Answered
  <2>1. CASE AnswerApplied
    BY <2>1, RecordsAnswerApplied
  <2>2. CASE AnswerConflict
    BY <2>2, RecordsConflict
  <2>3. CASE AnswerMoved
    BY <2>3, RecordsAnswerMoved
  <2>4. CASE AnswerMoveConflict
    BY <2>4, RecordsConflict
  <2>5. CASE AnswerBatch
    BY <2>5, RecordsAnswerBatch
  <2>6. CASE AnswerBatchConflict
    BY <2>6, RecordsConflict
  <2> USE DEF RecordsSound, DataKept, Boxes, Fields, HasFields, DataFields,
     RunFields, Returns, Installing, NoRequest, serverVars, dataVars
  <2>7. CASE KeepRefused
    BY <2>7 DEF KeepRefused, Quiet, historyVars
  <2> HIDE DEF RecordsSound, DataKept, Boxes, Fields, HasFields, DataFields,
     RunFields, Returns, Installing, NoRequest, serverVars, dataVars
  <2> QED BY <1>6, <2>1, <2>2, <2>3, <2>4, <2>5, <2>6, <2>7 DEF Answered
<1>7. CASE Apply
  <2>1. CASE ApplyRemoteChange
    BY <2>1, RecordsApplyRemoteChange
  <2>2. CASE RemoveLocal
    BY <2>2, RecordsRemoveLocal
  <2>3. CASE FinishDownload
    BY <2>3, RecordsFinishDownload
  <2> USE DEF RecordsSound, DataKept, Boxes, Fields, HasFields, DataFields,
     RunFields, Returns, Installing, NoRequest, serverVars, dataVars
  <2>4. CASE Download
    BY <2>4 DEF Download, Quiet, Goto, historyVars
  <2>5. CASE SetAside
    BY <2>5 DEF SetAside, Quiet, Goto, historyVars
  <2>6. CASE SwapIn
    BY <2>6 DEF SwapIn, Quiet, Goto, EndRun, IdleRun, historyVars
  <2>7. CASE VerifyInstalled
    BY <2>7 DEF VerifyInstalled, Quiet, Goto, EndRun, IdleRun, historyVars
  <2>8. CASE Save
    BY <2>8 DEF Save, Quiet, Return, fileVars, historyVars
  <2> HIDE DEF RecordsSound, DataKept, Boxes, Fields, HasFields, DataFields,
     RunFields, Returns, Installing, NoRequest, serverVars, dataVars
  <2> QED BY <1>7, <2>1, <2>2, <2>3, <2>4, <2>5, <2>6, <2>7, <2>8 DEF Apply
<1>8. CASE Pull
  <2>1. CASE PageDone
    BY <2>1, Zenon
  <2> USE DEF RecordsSound, DataKept, Boxes, Fields, HasFields, DataFields,
     RunFields, Returns, Installing, NoRequest, serverVars, dataVars
  <2>2. CASE PullPage
    BY <2>2 DEF PullPage, Quiet, fileVars, historyVars
  <2>3. CASE PageChange
    BY <2>3 DEF PageChange, Quiet, fileVars, historyVars
  <2>4. CASE Finish
    BY <2>4 DEF Finish, Quiet, Persist, Goto, fileVars, historyVars
  <2>5. CASE AckCursor
    BY <2>5 DEF AckCursor, Quiet, Goto, Acknowledge, fileVars, historyVars
  <2>6. CASE CompleteRun
    BY <2>6 DEF CompleteRun, Quiet, EndRun, fileVars, historyVars, IdleRun
  <2> HIDE DEF RecordsSound, DataKept, Boxes, Fields, HasFields, DataFields,
     RunFields, Returns, Installing, NoRequest, serverVars, dataVars
  <2> QED BY <1>8, <2>1, <2>2, <2>3, <2>4, <2>5, <2>6 DEF Pull
<1>9. ASSUME NEW p \in Paths, NEW content \in UserContents \cup {Absent},
   UserEdit(p, content) PROVE Send \/ PageDone \/ MergeDone \/ RecordsSound'
  BY <1>9, RecordsNoteEvents DEF UserEdit
<1>10. ASSUME NEW from \in Paths, NEW to \in Paths, UserRename(from, to) PROVE Send
   \/ PageDone \/ MergeDone \/ RecordsSound'
  BY <1>10, RecordsNoteEvents DEF UserRename
<1>11. CASE StartRun
  BY <1>11 DEF StartRun, RecordsSound, DataKept, Boxes, Fields, HasFields,
     DataFields, RunFields, Returns, Installing, NoRequest, serverVars, dataVars,
     Quiet, Goto, fileVars, historyVars
<1>12. CASE Send
  BY <1>12, Zenon
<1>13. CASE ServerMoves
  BY <1>13, RecordsServerMoves
<1>14. CASE SaveEvents
  BY <1>14 DEF SaveEvents, RecordsSound, DataKept, Boxes, Fields, HasFields,
     DataFields, RunFields, Returns, Installing, NoRequest, serverVars, dataVars,
     Quiet, fileVars, historyVars
<1>15. CASE RunFails
  BY <1>15 DEF RunFails, RecordsSound, DataKept, Boxes, Fields, HasFields,
     DataFields, RunFields, Returns, Installing, NoRequest, serverVars, dataVars,
     EndRun, Spend, IdleRun
<1>16. CASE Crash
  BY <1>16 DEF Crash, RecordsSound, DataKept, Boxes, Fields, HasFields, DataFields,
     RunFields, Returns, Installing, NoRequest, serverVars, dataVars, IdleRun,
     Spend, fileVars, historyVars
<1>17. CASE Restart
  BY <1>17 DEF Restart, RecordsSound, DataKept, Boxes, Fields, HasFields,
     DataFields, RunFields, Returns, Installing, NoRequest, serverVars, dataVars,
     fileVars, historyVars
<1>18. CASE UNCHANGED vars
  BY <1>18 DEF RecordsSound, DataKept, Boxes, Fields, HasFields, DataFields,
     RunFields, Returns, Installing, NoRequest, serverVars, dataVars, vars,
     fileVars, historyVars
<1> QED BY <1>1, <1>2, <1>3, <1>4, <1>5, <1>6, <1>7, <1>8, <1>9, <1>10, <1>11, <1>12,
         <1>13, <1>14, <1>15, <1>16, <1>17, <1>18 DEF Next, Engine, User

\* InboxInstalled and InboxReady take the download for the change.
LEMMA LiveInbox ==
    ASSUME Base, SoundsKept, RecordsSound, InboxInstalled \/ InboxReady
    PROVE  Live'
<1>1. Sound(mem.inbox)
  BY DEF RecordsSound, DataSound, BoxesSound, InboxInstalled, InboxReady
<1>2. run'.change = mem.inbox /\ pc' \in {"record", "install"}
  BY DEF InboxInstalled, InboxReady, Base, Fields, HasFields, RunFields
<1> QED BY <1>1, <1>2 DEF Live, SoundsKept

\* AnswerConflict takes the version that the server has named.
LEMMA LiveAnswerConflict == ASSUME Base, SoundsKept, Live, AnswerConflict PROVE Live'
<1> DEFINE current == CHOOSE v \in reply.versions : TRUE
<1>1. current \in reply.versions
  BY ConflictVersion DEF Base, AnswerConflict
<1>2. run'.change = current /\ pc' \in {"apply", "refused"}
  BY DEF AnswerConflict, Base, Fields, HasFields, RunFields
<1> HIDE DEF current
<1>3. Sound(current)
  BY <1>1 DEF Live, AnswerConflict
<1> QED BY <1>2, <1>3 DEF Live, SoundsKept

\* OutboxCommitted finds the result that the server has kept.
LEMMA LiveOutboxCommitted ==
    ASSUME Base, SoundsKept, RecordsSound, OutboxCommitted
    PROVE  Live'
<1>1. mem.outbox # NoOperation /\ answers[mem.outbox.id] # NoReply /\ mem.outbox.id \in OpIds
  BY DEF OutboxCommitted, Committed, Base, Shape, SoundData
<1>2. answers[mem.outbox.id].kind = "ok"
  BY <1>1 DEF Base, TypeOK, Replies, Reply
<1>3. \A v \in answers[mem.outbox.id].versions : Sound(v)
  BY <1>1, <1>2 DEF RecordsSound, DataSound, BoxesSound
<1>4. pc' = "answer" /\ reply' = answers[mem.outbox.id]
  BY DEF OutboxCommitted
<1> QED BY <1>3, <1>4 DEF Live, SoundsKept, InHand, Applying, Installing

\* PageChange takes a version of the page.
LEMMA LivePageChange ==
    ASSUME Base, SoundsKept, Boxes, RecordsSound, PageProgress, PageChange
    PROVE  Live'
<1> DEFINE r == Min(PageDue)
<1>1. r \in PageDue
  BY PageDueTypes DEF PageChange, Base
<1>2. run'.change = Logged(r) /\ pc' = "apply"
  BY DEF PageChange, Base, Fields, HasFields, RunFields
<1> HIDE DEF r
<1>3. Sound(Logged(r))
  BY <1>1, PageSound DEF RecordsSound, DataSound, PageChange
<1> QED BY <1>2, <1>3 DEF Live, SoundsKept

\* MergeSnapshot takes one of the snapshot, or records them all.
LEMMA LiveMergeSnapshot ==
    ASSUME Base, SoundsKept, Boxes, FirstRun, RecordsSound, MergeSnapshot
    PROVE  Live'
<1>1. pc = "merge" /\ FilesSound(mem)
  BY DEF MergeSnapshot, RecordsSound, DataSound
<1>2. CASE mem.mode = "local"
  <2>1. UNCHANGED <<pc, run>>
    BY <1>2, Zenon DEF MergeSnapshot
  <2> QED BY <1>1, <2>1 DEF Live, InHand, Applying, Installing
<1>3. CASE mem.mode # "local"
  <2>1. PICK p \in MergeDue : run' = [run EXCEPT !.todo = @ \ {p},
                                        !.change = SnapshotVersion(p), !.ret = "merge"]
    BY <1>3, Zenon DEF MergeSnapshot
  <2>2. run'.change = SnapshotVersion(p)
    BY <2>1 DEF Base, Fields, HasFields, RunFields
  <2>3. pc' = "apply"
    BY <1>3, Zenon DEF MergeSnapshot
  <2>4. Sound(SnapshotVersion(p))
    BY <1>1, SnapshotSound
  <2> QED BY <2>2, <2>3, <2>4 DEF Live, SoundsKept
<1> QED BY <1>2, <1>3

\* The user's events leave the change alone.
LEMMA LiveNoteEvents ==
    ASSUME Base, SoundsKept, Live, NEW ps, NEW queue, NoteEvents(ps, queue), UNCHANGED <<pc, reply>>
    PROVE  Live'
BY Noted DEF Live, SoundsKept

\* What is in hand.
LEMMA LiveStep ==
    Base /\ Fields /\ Calls /\ Boxes /\ FirstRun /\ RecordsSound /\ PageProgress /\ SoundsKept /\ Live /\ [Next]_vars => Send \/ PageDone \/ MergeDone \/ Live'
<1> SUFFICES ASSUME Base, Fields, Calls, Boxes, FirstRun, RecordsSound,
   PageProgress, SoundsKept, Live, [Next]_vars PROVE Send \/ PageDone \/ MergeDone
   \/ Live'
  OBVIOUS
<1>1. CASE ResumeInbox
  <2>1. CASE InboxInstalled
    BY <2>1, LiveInbox
  <2>2. CASE InboxReady
    BY <2>2, LiveInbox
  <2> USE DEF Live, SoundsKept, Fields, HasFields, DataFields, RunFields, Returns,
     Calls, Inner, Appliers, Requesters, InHand, Applying, Installing, NoRequest,
     serverVars, dataVars
  <2>3. CASE InboxLost
    BY <2>3 DEF InboxLost, Quiet, Persist, CleanUp, historyVars
  <2>4. CASE InboxDone
    BY <2>4 DEF InboxDone, Quiet, Goto, fileVars, historyVars
  <2> HIDE DEF Live, SoundsKept, Fields, HasFields, DataFields, RunFields, Returns,
     Calls, Inner, Appliers, Requesters, InHand, Applying, Installing, NoRequest,
     serverVars, dataVars
  <2> QED BY <1>1, <2>1, <2>2, <2>3, <2>4 DEF ResumeInbox
<1>2. CASE ResumeOutbox
  <2>1. CASE OutboxCommitted
    BY <2>1, LiveOutboxCommitted
  <2> USE DEF Live, SoundsKept, Fields, HasFields, DataFields, RunFields, Returns,
     Calls, Inner, Appliers, Requesters, InHand, Applying, Installing, NoRequest,
     serverVars, dataVars
  <2>2. CASE OutboxResent
    BY <2>2 DEF OutboxResent, Quiet, fileVars, historyVars
  <2>3. CASE OutboxAbandoned
    BY <2>3 DEF OutboxAbandoned, Quiet, Persist, Discarded, Queued, fileVars,
       historyVars
  <2>4. CASE OutboxDone
    BY <2>4 DEF OutboxDone, Quiet, Goto, BeginRenames, fileVars, historyVars
  <2> HIDE DEF Live, SoundsKept, Fields, HasFields, DataFields, RunFields, Returns,
     Calls, Inner, Appliers, Requesters, InHand, Applying, Installing, NoRequest,
     serverVars, dataVars
  <2> QED BY <1>2, <2>1, <2>2, <2>3, <2>4 DEF ResumeOutbox
<1>3. CASE Reconcile
  <2>1. CASE MergeSnapshot
    BY <2>1, LiveMergeSnapshot
  <2>2. CASE MergeDone
    BY <2>2, Zenon
  <2> USE DEF Live, SoundsKept, Fields, HasFields, DataFields, RunFields, Returns,
     Calls, Inner, Appliers, Requesters, InHand, Applying, Installing, NoRequest,
     serverVars, dataVars
  <2>3. CASE ReadSnapshot
    BY <2>3 DEF ReadSnapshot, Quiet, fileVars, historyVars
  <2>4. CASE PreserveLocal
    BY <2>4 DEF PreserveLocal, Quiet, EndRun, IdleRun, historyVars
  <2>5. CASE DiscardLocal
    BY <2>5 DEF DiscardLocal, Quiet, Return, EndRun, IdleRun, historyVars
  <2>6. CASE PreserveDone
    BY <2>6 DEF PreserveDone, Quiet, Goto, fileVars, historyVars
  <2> HIDE DEF Live, SoundsKept, Fields, HasFields, DataFields, RunFields, Returns,
     Calls, Inner, Appliers, Requesters, InHand, Applying, Installing, NoRequest,
     serverVars, dataVars
  <2> QED BY <1>3, <2>1, <2>2, <2>3, <2>4, <2>5, <2>6 DEF Reconcile
<1>4. CASE Renames
  <2> USE DEF Live, SoundsKept, Fields, HasFields, DataFields, RunFields, Returns,
     Calls, Inner, Appliers, Requesters, InHand, Applying, Installing, NoRequest,
     serverVars, dataVars
  <2>1. CASE RenameSkipped
    BY <2>1 DEF RenameSkipped, Quiet, fileVars, historyVars
  <2>2. CASE RenameStaged
    BY <2>2 DEF RenameStaged, Quiet, Stage, fileVars, historyVars, Persist
  <2>3. CASE RenamesDone
    BY <2>3 DEF RenamesDone, Quiet, Goto, fileVars, historyVars
  <2> HIDE DEF Live, SoundsKept, Fields, HasFields, DataFields, RunFields, Returns,
     Calls, Inner, Appliers, Requesters, InHand, Applying, Installing, NoRequest,
     serverVars, dataVars
  <2> QED BY <1>4, <2>1, <2>2, <2>3 DEF Renames
<1>5. CASE Push
  <2> USE DEF Live, SoundsKept, Fields, HasFields, DataFields, RunFields, Returns,
     Calls, Inner, Appliers, Requesters, InHand, Applying, Installing, NoRequest,
     serverVars, dataVars
  <2>1. CASE PlanFull
    BY <2>1 DEF PlanFull, Plan, Quiet, fileVars, historyVars
  <2>2. CASE PlanQueued
    BY <2>2 DEF PlanQueued, Plan, Quiet, fileVars, historyVars
  <2>3. CASE PushDone
    BY <2>3 DEF PushDone, Quiet, Stage, fileVars, historyVars, Persist
  <2>4. CASE DeletesDone
    BY <2>4 DEF DeletesDone, Quiet, fileVars, historyVars
  <2>5. ASSUME NEW p \in Paths, ScanPath(p) PROVE Send \/ PageDone \/ MergeDone \/ Live'
    BY <2>5 DEF ScanPath, Quiet, fileVars, historyVars
  <2>6. ASSUME NEW p \in Paths, PushPath(p) PROVE Send \/ PageDone \/ MergeDone \/ Live'
    BY <2>6 DEF PushPath, Quiet, Stage, Queued, Unnoted, fileVars, historyVars,
       Persist
  <2>7. ASSUME NEW p \in Paths, DeletePath(p) PROVE Send \/ PageDone \/ MergeDone \/ Live'
    BY <2>7 DEF DeletePath, Quiet, Stage, fileVars, historyVars, Persist
  <2> HIDE DEF Live, SoundsKept, Fields, HasFields, DataFields, RunFields, Returns,
     Calls, Inner, Appliers, Requesters, InHand, Applying, Installing, NoRequest,
     serverVars, dataVars
  <2> QED BY <1>5, <2>1, <2>2, <2>3, <2>4, <2>5, <2>6, <2>7 DEF Push
<1>6. CASE Answered
  <2>1. CASE AnswerConflict
    BY <2>1, LiveAnswerConflict
  <2> USE DEF Live, SoundsKept, Fields, HasFields, DataFields, RunFields, Returns,
     Calls, Inner, Appliers, Requesters, InHand, Applying, Installing, NoRequest,
     serverVars, dataVars
  <2>2. CASE AnswerApplied
    BY <2>2 DEF AnswerApplied, Quiet, Goto, Return, Complete, Queued, fileVars,
       historyVars
  <2>3. CASE KeepRefused
    BY <2>3 DEF KeepRefused, Quiet, historyVars
  <2>4. CASE AnswerMoved
    BY <2>4 DEF AnswerMoved, Quiet, Goto, Complete, fileVars, historyVars
  <2>5. CASE AnswerMoveConflict
    BY <2>5 DEF AnswerMoveConflict, Quiet, Goto, Return, Discarded, Queued,
       fileVars, historyVars
  <2>6. CASE AnswerBatch
    BY <2>6 DEF AnswerBatch, Quiet, Complete, fileVars, historyVars
  <2>7. CASE AnswerBatchConflict
    BY <2>7 DEF AnswerBatchConflict, Quiet, Persist, Discarded, Queued, fileVars,
       historyVars
  <2> HIDE DEF Live, SoundsKept, Fields, HasFields, DataFields, RunFields, Returns,
     Calls, Inner, Appliers, Requesters, InHand, Applying, Installing, NoRequest,
     serverVars, dataVars
  <2> QED BY <1>6, <2>1, <2>2, <2>3, <2>4, <2>5, <2>6, <2>7 DEF Answered
<1>7. CASE Apply
  <2> USE DEF Live, SoundsKept, Fields, HasFields, DataFields, RunFields, Returns,
     Calls, Inner, Appliers, Requesters, InHand, Applying, Installing, NoRequest,
     serverVars, dataVars
  <2>1. CASE ApplyRemoteChange
    BY <2>1 DEF ApplyRemoteChange, Quiet, Goto, Return, StageDownload, Persist,
       historyVars
  <2>2. CASE RemoveLocal
    BY <2>2 DEF RemoveLocal, Quiet, Return, EndRun, IdleRun, historyVars
  <2>3. CASE Download
    BY <2>3 DEF Download, Quiet, Goto, historyVars
  <2>4. CASE SetAside
    BY <2>4 DEF SetAside, Quiet, Goto, historyVars
  <2>5. CASE SwapIn
    BY <2>5 DEF SwapIn, Quiet, Goto, EndRun, IdleRun, historyVars
  <2>6. CASE VerifyInstalled
    BY <2>6 DEF VerifyInstalled, Quiet, Goto, EndRun, IdleRun, historyVars
  <2>7. CASE FinishDownload
    BY <2>7 DEF FinishDownload, Quiet, Goto, fileVars, historyVars
  <2>8. CASE Save
    BY <2>8 DEF Save, Quiet, Return, fileVars, historyVars
  <2> HIDE DEF Live, SoundsKept, Fields, HasFields, DataFields, RunFields, Returns,
     Calls, Inner, Appliers, Requesters, InHand, Applying, Installing, NoRequest,
     serverVars, dataVars
  <2> QED BY <1>7, <2>1, <2>2, <2>3, <2>4, <2>5, <2>6, <2>7, <2>8 DEF Apply
<1>8. CASE Pull
  <2>1. CASE PageChange
    BY <2>1, LivePageChange
  <2>2. CASE PageDone
    BY <2>2, Zenon
  <2> USE DEF Live, SoundsKept, Fields, HasFields, DataFields, RunFields, Returns,
     Calls, Inner, Appliers, Requesters, InHand, Applying, Installing, NoRequest,
     serverVars, dataVars
  <2>3. CASE PullPage
    BY <2>3 DEF PullPage, Quiet, fileVars, historyVars
  <2>4. CASE Finish
    BY <2>4 DEF Finish, Quiet, Persist, Goto, fileVars, historyVars
  <2>5. CASE AckCursor
    BY <2>5 DEF AckCursor, Quiet, Goto, Acknowledge, fileVars, historyVars
  <2>6. CASE CompleteRun
    BY <2>6 DEF CompleteRun, Quiet, EndRun, fileVars, historyVars, IdleRun
  <2> HIDE DEF Live, SoundsKept, Fields, HasFields, DataFields, RunFields, Returns,
     Calls, Inner, Appliers, Requesters, InHand, Applying, Installing, NoRequest,
     serverVars, dataVars
  <2> QED BY <1>8, <2>1, <2>2, <2>3, <2>4, <2>5, <2>6 DEF Pull
<1>9. ASSUME NEW p \in Paths, NEW content \in UserContents \cup {Absent},
   UserEdit(p, content) PROVE Send \/ PageDone \/ MergeDone \/ Live'
  BY <1>9, LiveNoteEvents DEF UserEdit, NoRequest
<1>10. ASSUME NEW from \in Paths, NEW to \in Paths, UserRename(from, to) PROVE Send
   \/ PageDone \/ MergeDone \/ Live'
  BY <1>10, LiveNoteEvents DEF UserRename, NoRequest
<1>11. CASE StartRun
  BY <1>11 DEF StartRun, Live, SoundsKept, Fields, HasFields, DataFields, RunFields,
     Returns, Calls, Inner, Appliers, Requesters, InHand, Applying, Installing,
     NoRequest, serverVars, dataVars, Quiet, Goto, fileVars, historyVars
<1>12. CASE Send
  BY <1>12, Zenon
<1>13. CASE ServerMoves
  BY <1>13 DEF ServerMoves, Live, SoundsKept, Fields, HasFields, DataFields,
     RunFields, Returns, Calls, Inner, Appliers, Requesters, InHand, Applying,
     Installing, NoRequest, serverVars, dataVars, Spend, fileVars, historyVars
<1>14. CASE SaveEvents
  BY <1>14 DEF SaveEvents, Live, SoundsKept, Fields, HasFields, DataFields,
     RunFields, Returns, Calls, Inner, Appliers, Requesters, InHand, Applying,
     Installing, NoRequest, serverVars, dataVars, Quiet, fileVars, historyVars
<1>15. CASE RunFails
  BY <1>15 DEF RunFails, Live, SoundsKept, Fields, HasFields, DataFields, RunFields,
     Returns, Calls, Inner, Appliers, Requesters, InHand, Applying, Installing,
     NoRequest, serverVars, dataVars, EndRun, Spend, IdleRun
<1>16. CASE Crash
  BY <1>16 DEF Crash, Live, SoundsKept, Fields, HasFields, DataFields, RunFields,
     Returns, Calls, Inner, Appliers, Requesters, InHand, Applying, Installing,
     NoRequest, serverVars, dataVars, IdleRun, Spend, fileVars, historyVars
<1>17. CASE Restart
  BY <1>17 DEF Restart, Live, SoundsKept, Fields, HasFields, DataFields, RunFields,
     Returns, Calls, Inner, Appliers, Requesters, InHand, Applying, Installing,
     NoRequest, serverVars, dataVars, fileVars, historyVars
<1>18. CASE UNCHANGED vars
  BY <1>18 DEF Live, SoundsKept, Fields, HasFields, DataFields, RunFields, Returns,
     Calls, Inner, Appliers, Requesters, InHand, Applying, Installing, NoRequest,
     serverVars, dataVars, vars, fileVars, historyVars
<1> QED BY <1>1, <1>2, <1>3, <1>4, <1>5, <1>6, <1>7, <1>8, <1>9, <1>10, <1>11, <1>12,
         <1>13, <1>14, <1>15, <1>16, <1>17, <1>18 DEF Next, Engine, User
-----------------------------------------------------------------------------
(* What of a page and of a snapshot has been recorded.                     *)

\* A revision that is covered stays covered while the files are what they were.
LEMMA CoveredKept ==
    ASSUME Base, Grown, mem'.files = mem.files, NEW r \in DOMAIN log, Covered(r)
    PROVE  Covered(r)'
<1>1. PICK s : s = mem.files[log[r].path]
  OBVIOUS
<1>2. Covers(s, r)'
  BY <1>1 DEF Covered, Grown
<1>3. log'[r] = log[r]
  BY DEF Grown
<1> QED BY <1>1, <1>2, <1>3 DEF Covered

\* So it does when versions are recorded, unless one of its path is older.
LEMMA CoveredRecorded ==
    ASSUME Base, Grown, NEW vs, mem'.files = Recorded(vs), NEW r \in DOMAIN log,
           \/ \E v \in vs : v.path = log[r].path
           \/ Covered(r),
           \A v \in vs : v.path = log[r].path => r <= v.rev
    PROVE  Covered(r)'
<1> DEFINE p == log[r].path
<1>1. log'[r].path = p
  BY DEF Grown
<1>2. p \in Paths
  <2>1. log[r] \in Entry
    BY DEF Base, TypeOK
  <2> QED BY <2>1 DEF Entry
<1>3. CASE \E v \in vs : v.path = p
  <2> DEFINE v == CHOOSE v \in vs : v.path = p
  <2>1. v \in vs /\ v.path = p
    BY <1>3
  <2>2. mem'.files[p] = [rev |-> v.rev, content |-> v.content]
    BY <1>2, <1>3 DEF Recorded
  <2> HIDE DEF v
  <2>3. r <= mem'.files[p].rev
    BY <2>1, <2>2
  <2> QED BY <1>1, <2>3 DEF Covered, Covers
<1>4. CASE ~\E v \in vs : v.path = p
  <2>1. PICK s : s = mem.files[p]
    OBVIOUS
  <2>2. mem'.files[p] = s
    BY <1>2, <1>4, <2>1 DEF Recorded
  <2>3. Covers(s, r)'
    BY <1>4, <2>1 DEF Covered, Grown
  <2> QED BY <1>1, <2>2, <2>3 DEF Covered
<1> QED BY <1>3, <1>4

\* Where the run is in no page.
LEMMA PageElsewhere == ASSUME pc' # "page", run'.ret # "page" PROVE PageProgress'
BY DEF PageProgress

InPage == pc = "page" \/ run.ret = "page"

\* The revisions of the page are in the log.
LEMMA PageInLog ==
    ASSUME Base, PageProgress, InPage
    PROVE  \A r \in 1..run.at : r \in DOMAIN log
<1>1. run.at <= run.upto /\ run.upto <= Len(log) /\ log \in Seq(Entry)
  BY DEF PageProgress, InPage, Base, Position, Loops, TypeOK
<1>2. run.at \in Nat /\ run.upto \in Nat /\ Len(log) \in Nat /\ DOMAIN log = 1..Len(log)
  BY <1>1 DEF Base, RunTypes
<1> QED BY <1>1, <1>2

\* A step on which the change in hand is still in hand, or never was.
LEMMA PageKept ==
    ASSUME Base, Grown, PageProgress, mem'.files = mem.files, mem'.cursor = mem.cursor,
           InPage' => InPage, run'.at = run.at, run'.upto = run.upto,
           pc' \in InHand <=> pc \in InHand, pc' \in InHand => run'.change = run.change
    PROVE  PageProgress'
<1> SUFFICES ASSUME InPage' PROVE PageProgress'
  BY DEF InPage, PageProgress
<1>1. \A r \in 1..run.at : r \in DOMAIN log
  BY PageInLog
<1>2. ASSUME NEW r \in 1..run.at, Covered(r) PROVE Covered(r)'
  BY <1>1, <1>2, CoveredKept
<1>3. Logged(run.at)' = Logged(run.at) \/ run.at \notin DOMAIN log
  BY DEF Logged, Grown
<1>4. /\ mem.cursor <= run.at /\ run.at <= run.upto
      /\ \A r \in 1..run.at : Covered(r) \/ (pc \in InHand /\ r = run.at)
      /\ pc \in InHand => run.change = Logged(run.at) /\ run.at \in DOMAIN log
  BY DEF PageProgress, InPage
<1>5. run.at \in DOMAIN log => run.at \in DOMAIN log'
  BY DEF Grown
<1> QED BY <1>2, <1>3, <1>4, <1>5 DEF PageProgress

\* A step that records the change in hand.
LEMMA PageRecorded ==
    ASSUME Base, Grown, PageProgress, pc \in InHand, mem'.files = Recorded({run.change}),
           mem'.cursor = mem.cursor, InPage' => InPage, run'.at = run.at, run'.upto = run.upto,
           pc' \notin InHand
    PROVE  PageProgress'
<1> SUFFICES ASSUME InPage' PROVE PageProgress'
  BY DEF InPage, PageProgress
<1>1. \A r \in 1..run.at : r \in DOMAIN log
  BY PageInLog
<1>2. /\ mem.cursor <= run.at /\ run.at <= run.upto
      /\ \A r \in 1..run.at : Covered(r) \/ r = run.at
      /\ run.change = Logged(run.at)
  BY DEF PageProgress, InPage
<1>3. run.change.path = log[run.at].path /\ run.change.rev = run.at
  BY <1>2 DEF Logged
<1>4. ASSUME NEW r \in 1..run.at PROVE Covered(r)'
  <2>1. r <= run.at /\ r \in DOMAIN log
    BY <1>1
  <2>2. Covered(r) \/ run.change.path = log[r].path
    BY <1>2, <1>3
  <2> QED BY <1>3, <2>1, <2>2, CoveredRecorded
<1> QED BY <1>2, <1>4 DEF PageProgress

\* The same of a snapshot.
LEMMA MergeElsewhere == ASSUME ~InSnapshot' PROVE MergeProgress'
BY DEF MergeProgress

LEMMA MergeInLog ==
    ASSUME Base, InSnapshot
    PROVE  \A r \in 1..run.upto : r \in DOMAIN log
<1>1. run.upto <= Len(log) /\ log \in Seq(Entry)
  BY DEF InSnapshot, Base, Position, Loops, TypeOK
<1>2. run.upto \in Nat /\ Len(log) \in Nat /\ DOMAIN log = 1..Len(log)
  BY <1>1 DEF Base, RunTypes
<1> QED BY <1>1, <1>2

LEMMA MergeKept ==
    ASSUME Base, Grown, MergeProgress, mem'.files = mem.files,
           InSnapshot' => InSnapshot, run'.todo = run.todo, run'.upto = run.upto,
           (pc' \in InHand /\ run'.ret = "merge") <=> (pc \in InHand /\ run.ret = "merge"),
           pc' \in InHand => run'.change = run.change
    PROVE  MergeProgress'
<1> SUFFICES ASSUME InSnapshot', NEW r \in 1..run'.upto
             PROVE  IF pc' \in InHand /\ run'.ret = "merge" /\ run'.change.path = log'[r].path
                    THEN r <= run'.change.rev
                    ELSE log'[r].path \in run'.todo \/ Covered(r)'
  BY DEF MergeProgress
<1>1. r \in DOMAIN log /\ r \in 1..run.upto
  BY MergeInLog
<1>2. IF pc \in InHand /\ run.ret = "merge" /\ run.change.path = log[r].path
      THEN r <= run.change.rev
      ELSE log[r].path \in run.todo \/ Covered(r)
  BY <1>1 DEF MergeProgress
<1>3. log'[r] = log[r]
  BY <1>1 DEF Grown
<1>4. Covered(r) => Covered(r)'
  BY <1>1, CoveredKept
<1> QED BY <1>2, <1>3, <1>4

LEMMA MergeRecorded ==
    ASSUME Base, Grown, MergeProgress, pc \in InHand, mem'.files = Recorded({run.change}),
           InSnapshot' => InSnapshot, run'.todo = run.todo, run'.upto = run.upto,
           pc' \notin InHand
    PROVE  MergeProgress'
<1> SUFFICES ASSUME InSnapshot', NEW r \in 1..run'.upto
             PROVE  log'[r].path \in run'.todo \/ Covered(r)'
  BY DEF MergeProgress
<1>1. r \in DOMAIN log /\ r \in 1..run.upto
  BY MergeInLog
<1>2. run.ret = "merge"
  BY DEF InSnapshot, InHand, Applying, Installing, Base, Calls, Appliers
<1>3. IF run.change.path = log[r].path
      THEN r <= run.change.rev
      ELSE log[r].path \in run.todo \/ Covered(r)
  BY <1>1, <1>2 DEF MergeProgress
<1>4. log'[r] = log[r]
  BY <1>1 DEF Grown
<1>5. CASE run.change.path = log[r].path
  BY <1>1, <1>3, <1>5, CoveredRecorded
<1>6. CASE run.change.path # log[r].path
  <2>1. Covered(r) => Covered(r)'
    BY <1>1, <1>6, CoveredRecorded
  <2> QED BY <1>3, <1>4, <1>6, <2>1
<1> QED BY <1>5, <1>6

\* A procedure returns to the page or to the snapshot that has called it.
LEMMA Returned ==
    ASSUME Base, Return
    PROVE  /\ pc' = run.ret /\ run'.ret = "idle" /\ pc' \notin InHand
           /\ run'.at = run.at /\ run'.upto = run.upto /\ run'.todo = run.todo
           /\ InPage' => InPage
           /\ InSnapshot' => InSnapshot
<1>1. /\ pc' = run.ret /\ run'.ret = "idle"
      /\ run'.at = run.at /\ run'.upto = run.upto /\ run'.todo = run.todo
  BY DEF Return, Base, Fields, HasFields, RunFields
<1>2. run.ret \in Returns
  BY DEF Base, Fields
<1> QED BY <1>1, <1>2 DEF InPage, InSnapshot, Returns, InHand, Applying, Installing

\* A run that has ended is in neither.
LEMMA ProgressEnded ==
    ASSUME pc' = "idle", run' = IdleRun
    PROVE  PageProgress' /\ MergeProgress'
BY DEF PageProgress, MergeProgress, InSnapshot, IdleRun

Progress == PageProgress /\ MergeProgress

\* ApplyRemoteChange records the change, or goes on with it.
LEMMA ProgressApplyRemoteChange ==
    ASSUME Base, Grown, Progress, ApplyRemoteChange
    PROVE  Progress'
<1>1. HasFields(mem, DataFields) /\ pc = "apply" /\ pc \in InHand
  BY DEF ApplyRemoteChange, Base, Fields, InHand, Applying
<1>2. CASE mem' = [mem EXCEPT !.files = Recorded({run.change})] /\ Return
  <2>1. mem'.files = Recorded({run.change}) /\ mem'.cursor = mem.cursor
    BY <1>1, <1>2 DEF HasFields, DataFields
  <2> QED BY <1>1, <1>2, <2>1, Returned, PageRecorded, MergeRecorded DEF Progress
<1>3. CASE \/ Goto("remove") /\ UNCHANGED dataVars
           \/ StageDownload(run.change) /\ Goto("download")
  <2>1. pc' \in InHand /\ run' = run
    BY <1>3 DEF Goto, InHand, Applying, Installing
  <2>2. mem'.files = mem.files /\ mem'.cursor = mem.cursor
    BY <1>1, <1>3 DEF dataVars, StageDownload, Persist, HasFields, DataFields
  <2>3. (InPage' => InPage) /\ (InSnapshot' => InSnapshot)
    BY <1>3, <2>1 DEF Goto, InPage, InSnapshot
  <2> QED BY <1>1, <2>1, <2>2, <2>3, PageKept, MergeKept DEF Progress
<1> QED BY <1>2, <1>3 DEF ApplyRemoteChange

LEMMA ProgressRemoveLocal ==
    ASSUME Base, Grown, Progress, RemoveLocal
    PROVE  Progress'
<1>1. HasFields(mem, DataFields) /\ pc \in InHand
  BY DEF RemoveLocal, Base, Fields, InHand, Applying
<1>2. CASE mem' = [mem EXCEPT !.files = Recorded({run.change})] /\ Return
  <2>1. mem'.files = Recorded({run.change}) /\ mem'.cursor = mem.cursor
    BY <1>1, <1>2 DEF HasFields, DataFields
  <2> QED BY <1>1, <1>2, <2>1, Returned, PageRecorded, MergeRecorded DEF Progress
<1>3. CASE EndRun
  BY <1>3, ProgressEnded DEF EndRun, Progress
<1> QED BY <1>2, <1>3, Zenon DEF RemoveLocal

LEMMA ProgressFinishDownload ==
    ASSUME Base, Grown, Progress, FinishDownload
    PROVE  Progress'
<1>1. HasFields(mem, DataFields) /\ pc \in InHand
  BY DEF FinishDownload, Base, Fields, InHand, Applying, Installing
<1>2. mem'.files = Recorded({run.change}) /\ mem'.cursor = mem.cursor
  BY <1>1 DEF FinishDownload, HasFields, DataFields
<1>3. run' = run /\ pc' \notin InHand /\ (InPage' => InPage) /\ (InSnapshot' => InSnapshot)
  BY DEF FinishDownload, Goto, InHand, Applying, Installing, InPage, InSnapshot
<1> QED BY <1>1, <1>2, <1>3, PageRecorded, MergeRecorded DEF Progress

\* The steps of a download keep the change in hand, or end the run.
LEMMA ProgressDownload ==
    ASSUME Base, Grown, Progress,
           Download \/ SetAside \/ SwapIn \/ VerifyInstalled \/ KeepRefused
    PROVE  Progress'
<1>1. CASE EndRun
  BY <1>1, ProgressEnded DEF EndRun, Progress
<1>2. CASE ~EndRun
  <2>1. /\ pc \in InHand /\ pc' \in InHand \ {"page"} /\ mem' = mem
        /\ pc' \notin {"preserve", "merge"}
    BY <1>2 DEF Download, SetAside, SwapIn, VerifyInstalled, KeepRefused, Goto, InHand,
       Applying, Installing, dataVars
  <2>2. /\ run'.at = run.at /\ run'.upto = run.upto /\ run'.todo = run.todo
        /\ run'.ret = run.ret /\ run'.change = run.change
    BY <1>2 DEF Download, SetAside, SwapIn, VerifyInstalled, KeepRefused, Goto, Base,
       Fields, HasFields, RunFields
  <2>3. (InPage' => InPage) /\ (InSnapshot' => InSnapshot)
    BY <2>1, <2>2 DEF InPage, InSnapshot
  <2> QED BY <2>1, <2>2, <2>3, PageKept, MergeKept DEF Progress
<1> QED BY <1>1, <1>2

\* Save returns.
LEMMA ProgressSave == ASSUME Base, Grown, Progress, Save PROVE Progress'
<1>1. mem' = mem /\ pc \notin InHand /\ Return
  BY DEF Save, InHand, Applying, Installing
<1> QED BY <1>1, Returned, PageKept, MergeKept DEF Progress

\* The local-only files are removed before any version of the snapshot is applied.
LEMMA ProgressPreserveLocal == ASSUME Base, Grown, Progress, PreserveLocal PROVE Progress'
<1>1. CASE EndRun
  BY <1>1, ProgressEnded DEF EndRun, Progress
<1>2. CASE ~EndRun
  <2>1. PICK p \in run.scope :
         /\ run' = [run EXCEPT !.scope = @ \ {p}, !.ret = "preserve",
                             !.change = [path |-> p, rev |-> 0, content |-> Absent]]
         /\ pc' = "discard"
         /\ UNCHANGED dataVars
    BY <1>2, Zenon DEF PreserveLocal
  <2>2. /\ run'.upto = run.upto /\ run'.todo = run.todo /\ run'.ret = "preserve"
        /\ pc' \notin InHand /\ mem' = mem /\ pc = "preserve"
    BY <2>1 DEF PreserveLocal, Base, Fields, HasFields, RunFields, InHand, dataVars
  <2>3. PageProgress'
    BY <2>1, <2>2, PageElsewhere
  <2>4. MergeProgress'
    BY <2>2, MergeKept DEF InSnapshot, Progress, InHand, Applying, Installing
  <2> QED BY <2>3, <2>4 DEF Progress
<1> QED BY <1>1, <1>2

LEMMA ProgressDiscardLocal == ASSUME Base, Grown, Progress, DiscardLocal PROVE Progress'
<1>1. CASE EndRun
  BY <1>1, ProgressEnded DEF EndRun, Progress
<1>2. CASE ~EndRun
  <2>1. Return /\ mem' = mem /\ pc = "discard"
    BY <1>2, Zenon DEF DiscardLocal, dataVars
  <2>2. pc \notin InHand
    BY <2>1 DEF InHand
  <2> QED BY <2>1, <2>2, Returned, PageKept, MergeKept DEF Progress
<1> QED BY <1>1, <1>2

LEMMA ProgressPreserveDone == ASSUME Base, Grown, Progress, PreserveDone PROVE Progress'
<1>1. /\ pc = "preserve" /\ pc' = "merge" /\ run' = run /\ mem' = mem
      /\ pc \notin InHand /\ pc' \notin InHand /\ run.ret = "idle"
  BY DEF PreserveDone, Goto, InHand, Applying, Installing, dataVars, Base, Calls, Inner
<1>2. MergeProgress'
  BY <1>1, MergeKept DEF InSnapshot, Progress
<1> QED BY <1>1, <1>2, PageElsewhere DEF Progress

\* A page begins after the cursor, before which everything is recorded.
LEMMA ProgressPullPage ==
    ASSUME Base, Grown, Boxes, RecordsSound, PullPage
    PROVE  Progress'
<1> DEFINE last == Min({mem.cursor + PageSize, Len(log)})
<1>1. /\ run' = [run EXCEPT !.at = mem.cursor, !.upto = last, !.more = last < Len(log)]
      /\ pc' = "page" /\ mem' = mem /\ log' = log /\ UNCHANGED <<head, ack>>
  BY DEF PullPage, dataVars, NoRequest, serverVars
<1>2. /\ mem.cursor \in Nat /\ mem.cursor <= Len(log) /\ Len(log) \in Nat /\ log \in Seq(Entry)
  BY DEF Base, Position, TypeOK
<1>3. last \in {mem.cursor + PageSize, Len(log)} /\ mem.cursor <= last
  BY <1>2, MinOfTwo, EngineAssumption
<1> HIDE DEF last
<1>4. run'.at = mem.cursor /\ run'.upto = last /\ run'.ret = run.ret
  BY <1>1 DEF Base, Fields, HasFields, RunFields
<1>5. run.ret = "idle"
  BY DEF PullPage, Base, Calls, Inner
<1>6. ASSUME NEW r \in 1..mem.cursor PROVE Covered(r)
  <2>1. r \in Due /\ log[r] \in Entry /\ ~(r > mem.cursor)
    BY <1>2 DEF Due
  <2>2. log[r].path \in Paths
    BY <2>1 DEF Entry
  <2> QED BY <2>1, <2>2 DEF Covered, RecordsSound, DataSound, FilesSound
<1>7. ASSUME NEW r \in 1..mem.cursor PROVE Covered(r)'
  <2>1. r \in DOMAIN log
    BY <1>2
  <2> QED BY <1>1, <1>6, <2>1, CoveredKept
<1>8. pc' \notin InHand
  BY <1>1 DEF InHand, Applying, Installing
<1>9. PageProgress'
  BY <1>1, <1>2, <1>3, <1>4, <1>7, <1>8 DEF PageProgress
<1>10. MergeProgress'
  BY <1>1, <1>4, <1>5 DEF MergeProgress, InSnapshot
<1> QED BY <1>9, <1>10 DEF Progress

\* The changes of a page that are passed over are recorded.
LEMMA ProgressPageChange == ASSUME Base, Grown, Progress, PageChange PROVE Progress'
<1>0. PICK r : r = Min(PageDue)
  OBVIOUS
<1>1. /\ run' = [run EXCEPT !.at = r, !.change = Logged(r), !.ret = "page"]
      /\ pc' = "apply" /\ mem' = mem /\ log' = log /\ pc = "page"
  BY <1>0 DEF PageChange, dataVars, NoRequest, serverVars
<1>2. /\ r \in (run.at + 1)..run.upto /\ r \in DOMAIN log
      /\ \A s \in PageDue : r <= s
  BY <1>0, PageDueTypes DEF PageChange, Base
<1>3. /\ run'.at = r /\ run'.change = Logged(r) /\ run'.upto = run.upto /\ run'.ret = "page"
  BY <1>1 DEF Base, Fields, HasFields, RunFields
<1>4. /\ run.at \in Nat /\ mem.cursor \in Nat /\ run.upto \in Nat
      /\ mem.cursor <= run.at /\ run.at <= run.upto
      /\ \A s \in 1..run.at : Covered(s)
  BY <1>1 DEF Base, RunTypes, Position, Progress, PageProgress, InHand, Applying, Installing
<1>5. ASSUME NEW s \in 1..r, s # r PROVE Covered(s)
  <2>1. CASE s <= run.at
    BY <1>4, <2>1
  <2>2. CASE s > run.at
    <3>1. s \in (run.at + 1)..run.upto /\ s < r /\ s \in Int
      BY <1>2, <1>4, <1>5, <2>2
    <3>2. s \notin PageDue
      BY <1>2, <3>1
    <3>3. mem.files[log[s].path].rev >= s
      BY <3>1, <3>2 DEF PageDue
    <3> QED BY <3>3 DEF Covered, Covers
  <2> QED BY <1>2, <1>4, <2>1, <2>2
<1>6. ASSUME NEW s \in 1..r, s # r PROVE Covered(s)'
  <2>1. s \in DOMAIN log
    BY <1>2, <1>4 DEF Grown
  <2> QED BY <1>1, <1>5, <1>6, <2>1, CoveredKept
<1>7. Logged(r)' = Logged(r)
  BY <1>1 DEF Logged
<1>8. pc' \in InHand
  BY <1>1 DEF InHand, Applying
<1>9. PageProgress'
  BY <1>1, <1>2, <1>3, <1>4, <1>6, <1>7, <1>8 DEF PageProgress
<1>10. MergeProgress'
  BY <1>1, <1>3 DEF MergeProgress, InSnapshot
<1> QED BY <1>9, <1>10 DEF Progress

\* MergeSnapshot takes the last version of its path in the snapshot.
LEMMA ProgressMergeSnapshot ==
    ASSUME Base, Grown, Progress, MergeSnapshot
    PROVE  Progress'
<1>1. /\ pc = "merge" /\ pc \notin InHand /\ run.ret = "idle" /\ log' = log
  BY DEF MergeSnapshot, InHand, Applying, Installing, Base, Calls, Inner, NoRequest, serverVars
<1>2. ASSUME NEW r \in 1..run.upto
      PROVE  r \in DOMAIN log /\ (log[r].path \in run.todo \/ Covered(r))
  BY <1>1, MergeInLog DEF Progress, MergeProgress, InSnapshot
<1>3. \A p \in MergeDue : p \in run.todo /\ SnapshotVersion(p).path = p
                          /\ \A r \in 1..run.upto : log[r].path = p => r <= SnapshotVersion(p).rev
  BY <1>1, SnapshotVersionType DEF MergeDue, Base
<1>4. CASE mem.mode = "local"
  <2> DEFINE vs == {SnapshotVersion(p) : p \in MergeDue}
  <2>1. mem' = [mem EXCEPT !.files = Recorded(vs)] /\ UNCHANGED <<pc, run>>
    BY <1>4, Zenon DEF MergeSnapshot
  <2>2. \A v \in vs : v.path \in run.todo
    BY <1>3
  <2> HIDE DEF vs
  <2>3. mem'.files = Recorded(vs)
    BY <2>1 DEF Base, Fields, HasFields, DataFields
  <2>4. ASSUME NEW r \in 1..run.upto, log[r].path \notin run.todo PROVE Covered(r)'
    BY <1>2, <2>2, <2>3, <2>4, CoveredRecorded
  <2>5. MergeProgress'
    BY <1>1, <2>1, <2>4 DEF MergeProgress
  <2> QED BY <1>1, <2>1, <2>5, PageElsewhere DEF Progress
<1>5. CASE mem.mode # "local"
  <2>1. PICK p \in MergeDue : run' = [run EXCEPT !.todo = @ \ {p},
                                        !.change = SnapshotVersion(p), !.ret = "merge"]
    BY <1>5, Zenon DEF MergeSnapshot
  <2>2. pc' = "apply" /\ mem' = mem
    BY <1>5, Zenon DEF MergeSnapshot
  <2>3. /\ run'.todo = run.todo \ {p} /\ run'.change = SnapshotVersion(p)
        /\ run'.ret = "merge" /\ run'.upto = run.upto
    BY <2>1 DEF Base, Fields, HasFields, RunFields
  <2>4. ASSUME NEW r \in 1..run.upto
        PROVE  IF run'.change.path = log[r].path
               THEN r <= run'.change.rev
               ELSE log[r].path \in run'.todo \/ Covered(r)'
    <3>1. CASE log[r].path = p
      BY <1>3, <2>3, <3>1
    <3>2. CASE log[r].path # p
      <4>1. Covered(r) => Covered(r)'
        BY <1>2, <2>2, CoveredKept
      <4> QED BY <1>2, <1>3, <2>3, <3>2, <4>1
    <3> QED BY <3>1, <3>2
  <2>5. MergeProgress'
    BY <1>1, <2>2, <2>3, <2>4 DEF MergeProgress, InHand, Applying
  <2> QED BY <2>2, <2>3, <2>5, PageElsewhere DEF Progress
<1> QED BY <1>4, <1>5

\* The server, the data on disk and a restart are no part of it.
LEMMA ProgressKept ==
    ASSUME Base, Grown, Progress, UNCHANGED <<mem, pc, run>>
    PROVE  Progress'
BY PageKept, MergeKept DEF Progress, InPage, InSnapshot

\* Neither are the user's events.
LEMMA ProgressNoteEvents ==
    ASSUME Base, Grown, Progress, NEW ps, NEW queue, NoteEvents(ps, queue), UNCHANGED pc
    PROVE  Progress'
BY Noted, PageKept, MergeKept DEF Progress, InPage, InSnapshot

\* Every step keeps account of pages and snapshots.
LEMMA ProgressStep ==
    Base /\ Fields /\ Calls /\ Position /\ Grown /\ Boxes /\ RecordsSound /\ Progress /\ [Next]_vars => Progress'
<1> SUFFICES ASSUME Base, Fields, Calls, Position, Grown, Boxes, RecordsSound,
   Progress, [Next]_vars PROVE Progress'
  OBVIOUS
<1>1. CASE ResumeInbox
  <2> USE DEF Progress, PageProgress, MergeProgress, InSnapshot, Covered, Grown,
     Fields, HasFields, DataFields, RunFields, Returns, Calls, Inner, Appliers,
     Requesters, InHand, Applying, Installing, NoRequest, serverVars, dataVars
  <2>1. CASE InboxInstalled
    BY <2>1 DEF InboxInstalled, Quiet, CleanUp, historyVars
  <2>2. CASE InboxReady
    BY <2>2 DEF InboxReady, Quiet, fileVars, historyVars
  <2>3. CASE InboxLost
    BY <2>3 DEF InboxLost, Quiet, Persist, CleanUp, historyVars
  <2>4. CASE InboxDone
    BY <2>4 DEF InboxDone, Quiet, Goto, fileVars, historyVars
  <2> HIDE DEF Progress, PageProgress, MergeProgress, InSnapshot, Covered, Grown,
     Fields, HasFields, DataFields, RunFields, Returns, Calls, Inner, Appliers,
     Requesters, InHand, Applying, Installing, NoRequest, serverVars, dataVars
  <2> QED BY <1>1, <2>1, <2>2, <2>3, <2>4 DEF ResumeInbox
<1>2. CASE ResumeOutbox
  <2> USE DEF Progress, PageProgress, MergeProgress, InSnapshot, Covered, Grown,
     Fields, HasFields, DataFields, RunFields, Returns, Calls, Inner, Appliers,
     Requesters, InHand, Applying, Installing, NoRequest, serverVars, dataVars
  <2>1. CASE OutboxCommitted
    BY <2>1 DEF OutboxCommitted, Quiet, fileVars, historyVars
  <2>2. CASE OutboxResent
    BY <2>2 DEF OutboxResent, Quiet, fileVars, historyVars
  <2>3. CASE OutboxAbandoned
    BY <2>3 DEF OutboxAbandoned, Quiet, Persist, Discarded, Queued, fileVars,
       historyVars
  <2>4. CASE OutboxDone
    BY <2>4 DEF OutboxDone, Quiet, Goto, BeginRenames, fileVars, historyVars
  <2> HIDE DEF Progress, PageProgress, MergeProgress, InSnapshot, Covered, Grown,
     Fields, HasFields, DataFields, RunFields, Returns, Calls, Inner, Appliers,
     Requesters, InHand, Applying, Installing, NoRequest, serverVars, dataVars
  <2> QED BY <1>2, <2>1, <2>2, <2>3, <2>4 DEF ResumeOutbox
<1>3. CASE Reconcile
  <2>1. CASE PreserveLocal
    BY <2>1, ProgressPreserveLocal
  <2>2. CASE DiscardLocal
    BY <2>2, ProgressDiscardLocal
  <2>3. CASE PreserveDone
    BY <2>3, ProgressPreserveDone
  <2>4. CASE MergeSnapshot
    BY <2>4, ProgressMergeSnapshot
  <2> USE DEF Progress, PageProgress, MergeProgress, InSnapshot, Covered, Grown,
     Fields, HasFields, DataFields, RunFields, Returns, Calls, Inner, Appliers,
     Requesters, InHand, Applying, Installing, NoRequest, serverVars, dataVars
  <2>5. CASE ReadSnapshot
    BY <2>5 DEF ReadSnapshot, Quiet, fileVars, historyVars
  <2>6. CASE MergeDone
    BY <2>6 DEF MergeDone, Quiet, Persist, BeginRenames, fileVars, historyVars
  <2> HIDE DEF Progress, PageProgress, MergeProgress, InSnapshot, Covered, Grown,
     Fields, HasFields, DataFields, RunFields, Returns, Calls, Inner, Appliers,
     Requesters, InHand, Applying, Installing, NoRequest, serverVars, dataVars
  <2> QED BY <1>3, <2>1, <2>2, <2>3, <2>4, <2>5, <2>6 DEF Reconcile
<1>4. CASE Renames
  <2> USE DEF Progress, PageProgress, MergeProgress, InSnapshot, Covered, Grown,
     Fields, HasFields, DataFields, RunFields, Returns, Calls, Inner, Appliers,
     Requesters, InHand, Applying, Installing, NoRequest, serverVars, dataVars
  <2>1. CASE RenameSkipped
    BY <2>1 DEF RenameSkipped, Quiet, fileVars, historyVars
  <2>2. CASE RenameStaged
    BY <2>2 DEF RenameStaged, Quiet, Stage, fileVars, historyVars, Persist
  <2>3. CASE RenamesDone
    BY <2>3 DEF RenamesDone, Quiet, Goto, fileVars, historyVars
  <2> HIDE DEF Progress, PageProgress, MergeProgress, InSnapshot, Covered, Grown,
     Fields, HasFields, DataFields, RunFields, Returns, Calls, Inner, Appliers,
     Requesters, InHand, Applying, Installing, NoRequest, serverVars, dataVars
  <2> QED BY <1>4, <2>1, <2>2, <2>3 DEF Renames
<1>5. CASE Push
  <2> USE DEF Progress, PageProgress, MergeProgress, InSnapshot, Covered, Grown,
     Fields, HasFields, DataFields, RunFields, Returns, Calls, Inner, Appliers,
     Requesters, InHand, Applying, Installing, NoRequest, serverVars, dataVars
  <2>1. CASE PlanFull
    BY <2>1 DEF PlanFull, Plan, Quiet, fileVars, historyVars
  <2>2. CASE PlanQueued
    BY <2>2 DEF PlanQueued, Plan, Quiet, fileVars, historyVars
  <2>3. CASE PushDone
    BY <2>3 DEF PushDone, Quiet, Stage, fileVars, historyVars, Persist
  <2>4. CASE DeletesDone
    BY <2>4 DEF DeletesDone, Quiet, fileVars, historyVars
  <2>5. ASSUME NEW p \in Paths, ScanPath(p) PROVE Progress'
    BY <2>5 DEF ScanPath, Quiet, fileVars, historyVars
  <2>6. ASSUME NEW p \in Paths, PushPath(p) PROVE Progress'
    BY <2>6 DEF PushPath, Quiet, Stage, Queued, Unnoted, fileVars, historyVars,
       Persist
  <2>7. ASSUME NEW p \in Paths, DeletePath(p) PROVE Progress'
    BY <2>7 DEF DeletePath, Quiet, Stage, fileVars, historyVars, Persist
  <2> HIDE DEF Progress, PageProgress, MergeProgress, InSnapshot, Covered, Grown,
     Fields, HasFields, DataFields, RunFields, Returns, Calls, Inner, Appliers,
     Requesters, InHand, Applying, Installing, NoRequest, serverVars, dataVars
  <2> QED BY <1>5, <2>1, <2>2, <2>3, <2>4, <2>5, <2>6, <2>7 DEF Push
<1>6. CASE Answered
  <2>1. CASE KeepRefused
    BY <2>1, ProgressDownload
  <2> USE DEF Progress, PageProgress, MergeProgress, InSnapshot, Covered, Grown,
     Fields, HasFields, DataFields, RunFields, Returns, Calls, Inner, Appliers,
     Requesters, InHand, Applying, Installing, NoRequest, serverVars, dataVars
  <2>2. CASE AnswerApplied
    BY <2>2 DEF AnswerApplied, Quiet, Goto, Return, Complete, Queued, fileVars,
       historyVars
  <2>3. CASE AnswerConflict
    BY <2>3 DEF AnswerConflict, Quiet, Persist, Discarded, fileVars, historyVars
  <2>4. CASE AnswerMoved
    BY <2>4 DEF AnswerMoved, Quiet, Goto, Complete, fileVars, historyVars
  <2>5. CASE AnswerMoveConflict
    BY <2>5 DEF AnswerMoveConflict, Quiet, Goto, Return, Discarded, Queued,
       fileVars, historyVars
  <2>6. CASE AnswerBatch
    BY <2>6 DEF AnswerBatch, Quiet, Complete, fileVars, historyVars
  <2>7. CASE AnswerBatchConflict
    BY <2>7, ZenonT(60) DEF AnswerBatchConflict, Quiet, Persist, Discarded, Queued, fileVars,
       historyVars
  <2> HIDE DEF Progress, PageProgress, MergeProgress, InSnapshot, Covered, Grown,
     Fields, HasFields, DataFields, RunFields, Returns, Calls, Inner, Appliers,
     Requesters, InHand, Applying, Installing, NoRequest, serverVars, dataVars
  <2> QED BY <1>6, <2>1, <2>2, <2>3, <2>4, <2>5, <2>6, <2>7 DEF Answered
<1>7. CASE Apply
  <2>1. CASE ApplyRemoteChange
    BY <2>1, ProgressApplyRemoteChange
  <2>2. CASE RemoveLocal
    BY <2>2, ProgressRemoveLocal
  <2>3. CASE Download
    BY <2>3, ProgressDownload
  <2>4. CASE SetAside
    BY <2>4, ProgressDownload
  <2>5. CASE SwapIn
    BY <2>5, ProgressDownload
  <2>6. CASE VerifyInstalled
    BY <2>6, ProgressDownload
  <2>7. CASE FinishDownload
    BY <2>7, ProgressFinishDownload
  <2>8. CASE Save
    BY <2>8, ProgressSave
  <2> QED BY <1>7, <2>1, <2>2, <2>3, <2>4, <2>5, <2>6, <2>7, <2>8 DEF Apply
<1>8. CASE Pull
  <2>1. CASE PullPage
    BY <2>1, ProgressPullPage
  <2>2. CASE PageChange
    BY <2>2, ProgressPageChange
  <2> USE DEF Progress, PageProgress, MergeProgress, InSnapshot, Covered, Grown,
     Fields, HasFields, DataFields, RunFields, Returns, Calls, Inner, Appliers,
     Requesters, InHand, Applying, Installing, NoRequest, serverVars, dataVars
  <2>3. CASE PageDone
    BY <2>3 DEF PageDone, Quiet, Persist, fileVars, historyVars
  <2>4. CASE Finish
    BY <2>4 DEF Finish, Quiet, Persist, Goto, fileVars, historyVars
  <2>5. CASE AckCursor
    BY <2>5 DEF AckCursor, Quiet, Goto, Acknowledge, fileVars, historyVars
  <2>6. CASE CompleteRun
    BY <2>6 DEF CompleteRun, Quiet, EndRun, fileVars, historyVars, IdleRun
  <2> HIDE DEF Progress, PageProgress, MergeProgress, InSnapshot, Covered, Grown,
     Fields, HasFields, DataFields, RunFields, Returns, Calls, Inner, Appliers,
     Requesters, InHand, Applying, Installing, NoRequest, serverVars, dataVars
  <2> QED BY <1>8, <2>1, <2>2, <2>3, <2>4, <2>5, <2>6 DEF Pull
<1>9. ASSUME NEW p \in Paths, NEW content \in UserContents \cup {Absent},
   UserEdit(p, content) PROVE Progress'
  BY <1>9, ProgressNoteEvents DEF UserEdit
<1>10. ASSUME NEW from \in Paths, NEW to \in Paths, UserRename(from, to) PROVE
   Progress'
  BY <1>10, ProgressNoteEvents DEF UserRename
<1>11. CASE StartRun
  BY <1>11 DEF StartRun, Progress, PageProgress, MergeProgress, InSnapshot, Covered,
     Grown, Fields, HasFields, DataFields, RunFields, Returns, Calls, Inner,
     Appliers, Requesters, InHand, Applying, Installing, NoRequest, serverVars,
     dataVars, Quiet, Goto, fileVars, historyVars
<1>12. CASE Send
  BY <1>12 DEF Send, Progress, PageProgress, MergeProgress, InSnapshot, Covered,
     Grown, Fields, HasFields, DataFields, RunFields, Returns, Calls, Inner,
     Appliers, Requesters, InHand, Applying, Installing, NoRequest, serverVars,
     dataVars, Quiet, Goto, fileVars, historyVars
<1>13. CASE ServerMoves
  BY <1>13, ProgressKept DEF ServerMoves, dataVars
<1>14. CASE SaveEvents
  BY <1>14, ProgressKept DEF SaveEvents, dataVars
<1>15. CASE RunFails
  BY <1>15 DEF RunFails, Progress, PageProgress, MergeProgress, InSnapshot, Covered,
     Grown, Fields, HasFields, DataFields, RunFields, Returns, Calls, Inner,
     Appliers, Requesters, InHand, Applying, Installing, NoRequest, serverVars,
     dataVars, EndRun, Spend, IdleRun
<1>16. CASE Crash
  BY <1>16 DEF Crash, Progress, PageProgress, MergeProgress, InSnapshot, Covered,
     Grown, Fields, HasFields, DataFields, RunFields, Returns, Calls, Inner,
     Appliers, Requesters, InHand, Applying, Installing, NoRequest, serverVars,
     dataVars, IdleRun, Spend, fileVars, historyVars
<1>17. CASE Restart
  BY <1>17, ProgressKept DEF Restart, dataVars
<1>18. CASE UNCHANGED vars
  BY <1>18, ProgressKept DEF vars, dataVars
<1> QED BY <1>1, <1>2, <1>3, <1>4, <1>5, <1>6, <1>7, <1>8, <1>9, <1>10, <1>11, <1>12,
         <1>13, <1>14, <1>15, <1>16, <1>17, <1>18 DEF Next, Engine, User
-----------------------------------------------------------------------------
(* What a conflict copy is made against.                                   *)

\* AnswerConflict takes the version that the server has named.
LEMMA RivalsAnswerConflict == ASSUME Base, SoundsKept, Rivals, AnswerConflict PROVE Rivals'
<1> DEFINE current == CHOOSE v \in reply.versions : TRUE
<1>1. current \in reply.versions
  BY ConflictVersion DEF Base, AnswerConflict
<1>2. run'.change = current /\ pc' \in {"apply", "refused"}
  BY DEF AnswerConflict, Base, Fields, HasFields, RunFields
<1> HIDE DEF current
<1>3. Rival(current)
  BY <1>1 DEF Rivals, AnswerConflict
<1> QED BY <1>2, <1>3 DEF Rivals, SoundsKept

\* A result that the server has kept is no conflict.
LEMMA RivalsOutboxCommitted == ASSUME Base, OutboxCommitted PROVE Rivals'
<1>1. mem.outbox # NoOperation /\ answers[mem.outbox.id] # NoReply /\ mem.outbox.id \in OpIds
  BY DEF OutboxCommitted, Committed, Base, Shape, SoundData
<1>2. answers[mem.outbox.id].kind = "ok"
  BY <1>1 DEF Base, TypeOK, Replies, Reply
<1>3. pc' = "answer" /\ reply' = answers[mem.outbox.id]
  BY DEF OutboxCommitted
<1> QED BY <1>2, <1>3 DEF Rivals

\* PageChange takes a version of the page.
LEMMA RivalsPageChange ==
    ASSUME Base, SoundsKept, Boxes, RecordsSound, PageProgress, PageChange
    PROVE  Rivals'
<1> DEFINE r == Min(PageDue)
<1>1. r \in PageDue
  BY PageDueTypes DEF PageChange, Base
<1>2. run'.change = Logged(r) /\ pc' = "apply"
  BY DEF PageChange, Base, Fields, HasFields, RunFields
<1> HIDE DEF r
<1>3. Rival(Logged(r))
  BY <1>1, PageSound DEF RecordsSound, DataSound, PageChange
<1> QED BY <1>2, <1>3 DEF Rivals, SoundsKept

\* MergeSnapshot takes one of the snapshot.
LEMMA RivalsMergeSnapshot ==
    ASSUME Base, SoundsKept, Boxes, FirstRun, RecordsSound, MergeSnapshot
    PROVE  Rivals'
<1>1. pc = "merge" /\ FilesSound(mem)
  BY DEF MergeSnapshot, RecordsSound, DataSound
<1>2. CASE mem.mode = "local"
  <2>1. UNCHANGED <<pc, run>>
    BY <1>2, Zenon DEF MergeSnapshot
  <2> QED BY <1>1, <2>1 DEF Rivals
<1>3. CASE mem.mode # "local"
  <2>1. PICK p \in MergeDue : run' = [run EXCEPT !.todo = @ \ {p},
                                        !.change = SnapshotVersion(p), !.ret = "merge"]
    BY <1>3, Zenon DEF MergeSnapshot
  <2>2. run'.change = SnapshotVersion(p)
    BY <2>1 DEF Base, Fields, HasFields, RunFields
  <2>3. pc' = "apply"
    BY <1>3, Zenon DEF MergeSnapshot
  <2>4. Rival(SnapshotVersion(p))
    BY <1>1, SnapshotSound
  <2> QED BY <2>2, <2>3, <2>4 DEF Rivals, SoundsKept
<1> QED BY <1>2, <1>3

\* The user's events leave the change alone.
LEMMA RivalsNoteEvents ==
    ASSUME Base, SoundsKept, Rivals, NEW ps, NEW queue, NoteEvents(ps, queue), UNCHANGED <<pc, reply>>
    PROVE  Rivals'
BY Noted DEF Rivals, SoundsKept

\* What is applied has a rival.
LEMMA RivalsStep ==
    Base /\ Fields /\ Calls /\ Boxes /\ FirstRun /\ RecordsSound /\ PageProgress /\ SoundsKept /\ Rivals /\ [Next]_vars => Send \/ PageDone \/ MergeDone \/ Rivals'
<1> SUFFICES ASSUME Base, Fields, Calls, Boxes, FirstRun, RecordsSound,
   PageProgress, SoundsKept, Rivals, [Next]_vars PROVE Send \/ PageDone \/ MergeDone
   \/ Rivals'
  OBVIOUS
<1>1. CASE ResumeInbox
  <2> USE DEF Rivals, SoundsKept, Fields, HasFields, DataFields, RunFields, Returns,
     Calls, Inner, Appliers, Requesters, InHand, Applying, Installing, NoRequest,
     serverVars, dataVars
  <2>1. CASE InboxInstalled
    BY <2>1 DEF InboxInstalled, Quiet, CleanUp, historyVars
  <2>2. CASE InboxReady
    BY <2>2 DEF InboxReady, Quiet, fileVars, historyVars
  <2>3. CASE InboxLost
    BY <2>3 DEF InboxLost, Quiet, Persist, CleanUp, historyVars
  <2>4. CASE InboxDone
    BY <2>4 DEF InboxDone, Quiet, Goto, fileVars, historyVars
  <2> HIDE DEF Rivals, SoundsKept, Fields, HasFields, DataFields, RunFields,
     Returns, Calls, Inner, Appliers, Requesters, InHand, Applying, Installing,
     NoRequest, serverVars, dataVars
  <2> QED BY <1>1, <2>1, <2>2, <2>3, <2>4 DEF ResumeInbox
<1>2. CASE ResumeOutbox
  <2>1. CASE OutboxCommitted
    BY <2>1, RivalsOutboxCommitted
  <2> USE DEF Rivals, SoundsKept, Fields, HasFields, DataFields, RunFields, Returns,
     Calls, Inner, Appliers, Requesters, InHand, Applying, Installing, NoRequest,
     serverVars, dataVars
  <2>2. CASE OutboxResent
    BY <2>2 DEF OutboxResent, Quiet, fileVars, historyVars
  <2>3. CASE OutboxAbandoned
    BY <2>3 DEF OutboxAbandoned, Quiet, Persist, Discarded, Queued, fileVars,
       historyVars
  <2>4. CASE OutboxDone
    BY <2>4 DEF OutboxDone, Quiet, Goto, BeginRenames, fileVars, historyVars
  <2> HIDE DEF Rivals, SoundsKept, Fields, HasFields, DataFields, RunFields,
     Returns, Calls, Inner, Appliers, Requesters, InHand, Applying, Installing,
     NoRequest, serverVars, dataVars
  <2> QED BY <1>2, <2>1, <2>2, <2>3, <2>4 DEF ResumeOutbox
<1>3. CASE Reconcile
  <2>1. CASE MergeSnapshot
    BY <2>1, RivalsMergeSnapshot
  <2>2. CASE MergeDone
    BY <2>2, Zenon
  <2> USE DEF Rivals, SoundsKept, Fields, HasFields, DataFields, RunFields, Returns,
     Calls, Inner, Appliers, Requesters, InHand, Applying, Installing, NoRequest,
     serverVars, dataVars
  <2>3. CASE ReadSnapshot
    BY <2>3 DEF ReadSnapshot, Quiet, fileVars, historyVars
  <2>4. CASE PreserveLocal
    BY <2>4 DEF PreserveLocal, Quiet, EndRun, IdleRun, historyVars
  <2>5. CASE DiscardLocal
    BY <2>5 DEF DiscardLocal, Quiet, Return, EndRun, IdleRun, historyVars
  <2>6. CASE PreserveDone
    BY <2>6 DEF PreserveDone, Quiet, Goto, fileVars, historyVars
  <2> HIDE DEF Rivals, SoundsKept, Fields, HasFields, DataFields, RunFields,
     Returns, Calls, Inner, Appliers, Requesters, InHand, Applying, Installing,
     NoRequest, serverVars, dataVars
  <2> QED BY <1>3, <2>1, <2>2, <2>3, <2>4, <2>5, <2>6 DEF Reconcile
<1>4. CASE Renames
  <2> USE DEF Rivals, SoundsKept, Fields, HasFields, DataFields, RunFields, Returns,
     Calls, Inner, Appliers, Requesters, InHand, Applying, Installing, NoRequest,
     serverVars, dataVars
  <2>1. CASE RenameSkipped
    BY <2>1 DEF RenameSkipped, Quiet, fileVars, historyVars
  <2>2. CASE RenameStaged
    BY <2>2 DEF RenameStaged, Quiet, Stage, fileVars, historyVars, Persist
  <2>3. CASE RenamesDone
    BY <2>3 DEF RenamesDone, Quiet, Goto, fileVars, historyVars
  <2> HIDE DEF Rivals, SoundsKept, Fields, HasFields, DataFields, RunFields,
     Returns, Calls, Inner, Appliers, Requesters, InHand, Applying, Installing,
     NoRequest, serverVars, dataVars
  <2> QED BY <1>4, <2>1, <2>2, <2>3 DEF Renames
<1>5. CASE Push
  <2> USE DEF Rivals, SoundsKept, Fields, HasFields, DataFields, RunFields, Returns,
     Calls, Inner, Appliers, Requesters, InHand, Applying, Installing, NoRequest,
     serverVars, dataVars
  <2>1. CASE PlanFull
    BY <2>1 DEF PlanFull, Plan, Quiet, fileVars, historyVars
  <2>2. CASE PlanQueued
    BY <2>2 DEF PlanQueued, Plan, Quiet, fileVars, historyVars
  <2>3. CASE PushDone
    BY <2>3 DEF PushDone, Quiet, Stage, fileVars, historyVars, Persist
  <2>4. CASE DeletesDone
    BY <2>4 DEF DeletesDone, Quiet, fileVars, historyVars
  <2>5. ASSUME NEW p \in Paths, ScanPath(p) PROVE Send \/ PageDone \/ MergeDone \/ Rivals'
    BY <2>5 DEF ScanPath, Quiet, fileVars, historyVars
  <2>6. ASSUME NEW p \in Paths, PushPath(p) PROVE Send \/ PageDone \/ MergeDone \/ Rivals'
    BY <2>6 DEF PushPath, Quiet, Stage, Queued, Unnoted, fileVars, historyVars,
       Persist
  <2>7. ASSUME NEW p \in Paths, DeletePath(p) PROVE Send \/ PageDone \/ MergeDone \/ Rivals'
    BY <2>7 DEF DeletePath, Quiet, Stage, fileVars, historyVars, Persist
  <2> HIDE DEF Rivals, SoundsKept, Fields, HasFields, DataFields, RunFields,
     Returns, Calls, Inner, Appliers, Requesters, InHand, Applying, Installing,
     NoRequest, serverVars, dataVars
  <2> QED BY <1>5, <2>1, <2>2, <2>3, <2>4, <2>5, <2>6, <2>7 DEF Push
<1>6. CASE Answered
  <2>1. CASE AnswerConflict
    BY <2>1, RivalsAnswerConflict
  <2> USE DEF Rivals, SoundsKept, Fields, HasFields, DataFields, RunFields, Returns,
     Calls, Inner, Appliers, Requesters, InHand, Applying, Installing, NoRequest,
     serverVars, dataVars
  <2>2. CASE AnswerApplied
    BY <2>2 DEF AnswerApplied, Quiet, Goto, Return, Complete, Queued, fileVars,
       historyVars
  <2>3. CASE KeepRefused
    BY <2>3 DEF KeepRefused, Quiet, historyVars
  <2>4. CASE AnswerMoved
    BY <2>4 DEF AnswerMoved, Quiet, Goto, Complete, fileVars, historyVars
  <2>5. CASE AnswerMoveConflict
    BY <2>5 DEF AnswerMoveConflict, Quiet, Goto, Return, Discarded, Queued,
       fileVars, historyVars
  <2>6. CASE AnswerBatch
    BY <2>6 DEF AnswerBatch, Quiet, Complete, fileVars, historyVars
  <2>7. CASE AnswerBatchConflict
    BY <2>7 DEF AnswerBatchConflict, Quiet, Persist, Discarded, Queued, fileVars,
       historyVars
  <2> HIDE DEF Rivals, SoundsKept, Fields, HasFields, DataFields, RunFields,
     Returns, Calls, Inner, Appliers, Requesters, InHand, Applying, Installing,
     NoRequest, serverVars, dataVars
  <2> QED BY <1>6, <2>1, <2>2, <2>3, <2>4, <2>5, <2>6, <2>7 DEF Answered
<1>7. CASE Apply
  <2> USE DEF Rivals, SoundsKept, Fields, HasFields, DataFields, RunFields, Returns,
     Calls, Inner, Appliers, Requesters, InHand, Applying, Installing, NoRequest,
     serverVars, dataVars
  <2>1. CASE ApplyRemoteChange
    BY <2>1 DEF ApplyRemoteChange, Quiet, Goto, Return, StageDownload, Persist,
       historyVars
  <2>2. CASE RemoveLocal
    BY <2>2 DEF RemoveLocal, Quiet, Return, EndRun, IdleRun, historyVars
  <2>3. CASE Download
    BY <2>3 DEF Download, Quiet, Goto, historyVars
  <2>4. CASE SetAside
    BY <2>4 DEF SetAside, Quiet, Goto, historyVars
  <2>5. CASE SwapIn
    BY <2>5 DEF SwapIn, Quiet, Goto, EndRun, IdleRun, historyVars
  <2>6. CASE VerifyInstalled
    BY <2>6 DEF VerifyInstalled, Quiet, Goto, EndRun, IdleRun, historyVars
  <2>7. CASE FinishDownload
    BY <2>7 DEF FinishDownload, Quiet, Goto, fileVars, historyVars
  <2>8. CASE Save
    BY <2>8 DEF Save, Quiet, Return, fileVars, historyVars
  <2> HIDE DEF Rivals, SoundsKept, Fields, HasFields, DataFields, RunFields,
     Returns, Calls, Inner, Appliers, Requesters, InHand, Applying, Installing,
     NoRequest, serverVars, dataVars
  <2> QED BY <1>7, <2>1, <2>2, <2>3, <2>4, <2>5, <2>6, <2>7, <2>8 DEF Apply
<1>8. CASE Pull
  <2>1. CASE PageChange
    BY <2>1, RivalsPageChange
  <2>2. CASE PageDone
    BY <2>2, Zenon
  <2> USE DEF Rivals, SoundsKept, Fields, HasFields, DataFields, RunFields, Returns,
     Calls, Inner, Appliers, Requesters, InHand, Applying, Installing, NoRequest,
     serverVars, dataVars
  <2>3. CASE PullPage
    BY <2>3 DEF PullPage, Quiet, fileVars, historyVars
  <2>4. CASE Finish
    BY <2>4 DEF Finish, Quiet, Persist, Goto, fileVars, historyVars
  <2>5. CASE AckCursor
    BY <2>5 DEF AckCursor, Quiet, Goto, Acknowledge, fileVars, historyVars
  <2>6. CASE CompleteRun
    BY <2>6 DEF CompleteRun, Quiet, EndRun, fileVars, historyVars, IdleRun
  <2> HIDE DEF Rivals, SoundsKept, Fields, HasFields, DataFields, RunFields,
     Returns, Calls, Inner, Appliers, Requesters, InHand, Applying, Installing,
     NoRequest, serverVars, dataVars
  <2> QED BY <1>8, <2>1, <2>2, <2>3, <2>4, <2>5, <2>6 DEF Pull
<1>9. ASSUME NEW p \in Paths, NEW content \in UserContents \cup {Absent},
   UserEdit(p, content) PROVE Send \/ PageDone \/ MergeDone \/ Rivals'
  BY <1>9, RivalsNoteEvents DEF UserEdit, NoRequest
<1>10. ASSUME NEW from \in Paths, NEW to \in Paths, UserRename(from, to) PROVE Send
   \/ PageDone \/ MergeDone \/ Rivals'
  BY <1>10, RivalsNoteEvents DEF UserRename, NoRequest
<1>11. CASE StartRun
  BY <1>11 DEF StartRun, Rivals, SoundsKept, Fields, HasFields, DataFields,
     RunFields, Returns, Calls, Inner, Appliers, Requesters, InHand, Applying,
     Installing, NoRequest, serverVars, dataVars, Quiet, Goto, fileVars, historyVars
<1>12. CASE Send
  BY <1>12, Zenon
<1>13. CASE ServerMoves
  BY <1>13 DEF ServerMoves, Rivals, SoundsKept, Fields, HasFields, DataFields,
     RunFields, Returns, Calls, Inner, Appliers, Requesters, InHand, Applying,
     Installing, NoRequest, serverVars, dataVars, Spend, fileVars, historyVars
<1>14. CASE SaveEvents
  BY <1>14 DEF SaveEvents, Rivals, SoundsKept, Fields, HasFields, DataFields,
     RunFields, Returns, Calls, Inner, Appliers, Requesters, InHand, Applying,
     Installing, NoRequest, serverVars, dataVars, Quiet, fileVars, historyVars
<1>15. CASE RunFails
  BY <1>15 DEF RunFails, Rivals, SoundsKept, Fields, HasFields, DataFields,
     RunFields, Returns, Calls, Inner, Appliers, Requesters, InHand, Applying,
     Installing, NoRequest, serverVars, dataVars, EndRun, Spend, IdleRun
<1>16. CASE Crash
  BY <1>16 DEF Crash, Rivals, SoundsKept, Fields, HasFields, DataFields, RunFields,
     Returns, Calls, Inner, Appliers, Requesters, InHand, Applying, Installing,
     NoRequest, serverVars, dataVars, IdleRun, Spend, fileVars, historyVars
<1>17. CASE Restart
  BY <1>17 DEF Restart, Rivals, SoundsKept, Fields, HasFields, DataFields,
     RunFields, Returns, Calls, Inner, Appliers, Requesters, InHand, Applying,
     Installing, NoRequest, serverVars, dataVars, fileVars, historyVars
<1>18. CASE UNCHANGED vars
  BY <1>18 DEF Rivals, SoundsKept, Fields, HasFields, DataFields, RunFields,
     Returns, Calls, Inner, Appliers, Requesters, InHand, Applying, Installing,
     NoRequest, serverVars, dataVars, vars, fileVars, historyVars
<1> QED BY <1>1, <1>2, <1>3, <1>4, <1>5, <1>6, <1>7, <1>8, <1>9, <1>10, <1>11, <1>12,
         <1>13, <1>14, <1>15, <1>16, <1>17, <1>18 DEF Next, Engine, User

\* A copy that was made for a change that has a rival.
LEMMA CopiesGrown ==
    ASSUME Grown, ConflictNeedsRival,
           \A k \in copies' : k \in copies \/ k.why = "initial"
             \/ \E v : Rival(v) /\ k.rival = v.rev /\ k.path = v.path
    PROVE  ConflictNeedsRival'
<1>1. ASSUME NEW k \in copies', k.why = "conflict"
      PROVE  \E v : Rival(v) /\ k.rival = v.rev /\ k.path = v.path
  <2>1. CASE k \in copies
    <3> DEFINE v == [rev |-> k.rival, path |-> k.path]
    <3>1. Rival(v)
      BY <1>1, <2>1 DEF ConflictNeedsRival, Rival
    <3> QED BY <3>1
  <2> QED BY <1>1, <2>1
<1>2. \A v : Rival(v) => Rival(v)'
  BY DEF Grown
<1> QED BY <1>1, <1>2 DEF ConflictNeedsRival, Rival

LEMMA CopiesApplied ==
    ASSUME Rivals, ApplyRemoteChange
    PROVE  \A k \in copies' : k \in copies \/ k.why = "initial"
             \/ \E v : Rival(v) /\ k.rival = v.rev /\ k.path = v.path
BY DEF Rivals, ApplyRemoteChange, ConflictCopy

LEMMA CopiesKept ==
    ASSUME Rivals, KeepRefused
    PROVE  \A k \in copies' : k \in copies \/ k.why = "initial"
             \/ \E v : Rival(v) /\ k.rival = v.rev /\ k.path = v.path
BY DEF Rivals, KeepRefused, ConflictCopy

LEMMA CopiesPreserved ==
    ASSUME PreserveLocal
    PROVE  \A k \in copies' : k \in copies \/ k.why = "initial"
             \/ \E v : Rival(v) /\ k.rival = v.rev /\ k.path = v.path
<1>1. PICK p \in Paths \cup run.scope :
        copies' \in {copies, copies \cup {[path |-> p, content |-> disk[p],
                                           why |-> "initial", rival |-> 0]}}
  BY Zenon DEF PreserveLocal
<1> QED BY <1>1

\* No other step makes a copy of a conflict.
LEMMA CopiesStep ==
    Grown /\ Rivals /\ ConflictNeedsRival /\ [Next]_vars => ConflictNeedsRival'
<1> SUFFICES ASSUME Grown, Rivals, ConflictNeedsRival, [Next]_vars PROVE
   ConflictNeedsRival'
  OBVIOUS
<1>1. CASE ResumeInbox
  <2> USE DEF fileVars, NoRequest, serverVars
  <2>1. CASE InboxInstalled
    BY <2>1, CopiesGrown DEF InboxInstalled, Quiet, dataVars, CleanUp, historyVars
  <2>2. CASE InboxReady
    BY <2>2, CopiesGrown DEF InboxReady, Quiet, dataVars, historyVars
  <2>3. CASE InboxLost
    BY <2>3, CopiesGrown DEF InboxLost, Quiet, Persist, CleanUp, historyVars
  <2>4. CASE InboxDone
    BY <2>4, CopiesGrown DEF InboxDone, Quiet, Goto, dataVars, historyVars
  <2> HIDE DEF fileVars, NoRequest, serverVars
  <2> QED BY <1>1, <2>1, <2>2, <2>3, <2>4 DEF ResumeInbox
<1>2. CASE ResumeOutbox
  <2> USE DEF fileVars, NoRequest, serverVars
  <2>1. CASE OutboxCommitted
    BY <2>1, CopiesGrown DEF OutboxCommitted, Quiet, dataVars, historyVars
  <2>2. CASE OutboxResent
    BY <2>2, CopiesGrown DEF OutboxResent, Quiet, dataVars, historyVars
  <2>3. CASE OutboxAbandoned
    BY <2>3, CopiesGrown DEF OutboxAbandoned, Quiet, Persist, Discarded, Queued,
       dataVars, historyVars
  <2>4. CASE OutboxDone
    BY <2>4, CopiesGrown DEF OutboxDone, Quiet, Goto, BeginRenames, dataVars,
       historyVars
  <2> HIDE DEF fileVars, NoRequest, serverVars
  <2> QED BY <1>2, <2>1, <2>2, <2>3, <2>4 DEF ResumeOutbox
<1>3. CASE Reconcile
  <2>1. CASE PreserveLocal
    BY <2>1, CopiesPreserved, CopiesGrown
  <2> USE DEF fileVars, NoRequest, serverVars
  <2>2. CASE ReadSnapshot
    BY <2>2, CopiesGrown DEF ReadSnapshot, Quiet, dataVars, historyVars
  <2>3. CASE DiscardLocal
    BY <2>3, CopiesGrown DEF DiscardLocal, Quiet, Return, EndRun, dataVars, IdleRun,
       historyVars
  <2>4. CASE PreserveDone
    BY <2>4, CopiesGrown DEF PreserveDone, Quiet, Goto, dataVars, historyVars
  <2>5. CASE MergeSnapshot
    BY <2>5, CopiesGrown DEF MergeSnapshot, dataVars, historyVars
  <2>6. CASE MergeDone
    BY <2>6, CopiesGrown DEF MergeDone, Quiet, Persist, BeginRenames, dataVars,
       historyVars
  <2> HIDE DEF fileVars, NoRequest, serverVars
  <2> QED BY <1>3, <2>1, <2>2, <2>3, <2>4, <2>5, <2>6 DEF Reconcile
<1>4. CASE Renames
  <2> USE DEF fileVars, NoRequest, serverVars
  <2>1. CASE RenameSkipped
    BY <2>1, CopiesGrown DEF RenameSkipped, Quiet, dataVars, historyVars
  <2>2. CASE RenameStaged
    BY <2>2, CopiesGrown DEF RenameStaged, Quiet, Stage, dataVars, historyVars,
       Persist
  <2>3. CASE RenamesDone
    BY <2>3, CopiesGrown DEF RenamesDone, Quiet, Goto, dataVars, historyVars
  <2> HIDE DEF fileVars, NoRequest, serverVars
  <2> QED BY <1>4, <2>1, <2>2, <2>3 DEF Renames
<1>5. CASE Push
  <2> USE DEF fileVars, NoRequest, serverVars
  <2>1. CASE PlanFull
    BY <2>1, CopiesGrown DEF PlanFull, Plan, Quiet, dataVars, historyVars
  <2>2. CASE PlanQueued
    BY <2>2, CopiesGrown DEF PlanQueued, Plan, Quiet, dataVars, historyVars
  <2>3. CASE PushDone
    BY <2>3, CopiesGrown DEF PushDone, Quiet, Stage, dataVars, historyVars, Persist
  <2>4. CASE DeletesDone
    BY <2>4, CopiesGrown DEF DeletesDone, Quiet, dataVars, historyVars
  <2>5. ASSUME NEW p \in Paths, ScanPath(p) PROVE ConflictNeedsRival'
    BY <2>5, CopiesGrown DEF ScanPath, Quiet, dataVars, historyVars
  <2>6. ASSUME NEW p \in Paths, PushPath(p) PROVE ConflictNeedsRival'
    BY <2>6, CopiesGrown DEF PushPath, Quiet, Stage, Queued, Unnoted, dataVars,
       historyVars, Persist
  <2>7. ASSUME NEW p \in Paths, DeletePath(p) PROVE ConflictNeedsRival'
    BY <2>7, CopiesGrown DEF DeletePath, Quiet, Stage, dataVars, historyVars,
       Persist
  <2> HIDE DEF fileVars, NoRequest, serverVars
  <2> QED BY <1>5, <2>1, <2>2, <2>3, <2>4, <2>5, <2>6, <2>7 DEF Push
<1>6. CASE Answered
  <2>1. CASE KeepRefused
    BY <2>1, CopiesKept, CopiesGrown
  <2> USE DEF fileVars, NoRequest, serverVars
  <2>2. CASE AnswerApplied
    BY <2>2, CopiesGrown DEF AnswerApplied, Quiet, Goto, Return, Complete, Queued,
       dataVars, historyVars
  <2>3. CASE AnswerConflict
    BY <2>3, CopiesGrown DEF AnswerConflict, Quiet, Persist, Discarded, dataVars,
       historyVars
  <2>4. CASE AnswerMoved
    BY <2>4, CopiesGrown DEF AnswerMoved, Quiet, Goto, Complete, dataVars,
       historyVars
  <2>5. CASE AnswerMoveConflict
    BY <2>5, CopiesGrown DEF AnswerMoveConflict, Quiet, Goto, Return, Discarded,
       Queued, dataVars, historyVars
  <2>6. CASE AnswerBatch
    BY <2>6, CopiesGrown DEF AnswerBatch, Quiet, Complete, dataVars, historyVars
  <2>7. CASE AnswerBatchConflict
    BY <2>7, CopiesGrown DEF AnswerBatchConflict, Quiet, Persist, Discarded, Queued,
       dataVars, historyVars
  <2> HIDE DEF fileVars, NoRequest, serverVars
  <2> QED BY <1>6, <2>1, <2>2, <2>3, <2>4, <2>5, <2>6, <2>7 DEF Answered
<1>7. CASE Apply
  <2>1. CASE ApplyRemoteChange
    BY <2>1, CopiesApplied, CopiesGrown
  <2> USE DEF fileVars, NoRequest, serverVars
  <2>2. CASE RemoveLocal
    BY <2>2, CopiesGrown DEF RemoveLocal, Quiet, Return, EndRun, IdleRun,
       historyVars
  <2>3. CASE Download
    BY <2>3, CopiesGrown DEF Download, Quiet, Goto, historyVars
  <2>4. CASE SetAside
    BY <2>4, CopiesGrown DEF SetAside, Quiet, Goto, historyVars
  <2>5. CASE SwapIn
    BY <2>5, CopiesGrown DEF SwapIn, Quiet, Goto, EndRun, dataVars, IdleRun,
       historyVars
  <2>6. CASE VerifyInstalled
    BY <2>6, CopiesGrown DEF VerifyInstalled, Quiet, Goto, EndRun, dataVars,
       IdleRun, historyVars
  <2>7. CASE FinishDownload
    BY <2>7, CopiesGrown DEF FinishDownload, Quiet, Goto, dataVars, historyVars
  <2>8. CASE Save
    BY <2>8, CopiesGrown DEF Save, Quiet, Return, dataVars, historyVars
  <2> HIDE DEF fileVars, NoRequest, serverVars
  <2> QED BY <1>7, <2>1, <2>2, <2>3, <2>4, <2>5, <2>6, <2>7, <2>8 DEF Apply
<1>8. CASE Pull
  <2> USE DEF fileVars, NoRequest, serverVars
  <2>1. CASE PullPage
    BY <2>1, CopiesGrown DEF PullPage, Quiet, dataVars, historyVars
  <2>2. CASE PageChange
    BY <2>2, CopiesGrown DEF PageChange, Quiet, dataVars, historyVars
  <2>3. CASE PageDone
    BY <2>3, CopiesGrown DEF PageDone, Quiet, Persist, dataVars, historyVars
  <2>4. CASE Finish
    BY <2>4, CopiesGrown DEF Finish, Quiet, Persist, Goto, dataVars, historyVars
  <2>5. CASE AckCursor
    BY <2>5, CopiesGrown DEF AckCursor, Quiet, Goto, Acknowledge, dataVars,
       historyVars
  <2>6. CASE CompleteRun
    BY <2>6, CopiesGrown DEF CompleteRun, Quiet, EndRun, dataVars, historyVars,
       IdleRun
  <2> HIDE DEF fileVars, NoRequest, serverVars
  <2> QED BY <1>8, <2>1, <2>2, <2>3, <2>4, <2>5, <2>6 DEF Pull
<1>9. ASSUME NEW p \in Paths, NEW content \in UserContents \cup {Absent},
   UserEdit(p, content) PROVE ConflictNeedsRival'
  BY <1>9, CopiesGrown DEF UserEdit
<1>10. ASSUME NEW from \in Paths, NEW to \in Paths, UserRename(from, to) PROVE
   ConflictNeedsRival'
  BY <1>10, CopiesGrown DEF UserRename
<1>11. CASE StartRun
  BY <1>11, CopiesGrown DEF StartRun, fileVars, NoRequest, serverVars, Quiet, Goto,
     dataVars, historyVars
<1>12. CASE Send
  BY <1>12, CopiesGrown DEF Send, fileVars, NoRequest, serverVars, Quiet, Goto,
     dataVars, historyVars
<1>13. CASE ServerMoves
  BY <1>13, CopiesGrown DEF ServerMoves, fileVars, NoRequest, serverVars, Spend,
     dataVars, historyVars
<1>14. CASE SaveEvents
  BY <1>14, CopiesGrown DEF SaveEvents, fileVars, NoRequest, serverVars, Quiet,
     dataVars, historyVars
<1>15. CASE RunFails
  BY <1>15, CopiesGrown DEF RunFails, fileVars, NoRequest, serverVars, EndRun,
     Spend, IdleRun
<1>16. CASE Crash
  BY <1>16, CopiesGrown DEF Crash, fileVars, NoRequest, serverVars, IdleRun, Spend,
     dataVars, historyVars
<1>17. CASE Restart
  BY <1>17, CopiesGrown DEF Restart, fileVars, NoRequest, serverVars, dataVars,
     historyVars
<1>18. CASE UNCHANGED vars
  BY <1>18, CopiesGrown DEF fileVars, NoRequest, serverVars, vars, dataVars, historyVars
<1> QED BY <1>1, <1>2, <1>3, <1>4, <1>5, <1>6, <1>7, <1>8, <1>9, <1>10, <1>11, <1>12,
         <1>13, <1>14, <1>15, <1>16, <1>17, <1>18 DEF Next, Engine, User
-----------------------------------------------------------------------------
(* A request that is executed, and a cursor that moves.                    *)

\* The row of a path may be recorded.
LEMMA RowIsSound == Base /\ RowsSound => \A p \in Paths : Sound(RowVersion(p))
<1> SUFFICES ASSUME Base, RowsSound, NEW p \in Paths PROVE Sound(RowVersion(p))
  OBVIOUS
<1>1. RowVersion(p).path = p /\ State(RowVersion(p)) = head[p]
  BY DEF RowVersion, State, Base, TypeOK, Row
<1>2. Genuine(p, head[p]) /\ \A r \in DOMAIN log : log[r].path = p => Covers(head[p], r)
  BY DEF RowsSound
<1> QED BY <1>1, <1>2 DEF Sound, Due

\* A reply names rows as they are then.
LEMMA SentVersions ==
    ASSUME TypeInv, Send
    PROVE  \A v \in reply'.versions : \E p \in Paths : v = RowVersion(p)'
<1> DEFINE q == mem.outbox.request
<1>1. /\ TypeOK /\ q \in Request /\ log \in Seq(Entry) /\ head \in [Paths -> Row]
  BY HasBase, SendRequest DEF Base, TypeOK
<1>2. CASE reply' = ConflictWith(q) /\ UNCHANGED <<log, head>>
  <2>1. \A v \in reply'.versions : v = RowVersion(q.path) /\ q.kind = "apply"
    BY <1>2 DEF ConflictWith
  <2>2. q.kind = "apply" => q.path \in Paths
    BY <1>1 DEF Request
  <2>3. PICK p : p = q.path
    OBVIOUS
  <2>4. RowVersion(p)' = RowVersion(p)
    BY <1>2 DEF RowVersion
  <2> QED BY <2>1, <2>2, <2>3, <2>4
<1>3. ASSUME NEW new, Extends(new), reply' = Accepted(q, new),
             new = <<>> => q.kind = "apply" /\ q.path \in Paths
      PROVE  \A v \in reply'.versions : \E p \in Paths : v = RowVersion(p)'
  <2>1. new \in Seq(Entry) /\ AppendEntries(new) /\ Distinct(new)
    BY <1>3 DEF Extends
  <2>2. RowsOf(head, new, Len(log), head') /\ DOMAIN new = 1..Len(new) /\ Len(new) \in Nat
    BY <1>1, <2>1, Appended
  <2>3. CASE new = <<>>
    <3>1. PICK p \in Paths : p = q.path
      BY <1>3, <2>3
    <3>2. head'[p] = head[p]
      BY <2>2, <2>3 DEF RowsOf
    <3>3. RowVersion(p)' = RowVersion(p)
      BY <3>2 DEF RowVersion
    <3>4. reply'.versions = {RowVersion(p)}
      BY <1>3, <2>3, <3>1 DEF Accepted
    <3> QED BY <3>3, <3>4
  <2>4. CASE new # <<>>
    <3>1. ASSUME NEW i \in DOMAIN new
          PROVE  \E p \in Paths : RowVersion(p)' = [path |-> new[i].path, rev |-> Len(log) + i,
                                                 content |-> new[i].content]
      <4>1. PICK p \in Paths : p = new[i].path
        <5>1. new[i] \in Entry
          BY <2>1, <2>2
        <5> QED BY <5>1 DEF Entry
      <4>2. PICK j \in 1..Len(new) :
              new[j].path = p /\ head'[p] = [rev |-> Len(log) + j, content |-> new[j].content]
        BY <2>2, <4>1 DEF RowsOf
      <4>3. i = j
        BY <2>1, <2>2, <4>1, <4>2 DEF Distinct
      <4> QED BY <4>1, <4>2, <4>3 DEF RowVersion
    <3>2. reply'.versions = {[path |-> new[i].path, rev |-> Len(log) + i,
                              content |-> new[i].content] : i \in DOMAIN new}
      BY <1>3, <2>4 DEF Accepted
    <3> QED BY <3>1, <3>2
  <2> QED BY <2>3, <2>4
<1>4. \/ reply' = ConflictWith(q) /\ UNCHANGED <<log, head>>
      \/ \E new : /\ Extends(new) /\ reply' = Accepted(q, new)
                  /\ new = <<>> => q.kind = "apply" /\ q.path \in Paths
  BY SendAppends, Zenon
<1> QED BY <1>2, <1>3, <1>4

\* A request that is refused was based on a version that another device, or the
\* collector, has replaced.
LEMMA RefusedRival ==
    ASSUME Base, FilesSound(mem), RowsSound, NEW p \in Paths, ~InOutbox(mem, p),
           head[p].rev # mem.files[p].rev
    PROVE  Rival(RowVersion(p))
<1> DEFINE f == mem.files[p]
           h == head[p].rev
<1>1. /\ f.rev \in Nat
      /\ f.rev # 0 => f.rev \in DOMAIN log /\ log[f.rev].path = p
  BY RecordedRevision
<1>2. /\ DOMAIN log = 1..Len(log) /\ Len(log) \in Nat /\ log \in Seq(Entry)
      /\ head[p] \in Row /\ h \in Nat
  BY DEF Base, TypeOK, Row
<1>3. RowVersion(p).rev = h /\ RowVersion(p).path = p
  BY DEF RowVersion
<1>4. CASE head[p] = NoRow
  <2>1. h = 0 /\ f.rev # 0
    BY <1>4 DEF NoRow
  <2>2. \E c \in 1..ack : log[c].path = p /\ log[c].content = Absent
    BY <1>1, <1>4, <2>1 DEF RowsSound
  <2> QED BY <1>3, <2>1, <2>2 DEF Rival
<1>5. CASE head[p] # NoRow
  <2>1. h \in DOMAIN log /\ log[h].path = p
    BY <1>5 DEF RowsSound, Genuine
  <2>2. ASSUME log[h].mine PROVE FALSE
    <3>1. h \in Due
      BY <2>1, <2>2 DEF Due
    <3>2. Covers(f, h)
      BY <2>1, <3>1 DEF FilesSound
    <3>3. h <= f.rev
      BY <2>1, <3>2 DEF Covers
    <3>4. f.rev # 0
      BY <1>1, <1>2, <2>1, <3>3
    <3>5. Covers(head[p], f.rev)
      BY <1>1, <3>4 DEF RowsSound
    <3>6. f.rev <= h
      BY <1>5, <3>5 DEF Covers
    <3> QED BY <1>1, <1>2, <3>3, <3>6
  <2> QED BY <1>3, <2>1, <2>2 DEF Rival
<1> QED BY <1>4, <1>5

\* The record once the server has executed the request in its outbox: what it
\* lacks of the new revisions is in the result that is kept.
LEMMA SentData ==
    ASSUME Base, Grown, mem'.cursor = mem.cursor, NEW d, DataSound(d),
           NEW o, d.outbox = o, o # NoOperation, d.inbox = NoDownload,
           \A p \in Paths : ~InOutbox(d, p),
           answers'[o.id].kind = "ok",
           \A v \in answers'[o.id].versions : Sound(v)',
           \A r \in DOMAIN log' : r \notin DOMAIN log =>
              \E v \in answers'[o.id].versions : v.path = log'[r].path
    PROVE  DataSound(d)'
<1>1. /\ DOMAIN log = 1..Len(log) /\ DOMAIN log' = 1..Len(log')
      /\ Len(log) \in Nat /\ Len(log') \in Nat /\ Len(log) <= Len(log')
      /\ mem.cursor \in Nat /\ mem.cursor <= Len(log)
      /\ \A r \in DOMAIN log : log'[r] = log[r]
  BY DEF Grown, Base, Position, TypeOK
<1>2. ASSUME NEW p \in Paths PROVE d.files[p] = Untracked \/ Genuine(p, d.files[p])'
  <2>1. d.files[p] = Untracked \/ Genuine(p, d.files[p])
    BY DEF DataSound, FilesSound
  <2> QED BY <2>1 DEF Grown
<1>3. ASSUME NEW p \in Paths, NEW r \in Due', log'[r].path = p
      PROVE  Covers(d.files[p], r)' \/ (r > mem'.cursor /\ InOutbox(d, p)')
  <2>1. CASE r \in DOMAIN log
    <3>1. r \in Due /\ log[r].path = p
      BY <1>1, <1>3, <2>1 DEF Due
    <3>2. Covers(d.files[p], r)
      BY <3>1 DEF DataSound, FilesSound
    <3> QED BY <2>1, <3>2 DEF Grown
  <2>2. CASE r \notin DOMAIN log
    <3>1. r \in DOMAIN log'
      BY DEF Due
    <3>2. r > mem'.cursor
      BY <1>1, <2>2, <3>1
    <3>3. InOutbox(d, p)'
      BY <1>3, <2>2, <3>1 DEF InOutbox, NoOperation
    <3> QED BY <3>2, <3>3
  <2> QED BY <2>1, <2>2
<1>4. FilesSound(d)'
  BY <1>2, <1>3 DEF FilesSound, Untracked
<1>5. BoxesSound(d)'
  BY DEF BoxesSound, NoDownload, NoOperation
<1> QED BY <1>4, <1>5 DEF DataSound

\* Send keeps the record, and what it is told may be recorded.
LEMMA SendKeeps ==
    ASSUME TypeInv, Boxes, Based, RowsSound, RecordsSound, Send
    PROVE  RecordsSound' /\ Live' /\ Rivals'
<1> DEFINE q == mem.outbox.request
           id == mem.outbox.id
<1>1. Base /\ Base' /\ Grown /\ RowsSound'
  <2>1. [Next]_vars
    BY DEF Next, Engine
  <2>2. Base /\ Base'
    BY <2>1, NextBase
  <2> QED BY <2>1, <2>2, GrownStep, RowsStep
<1>2. /\ pc = "send" /\ pc' = "answer" /\ mem' = mem /\ saved' = saved
      /\ mem.outbox # NoOperation /\ saved.outbox = mem.outbox
      /\ mem.inbox = NoDownload /\ saved.inbox = NoDownload
      /\ answers[id] = NoReply /\ id \in OpIds
  BY <1>1 DEF Send, Goto, dataVars, Boxes, Base, Shape, SoundData
<1>3. \A p \in Paths : ~InOutbox(mem, p) /\ ~InOutbox(saved, p)
  BY <1>2 DEF InOutbox, NoReply
<1>4. \A v \in reply'.versions : Sound(v)'
  <2>1. (\A p \in Paths : Sound(RowVersion(p)))'
    BY <1>1, RowIsSound, PTL
  <2>2. \A v \in reply'.versions : \E p \in Paths : v = RowVersion(p)'
    BY SentVersions
  <2> QED BY <2>1, <2>2
<1>5. Live'
  BY <1>2, <1>4 DEF Live, InHand, Applying, Installing
<1>6. CASE ~Accepts(q) /\ reply' = ConflictWith(q) /\ UNCHANGED <<log, head, answers, ack>>
  <2>1. KeepsDue
    BY <1>1, <1>2, <1>6 DEF KeepsDue, Due
  <2>2. RecordsSound'
    BY <1>2, <1>6, <2>1, DataIsKept DEF RecordsSound, DataKept
  <2>3. Rivals'
    <3>1. CASE q.kind # "apply"
      BY <1>2, <1>6, <3>1 DEF Rivals, ConflictWith
    <3>2. CASE q.kind = "apply"
      <4>1. PICK p \in Paths : p = q.path
        BY <1>1, <1>2, <3>2, SendRequest DEF Base, Request
      <4>2. q.base = mem.files[p].rev
        BY <1>2, <3>2, <4>1 DEF Based
      <4>3. head[p].rev # mem.files[p].rev
        BY <1>6, <3>2, <4>1, <4>2 DEF Accepts
      <4>4. Rival(RowVersion(p))
        BY <1>1, <1>3, <4>3, RefusedRival DEF RecordsSound, DataSound
      <4>5. reply'.versions = {RowVersion(p)}
        BY <1>6, <3>2, <4>1 DEF ConflictWith
      <4>6. \A v : Rival(v) => Rival(v)'
        BY <1>1 DEF Grown
      <4> QED BY <1>2, <4>4, <4>5, <4>6 DEF Rivals
    <3> QED BY <3>1, <3>2
  <2> QED BY <1>5, <2>2, <2>3
<1>7. ASSUME NEW new, Extends(new), reply' = Accepted(q, new),
             answers' = [answers EXCEPT ![id] = reply']
      PROVE  RecordsSound' /\ Live' /\ Rivals'
  <2>1. answers'[id] = reply' /\ reply'.kind = "ok"
    BY <1>1, <1>2, <1>7 DEF Base, TypeOK, Accepted
  <2>2. ASSUME NEW r \in DOMAIN log', r \notin DOMAIN log
        PROVE  \E v \in reply'.versions : v.path = log'[r].path
    <3>1. new \in Seq(Entry) /\ AppendEntries(new)
      BY <1>7 DEF Extends
    <3>2. /\ Len(log) \in Nat /\ Len(new) \in Nat /\ Len(log') = Len(log) + Len(new)
          /\ \A i \in 1..Len(new) : log'[Len(log) + i] = new[i]
          /\ DOMAIN log = 1..Len(log) /\ DOMAIN log' = 1..Len(log')
          /\ DOMAIN new = 1..Len(new)
      <4>1. log \in Seq(Entry) /\ head \in [Paths -> Row]
        BY <1>1 DEF Base, TypeOK
      <4>2. DOMAIN log = 1..Len(log) /\ DOMAIN log' = 1..Len(log') /\ DOMAIN new = 1..Len(new)
        BY <1>1, <3>1 DEF Grown
      <4> QED BY <3>1, <4>1, <4>2, Appended
    <3>3. PICK i \in 1..Len(new) : r = Len(log) + i /\ log'[r] = new[i]
      <4>1. r - Len(log) \in 1..Len(new) /\ r = Len(log) + (r - Len(log))
        BY <2>2, <3>2
      <4> QED BY <3>2, <4>1
    <3>4. new # <<>>
      BY <3>2, <3>3
    <3>5. reply'.versions = {[path |-> new[j].path, rev |-> Len(log) + j,
                              content |-> new[j].content] : j \in DOMAIN new}
      BY <1>7, <3>4 DEF Accepted
    <3> DEFINE v == [path |-> new[i].path, rev |-> Len(log) + i, content |-> new[i].content]
    <3>6. v \in reply'.versions /\ v.path = log'[r].path
      BY <3>2, <3>3, <3>5
    <3> QED BY <3>6
  <2>3. PICK o : o = mem.outbox
    OBVIOUS
  <2>4. /\ answers'[o.id].kind = "ok" /\ o # NoOperation
        /\ \A v \in answers'[o.id].versions : Sound(v)'
        /\ \A r \in DOMAIN log' : r \notin DOMAIN log =>
              \E v \in answers'[o.id].versions : v.path = log'[r].path
    BY <1>2, <1>4, <2>1, <2>2, <2>3
  <2>5. PICK d : d = mem
    OBVIOUS
  <2>6. PICK e : e = saved
    OBVIOUS
  <2>7. /\ DataSound(d) /\ d.outbox = o /\ d.inbox = NoDownload
        /\ \A p \in Paths : ~InOutbox(d, p)
    BY <1>2, <1>3, <2>3, <2>5 DEF RecordsSound
  <2>8. /\ DataSound(e) /\ e.outbox = o /\ e.inbox = NoDownload
        /\ \A p \in Paths : ~InOutbox(e, p)
    BY <1>2, <1>3, <2>3, <2>6 DEF RecordsSound
  <2>9. mem'.cursor = mem.cursor
    BY <1>2
  <2>10. DataSound(d)'
    BY <1>1, <2>4, <2>7, <2>9, SentData
  <2>11. DataSound(e)'
    BY <1>1, <2>4, <2>8, <2>9, SentData
  <2>12. RecordsSound'
    BY <1>2, <2>5, <2>6, <2>10, <2>11 DEF RecordsSound
  <2>13. Rivals'
    BY <1>2, <2>1 DEF Rivals
  <2> QED BY <1>5, <2>12, <2>13
<1>8. \/ ~Accepts(q) /\ reply' = ConflictWith(q) /\ UNCHANGED <<log, head, answers, ack>>
      \/ \E new : /\ Extends(new) /\ reply' = Accepted(q, new)
                  /\ answers' = [answers EXCEPT ![id] = reply']
  BY SendAppends, Zenon
<1> QED BY <1>6, <1>7, <1>8

\* The cursor moves over revisions that are recorded.
LEMMA CursorMoves ==
    ASSUME Base, RecordsSound, NEW upto \in Nat, mem.outbox = NoOperation,
           \A r \in 1..upto : r \in DOMAIN log => Covered(r),
           mem'.files = mem.files, mem'.cursor = upto, UNCHANGED <<log, head, ack>>,
           mem'.inbox = NoDownload, mem'.outbox = NoOperation, saved' = mem'
    PROVE  RecordsSound'
<1>1. FilesSound(mem) /\ \A p \in Paths : ~InOutbox(mem, p)
  BY DEF RecordsSound, DataSound, InOutbox
<1>2. DOMAIN log \subseteq Nat
  BY DEF Base, TypeOK
<1>3. ASSUME NEW p \in Paths, NEW r \in Due', log[r].path = p PROVE Covers(mem.files[p], r)
  <2>1. r \in DOMAIN log /\ (r <= upto \/ log[r].mine)
    BY DEF Due
  <2>2. CASE log[r].mine
    <3>1. r \in Due
      BY <2>1, <2>2 DEF Due
    <3> QED BY <1>1, <1>3, <3>1 DEF FilesSound
  <2>3. CASE r <= upto
    <3>1. r \in 1..upto
      <4>1. r \in 1..Len(log)
        BY <2>1 DEF Base, TypeOK
      <4> QED BY <2>3, <4>1
    <3> QED BY <1>3, <2>1, <3>1 DEF Covered
  <2> QED BY <2>1, <2>2, <2>3
<1>4. \A p \in Paths : mem.files[p] = Untracked \/ Genuine(p, mem.files[p])
  BY <1>1 DEF FilesSound
<1>5. PICK d : d = mem'
  OBVIOUS
<1>6. FilesSound(d)'
  BY <1>3, <1>4, <1>5 DEF FilesSound, Genuine, Covers, Untracked
<1>7. BoxesSound(d)'
  BY <1>5 DEF BoxesSound
<1>8. DataSound(d)'
  BY <1>6, <1>7 DEF DataSound
<1> QED BY <1>5, <1>8 DEF RecordsSound

\* At the end of a page.
LEMMA PageDoneKeeps ==
    ASSUME Base, Boxes, RecordsSound, PageProgress, PageDone
    PROVE  RecordsSound' /\ Live' /\ Rivals'
<1>1. /\ pc = "page" /\ PageDue = {} /\ mem' = [mem EXCEPT !.cursor = run.upto]
      /\ saved' = mem' /\ UNCHANGED <<log, head, ack>> /\ pc' \in {"pull", "finish"}
  BY DEF PageDone, Persist, PageCursor, NoRequest, serverVars
<1>2. mem.outbox = NoOperation /\ mem.inbox = NoDownload
  BY <1>1 DEF Boxes, Installing
<1>3. /\ mem'.files = mem.files /\ mem'.cursor = run.upto
      /\ mem'.inbox = NoDownload /\ mem'.outbox = NoOperation
  BY <1>1, <1>2 DEF Base, Fields, HasFields, DataFields
<1>4. /\ run.at \in Nat /\ run.upto \in Nat
      /\ \A r \in 1..run.at : Covered(r)
  BY <1>1 DEF Base, RunTypes, PageProgress, InHand, Applying, Installing
<1>5. ASSUME NEW r \in 1..run.upto PROVE Covered(r)
  <2>1. CASE r <= run.at
    BY <1>4, <2>1
  <2>2. CASE ~(r <= run.at)
    <3>1. r \in (run.at + 1)..run.upto
      BY <1>4, <2>2
    <3>2. mem.files[log[r].path].rev >= r
      BY <1>1, <3>1 DEF PageDue
    <3> QED BY <3>2 DEF Covered, Covers
  <2> QED BY <2>1, <2>2
<1>6. RecordsSound'
  BY <1>1, <1>2, <1>3, <1>4, <1>5, CursorMoves
<1> QED BY <1>1, <1>6 DEF Live, Rivals, InHand, Applying, Installing

\* At the end of a snapshot.
LEMMA MergeDoneKeeps ==
    ASSUME Base, Boxes, RecordsSound, MergeProgress, MergeDone
    PROVE  RecordsSound' /\ Live' /\ Rivals'
<1>1. /\ pc = "merge" /\ MergeDue = {} /\ mem' = [mem EXCEPT !.cursor = run.upto]
      /\ saved' = mem' /\ UNCHANGED <<log, head, ack>> /\ pc' = "renames"
  BY DEF MergeDone, BeginRenames, Persist, NoRequest, serverVars
<1>2. mem.outbox = NoOperation /\ mem.inbox = NoDownload
  BY <1>1 DEF Boxes, Installing
<1>3. /\ mem'.files = mem.files /\ mem'.cursor = run.upto
      /\ mem'.inbox = NoDownload /\ mem'.outbox = NoOperation
  BY <1>1, <1>2 DEF Base, Fields, HasFields, DataFields
<1>4. run.upto \in Nat
  BY DEF Base, RunTypes
<1>5. ASSUME NEW r \in 1..run.upto PROVE Covered(r)
  <2>1. log[r].path \in run.todo \/ Covered(r)
    BY <1>1 DEF MergeProgress, InSnapshot, InHand, Applying, Installing
  <2>2. CASE log[r].path \in run.todo
    <3>1. PICK p \in run.todo : p = log[r].path
      BY <2>2
    <3>2. mem.files[p].rev >= SnapshotVersion(p).rev
      BY <1>1 DEF MergeDue
    <3>3. r <= SnapshotVersion(p).rev /\ SnapshotVersion(p).rev \in 1..run.upto
      BY <1>1, <3>1, SnapshotVersionType DEF Base
    <3>4. p \in Paths
      <4>1. run.todo \subseteq Paths
        BY DEF Base, RunTypes
      <4> QED BY <4>1
    <3>5. mem.files[p].rev \in Nat
      BY <3>4, RecordedRevision DEF RecordsSound, DataSound
    <3>6. r <= mem.files[p].rev
      BY <1>4, <3>2, <3>3, <3>5
    <3> QED BY <3>1, <3>6 DEF Covered, Covers
  <2> QED BY <2>1, <2>2
<1>6. RecordsSound'
  BY <1>1, <1>2, <1>3, <1>4, <1>5, CursorMoves
<1> QED BY <1>1, <1>6 DEF Live, Rivals, InHand, Applying, Installing

-----------------------------------------------------------------------------
(* The invariant.                                                          *)

RecordInv ==
    /\ TypeInv
    /\ Boxes /\ Based /\ FirstRun
    /\ RowsSound /\ RecordsSound /\ Live
    /\ Progress
    /\ Rivals /\ ConflictNeedsRival

\* Nothing is recorded at the start, and the log has no change of this device.
LEMMA InitRecords == Init => RecordInv
<1> SUFFICES ASSUME Init PROVE RecordInv
  OBVIOUS
<1>1. TypeInv
  BY InitEngineInv, InitTypes DEF TypeInv
<1>2. PICK mode \in InitialModes : mem = EmptyData(mode) /\ saved = mem
  BY DEF Init
<1>3. /\ mem.inbox = NoDownload /\ mem.outbox = NoOperation /\ mem.cursor = 0
      /\ \A p \in Paths : mem.files[p] = Untracked
  BY <1>2 DEF EmptyData
<1>4. /\ pc = "idle" /\ run = IdleRun /\ run.ret = "idle" /\ ack = 0 /\ copies = {}
  BY DEF Init, ServerInit, IdleRun
<1>5. Boxes /\ Based
  BY <1>2, <1>3, <1>4 DEF Boxes, Based
<1>6. FirstRun
  BY <1>2, <1>4 DEF FirstRun, InSnapshot
<1>7. RowsSound
  BY InitRows
<1>8. Due = {}
  <2>1. DOMAIN log = 1..Len(log) /\ \A r \in DOMAIN log : ~log[r].mine
    BY InitServer DEF Init
  <2> QED BY <1>3, <2>1 DEF Due
<1>9. DataSound(mem)
  BY <1>3, <1>8 DEF DataSound, FilesSound, BoxesSound
<1>10. RecordsSound
  BY <1>2, <1>9 DEF RecordsSound
<1>11. Live /\ Rivals /\ ConflictNeedsRival
  BY <1>4 DEF Live, Rivals, ConflictNeedsRival, InHand, Applying, Installing
<1>12. Progress
  BY <1>4 DEF Progress, PageProgress, MergeProgress, InSnapshot
<1> QED BY <1>1, <1>5, <1>6, <1>7, <1>10, <1>11, <1>12 DEF RecordInv

\* Every step keeps the invariant.
LEMMA RecordInvStep == RecordInv /\ [Next]_vars => RecordInv'
<1> SUFFICES ASSUME RecordInv, [Next]_vars PROVE RecordInv'
  OBVIOUS
<1>1. /\ TypeInv /\ Base /\ Fields /\ Calls /\ Position /\ Artifacts /\ Grown
      /\ Boxes /\ Based /\ FirstRun /\ RowsSound /\ RecordsSound /\ Live
      /\ Progress /\ PageProgress /\ MergeProgress /\ Rivals /\ ConflictNeedsRival
  BY HasBase, GrownStep DEF RecordInv, Base, Progress
<1>2. TypeInv'
  BY <1>1, TypeInvStep
<1>3. Boxes' /\ Based' /\ FirstRun'
  BY <1>1, BoxesStep, BasedStep, FirstRunStep
<1>4. RowsSound'
  BY <1>1, RowsStep
<1>5. RecordsSound' /\ Live' /\ Rivals'
  <2>1. CASE Send
    BY <1>1, <2>1, SendKeeps
  <2>2. CASE PageDone
    BY <1>1, <2>2, PageDoneKeeps
  <2>3. CASE MergeDone
    BY <1>1, <2>3, MergeDoneKeeps
  <2>4. CASE ~Send /\ ~PageDone /\ ~MergeDone
    <3>1. KeepsDue
      BY <1>1, <2>4, DueKept
    <3>2. SoundsKept /\ DataKept
      BY <3>1, SoundsAreKept, DataIsKept
    <3> QED BY <1>1, <2>4, <3>1, <3>2, RecordsStep, LiveStep, RivalsStep
  <2> QED BY <2>1, <2>2, <2>3, <2>4
<1>6. Progress'
  BY <1>1, ProgressStep
<1>7. ConflictNeedsRival'
  BY <1>1, CopiesStep
<1> QED BY <1>2, <1>3, <1>4, <1>5, <1>6, <1>7 DEF RecordInv

LEMMA RecordInvHolds == Spec => []RecordInv
BY InitRecords, RecordInvStep, PTL DEF Spec

\* Whatever crashes, lost answers, repeated operations and collected tombstones do,
\* a change at or below the cursor is recorded, in memory as on disk: the device
\* never passes over a change (sync-engine.ts, run and reconcileSnapshot).
THEOREM CursorCoversLog == Spec => []CursorCovers
<1>1. RecordInv => CursorCovers
  <2> SUFFICES ASSUME RecordInv, NEW data \in {mem, saved}, NEW r \in 1..data.cursor
               PROVE  \/ data.files[log[r].path].rev >= r
                      \/ data.files[log[r].path] = NoRow /\ r <= ack
    BY Zenon DEF CursorCovers
  <2>1. /\ FilesSound(data) /\ data.cursor = mem.cursor /\ mem.cursor \in Nat
        /\ mem.cursor <= Len(log) /\ Len(log) \in Nat /\ log \in Seq(Entry)
    BY HasBase DEF RecordInv, RecordsSound, DataSound, Base, Position, TypeOK
  <2>2. r \in DOMAIN log /\ r <= mem.cursor /\ ~(r > mem.cursor)
    BY <2>1
  <2>3. log[r].path \in Paths
    <3>1. log[r] \in Entry
      BY <2>1, <2>2
    <3> QED BY <3>1 DEF Entry
  <2>4. Covers(data.files[log[r].path], r)
    BY <2>1, <2>2, <2>3 DEF FilesSound, Due
  <2> QED BY <2>4 DEF Covers
<1> QED BY <1>1, RecordInvHolds, PTL

\* A device never makes a conflict copy against a change of its own: not after a
\* lost answer, a resent operation, a crash between a result and its record, or a
\* run that failed (sync-engine.ts, applyRemoteChange and the handling of a 409).
THEOREM ConflictsHaveRivals == Spec => []ConflictNeedsRival
<1>1. RecordInv => ConflictNeedsRival
  BY DEF RecordInv
<1> QED BY <1>1, RecordInvHolds, PTL

-----------------------------------------------------------------------------
(* The queue of changed paths.                                             *)

\* A step takes a path off the queue only if the run has noted it, or for a
\* rename that the server has accepted.
EventsKept ==
    \A p \in Paths : up' /\ p \in mem.pending \ mem'.pending =>
        \/ p \in run.noted
        \/ /\ pc = "answer" /\ mem.outbox.request.kind = "rename"
           /\ p \in Touched(mem.outbox.request)

\* A step that queues paths, or none.
LEMMA EventsQueued ==
    ASSUME mem.pending \subseteq mem'.pending
    PROVE  EventsKept
BY DEF EventsKept

\* acceptRenameResult takes both paths of the rename off the queue.
LEMMA EventsAnswerMoved == ASSUME Fields, AnswerMoved PROVE EventsKept
<1>1. /\ pc = "answer" /\ mem.outbox.request.kind = "rename"
      /\ Touched(mem.outbox.request) = {mem.outbox.request.from, mem.outbox.request.path}
  BY DEF AnswerMoved, Touched
<1>2. mem'.pending = mem.pending \ {mem.outbox.request.from, mem.outbox.request.path}
  BY DEF AnswerMoved, Complete, Fields, HasFields, DataFields
<1> QED BY <1>1, <1>2 DEF EventsKept

\* Finish takes those off that were noted.
LEMMA EventsFinish == ASSUME Fields, Finish PROVE EventsKept
<1>1. mem'.pending = mem.pending \ run.noted
  BY DEF Finish, Persist, PendingAfter, Fields, HasFields, DataFields
<1> QED BY <1>1 DEF EventsKept

\* A crash ends the plugin, and what was not saved with it.
LEMMA EventsCrash == ASSUME Crash PROVE EventsKept
BY DEF Crash, EventsKept

\* The user's events queue their paths.
LEMMA EventsNoted ==
    ASSUME Fields, NEW ps, NEW queue, NoteEvents(ps, queue)
    PROVE  EventsKept
<1>1. mem.pending \subseteq mem'.pending
  BY DEF NoteEvents, Queued, Fields, HasFields, DataFields
<1> QED BY <1>1, EventsQueued

\* No other step takes a path off.
LEMMA EventsStep ==
    Fields /\ [Next]_vars => EventsKept
<1> SUFFICES ASSUME Fields, [Next]_vars PROVE EventsKept
  OBVIOUS
<1>1. CASE ResumeInbox
  <2> USE DEF Fields, HasFields, DataFields, dataVars
  <2>1. CASE InboxInstalled
    BY <2>1, EventsQueued DEF InboxInstalled, Quiet, NoRequest, CleanUp, serverVars,
       historyVars
  <2>2. CASE InboxReady
    BY <2>2, EventsQueued DEF InboxReady, Quiet, NoRequest, fileVars, serverVars,
       historyVars
  <2>3. CASE InboxLost
    BY <2>3, EventsQueued DEF InboxLost, Quiet, NoRequest, Persist, CleanUp,
       serverVars, historyVars
  <2>4. CASE InboxDone
    BY <2>4, EventsQueued DEF InboxDone, Quiet, NoRequest, Goto, fileVars,
       serverVars, historyVars
  <2> HIDE DEF Fields, HasFields, DataFields, dataVars
  <2> QED BY <1>1, <2>1, <2>2, <2>3, <2>4 DEF ResumeInbox
<1>2. CASE ResumeOutbox
  <2> USE DEF Fields, HasFields, DataFields, dataVars
  <2>1. CASE OutboxCommitted
    BY <2>1, EventsQueued DEF OutboxCommitted, Quiet, serverVars, fileVars,
       historyVars, NoRequest
  <2>2. CASE OutboxResent
    BY <2>2, EventsQueued DEF OutboxResent, Quiet, NoRequest, fileVars, serverVars,
       historyVars
  <2>3. CASE OutboxAbandoned
    BY <2>3, EventsQueued DEF OutboxAbandoned, Quiet, NoRequest, Persist, Discarded,
       Queued, fileVars, serverVars, historyVars
  <2>4. CASE OutboxDone
    BY <2>4, EventsQueued DEF OutboxDone, Quiet, NoRequest, Goto, BeginRenames,
       fileVars, serverVars, historyVars
  <2> HIDE DEF Fields, HasFields, DataFields, dataVars
  <2> QED BY <1>2, <2>1, <2>2, <2>3, <2>4 DEF ResumeOutbox
<1>3. CASE Reconcile
  <2> USE DEF Fields, HasFields, DataFields, dataVars
  <2>1. CASE ReadSnapshot
    BY <2>1, EventsQueued DEF ReadSnapshot, Quiet, NoRequest, fileVars, serverVars,
       historyVars
  <2>2. CASE PreserveLocal
    BY <2>2, EventsQueued DEF PreserveLocal, Quiet, EndRun, serverVars, IdleRun,
       NoRequest, historyVars
  <2>3. CASE DiscardLocal
    BY <2>3, EventsQueued DEF DiscardLocal, Quiet, Return, EndRun, serverVars,
       IdleRun, NoRequest, historyVars
  <2>4. CASE PreserveDone
    BY <2>4, EventsQueued DEF PreserveDone, Quiet, NoRequest, Goto, fileVars,
       serverVars, historyVars
  <2>5. CASE MergeSnapshot
    BY <2>5, EventsQueued DEF MergeSnapshot, NoRequest, fileVars, serverVars,
       historyVars
  <2>6. CASE MergeDone
    BY <2>6, EventsQueued DEF MergeDone, Quiet, NoRequest, Persist, BeginRenames,
       fileVars, serverVars, historyVars
  <2> HIDE DEF Fields, HasFields, DataFields, dataVars
  <2> QED BY <1>3, <2>1, <2>2, <2>3, <2>4, <2>5, <2>6 DEF Reconcile
<1>4. CASE Renames
  <2> USE DEF Fields, HasFields, DataFields, dataVars
  <2>1. CASE RenameSkipped
    BY <2>1, EventsQueued DEF RenameSkipped, Quiet, NoRequest, fileVars, serverVars,
       historyVars
  <2>2. CASE RenameStaged
    BY <2>2, EventsQueued DEF RenameStaged, Quiet, Stage, fileVars, serverVars,
       historyVars, Persist, NoRequest
  <2>3. CASE RenamesDone
    BY <2>3, EventsQueued DEF RenamesDone, Quiet, NoRequest, Goto, fileVars,
       serverVars, historyVars
  <2> HIDE DEF Fields, HasFields, DataFields, dataVars
  <2> QED BY <1>4, <2>1, <2>2, <2>3 DEF Renames
<1>5. CASE Push
  <2> USE DEF Fields, HasFields, DataFields, dataVars
  <2>1. CASE PlanFull
    BY <2>1, EventsQueued DEF PlanFull, Plan, Quiet, NoRequest, fileVars,
       serverVars, historyVars
  <2>2. CASE PlanQueued
    BY <2>2, EventsQueued DEF PlanQueued, Plan, Quiet, NoRequest, fileVars,
       serverVars, historyVars
  <2>3. CASE PushDone
    BY <2>3, EventsQueued DEF PushDone, Quiet, NoRequest, Stage, fileVars,
       serverVars, historyVars, Persist
  <2>4. CASE DeletesDone
    BY <2>4, EventsQueued DEF DeletesDone, Quiet, NoRequest, fileVars, serverVars,
       historyVars
  <2>5. ASSUME NEW p \in Paths, ScanPath(p) PROVE EventsKept
    BY <2>5, EventsQueued DEF ScanPath, Quiet, NoRequest, fileVars, serverVars,
       historyVars
  <2>6. ASSUME NEW p \in Paths, PushPath(p) PROVE EventsKept
    BY <2>6, EventsQueued DEF PushPath, Quiet, NoRequest, Stage, Queued, Unnoted,
       fileVars, serverVars, historyVars, Persist
  <2>7. ASSUME NEW p \in Paths, DeletePath(p) PROVE EventsKept
    BY <2>7, EventsQueued DEF DeletePath, Quiet, Stage, fileVars, serverVars,
       historyVars, Persist, NoRequest
  <2> HIDE DEF Fields, HasFields, DataFields, dataVars
  <2> QED BY <1>5, <2>1, <2>2, <2>3, <2>4, <2>5, <2>6, <2>7 DEF Push
<1>6. CASE Answered
  <2>1. CASE AnswerMoved
    BY <2>1, EventsAnswerMoved
  <2> USE DEF Fields, HasFields, DataFields, dataVars
  <2>2. CASE AnswerApplied
    BY <2>2, EventsQueued DEF AnswerApplied, Quiet, Goto, Return, Complete, Queued,
       serverVars, fileVars, historyVars, NoRequest
  <2>3. CASE AnswerConflict
    BY <2>3, EventsQueued DEF AnswerConflict, Quiet, Persist, Discarded, serverVars,
       fileVars, historyVars, NoRequest
  <2>4. CASE KeepRefused
    BY <2>4, EventsQueued DEF KeepRefused, Quiet, NoRequest, serverVars, historyVars
  <2>5. CASE AnswerMoveConflict
    BY <2>5, EventsQueued DEF AnswerMoveConflict, Quiet, Goto, Return, Discarded,
       Queued, serverVars, fileVars, historyVars, NoRequest
  <2>6. CASE AnswerBatch
    BY <2>6, EventsQueued DEF AnswerBatch, Quiet, Complete, serverVars, fileVars,
       historyVars, NoRequest
  <2>7. CASE AnswerBatchConflict
    BY <2>7, EventsQueued DEF AnswerBatchConflict, Quiet, Persist, Discarded,
       Queued, serverVars, fileVars, historyVars, NoRequest
  <2> HIDE DEF Fields, HasFields, DataFields, dataVars
  <2> QED BY <1>6, <2>1, <2>2, <2>3, <2>4, <2>5, <2>6, <2>7 DEF Answered
<1>7. CASE Apply
  <2> USE DEF Fields, HasFields, DataFields, dataVars
  <2>1. CASE ApplyRemoteChange
    BY <2>1, EventsQueued DEF ApplyRemoteChange, Quiet, NoRequest, Goto, Return,
       StageDownload, Persist, serverVars, historyVars
  <2>2. CASE RemoveLocal
    BY <2>2, EventsQueued DEF RemoveLocal, Quiet, Return, EndRun, serverVars,
       IdleRun, NoRequest, historyVars
  <2>3. CASE Download
    BY <2>3, EventsQueued DEF Download, Quiet, NoRequest, Goto, serverVars,
       historyVars
  <2>4. CASE SetAside
    BY <2>4, EventsQueued DEF SetAside, Quiet, NoRequest, Goto, serverVars,
       historyVars
  <2>5. CASE SwapIn
    BY <2>5, EventsQueued DEF SwapIn, Quiet, Goto, EndRun, serverVars, IdleRun,
       NoRequest, historyVars
  <2>6. CASE VerifyInstalled
    BY <2>6, EventsQueued DEF VerifyInstalled, Quiet, Goto, EndRun, serverVars,
       IdleRun, NoRequest, historyVars
  <2>7. CASE FinishDownload
    BY <2>7, EventsQueued DEF FinishDownload, Quiet, NoRequest, Goto, fileVars,
       serverVars, historyVars
  <2>8. CASE Save
    BY <2>8, EventsQueued DEF Save, Quiet, NoRequest, Return, fileVars, serverVars,
       historyVars
  <2> HIDE DEF Fields, HasFields, DataFields, dataVars
  <2> QED BY <1>7, <2>1, <2>2, <2>3, <2>4, <2>5, <2>6, <2>7, <2>8 DEF Apply
<1>8. CASE Pull
  <2>1. CASE Finish
    BY <2>1, EventsFinish
  <2> USE DEF Fields, HasFields, DataFields, dataVars
  <2>2. CASE PullPage
    BY <2>2, EventsQueued DEF PullPage, Quiet, NoRequest, fileVars, serverVars,
       historyVars
  <2>3. CASE PageChange
    BY <2>3, EventsQueued DEF PageChange, Quiet, NoRequest, fileVars, serverVars,
       historyVars
  <2>4. CASE PageDone
    BY <2>4, EventsQueued DEF PageDone, Quiet, NoRequest, Persist, fileVars,
       serverVars, historyVars
  <2>5. CASE AckCursor
    BY <2>5, EventsQueued DEF AckCursor, Quiet, Goto, Acknowledge, fileVars,
       serverVars, historyVars, NoRequest
  <2>6. CASE CompleteRun
    BY <2>6, EventsQueued DEF CompleteRun, Quiet, EndRun, serverVars, fileVars,
       historyVars, IdleRun, NoRequest
  <2> HIDE DEF Fields, HasFields, DataFields, dataVars
  <2> QED BY <1>8, <2>1, <2>2, <2>3, <2>4, <2>5, <2>6 DEF Pull
<1>9. ASSUME NEW p \in Paths, NEW content \in UserContents \cup {Absent},
   UserEdit(p, content) PROVE EventsKept
  BY <1>9, EventsNoted DEF UserEdit
<1>10. ASSUME NEW from \in Paths, NEW to \in Paths, UserRename(from, to) PROVE
   EventsKept
  BY <1>10, EventsNoted DEF UserRename
<1>11. CASE StartRun
  BY <1>11, EventsQueued DEF StartRun, Fields, HasFields, DataFields, dataVars,
     Quiet, NoRequest, Goto, fileVars, serverVars, historyVars
<1>12. CASE Send
  BY <1>12, EventsQueued DEF Send, Fields, HasFields, DataFields, dataVars, Quiet,
     Goto, fileVars, serverVars, historyVars, NoRequest
<1>13. CASE ServerMoves
  BY <1>13, EventsQueued DEF ServerMoves, Fields, HasFields, DataFields, dataVars,
     Spend, fileVars, serverVars, historyVars
<1>14. CASE SaveEvents
  BY <1>14, EventsQueued DEF SaveEvents, Fields, HasFields, DataFields, dataVars,
     Quiet, NoRequest, fileVars, serverVars, historyVars
<1>15. CASE RunFails
  BY <1>15, EventsQueued DEF RunFails, Fields, HasFields, DataFields, dataVars,
     EndRun, Spend, serverVars, IdleRun
<1>16. CASE Crash
  BY <1>16, EventsCrash
<1>17. CASE Restart
  BY <1>17, EventsQueued DEF Restart, Fields, HasFields, DataFields, dataVars,
     NoRequest, fileVars, historyVars, serverVars
<1>18. CASE UNCHANGED vars
  BY <1>18, EventsQueued DEF vars, dataVars
<1> QED BY <1>1, <1>2, <1>3, <1>4, <1>5, <1>6, <1>7, <1>8, <1>9, <1>10, <1>11, <1>12,
         <1>13, <1>14, <1>15, <1>16, <1>17, <1>18 DEF Next, Engine, User

\* An event that is newer than the scan that a run acknowledges stays queued, whatever
\* the run does in between (sync-engine.ts, acknowledgePendingPaths): only an accepted
\* rename takes its two paths off without having noted them.
THEOREM NewerEventsStay == Spec => NewerEventsKept
<1>1. TypeInv /\ [Next]_vars => EventsKept
  <2>1. TypeInv => Fields
    BY HasBase DEF Base
  <2> QED BY <2>1, EventsStep
<1>2. TypeInv /\ [Next]_vars =>
        [\A p \in Paths : up' /\ p \in mem.pending \ mem'.pending =>
           \/ p \in run.noted
           \/ /\ pc = "answer" /\ mem.outbox.request.kind = "rename"
              /\ p \in Touched(mem.outbox.request)]_vars
  BY <1>1 DEF EventsKept
<1>3. Init => TypeInv
  BY InitEngineInv, InitTypes DEF TypeInv
<1> QED BY <1>2, <1>3, TypeInvStep, PTL DEF Spec, NewerEventsKept

=============================================================================
