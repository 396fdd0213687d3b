-------------------------- MODULE SyncEngineProofs --------------------------
(***************************************************************************)
(* Theorems about SyncEngine, for all values of its constants.             *)
(***************************************************************************)
EXTENDS SyncEngine, FiniteSetTheorems, WellFoundedInduction, TLAPS

-----------------------------------------------------------------------------
(* Finite sets.                                                            *)

\* What the steps of the engine do to sets keeps them finite.
LEMMA Finite ==
    /\ IsFiniteSet({})
    /\ \A x, y : IsFiniteSet({x}) /\ IsFiniteSet({x, y})
    /\ \A S, T : IsFiniteSet(S) /\ IsFiniteSet(T) => IsFiniteSet(S \cup T)
    /\ \A S, T : IsFiniteSet(S) => IsFiniteSet(S \ T)
<1>1. \A x : IsFiniteSet({x})
  BY FS_Singleton
<1>2. \A S, T : IsFiniteSet(S) /\ IsFiniteSet(T) => IsFiniteSet(S \cup T)
  BY FS_Union
<1>3. \A x, y : {x, y} = {x} \cup {y}
  OBVIOUS
<1>4. ASSUME NEW x, NEW y PROVE IsFiniteSet({x, y})
  <2>1. IsFiniteSet({x}) /\ IsFiniteSet({y})
    BY <1>1
  <2> QED BY <1>2, <1>3, <2>1
<1>5. \A S, T : IsFiniteSet(S) => IsFiniteSet(S \ T)
  BY FS_Difference
<1> QED BY FS_EmptySet, <1>1, <1>2, <1>4, <1>5

\* The image of a finite set under a function is finite.
LEMMA ImageFinite ==
    ASSUME NEW S, IsFiniteSet(S), NEW T, NEW f,
           f = [x \in S |-> f[x]], T = {f[x] : x \in S}
    PROVE  IsFiniteSet(T)
<1>1. f \in Surjection(S, T)
  BY DEF Surjection
<1> QED BY <1>1, FS_Surjection, Zenon

-----------------------------------------------------------------------------
(* Sequences.  What the log holds matters to no theorem below, only that   *)
(* it is a sequence: its elements may be of any set.                       *)

IsASeq(s) == \E S : s \in Seq(S)

\* Short tuples are sequences.
LEMMA TuplesAreSeqs == \A x, y : IsASeq(<<>>) /\ IsASeq(<<x>>) /\ IsASeq(<<x, y>>)
<1>1. \A x, y : <<>> \in Seq({x}) /\ <<x>> \in Seq({x}) /\ <<x, y>> \in Seq({x, y})
  OBVIOUS
<1> QED BY <1>1 DEF IsASeq

\* A concatenation is a sequence, no shorter than what it extends.
LEMMA Concatenated ==
    ASSUME NEW s, NEW t, IsASeq(s), IsASeq(t)
    PROVE  /\ IsASeq(s \o t)
           /\ Len(s \o t) \in Nat /\ Len(s) \in Nat /\ Len(s) <= Len(s \o t)
<1>1. PICK S : s \in Seq(S)
  BY DEF IsASeq
<1>2. PICK T : t \in Seq(T)
  BY DEF IsASeq
<1>3. s \in Seq(S \cup T) /\ t \in Seq(S \cup T)
  BY <1>1, <1>2
<1>4. /\ s \o t \in Seq(S \cup T)
      /\ Len(s \o t) = Len(s) + Len(t) /\ Len(s) \in Nat /\ Len(t) \in Nat
  BY <1>3
<1> QED BY <1>4 DEF IsASeq

\* The orders of a finite set are sequences.
LEMMA OrdersAreSeqs ==
    ASSUME NEW S, IsFiniteSet(S), NEW s \in SetToSeqs(S)
    PROVE  IsASeq(s)
<1>1. Cardinality(S) \in Nat
  BY FS_CardinalityType
<1>2. s \in [1..Cardinality(S) -> S]
  BY DEF SetToSeqs
<1>3. s \in Seq(S)
  BY <1>1, <1>2
<1> QED BY <1>3 DEF IsASeq

\* The smaller of two numbers.
LEMMA MinOfTwo ==
    ASSUME NEW a \in Nat, NEW b \in Nat
    PROVE  /\ Min({a, b}) \in Nat /\ Min({a, b}) \in {a, b}
           /\ Min({a, b}) <= a /\ Min({a, b}) <= b
<1>1. \E x \in {a, b} : \A y \in {a, b} : x <= y
  <2>1. CASE a <= b
    BY <2>1
  <2>2. CASE b <= a
    BY <2>2
  <2> QED BY <2>1, <2>2
<1> QED BY <1>1 DEF Min

-----------------------------------------------------------------------------
(* The shape of the plugin's data: fields, finite sets, sound requests.    *)

DataFields == {"files", "cursor", "inbox", "outbox", "pending", "renames", "mode"}

RunFields == {"deferred", "noted", "full", "scope", "found", "todo", "moves", "at",
              "upto", "more", "change", "keep", "refused", "ret"}

HasFields(r, fields) == r = [f \in fields |-> r[f]]

\* A request the server can execute: a batch is finite.
SoundRequest(q) ==
    \/ q.kind \in {"apply", "rename"}
    \/ q.kind = "batch" /\ IsFiniteSet(q.items)

SoundData(data) ==
    /\ HasFields(data, DataFields)
    /\ IsFiniteSet(data.pending)
    /\ data.outbox # NoOperation =>
         data.outbox.id \in OpIds /\ SoundRequest(data.outbox.request)

\* Where a procedure of the run returns to.
Returns == {"idle", "inbox", "outbox", "preserve", "merge", "renames", "push", "pull",
            "deletes", "page"}

Shape ==
    /\ SoundData(mem)
    /\ SoundData(saved)
    /\ HasFields(run, RunFields)
    /\ IsFiniteSet(run.scope)
    /\ run.ret \in Returns
    /\ pc \in {"send", "answer"} =>
         mem.outbox.id \in OpIds /\ SoundRequest(mem.outbox.request)

\* Init has that shape.
LEMMA InitShape == Init => Shape
<1> SUFFICES ASSUME Init PROVE Shape
  OBVIOUS
<1>1. IsFiniteSet({})
  BY FS_EmptySet
<1>2. PICK mode \in InitialModes : mem = EmptyData(mode)
  BY DEF Init
<1>3. SoundData(mem)
  BY <1>1, <1>2 DEF SoundData, HasFields, DataFields, EmptyData
<1>4. HasFields(run, RunFields) /\ IsFiniteSet(run.scope) /\ run.ret = "idle"
  BY <1>1 DEF Init, IdleRun, HasFields, RunFields
<1> QED BY <1>3, <1>4 DEF Init, Shape, Returns

\* Between runs.
LEMMA IdleShape ==
    /\ HasFields(IdleRun, RunFields)
    /\ IdleRun.scope = {} /\ IdleRun.ret = "idle"
BY DEF HasFields, RunFields, IdleRun

\* However a run ends.
LEMMA ShapeEnded ==
    ASSUME Shape, pc' = "idle", run' = IdleRun, saved' = mem \/ saved' = saved,
           mem' = mem \/ mem' = saved
    PROVE  Shape'
<1>1. IsFiniteSet({}) /\ "idle" \in Returns
  BY Finite DEF Returns
<1> QED BY <1>1, IdleShape DEF Shape, SoundData

\* Whatever request is staged.
LEMMA ShapeStaged ==
    ASSUME Shape, NEW q, SoundRequest(q), Stage(q)
    PROVE  /\ SoundData(mem') /\ saved' = mem' /\ pc' = "send"
           /\ mem'.outbox.id \in OpIds /\ SoundRequest(mem'.outbox.request)
<1>1. FreshId \in OpIds
  BY DEF FreshId, OpIds, Shape, SoundData
<1> QED BY <1>1 DEF Stage, Persist, Shape, SoundData, HasFields, DataFields

\* The paths of a batch, and of any request, are finitely many.
LEMMA BatchPathsFinite ==
    ASSUME NEW q, SoundRequest(q), q.kind = "batch"
    PROVE  IsFiniteSet(BatchPaths(q))
<1> DEFINE f == [item \in q.items |-> item.path]
<1>1. IsFiniteSet(q.items)
  BY DEF SoundRequest
<1>2. BatchPaths(q) = {f[item] : item \in q.items}
  BY DEF BatchPaths
<1>3. f = [item \in q.items |-> f[item]]
  OBVIOUS
<1> HIDE DEF f
<1> QED BY <1>1, <1>2, <1>3, ImageFinite

\* As above, for every kind of request.
LEMMA TouchedFinite == ASSUME NEW q, SoundRequest(q) PROVE IsFiniteSet(Touched(q))
<1>1. CASE q.kind = "batch"
  BY <1>1, BatchPathsFinite DEF Touched
<1>2. CASE q.kind # "batch"
  BY <1>2, Finite DEF SoundRequest, Touched
<1> QED BY <1>1, <1>2

\* RemoveLocal keeps the shape.
LEMMA ShapeRemoveLocal == Shape /\ RemoveLocal => Shape'
<1> SUFFICES ASSUME Shape, RemoveLocal PROVE Shape'
  OBVIOUS
<1>1. CASE disk[run.change.path] = Absent
  BY <1>1, ShapeEnded DEF RemoveLocal, EndRun
<1>2. CASE disk[run.change.path] # Absent
  BY <1>2 DEF RemoveLocal, Return, Returns, Shape, SoundData, HasFields, DataFields,
     RunFields
<1> QED BY <1>1, <1>2

\* DiscardLocal keeps the shape.
LEMMA ShapeDiscardLocal == Shape /\ DiscardLocal => Shape'
<1> SUFFICES ASSUME Shape, DiscardLocal PROVE Shape'
  OBVIOUS
<1>1. CASE disk[run.change.path] = Absent
  BY <1>1, ShapeEnded DEF DiscardLocal, EndRun
<1>2. CASE disk[run.change.path] # Absent
  BY <1>2 DEF DiscardLocal, Return, Returns, Shape, SoundData, HasFields, RunFields,
     dataVars
<1> QED BY <1>1, <1>2

\* PreserveLocal keeps the shape.
LEMMA ShapePreserveLocal == Shape /\ PreserveLocal => Shape'
<1> SUFFICES ASSUME Shape, PreserveLocal PROVE Shape'
  OBVIOUS
<1>1. CASE EndRun
  BY <1>1, ShapeEnded DEF EndRun
<1>2. CASE ~EndRun
  <2>1. PICK p \in run.scope :
         /\ run' = [run EXCEPT !.scope = @ \ {p}, !.ret = "preserve",
                             !.change = [path |-> p, rev |-> 0, content |-> Absent]]
         /\ pc' = "discard"
         /\ UNCHANGED dataVars
    BY <1>2, Zenon DEF PreserveLocal
  <2>2. IsFiniteSet(run.scope \ {p})
    BY Finite DEF Shape
  <2>3. HasFields(run', RunFields) /\ run'.scope = run.scope \ {p} /\ run'.ret \in Returns
    BY <2>1 DEF Shape, HasFields, RunFields, Returns
  <2> QED BY <2>1, <2>2, <2>3 DEF Shape, dataVars
<1> QED BY <1>1, <1>2

\* ReadSnapshot keeps the shape.
LEMMA ShapeReadSnapshot == Shape /\ ReadSnapshot => Shape'
<1> SUFFICES ASSUME Shape, ReadSnapshot PROVE Shape'
  OBVIOUS
<1>1. PICK remote : run'.scope \in {{}, {p \in Paths : disk[p] # Absent} \ remote}
  BY DEF ReadSnapshot, Shape, HasFields, RunFields
<1>2. IsFiniteSet(run'.scope)
  <2>1. {p \in Paths : disk[p] # Absent} \ remote \subseteq Paths
    OBVIOUS
  <2> QED BY <1>1, <2>1, Finite, FS_Subset, ServerAssumption
<1>3. HasFields(run', RunFields) /\ run'.ret = run.ret /\ pc' = "preserve"
  BY DEF ReadSnapshot, Shape, HasFields, RunFields
<1> QED BY <1>2, <1>3 DEF ReadSnapshot, dataVars, Shape

\* AnswerApplied keeps the shape.
LEMMA ShapeAnswerApplied == Shape /\ AnswerApplied => Shape'
<1> SUFFICES ASSUME Shape, AnswerApplied PROVE Shape'
  OBVIOUS
<1>1. CASE Recovering
  <2>1. IsFiniteSet(Queued({mem.outbox.request.path}))
    BY Finite DEF Queued, Shape, SoundData
  <2>2. SoundData(saved') /\ SoundData(mem')
    BY <1>1, <2>1 DEF AnswerApplied, Complete, Shape, SoundData, HasFields, DataFields
  <2> QED BY <1>1, <2>2 DEF AnswerApplied, Goto, Shape
<1>2. CASE ~Recovering
  <2>1. SoundData(saved') /\ SoundData(mem')
    BY <1>2 DEF AnswerApplied, Complete, Shape, SoundData, HasFields, DataFields
  <2>2. HasFields(run', RunFields) /\ run'.scope = run.scope /\ run'.ret = "idle"
    BY <1>2 DEF AnswerApplied, Return, Shape, HasFields, RunFields
  <2>3. pc' \notin {"send", "answer"}
    BY <1>2 DEF AnswerApplied, Return, Returns, Shape
  <2> QED BY <2>1, <2>2, <2>3 DEF Shape, Returns
<1> QED BY <1>1, <1>2

\* AnswerConflict keeps the shape.
LEMMA ShapeAnswerConflict == Shape /\ AnswerConflict => Shape'
<1> SUFFICES ASSUME Shape, AnswerConflict PROVE Shape'
  OBVIOUS
<1>1. SoundData(mem') /\ saved' = mem'
  BY DEF AnswerConflict, Persist, Discarded, Shape, SoundData, HasFields, DataFields
<1>2. PICK v, c : run' = [run EXCEPT !.change = v, !.refused = c]
  BY DEF AnswerConflict
<1>3. HasFields(run', RunFields) /\ run'.scope = run.scope /\ run'.ret = run.ret
  BY <1>2 DEF Shape, HasFields, RunFields
<1>4. pc' \notin {"send", "answer"}
  BY DEF AnswerConflict
<1> QED BY <1>1, <1>3, <1>4 DEF Shape

\* AnswerMoved keeps the shape.
LEMMA ShapeAnswerMoved == Shape /\ AnswerMoved => Shape'
<1> SUFFICES ASSUME Shape, AnswerMoved PROVE Shape'
  OBVIOUS
<1> DEFINE left == mem.pending \ {mem.outbox.request.from, mem.outbox.request.path}
<1>1. IsFiniteSet(left)
  BY Finite DEF Shape, SoundData
<1>2. SoundData(saved') /\ SoundData(mem')
  BY <1>1 DEF AnswerMoved, Complete, Shape, SoundData, HasFields, DataFields
<1>3. pc' = "save" /\ run' = run
  BY DEF AnswerMoved, Goto
<1> QED BY <1>2, <1>3 DEF Shape

\* AnswerMoveConflict keeps the shape.
LEMMA ShapeAnswerMoveConflict == Shape /\ AnswerMoveConflict => Shape'
<1> SUFFICES ASSUME Shape, AnswerMoveConflict PROVE Shape'
  OBVIOUS
<1>1. CASE Recovering
  <2>1. IsFiniteSet(Queued({mem.outbox.request.from, mem.outbox.request.path}))
    BY Finite DEF Queued, Shape, SoundData
  <2>2. SoundData(saved') /\ SoundData(mem')
    BY <1>1, <2>1 DEF AnswerMoveConflict, Discarded, Shape, SoundData, HasFields, DataFields
  <2> QED BY <1>1, <2>2 DEF AnswerMoveConflict, Goto, Shape
<1>2. CASE ~Recovering
  <2>1. SoundData(saved') /\ SoundData(mem')
    BY <1>2 DEF AnswerMoveConflict, Discarded, Shape, SoundData, HasFields, DataFields
  <2>2. HasFields(run', RunFields) /\ run'.scope = run.scope /\ run'.ret = "idle"
    BY <1>2 DEF AnswerMoveConflict, Return, Shape, HasFields, RunFields
  <2>3. pc' \notin {"send", "answer"}
    BY <1>2 DEF AnswerMoveConflict, Return, Returns, Shape
  <2> QED BY <2>1, <2>2, <2>3 DEF Shape, Returns
<1> QED BY <1>1, <1>2

\* AnswerBatchConflict keeps the shape.
LEMMA ShapeAnswerBatchConflict == Shape /\ AnswerBatchConflict => Shape'
<1> SUFFICES ASSUME Shape, AnswerBatchConflict PROVE Shape'
  OBVIOUS
<1>1. SoundData(saved') /\ SoundData(mem')
  <2>1. IsFiniteSet(BatchPaths(mem.outbox.request))
    BY BatchPathsFinite DEF AnswerBatchConflict, Shape
  <2>2. IsFiniteSet(Queued(BatchPaths(mem.outbox.request)))
    BY <2>1, Finite DEF Queued, Shape, SoundData
  <2>3. CASE Recovering
    BY <2>2, <2>3 DEF AnswerBatchConflict, Discarded, Persist, Shape, SoundData,
       HasFields, DataFields
  <2>4. CASE ~Recovering
    BY <2>4 DEF AnswerBatchConflict, Discarded, Persist, Shape, SoundData, HasFields,
       DataFields
  <2> QED BY <2>3, <2>4
<1>2. /\ HasFields(run', RunFields) /\ run'.scope = run.scope /\ run'.ret = "idle"
      /\ pc' \in {"outbox", "deletes"}
  BY DEF AnswerBatchConflict, Shape, HasFields, RunFields
<1> QED BY <1>1, <1>2 DEF Shape, Returns

\* OutboxAbandoned keeps the shape.
LEMMA ShapeOutboxAbandoned == Shape /\ OutboxAbandoned => Shape'
<1> SUFFICES ASSUME Shape, OutboxAbandoned PROVE Shape'
  OBVIOUS
<1>1. IsFiniteSet(Queued(Touched(mem.outbox.request)))
  BY TouchedFinite, Finite DEF Queued, OutboxAbandoned, Shape, SoundData
<1>2. SoundData(mem')
  BY <1>1 DEF OutboxAbandoned, Discarded, Persist, Shape, SoundData, HasFields, DataFields
<1> QED BY <1>2 DEF OutboxAbandoned, Persist, Shape

\* RenameStaged keeps the shape.
LEMMA ShapeRenameStaged == Shape /\ RenameStaged => Shape'
<1> SUFFICES ASSUME Shape, RenameStaged PROVE Shape'
  OBVIOUS
<1>1. PICK q : SoundRequest(q) /\ Stage(q)
  BY DEF RenameStaged, SoundRequest
<1>2. HasFields(run', RunFields) /\ run'.scope = run.scope /\ run'.ret \in Returns
  BY DEF RenameStaged, Shape, HasFields, RunFields, Returns
<1> QED BY <1>1, <1>2, ShapeStaged DEF Shape

\* PlanFull keeps the shape: the paths of the vault are finitely many.
LEMMA ShapePlanFull == Shape /\ PlanFull => Shape'
BY ServerAssumption DEF PlanFull, Plan, Shape, SoundData, HasFields, RunFields, dataVars

\* PushPath keeps the shape.
LEMMA ShapePushPath == ASSUME Shape, NEW p \in Paths, PushPath(p) PROVE Shape'
<1>1. CASE disk[p] = run.found[p]
  <2>1. SoundRequest(ApplyRequest(p, disk[p])) /\ Stage(ApplyRequest(p, disk[p]))
    BY <1>1 DEF PushPath, SoundRequest, ApplyRequest
  <2>2. HasFields(run', RunFields) /\ run'.scope = run.scope /\ run'.ret \in Returns
    BY <1>1 DEF PushPath, Shape, HasFields, RunFields, Returns
  <2> QED BY <2>1, <2>2, ShapeStaged DEF Shape
<1>2. CASE disk[p] # run.found[p]
  <2>1. IsFiniteSet(Queued({p}))
    BY Finite DEF Queued, Shape, SoundData
  <2>2. SoundData(mem') /\ UNCHANGED <<saved, pc>> /\ mem'.outbox = mem.outbox
    BY <1>2, <2>1 DEF PushPath, Shape, SoundData, HasFields, DataFields
  <2>3. HasFields(run', RunFields) /\ run'.scope = run.scope /\ run'.ret = run.ret
    BY <1>2 DEF PushPath, Shape, HasFields, RunFields
  <2> QED BY <2>2, <2>3 DEF Shape
<1> QED BY <1>1, <1>2

\* PushDone keeps the shape: the batch is as finite as the scope.
LEMMA ShapePushDone == Shape /\ PushDone => Shape'
<1> SUFFICES ASSUME Shape, PushDone PROVE Shape'
  OBVIOUS
<1> DEFINE f == [p \in Deletions |-> [path |-> p, base |-> mem.files[p].rev]]
           items == {[path |-> p, base |-> mem.files[p].rev] : p \in Deletions}
<1>1. IsFiniteSet(items)
  <2>1. IsFiniteSet(Deletions)
    BY FS_Subset DEF Deletions, Shape
  <2>2. f = [p \in Deletions |-> f[p]] /\ items = {f[p] : p \in Deletions}
    OBVIOUS
  <2> HIDE DEF f, items
  <2> QED BY <2>1, <2>2, ImageFinite
<1>2. CASE Cardinality(Deletions) > 1
  <2>1. SoundRequest([kind |-> "batch", items |-> items])
    BY <1>1 DEF SoundRequest
  <2>2. Stage([kind |-> "batch", items |-> items])
    BY <1>2 DEF PushDone
  <2>3. HasFields(run', RunFields) /\ run'.scope = run.scope /\ run'.ret \in Returns
    BY <1>2 DEF PushDone, Shape, HasFields, RunFields, Returns
  <2> QED BY <2>1, <2>2, <2>3, ShapeStaged DEF Shape
<1>3. CASE ~(Cardinality(Deletions) > 1)
  BY <1>3 DEF PushDone, Shape, HasFields, RunFields, dataVars
<1> QED BY <1>2, <1>3

\* DeletePath keeps the shape.
LEMMA ShapeDeletePath == ASSUME Shape, NEW p \in Paths, DeletePath(p) PROVE Shape'
<1>1. SoundRequest(ApplyRequest(p, Absent)) /\ Stage(ApplyRequest(p, Absent))
  BY DEF DeletePath, SoundRequest, ApplyRequest
<1>2. HasFields(run', RunFields) /\ run'.scope = run.scope /\ run'.ret \in Returns
  BY DEF DeletePath, Shape, HasFields, RunFields, Returns
<1> QED BY <1>1, <1>2, ShapeStaged DEF Shape

\* Finish keeps the shape.
LEMMA ShapeFinish == Shape /\ Finish => Shape'
<1> SUFFICES ASSUME Shape, Finish PROVE Shape'
  OBVIOUS
<1>1. IsFiniteSet(PendingAfter)
  BY Finite DEF PendingAfter, Shape, SoundData
<1>2. SoundData(mem')
  BY <1>1 DEF Finish, Shape, SoundData, HasFields, DataFields, Persist
<1>3. saved' = mem' /\ pc' = "ack" /\ run' = run
  BY DEF Finish, Persist, Goto
<1> QED BY <1>2, <1>3 DEF Shape

\* A run that completes, fails or is cut off ends with the shape.
LEMMA ShapeEnds == Shape /\ (CompleteRun \/ RunFails \/ Crash) => Shape'
BY ShapeEnded DEF CompleteRun, RunFails, Crash, EndRun

\* The events of a step of the user keep the shape.
LEMMA ShapeNoteEvents ==
    ASSUME Shape, NEW ps, IsFiniteSet(ps), NEW ms, NoteEvents(ps, ms),
           UNCHANGED <<saved, pc>>
    PROVE  Shape'
<1>1. IsFiniteSet(Queued(ps))
  BY Finite DEF Queued, Shape, SoundData
<1>2. SoundData(mem') /\ mem'.outbox = mem.outbox
  BY <1>1 DEF NoteEvents, Shape, SoundData, HasFields, DataFields
<1>3. HasFields(run', RunFields) /\ run'.scope = run.scope /\ run'.ret = run.ret
  BY DEF NoteEvents, Shape, HasFields, RunFields
<1> QED BY <1>2, <1>3 DEF Shape

\* Every step keeps the shape.
LEMMA ShapeStep == Shape /\ [Next]_vars => Shape'
<1> SUFFICES ASSUME Shape, [Next]_vars PROVE Shape'
  OBVIOUS
<1>1. CASE ResumeInbox
  <2> USE DEF Shape, SoundData, HasFields, DataFields, RunFields, Returns
  <2>1. CASE InboxInstalled
    BY <2>1, Finite DEF InboxInstalled, Quiet, NoRequest, dataVars, serverVars,
       historyVars
  <2>2. CASE InboxReady
    BY <2>2, Finite DEF InboxReady, Quiet, NoRequest, dataVars, fileVars,
       serverVars, historyVars
  <2>3. CASE InboxLost
    BY <2>3, Finite DEF InboxLost, Quiet, NoRequest, Persist, serverVars,
       historyVars
  <2>4. CASE InboxDone
    BY <2>4, Finite DEF InboxDone, Quiet, NoRequest, Goto, dataVars, fileVars,
       serverVars, historyVars
  <2> HIDE DEF Shape, SoundData, HasFields, DataFields, RunFields, Returns
  <2> QED BY <1>1, <2>1, <2>2, <2>3, <2>4 DEF ResumeInbox
<1>2. CASE ResumeOutbox
  <2>1. CASE OutboxAbandoned
    BY <2>1, ShapeOutboxAbandoned
  <2> USE DEF Shape, SoundData, HasFields, DataFields, RunFields, Returns
  <2>2. CASE OutboxCommitted
    BY <2>2, Finite DEF OutboxCommitted, Quiet, dataVars, serverVars, fileVars,
       historyVars, NoRequest
  <2>3. CASE OutboxResent
    BY <2>3, Finite DEF OutboxResent, Quiet, NoRequest, dataVars, fileVars,
       serverVars, historyVars
  <2>4. CASE OutboxDone
    BY <2>4, Finite DEF OutboxDone, Quiet, NoRequest, Goto, BeginRenames, dataVars,
       fileVars, serverVars, historyVars
  <2> HIDE DEF Shape, SoundData, HasFields, DataFields, RunFields, Returns
  <2> QED BY <1>2, <2>1, <2>2, <2>3, <2>4 DEF ResumeOutbox
<1>3. CASE Reconcile
  <2>1. CASE ReadSnapshot
    BY <2>1, ShapeReadSnapshot
  <2>2. CASE PreserveLocal
    BY <2>2, ShapePreserveLocal
  <2>3. CASE DiscardLocal
    BY <2>3, ShapeDiscardLocal
  <2> USE DEF Shape, SoundData, HasFields, DataFields, RunFields, Returns
  <2>4. CASE PreserveDone
    BY <2>4, Finite DEF PreserveDone, Quiet, NoRequest, Goto, dataVars, fileVars,
       serverVars, historyVars
  <2>5. CASE MergeSnapshot
    BY <2>5, Finite DEF MergeSnapshot, NoRequest, fileVars, dataVars, serverVars,
       historyVars
  <2>6. CASE MergeDone
    BY <2>6, Finite DEF MergeDone, Quiet, NoRequest, Persist, BeginRenames,
       fileVars, dataVars, serverVars, historyVars
  <2> HIDE DEF Shape, SoundData, HasFields, DataFields, RunFields, Returns
  <2> QED BY <1>3, <2>1, <2>2, <2>3, <2>4, <2>5, <2>6 DEF Reconcile
<1>4. CASE Renames
  <2>1. CASE RenameStaged
    BY <2>1, ShapeRenameStaged
  <2> USE DEF Shape, SoundData, HasFields, DataFields, RunFields, Returns
  <2>2. CASE RenameSkipped
    BY <2>2, Finite DEF RenameSkipped, Quiet, NoRequest, fileVars, dataVars,
       serverVars, historyVars
  <2>3. CASE RenamesDone
    BY <2>3, Finite DEF RenamesDone, Quiet, NoRequest, Goto, fileVars, dataVars,
       serverVars, historyVars
  <2> HIDE DEF Shape, SoundData, HasFields, DataFields, RunFields, Returns
  <2> QED BY <1>4, <2>1, <2>2, <2>3 DEF Renames
<1>5. CASE Push
  <2>1. CASE PlanFull
    BY <2>1, ShapePlanFull
  <2>2. CASE PushDone
    BY <2>2, ShapePushDone
  <2>3. ASSUME NEW p \in Paths, PushPath(p) PROVE Shape'
    BY <2>3, ShapePushPath
  <2>4. ASSUME NEW p \in Paths, DeletePath(p) PROVE Shape'
    BY <2>4, ShapeDeletePath
  <2> USE DEF Shape, SoundData, HasFields, DataFields, RunFields, Returns
  <2>5. CASE PlanQueued
    BY <2>5, Finite DEF PlanQueued, Plan, Quiet, NoRequest, dataVars, fileVars,
       serverVars, historyVars
  <2>6. CASE DeletesDone
    BY <2>6, Finite DEF DeletesDone, Quiet, NoRequest, fileVars, dataVars,
       serverVars, historyVars
  <2>7. ASSUME NEW p \in Paths, ScanPath(p) PROVE Shape'
    BY <2>7, Finite DEF ScanPath, Quiet, NoRequest, dataVars, fileVars, serverVars,
       historyVars
  <2> HIDE DEF Shape, SoundData, HasFields, DataFields, RunFields, Returns
  <2> QED BY <1>5, <2>1, <2>2, <2>3, <2>4, <2>5, <2>6, <2>7 DEF Push
<1>6. CASE Answered
  <2>1. CASE AnswerApplied
    BY <2>1, ShapeAnswerApplied
  <2>2. CASE AnswerConflict
    BY <2>2, ShapeAnswerConflict
  <2>3. CASE AnswerMoved
    BY <2>3, ShapeAnswerMoved
  <2>4. CASE AnswerMoveConflict
    BY <2>4, ShapeAnswerMoveConflict
  <2>5. CASE AnswerBatchConflict
    BY <2>5, ShapeAnswerBatchConflict
  <2> USE DEF Shape, SoundData, HasFields, DataFields, RunFields, Returns
  <2>6. CASE KeepRefused
    BY <2>6, Finite DEF KeepRefused, Quiet, NoRequest, dataVars, serverVars,
       historyVars
  <2>7. CASE AnswerBatch
    BY <2>7, Finite DEF AnswerBatch, Quiet, Complete, serverVars, fileVars,
       dataVars, historyVars, NoRequest
  <2> HIDE DEF Shape, SoundData, HasFields, DataFields, RunFields, Returns
  <2> QED BY <1>6, <2>1, <2>2, <2>3, <2>4, <2>5, <2>6, <2>7 DEF Answered
<1>7. CASE Apply
  <2>1. CASE RemoveLocal
    BY <2>1, ShapeRemoveLocal
  <2> USE DEF Shape, SoundData, HasFields, DataFields, RunFields, Returns
  <2>2. CASE ApplyRemoteChange
    BY <2>2, Finite DEF ApplyRemoteChange, Quiet, NoRequest, Goto, Return,
       StageDownload, dataVars, Persist, serverVars, historyVars
  <2>3. CASE Download
    BY <2>3, Finite DEF Download, Quiet, NoRequest, Goto, serverVars, historyVars
  <2>4. CASE SetAside
    BY <2>4, Finite DEF SetAside, Quiet, NoRequest, Goto, serverVars, historyVars
  <2>5. CASE SwapIn
    BY <2>5, Finite DEF SwapIn, Quiet, Goto, EndRun, dataVars, serverVars, IdleRun,
       NoRequest, historyVars
  <2>6. CASE VerifyInstalled
    BY <2>6, Finite DEF VerifyInstalled, Quiet, Goto, EndRun, dataVars, serverVars,
       IdleRun, NoRequest, historyVars
  <2>7. CASE FinishDownload
    BY <2>7, Finite DEF FinishDownload, Quiet, NoRequest, Goto, fileVars, dataVars,
       serverVars, historyVars
  <2>8. CASE Save
    BY <2>8, Finite DEF Save, Quiet, NoRequest, Return, fileVars, dataVars,
       serverVars, historyVars
  <2> HIDE DEF Shape, SoundData, HasFields, DataFields, RunFields, Returns
  <2> QED BY <1>7, <2>1, <2>2, <2>3, <2>4, <2>5, <2>6, <2>7, <2>8 DEF Apply
<1>8. CASE Pull
  <2>1. CASE Finish
    BY <2>1, ShapeFinish
  <2>2. CASE CompleteRun
    BY <2>2, ShapeEnds
  <2> USE DEF Shape, SoundData, HasFields, DataFields, RunFields, Returns
  <2>3. CASE PullPage
    BY <2>3, Finite DEF PullPage, Quiet, NoRequest, dataVars, fileVars, serverVars,
       historyVars
  <2>4. CASE PageChange
    BY <2>4, Finite DEF PageChange, Quiet, NoRequest, dataVars, fileVars,
       serverVars, historyVars
  <2>5. CASE PageDone
    BY <2>5, Finite DEF PageDone, Quiet, NoRequest, Persist, fileVars, dataVars,
       serverVars, historyVars
  <2>6. CASE AckCursor
    BY <2>6, Finite DEF AckCursor, Quiet, Goto, Acknowledge, dataVars, fileVars,
       serverVars, historyVars, NoRequest
  <2> HIDE DEF Shape, SoundData, HasFields, DataFields, RunFields, Returns
  <2> QED BY <1>8, <2>1, <2>2, <2>3, <2>4, <2>5, <2>6 DEF Pull
<1>9. ASSUME NEW p, NEW content, UserEdit(p, content) PROVE Shape'
  BY <1>9, Finite, ShapeNoteEvents DEF UserEdit, NoRequest, serverVars
<1>10. ASSUME NEW from, NEW to, UserRename(from, to) PROVE Shape'
  BY <1>10, Finite, ShapeNoteEvents DEF UserRename, NoRequest, serverVars
<1>11. CASE StartRun
  BY <1>11, Finite DEF StartRun, Shape, SoundData, HasFields, DataFields, RunFields,
     Returns, Quiet, NoRequest, Goto, dataVars, fileVars, serverVars, historyVars
<1>12. CASE Send
  BY <1>12, Finite DEF Send, Shape, SoundData, HasFields, DataFields, RunFields,
     Returns, Quiet, Goto, dataVars, fileVars, serverVars, historyVars, NoRequest
<1>13. CASE ServerMoves
  BY <1>13, Finite DEF ServerMoves, Shape, SoundData, HasFields, DataFields,
     RunFields, Returns, Spend, dataVars, fileVars, serverVars, historyVars
<1>14. CASE SaveEvents
  BY <1>14, Finite DEF SaveEvents, Shape, SoundData, HasFields, DataFields,
     RunFields, Returns, Quiet, NoRequest, fileVars, dataVars, serverVars,
     historyVars
<1>15. CASE RunFails
  BY <1>15, ShapeEnds
<1>16. CASE Crash
  BY <1>16, ShapeEnds
<1>17. CASE Restart
  BY <1>17, Finite DEF Restart, Shape, SoundData, HasFields, DataFields, RunFields,
     Returns, NoRequest, dataVars, fileVars, historyVars, serverVars
<1>18. CASE UNCHANGED vars
  BY <1>18 DEF Shape, SoundData, HasFields, DataFields, RunFields, Returns, vars,
     serverVars, fileVars, dataVars
<1> QED BY <1>1, <1>2, <1>3, <1>4, <1>5, <1>6, <1>7, <1>8, <1>9, <1>10, <1>11, <1>12,
         <1>13, <1>14, <1>15, <1>16, <1>17, <1>18 DEF Next, Engine, User

\* The part of the shape that the rest of the proof needs.
Fields ==
    /\ HasFields(mem, DataFields)
    /\ HasFields(saved, DataFields)
    /\ HasFields(run, RunFields)
    /\ run.ret \in Returns

\* The shape implies it.
LEMMA ShapeFields == Shape => Fields
BY DEF Shape, SoundData, Fields

-----------------------------------------------------------------------------
(* Where the device is in the log.                                         *)

\* Where the run goes on in a loop over a page of the log or a snapshot.
Loops == {"preserve", "merge", "page"}

\* The procedures that such a loop calls.
Inner == {"discard", "apply", "remove", "download", "install", "swap", "verify",
          "record", "save"}

\* The cursor in memory is the saved one, the acknowledged revision does not pass
\* it, and it does not pass the end of the page or snapshot that is being applied,
\* to which it will be set.
Position ==
    /\ IsASeq(log)
    /\ mem.cursor \in Nat /\ mem.cursor <= Len(log)
    /\ saved.cursor = mem.cursor
    /\ ack \in Nat /\ ack <= mem.cursor
    /\ pc \in Loops \/ run.ret \in Loops =>
         run.upto \in Nat /\ mem.cursor <= run.upto /\ run.upto <= Len(log)
    /\ run.ret \in Loops => pc \in Inner

\* What a sound request appends to the log is a sequence.
LEMMA EffectsAreSeqs ==
    ASSUME NEW q, SoundRequest(q), NEW new \in Effects(q)
    PROVE  IsASeq(new)
<1>1. CASE q.kind = "apply"
  <2>1. new = <<>> \/ \E x : new = <<x>>
    BY <1>1 DEF Effects
  <2> QED BY <2>1, TuplesAreSeqs
<1>2. CASE q.kind = "rename"
  <2>1. \E x, y : new = <<x, y>>
    BY <1>2 DEF Effects
  <2> QED BY <2>1, TuplesAreSeqs
<1>3. CASE q.kind = "batch"
  <2> DEFINE entry(item) == [path |-> item.path, content |-> Absent, mine |-> TRUE]
             f == [item \in q.items |-> entry(item)]
             S == {entry(item) : item \in q.items}
  <2>1. /\ IsFiniteSet(q.items)
        /\ f = [item \in q.items |-> f[item]] /\ S = {f[item] : item \in q.items}
    BY <1>3 DEF SoundRequest
  <2>2. new \in SetToSeqs(S)
    BY <1>3 DEF Effects
  <2> HIDE DEF f, S
  <2>3. IsFiniteSet(S)
    BY <2>1, ImageFinite
  <2> QED BY <2>2, <2>3, OrdersAreSeqs
<1> QED BY <1>1, <1>2, <1>3 DEF SoundRequest

\* A device that has just been paired is at the start of the log.
LEMMA InitPosition == Init => Position
<1> SUFFICES ASSUME Init PROVE Position
  OBVIOUS
<1>1. IsASeq(log)
  <2>1. PICK existing \in Vaults, c \in OtherContents :
          log \in SetToSeqs({[path |-> p, content |-> c, mine |-> FALSE] : p \in existing})
    BY Zenon DEF Init, ServerInit
  <2> DEFINE f == [p \in existing |-> [path |-> p, content |-> c, mine |-> FALSE]]
             S == {[path |-> p, content |-> c, mine |-> FALSE] : p \in existing}
  <2>2. IsFiniteSet(existing)
    BY FS_Subset, ServerAssumption
  <2>3. f = [p \in existing |-> f[p]] /\ S = {f[p] : p \in existing} /\ log \in SetToSeqs(S)
    BY <2>1
  <2> HIDE DEF f, S
  <2> QED BY <2>2, <2>3, ImageFinite, OrdersAreSeqs
<1>2. mem.cursor = 0 /\ saved = mem
  BY DEF Init, EmptyData
<1>3. Len(log) \in Nat
  BY <1>1 DEF IsASeq
<1> QED BY <1>1, <1>2, <1>3 DEF Init, ServerInit, IdleRun, Position, Loops

\* An appended log is a sequence that is no shorter.
LEMMA LogExtends ==
    ASSUME IsASeq(log), NEW new, IsASeq(new), AppendEntries(new)
    PROVE  IsASeq(log') /\ Len(log) <= Len(log')
BY Concatenated DEF AppendEntries

\* A step that only extends the log keeps the position.
LEMMA PositionKept ==
    ASSUME Position, IsASeq(log'), Len(log) <= Len(log'),
           UNCHANGED <<mem, saved, ack, run>>,
           pc' = pc \/ (pc \notin Inner /\ pc' \notin Loops)
    PROVE  Position'
<1>1. Len(log) \in Nat /\ Len(log') \in Nat
  <2>1. \A s : IsASeq(s) => Len(s) \in Nat
    BY DEF IsASeq
  <2> QED BY <2>1 DEF Position
<1> QED BY <1>1 DEF Position

\* Send keeps the position.
LEMMA PositionSend == Shape /\ Position /\ Send => Position'
<1> SUFFICES ASSUME Shape, Position, Send PROVE Position'
  OBVIOUS
<1>1. IsASeq(log') /\ Len(log) <= Len(log')
  <2>1. CASE Accepts(mem.outbox.request)
    <3>1. PICK new \in Effects(mem.outbox.request) : AppendEntries(new)
      BY <2>1, Zenon DEF Send, Serve
    <3>2. IsASeq(new)
      BY <3>1, EffectsAreSeqs DEF Send, Shape
    <3> QED BY <3>1, <3>2, LogExtends DEF Position
  <2>2. CASE ~Accepts(mem.outbox.request)
    <3>1. log' = log
      BY <2>2, Zenon DEF Send, Serve
    <3> QED BY <3>1 DEF Position, IsASeq
  <2> QED BY <2>1, <2>2
<1>2. UNCHANGED <<mem, saved, ack, run>> /\ pc = "send" /\ pc' = "answer"
  BY DEF Send, Serve, Goto, dataVars
<1> QED BY <1>1, <1>2, PositionKept DEF Inner, Loops

\* The other devices and the collector keep the position.
LEMMA PositionServerMoves == Shape /\ Position /\ ServerMoves => Position'
<1> SUFFICES ASSUME Position, ServerMoves PROVE Position'
  OBVIOUS
<1>1. IsASeq(log') /\ Len(log) <= Len(log') /\ ack' = ack
  <2>1. CASE \E p \in Paths, c \in OtherContents \cup {Absent} : OtherCommit(p, c)
    <3>1. PICK x : AppendEntries(<<x>>) /\ ack' = ack
      BY <2>1 DEF OtherCommit
    <3>2. IsASeq(<<x>>)
      BY TuplesAreSeqs
    <3> QED BY <3>1, <3>2, LogExtends DEF Position
  <2>2. CASE \E p \in Paths : Collect(p)
    BY <2>2 DEF Collect, Position, IsASeq
  <2> QED BY <2>1, <2>2 DEF ServerMoves
<1>2. UNCHANGED <<mem, saved, run, pc>>
  BY DEF ServerMoves, dataVars
<1> QED BY <1>1, <1>2, PositionKept

\* DiscardLocal keeps the position.
LEMMA PositionDiscardLocal == Fields /\ Position /\ DiscardLocal => Position'
<1> SUFFICES ASSUME Fields, Position, DiscardLocal PROVE Position'
  OBVIOUS
<1>1. CASE EndRun
  BY <1>1 DEF EndRun, IdleRun, DiscardLocal, Position, Loops, Fields, HasFields,
     DataFields, serverVars
<1>2. CASE Return /\ UNCHANGED dataVars
  BY <1>2 DEF Return, dataVars, DiscardLocal, Position, Loops, Inner, Fields, HasFields,
     RunFields, serverVars
<1> QED BY <1>1, <1>2 DEF DiscardLocal

\* RemoveLocal keeps the position.
LEMMA PositionRemoveLocal == Fields /\ Position /\ RemoveLocal => Position'
<1> SUFFICES ASSUME Fields, Position, RemoveLocal PROVE Position'
  OBVIOUS
<1>1. CASE EndRun
  BY <1>1 DEF EndRun, IdleRun, RemoveLocal, Position, Loops, Fields, HasFields,
     DataFields, serverVars
<1>2. CASE ~EndRun
  <2>1. /\ mem' = [mem EXCEPT !.files = Recorded({run.change})]
        /\ Return /\ UNCHANGED <<saved, serverVars>>
    BY <1>2 DEF RemoveLocal
  <2>2. mem'.cursor = mem.cursor
    BY <2>1 DEF Fields, HasFields, DataFields
  <2>3. pc' = run.ret /\ run'.upto = run.upto /\ run'.ret = "idle"
    BY <2>1 DEF Return, Fields, HasFields, RunFields
  <2> QED BY <2>1, <2>2, <2>3 DEF Position, Loops, serverVars
<1> QED BY <1>1, <1>2

\* PreserveLocal keeps the position.
LEMMA PositionPreserveLocal == Fields /\ Position /\ PreserveLocal => Position'
<1> SUFFICES ASSUME Fields, Position, PreserveLocal PROVE Position'
  OBVIOUS
<1>1. CASE EndRun
  BY <1>1 DEF EndRun, IdleRun, PreserveLocal, Position, Loops, serverVars
<1>2. CASE ~EndRun
  <2>1. PICK p \in run.scope :
          /\ run' = [run EXCEPT !.scope = @ \ {p}, !.ret = "preserve",
                             !.change = [path |-> p, rev |-> 0, content |-> Absent]]
          /\ pc' = "discard"
          /\ UNCHANGED dataVars
    BY <1>2, Zenon DEF PreserveLocal
  <2>2. run'.upto = run.upto
    BY <2>1 DEF Fields, HasFields, RunFields
  <2> QED BY <2>1, <2>2 DEF PreserveLocal, Position, Loops, Inner, dataVars, serverVars
<1> QED BY <1>1, <1>2

\* PullPage asks for a page that begins at the cursor and ends in the log.
LEMMA PositionPullPage == Fields /\ Position /\ PullPage => Position'
<1> SUFFICES ASSUME Fields, Position, PullPage PROVE Position'
  OBVIOUS
<1> DEFINE last == Min({mem.cursor + PageSize, Len(log)})
<1>1. Len(log) \in Nat /\ mem.cursor \in Nat /\ mem.cursor <= Len(log) /\ PageSize \in Nat
  BY EngineAssumption DEF Position, IsASeq
<1>2. last \in Nat /\ mem.cursor <= last /\ last <= Len(log)
  BY <1>1, MinOfTwo
<1>3. run'.upto = last /\ run'.ret = run.ret
  BY DEF PullPage, Fields, HasFields, RunFields
<1>4. pc = "pull" /\ pc' = "page" /\ UNCHANGED <<mem, saved, log, ack>>
  BY DEF PullPage, dataVars, NoRequest, serverVars
<1> HIDE DEF last
<1> QED BY <1>2, <1>3, <1>4 DEF Position, Loops, Inner

\* PageDone moves the cursor forward, to the end of the page, and saves it.
LEMMA PositionPageDone == Fields /\ Position /\ PageDone => Position'
<1> SUFFICES ASSUME Fields, Position, PageDone PROVE Position'
  OBVIOUS
<1>1. mem'.cursor = run.upto /\ saved' = mem' /\ run'.ret = run.ret
  BY DEF PageDone, PageCursor, Persist, Fields, HasFields, DataFields, RunFields
<1>2. pc = "page" /\ pc' \in {"pull", "finish"} /\ UNCHANGED <<log, ack>>
  BY DEF PageDone, NoRequest, serverVars
<1>3. IsASeq(log) => Len(log) \in Nat
  BY DEF IsASeq
<1> QED BY <1>1, <1>2, <1>3 DEF Position, Loops, Inner

\* The events of a step of the user keep the position.
LEMMA PositionNoteEvents ==
    ASSUME Fields, Position, NEW ps, NEW ms, NoteEvents(ps, ms),
           UNCHANGED <<saved, pc, log, ack>>
    PROVE  Position'
<1>1. mem'.cursor = mem.cursor
  BY DEF NoteEvents, Fields, HasFields, DataFields
<1>2. run'.upto = run.upto /\ run'.ret = run.ret
  BY DEF NoteEvents, Fields, HasFields, RunFields
<1> QED BY <1>1, <1>2 DEF Position

\* Every step keeps the position.
LEMMA PositionStep == Shape /\ Fields /\ Position /\ [Next]_vars => Position'
<1> SUFFICES ASSUME Shape, Fields, Position, [Next]_vars PROVE Position'
  OBVIOUS
<1>1. CASE ResumeInbox
  <2> USE DEF Fields, Position, Loops, Inner, HasFields, DataFields, RunFields
  <2>1. CASE InboxInstalled
    BY <2>1 DEF InboxInstalled, Quiet, NoRequest, dataVars, serverVars, historyVars
  <2>2. CASE InboxReady
    BY <2>2 DEF InboxReady, Quiet, NoRequest, dataVars, fileVars, serverVars,
       historyVars
  <2>3. CASE InboxLost
    BY <2>3 DEF InboxLost, Quiet, NoRequest, Persist, serverVars, historyVars
  <2>4. CASE InboxDone
    BY <2>4 DEF InboxDone, Quiet, NoRequest, Goto, dataVars, fileVars, serverVars,
       historyVars
  <2> HIDE DEF Fields, Position, Loops, Inner, HasFields, DataFields, RunFields
  <2> QED BY <1>1, <2>1, <2>2, <2>3, <2>4 DEF ResumeInbox
<1>2. CASE ResumeOutbox
  <2> USE DEF Fields, Position, Loops, Inner, HasFields, DataFields, RunFields
  <2>1. CASE OutboxCommitted
    BY <2>1 DEF OutboxCommitted, Quiet, dataVars, serverVars, fileVars, historyVars,
       NoRequest
  <2>2. CASE OutboxResent
    BY <2>2 DEF OutboxResent, Quiet, NoRequest, dataVars, fileVars, serverVars,
       historyVars
  <2>3. CASE OutboxAbandoned
    BY <2>3 DEF OutboxAbandoned, Quiet, NoRequest, Persist, Discarded, Queued,
       fileVars, dataVars, serverVars, historyVars
  <2>4. CASE OutboxDone
    BY <2>4 DEF OutboxDone, Quiet, NoRequest, Goto, BeginRenames, dataVars,
       fileVars, serverVars, historyVars
  <2> HIDE DEF Fields, Position, Loops, Inner, HasFields, DataFields, RunFields
  <2> QED BY <1>2, <2>1, <2>2, <2>3, <2>4 DEF ResumeOutbox
<1>3. CASE Reconcile
  <2>1. CASE PreserveLocal
    BY <2>1, PositionPreserveLocal
  <2>2. CASE DiscardLocal
    BY <2>2, PositionDiscardLocal
  <2> USE DEF Fields, Position, Loops, Inner, HasFields, DataFields, RunFields
  <2>3. CASE ReadSnapshot
    BY <2>3 DEF ReadSnapshot, Quiet, NoRequest, dataVars, fileVars, serverVars,
       historyVars
  <2>4. CASE PreserveDone
    BY <2>4 DEF PreserveDone, Quiet, NoRequest, Goto, dataVars, fileVars,
       serverVars, historyVars
  <2>5. CASE MergeSnapshot
    BY <2>5 DEF MergeSnapshot, NoRequest, fileVars, dataVars, serverVars,
       historyVars
  <2>6. CASE MergeDone
    BY <2>6 DEF MergeDone, Quiet, NoRequest, Persist, BeginRenames, fileVars,
       dataVars, serverVars, historyVars
  <2> HIDE DEF Fields, Position, Loops, Inner, HasFields, DataFields, RunFields
  <2> QED BY <1>3, <2>1, <2>2, <2>3, <2>4, <2>5, <2>6 DEF Reconcile
<1>4. CASE Renames
  <2> USE DEF Fields, Position, Loops, Inner, HasFields, DataFields, RunFields
  <2>1. CASE RenameSkipped
    BY <2>1 DEF RenameSkipped, Quiet, NoRequest, fileVars, dataVars, serverVars,
       historyVars
  <2>2. CASE RenameStaged
    BY <2>2 DEF RenameStaged, Quiet, Stage, fileVars, dataVars, serverVars,
       historyVars, Persist, NoRequest
  <2>3. CASE RenamesDone
    BY <2>3 DEF RenamesDone, Quiet, NoRequest, Goto, fileVars, dataVars, serverVars,
       historyVars
  <2> HIDE DEF Fields, Position, Loops, Inner, HasFields, DataFields, RunFields
  <2> QED BY <1>4, <2>1, <2>2, <2>3 DEF Renames
<1>5. CASE Push
  <2> USE DEF Fields, Position, Loops, Inner, HasFields, DataFields, RunFields
  <2>1. CASE PlanFull
    BY <2>1 DEF PlanFull, Plan, Quiet, NoRequest, dataVars, fileVars, serverVars,
       historyVars
  <2>2. CASE PlanQueued
    BY <2>2 DEF PlanQueued, Plan, Quiet, NoRequest, dataVars, fileVars, serverVars,
       historyVars
  <2>3. CASE PushDone
    BY <2>3 DEF PushDone, Quiet, NoRequest, Stage, dataVars, fileVars, serverVars,
       historyVars, Persist
  <2>4. CASE DeletesDone
    BY <2>4 DEF DeletesDone, Quiet, NoRequest, fileVars, dataVars, serverVars,
       historyVars
  <2>5. ASSUME NEW p \in Paths, ScanPath(p) PROVE Position'
    BY <2>5 DEF ScanPath, Quiet, NoRequest, dataVars, fileVars, serverVars,
       historyVars
  <2>6. ASSUME NEW p \in Paths, PushPath(p) PROVE Position'
    BY <2>6 DEF PushPath, Quiet, NoRequest, Stage, Queued, fileVars, dataVars,
       serverVars, historyVars, Persist
  <2>7. ASSUME NEW p \in Paths, DeletePath(p) PROVE Position'
    BY <2>7 DEF DeletePath, Quiet, Stage, fileVars, dataVars, serverVars,
       historyVars, Persist, NoRequest
  <2> HIDE DEF Fields, Position, Loops, Inner, HasFields, DataFields, RunFields
  <2> QED BY <1>5, <2>1, <2>2, <2>3, <2>4, <2>5, <2>6, <2>7 DEF Push
<1>6. CASE Answered
  <2> USE DEF Fields, Position, Loops, Inner, HasFields, DataFields, RunFields
  <2>1. CASE AnswerApplied
    BY <2>1 DEF AnswerApplied, Quiet, Goto, Return, Complete, Queued, serverVars,
       fileVars, dataVars, historyVars, NoRequest
  <2>2. CASE AnswerConflict
    BY <2>2 DEF AnswerConflict, Quiet, Persist, Discarded, serverVars, fileVars,
       dataVars, historyVars, NoRequest
  <2>3. CASE KeepRefused
    BY <2>3 DEF KeepRefused, Quiet, NoRequest, dataVars, serverVars, historyVars
  <2>4. CASE AnswerMoved
    BY <2>4 DEF AnswerMoved, Quiet, Goto, Complete, serverVars, fileVars, dataVars,
       historyVars, NoRequest
  <2>5. CASE AnswerMoveConflict
    BY <2>5 DEF AnswerMoveConflict, Quiet, Goto, Return, Discarded, Queued,
       serverVars, fileVars, dataVars, historyVars, NoRequest
  <2>6. CASE AnswerBatch
    BY <2>6 DEF AnswerBatch, Quiet, Complete, serverVars, fileVars, dataVars,
       historyVars, NoRequest
  <2>7. CASE AnswerBatchConflict
    BY <2>7 DEF AnswerBatchConflict, Quiet, Persist, Discarded, Queued, serverVars,
       fileVars, dataVars, historyVars, NoRequest
  <2> HIDE DEF Fields, Position, Loops, Inner, HasFields, DataFields, RunFields
  <2> QED BY <1>6, <2>1, <2>2, <2>3, <2>4, <2>5, <2>6, <2>7 DEF Answered
<1>7. CASE Apply
  <2>1. CASE RemoveLocal
    BY <2>1, PositionRemoveLocal
  <2> USE DEF Fields, Position, Loops, Inner, HasFields, DataFields, RunFields
  <2>2. CASE ApplyRemoteChange
    BY <2>2 DEF ApplyRemoteChange, Quiet, NoRequest, Goto, Return, StageDownload,
       dataVars, Persist, serverVars, historyVars
  <2>3. CASE Download
    BY <2>3 DEF Download, Quiet, NoRequest, Goto, serverVars, historyVars
  <2>4. CASE SetAside
    BY <2>4 DEF SetAside, Quiet, NoRequest, Goto, serverVars, historyVars
  <2>5. CASE SwapIn
    BY <2>5 DEF SwapIn, Quiet, Goto, EndRun, dataVars, serverVars, IdleRun,
       NoRequest, historyVars
  <2>6. CASE VerifyInstalled
    BY <2>6 DEF VerifyInstalled, Quiet, Goto, EndRun, dataVars, serverVars, IdleRun,
       NoRequest, historyVars
  <2>7. CASE FinishDownload
    BY <2>7 DEF FinishDownload, Quiet, NoRequest, Goto, fileVars, dataVars,
       serverVars, historyVars
  <2>8. CASE Save
    BY <2>8 DEF Save, Quiet, NoRequest, Return, fileVars, dataVars, serverVars,
       historyVars
  <2> HIDE DEF Fields, Position, Loops, Inner, HasFields, DataFields, RunFields
  <2> QED BY <1>7, <2>1, <2>2, <2>3, <2>4, <2>5, <2>6, <2>7, <2>8 DEF Apply
<1>8. CASE Pull
  <2>1. CASE PullPage
    BY <2>1, PositionPullPage
  <2>2. CASE PageDone
    BY <2>2, PositionPageDone
  <2> USE DEF Fields, Position, Loops, Inner, HasFields, DataFields, RunFields
  <2>3. CASE PageChange
    BY <2>3 DEF PageChange, Quiet, NoRequest, dataVars, fileVars, serverVars,
       historyVars
  <2>4. CASE Finish
    BY <2>4 DEF Finish, Quiet, NoRequest, Persist, Goto, fileVars, dataVars,
       serverVars, historyVars
  <2>5. CASE AckCursor
    BY <2>5 DEF AckCursor, Quiet, Goto, Acknowledge, dataVars, fileVars, serverVars,
       historyVars, NoRequest
  <2>6. CASE CompleteRun
    BY <2>6 DEF CompleteRun, Quiet, EndRun, serverVars, fileVars, dataVars,
       historyVars, IdleRun, NoRequest
  <2> HIDE DEF Fields, Position, Loops, Inner, HasFields, DataFields, RunFields
  <2> QED BY <1>8, <2>1, <2>2, <2>3, <2>4, <2>5, <2>6 DEF Pull
<1>9. ASSUME NEW p, NEW content, UserEdit(p, content) PROVE Position'
  BY <1>9, PositionNoteEvents DEF UserEdit, NoRequest, serverVars
<1>10. ASSUME NEW from, NEW to, UserRename(from, to) PROVE Position'
  BY <1>10, PositionNoteEvents DEF UserRename, NoRequest, serverVars
<1>11. CASE StartRun
  BY <1>11 DEF StartRun, Fields, Position, Loops, Inner, HasFields, DataFields,
     RunFields, Quiet, NoRequest, Goto, dataVars, fileVars, serverVars, historyVars
<1>12. CASE Send
  BY <1>12, PositionSend
<1>13. CASE ServerMoves
  BY <1>13, PositionServerMoves
<1>14. CASE SaveEvents
  BY <1>14 DEF SaveEvents, Fields, Position, Loops, Inner, HasFields, DataFields,
     RunFields, Quiet, NoRequest, fileVars, dataVars, serverVars, historyVars
<1>15. CASE RunFails
  BY <1>15 DEF RunFails, Fields, Position, Loops, Inner, HasFields, DataFields,
     RunFields, EndRun, Spend, serverVars, IdleRun
<1>16. CASE Crash
  BY <1>16 DEF Crash, Fields, Position, Loops, Inner, HasFields, DataFields,
     RunFields, IdleRun, Spend, serverVars, fileVars, dataVars, historyVars
<1>17. CASE Restart
  BY <1>17 DEF Restart, Fields, Position, Loops, Inner, HasFields, DataFields,
     RunFields, NoRequest, dataVars, fileVars, historyVars, serverVars
<1>18. CASE UNCHANGED vars
  BY <1>18 DEF Fields, Position, Loops, Inner, HasFields, DataFields, RunFields,
     vars, serverVars, fileVars, dataVars
<1> QED BY <1>1, <1>2, <1>3, <1>4, <1>5, <1>6, <1>7, <1>8, <1>9, <1>10, <1>11, <1>12,
         <1>13, <1>14, <1>15, <1>16, <1>17, <1>18 DEF Next, Engine, User

-----------------------------------------------------------------------------
(* What the run is told by the server, and the files of a download.        *)

IsVersion(v) == v = [path |-> v.path, rev |-> v.rev, content |-> v.content]

\* The server keeps results, never conflicts; a conflict about one path names its
\* version; what is applied is a version.
Replies ==
    /\ HasFields(answers, OpIds)
    /\ \A i \in OpIds : answers[i].kind # "conflict"
    /\ pc = "answer" /\ reply.kind = "conflict" /\ mem.outbox.request.kind = "apply" =>
         \E v : IsVersion(v) /\ reply.versions = {v}
    /\ pc \in {"apply", "refused"} => IsVersion(run.change)

\* Where a download is being fetched or installed.
Installing == {"download", "install", "swap", "verify", "record"}

\* A temporary or backup file is named by the inbox, in memory and on disk, and
\* both are gone before the inbox entry is.
Artifacts ==
    /\ temp # Absent \/ backup # Absent =>
         mem.inbox # NoDownload /\ saved.inbox # NoDownload
    /\ pc \in Installing => mem.inbox # NoDownload
    /\ pc = "verify" => temp = Absent
    /\ pc = "record" => temp = Absent /\ backup = Absent

\* At the start no request is answered and no file is downloaded.
LEMMA InitReplies == Init => Replies /\ Artifacts
BY DEF Init, ServerInit, NoReply, HasFields, OpIds, Replies, Artifacts, Installing

\* A version can be told from the empty inbox.
LEMMA VersionIsNoDownload == \A v : IsVersion(v) => v # NoDownload
<1> SUFFICES ASSUME NEW v, IsVersion(v), v = NoDownload PROVE FALSE
  OBVIOUS
<1>1. DOMAIN v = {"path", "rev", "content"}
  BY DEF IsVersion
<1>2. DOMAIN v = {"path"}
  BY DEF NoDownload
<1> QED BY <1>1, <1>2

\* What the log is read as is a version.
LEMMA LoggedIsVersion == \A r : IsVersion(Logged(r))
BY DEF IsVersion, Logged

\* Staging a request keeps Replies.
LEMMA RepliesStaged == ASSUME Replies, NEW q, Stage(q) PROVE Replies'
<1>1. NoReply.kind = "none"
  BY DEF NoReply
<1>2. answers' = [answers EXCEPT ![FreshId] = NoReply] /\ pc' = "send"
  BY DEF Stage
<1>3. HasFields(answers', OpIds) /\ \A i \in OpIds : answers'[i].kind # "conflict"
  BY <1>1, <1>2 DEF Replies, HasFields
<1> QED BY <1>2, <1>3 DEF Replies

\* MergeSnapshot applies versions of the log.
LEMMA RepliesMergeSnapshot == Fields /\ Replies /\ MergeSnapshot => Replies'
<1> SUFFICES ASSUME Fields, Replies, MergeSnapshot PROVE Replies'
  OBVIOUS
<1>1. CASE mem.mode = "local"
  BY <1>1 DEF MergeSnapshot, Replies, NoRequest, serverVars
<1>2. CASE mem.mode # "local"
  <2>1. PICK p : run' = [run EXCEPT !.todo = @ \ {p}, !.change = SnapshotVersion(p),
                                    !.ret = "merge"]
    BY <1>2 DEF MergeSnapshot
  <2>2. IsVersion(run'.change)
    BY <2>1, LoggedIsVersion DEF SnapshotVersion, Fields, HasFields, RunFields
  <2> QED BY <1>2, <2>2 DEF MergeSnapshot, Replies, NoRequest, serverVars
<1> QED BY <1>1, <1>2

\* PageChange applies versions of the log.
LEMMA RepliesPageChange == Fields /\ Replies /\ PageChange => Replies'
<1> SUFFICES ASSUME Fields, Replies, PageChange PROVE Replies'
  OBVIOUS
<1>1. PICK r : run' = [run EXCEPT !.at = r, !.change = Logged(r), !.ret = "page"]
  BY DEF PageChange
<1>2. IsVersion(run'.change)
  BY <1>1, LoggedIsVersion DEF Fields, HasFields, RunFields
<1> QED BY <1>2 DEF PageChange, Replies, NoRequest, serverVars

\* RenameStaged keeps Replies.
LEMMA RepliesRenameStaged == Replies /\ RenameStaged => Replies'
<1> SUFFICES ASSUME Replies, RenameStaged PROVE Replies'
  OBVIOUS
<1>1. \E q : Stage(q)
  BY DEF RenameStaged
<1> QED BY <1>1, RepliesStaged

\* DeletePath keeps Replies.
LEMMA RepliesDeletePath == ASSUME Replies, NEW p \in Paths, DeletePath(p) PROVE Replies'
BY RepliesStaged DEF DeletePath

\* PushPath keeps Replies.
LEMMA RepliesPushPath ==
    ASSUME Fields, Replies, NEW p \in Paths, PushPath(p) PROVE Replies'
<1>1. CASE \E q : Stage(q)
  BY <1>1, RepliesStaged
<1>2. CASE ~(\E q : Stage(q))
  BY <1>2 DEF PushPath, Replies, NoRequest, serverVars
<1> QED BY <1>1, <1>2

\* PushDone keeps Replies.
LEMMA RepliesPushDone == Fields /\ Replies /\ PushDone => Replies'
<1> SUFFICES ASSUME Fields, Replies, PushDone PROVE Replies'
  OBVIOUS
<1>1. CASE \E q : Stage(q)
  BY <1>1, RepliesStaged
<1>2. CASE ~(\E q : Stage(q))
  BY <1>2 DEF PushDone, Replies, NoRequest, serverVars
<1> QED BY <1>1, <1>2

\* Send keeps only results, and a conflict names the version of its path.
LEMMA RepliesSend == Fields /\ Replies /\ Send => Replies'
<1> SUFFICES ASSUME Replies, Send PROVE Replies'
  OBVIOUS
<1> DEFINE q == mem.outbox.request
<1>1. CASE Accepts(q)
  <2>1. PICK new : /\ reply' = Accepted(q, new)
                   /\ answers' = [answers EXCEPT ![mem.outbox.id] = reply']
    BY <1>1, Zenon DEF Send, Serve
  <2>2. reply'.kind = "ok"
    BY <2>1 DEF Accepted
  <2>3. HasFields(answers', OpIds) /\ \A i \in OpIds : answers'[i].kind # "conflict"
    BY <2>1, <2>2 DEF Replies, HasFields
  <2> QED BY <2>2, <2>3 DEF Send, Goto, Replies
<1>2. CASE ~Accepts(q)
  <2>1. reply' = ConflictWith(q) /\ answers' = answers
    BY <1>2, Zenon DEF Send, Serve
  <2>2. q.kind = "apply" => reply'.versions = {RowVersion(q.path)}
    BY <2>1 DEF ConflictWith
  <2>3. IsVersion(RowVersion(q.path))
    BY DEF IsVersion, RowVersion
  <2> QED BY <2>1, <2>2, <2>3 DEF Send, Goto, dataVars, Replies
<1> QED BY <1>1, <1>2

\* The other devices and the collector leave the results alone.
LEMMA RepliesServerMoves == Fields /\ Replies /\ ServerMoves => Replies'
<1> SUFFICES ASSUME Replies, ServerMoves PROVE Replies'
  OBVIOUS
<1>1. UNCHANGED answers
  BY DEF ServerMoves, OtherCommit, Collect
<1> QED BY <1>1 DEF ServerMoves, dataVars, Replies

\* A result that is looked up is no conflict.
LEMMA RepliesOutboxCommitted == Shape /\ Replies /\ OutboxCommitted => Replies'
<1> SUFFICES ASSUME Shape, Replies, OutboxCommitted PROVE Replies'
  OBVIOUS
<1>1. reply'.kind # "conflict"
  BY DEF OutboxCommitted, Replies, Shape, SoundData
<1> QED BY <1>1 DEF OutboxCommitted, Replies, serverVars

\* A download that is staged is a version, so the inbox is not empty.
LEMMA ArtifactsApplyRemoteChange ==
    Fields /\ Replies /\ Artifacts /\ ApplyRemoteChange => Artifacts'
<1> SUFFICES ASSUME Fields, Replies, Artifacts, ApplyRemoteChange PROVE Artifacts'
  OBVIOUS
<1>1. run.change # NoDownload
  BY VersionIsNoDownload DEF Replies, ApplyRemoteChange
<1>2. CASE StageDownload(run.change) /\ Goto("download")
  BY <1>1, <1>2 DEF ApplyRemoteChange, StageDownload, Persist, Goto, Artifacts,
     Installing, Fields, HasFields, DataFields
<1>3. CASE mem' = [mem EXCEPT !.files = Recorded({run.change})] /\ Return /\ UNCHANGED saved
  BY <1>3 DEF ApplyRemoteChange, Return, Artifacts, Installing, Returns, Fields,
     HasFields, DataFields
<1>4. CASE Goto("remove") /\ UNCHANGED dataVars
  BY <1>4 DEF ApplyRemoteChange, Goto, dataVars, Artifacts, Installing
<1> QED BY <1>2, <1>3, <1>4 DEF ApplyRemoteChange

\* The events of a step of the user keep both.
LEMMA FilesNoteEvents ==
    ASSUME Fields, Replies, Artifacts, NEW ps, NEW ms, NoteEvents(ps, ms),
           UNCHANGED <<saved, pc, temp, backup, answers, reply>>
    PROVE  Replies' /\ Artifacts'
<1>1. mem'.inbox = mem.inbox /\ mem'.outbox = mem.outbox
  BY DEF NoteEvents, Fields, HasFields, DataFields
<1>2. run'.change = run.change
  BY DEF NoteEvents, Fields, HasFields, RunFields
<1> QED BY <1>1, <1>2 DEF Replies, Artifacts, Installing

\* Every step keeps Replies.
LEMMA RepliesStep == Shape /\ Fields /\ Replies /\ Artifacts /\ [Next]_vars => Replies'
<1> SUFFICES ASSUME Shape, Fields, Replies, Artifacts, [Next]_vars PROVE Replies'
  OBVIOUS
<1>1. CASE ResumeInbox
  <2> USE DEF Fields, Replies, Returns, HasFields, DataFields, RunFields
  <2>1. CASE InboxInstalled
    BY <2>1 DEF InboxInstalled, Quiet, NoRequest, dataVars, serverVars, historyVars
  <2>2. CASE InboxReady
    BY <2>2 DEF InboxReady, Quiet, NoRequest, dataVars, fileVars, serverVars,
       historyVars
  <2>3. CASE InboxLost
    BY <2>3 DEF InboxLost, Quiet, NoRequest, Persist, serverVars, historyVars
  <2>4. CASE InboxDone
    BY <2>4 DEF InboxDone, Quiet, NoRequest, Goto, dataVars, fileVars, serverVars,
       historyVars
  <2> HIDE DEF Fields, Replies, Returns, HasFields, DataFields, RunFields
  <2> QED BY <1>1, <2>1, <2>2, <2>3, <2>4 DEF ResumeInbox
<1>2. CASE ResumeOutbox
  <2>1. CASE OutboxCommitted
    BY <2>1, RepliesOutboxCommitted
  <2> USE DEF Fields, Replies, Returns, HasFields, DataFields, RunFields
  <2>2. CASE OutboxResent
    BY <2>2 DEF OutboxResent, Quiet, NoRequest, dataVars, fileVars, serverVars,
       historyVars
  <2>3. CASE OutboxAbandoned
    BY <2>3 DEF OutboxAbandoned, Quiet, NoRequest, Persist, Discarded, Queued,
       fileVars, dataVars, serverVars, historyVars
  <2>4. CASE OutboxDone
    BY <2>4 DEF OutboxDone, Quiet, NoRequest, Goto, BeginRenames, dataVars,
       fileVars, serverVars, historyVars
  <2> HIDE DEF Fields, Replies, Returns, HasFields, DataFields, RunFields
  <2> QED BY <1>2, <2>1, <2>2, <2>3, <2>4 DEF ResumeOutbox
<1>3. CASE Reconcile
  <2>1. CASE MergeSnapshot
    BY <2>1, RepliesMergeSnapshot
  <2> USE DEF Fields, Replies, Returns, HasFields, DataFields, RunFields
  <2>2. CASE ReadSnapshot
    BY <2>2 DEF ReadSnapshot, Quiet, NoRequest, dataVars, fileVars, serverVars,
       historyVars
  <2>3. CASE PreserveLocal
    BY <2>3 DEF PreserveLocal, Quiet, EndRun, dataVars, serverVars, IdleRun,
       NoRequest, historyVars
  <2>4. CASE DiscardLocal
    BY <2>4 DEF DiscardLocal, Quiet, Return, EndRun, dataVars, serverVars, IdleRun,
       NoRequest, historyVars
  <2>5. CASE PreserveDone
    BY <2>5 DEF PreserveDone, Quiet, NoRequest, Goto, dataVars, fileVars,
       serverVars, historyVars
  <2>6. CASE MergeDone
    BY <2>6 DEF MergeDone, Quiet, NoRequest, Persist, BeginRenames, fileVars,
       dataVars, serverVars, historyVars
  <2> HIDE DEF Fields, Replies, Returns, HasFields, DataFields, RunFields
  <2> QED BY <1>3, <2>1, <2>2, <2>3, <2>4, <2>5, <2>6 DEF Reconcile
<1>4. CASE Renames
  <2>1. CASE RenameStaged
    BY <2>1, RepliesRenameStaged
  <2> USE DEF Fields, Replies, Returns, HasFields, DataFields, RunFields
  <2>2. CASE RenameSkipped
    BY <2>2 DEF RenameSkipped, Quiet, NoRequest, fileVars, dataVars, serverVars,
       historyVars
  <2>3. CASE RenamesDone
    BY <2>3 DEF RenamesDone, Quiet, NoRequest, Goto, fileVars, dataVars, serverVars,
       historyVars
  <2> HIDE DEF Fields, Replies, Returns, HasFields, DataFields, RunFields
  <2> QED BY <1>4, <2>1, <2>2, <2>3 DEF Renames
<1>5. CASE Push
  <2>1. CASE PushDone
    BY <2>1, RepliesPushDone
  <2>2. ASSUME NEW p \in Paths, PushPath(p) PROVE Replies'
    BY <2>2, RepliesPushPath
  <2>3. ASSUME NEW p \in Paths, DeletePath(p) PROVE Replies'
    BY <2>3, RepliesDeletePath
  <2> USE DEF Fields, Replies, Returns, HasFields, DataFields, RunFields
  <2>4. CASE PlanFull
    BY <2>4 DEF PlanFull, Plan, Quiet, NoRequest, dataVars, fileVars, serverVars,
       historyVars
  <2>5. CASE PlanQueued
    BY <2>5 DEF PlanQueued, Plan, Quiet, NoRequest, dataVars, fileVars, serverVars,
       historyVars
  <2>6. CASE DeletesDone
    BY <2>6 DEF DeletesDone, Quiet, NoRequest, fileVars, dataVars, serverVars,
       historyVars
  <2>7. ASSUME NEW p \in Paths, ScanPath(p) PROVE Replies'
    BY <2>7 DEF ScanPath, Quiet, NoRequest, dataVars, fileVars, serverVars,
       historyVars
  <2> HIDE DEF Fields, Replies, Returns, HasFields, DataFields, RunFields
  <2> QED BY <1>5, <2>1, <2>2, <2>3, <2>4, <2>5, <2>6, <2>7 DEF Push
<1>6. CASE Answered
  <2> USE DEF Fields, Replies, Returns, HasFields, DataFields, RunFields
  <2>1. CASE AnswerApplied
    BY <2>1 DEF AnswerApplied, Quiet, Goto, Return, Complete, Queued, serverVars,
       fileVars, dataVars, historyVars, NoRequest
  <2>2. CASE AnswerConflict
    BY <2>2 DEF AnswerConflict, Quiet, Persist, Discarded, serverVars, fileVars,
       dataVars, historyVars, NoRequest
  <2>3. CASE KeepRefused
    BY <2>3 DEF KeepRefused, Quiet, NoRequest, dataVars, serverVars, historyVars
  <2>4. CASE AnswerMoved
    BY <2>4 DEF AnswerMoved, Quiet, Goto, Complete, serverVars, fileVars, dataVars,
       historyVars, NoRequest
  <2>5. CASE AnswerMoveConflict
    BY <2>5 DEF AnswerMoveConflict, Quiet, Goto, Return, Discarded, Queued,
       serverVars, fileVars, dataVars, historyVars, NoRequest
  <2>6. CASE AnswerBatch
    BY <2>6 DEF AnswerBatch, Quiet, Complete, serverVars, fileVars, dataVars,
       historyVars, NoRequest
  <2>7. CASE AnswerBatchConflict
    BY <2>7 DEF AnswerBatchConflict, Quiet, Persist, Discarded, Queued, serverVars,
       fileVars, dataVars, historyVars, NoRequest
  <2> HIDE DEF Fields, Replies, Returns, HasFields, DataFields, RunFields
  <2> QED BY <1>6, <2>1, <2>2, <2>3, <2>4, <2>5, <2>6, <2>7 DEF Answered
<1>7. CASE Apply
  <2> USE DEF Fields, Replies, Returns, HasFields, DataFields, RunFields
  <2>1. CASE ApplyRemoteChange
    BY <2>1 DEF ApplyRemoteChange, Quiet, NoRequest, Goto, Return, StageDownload,
       dataVars, Persist, serverVars, historyVars
  <2>2. CASE RemoveLocal
    BY <2>2 DEF RemoveLocal, Quiet, Return, EndRun, serverVars, IdleRun, NoRequest,
       historyVars
  <2>3. CASE Download
    BY <2>3 DEF Download, Quiet, NoRequest, Goto, serverVars, historyVars
  <2>4. CASE SetAside
    BY <2>4 DEF SetAside, Quiet, NoRequest, Goto, serverVars, historyVars
  <2>5. CASE SwapIn
    BY <2>5 DEF SwapIn, Quiet, Goto, EndRun, dataVars, serverVars, IdleRun,
       NoRequest, historyVars
  <2>6. CASE VerifyInstalled
    BY <2>6 DEF VerifyInstalled, Quiet, Goto, EndRun, dataVars, serverVars, IdleRun,
       NoRequest, historyVars
  <2>7. CASE FinishDownload
    BY <2>7 DEF FinishDownload, Quiet, NoRequest, Goto, fileVars, dataVars,
       serverVars, historyVars
  <2>8. CASE Save
    BY <2>8 DEF Save, Quiet, NoRequest, Return, fileVars, dataVars, serverVars,
       historyVars
  <2> HIDE DEF Fields, Replies, Returns, HasFields, DataFields, RunFields
  <2> QED BY <1>7, <2>1, <2>2, <2>3, <2>4, <2>5, <2>6, <2>7, <2>8 DEF Apply
<1>8. CASE Pull
  <2>1. CASE PageChange
    BY <2>1, RepliesPageChange
  <2> USE DEF Fields, Replies, Returns, HasFields, DataFields, RunFields
  <2>2. CASE PullPage
    BY <2>2 DEF PullPage, Quiet, NoRequest, dataVars, fileVars, serverVars,
       historyVars
  <2>3. CASE PageDone
    BY <2>3 DEF PageDone, Quiet, NoRequest, Persist, fileVars, dataVars, serverVars,
       historyVars
  <2>4. CASE Finish
    BY <2>4 DEF Finish, Quiet, NoRequest, Persist, Goto, fileVars, dataVars,
       serverVars, historyVars
  <2>5. CASE AckCursor
    BY <2>5 DEF AckCursor, Quiet, Goto, Acknowledge, dataVars, fileVars, serverVars,
       historyVars, NoRequest
  <2>6. CASE CompleteRun
    BY <2>6 DEF CompleteRun, Quiet, EndRun, serverVars, fileVars, dataVars,
       historyVars, IdleRun, NoRequest
  <2> HIDE DEF Fields, Replies, Returns, HasFields, DataFields, RunFields
  <2> QED BY <1>8, <2>1, <2>2, <2>3, <2>4, <2>5, <2>6 DEF Pull
<1>9. ASSUME NEW p, NEW content, UserEdit(p, content) PROVE Replies'
  BY <1>9, FilesNoteEvents DEF UserEdit, NoRequest, serverVars
<1>10. ASSUME NEW from, NEW to, UserRename(from, to) PROVE Replies'
  BY <1>10, FilesNoteEvents DEF UserRename, NoRequest, serverVars
<1>11. CASE StartRun
  BY <1>11 DEF StartRun, Fields, Replies, Returns, HasFields, DataFields, RunFields,
     Quiet, NoRequest, Goto, dataVars, fileVars, serverVars, historyVars
<1>12. CASE Send
  BY <1>12, RepliesSend
<1>13. CASE ServerMoves
  BY <1>13, RepliesServerMoves
<1>14. CASE SaveEvents
  BY <1>14 DEF SaveEvents, Fields, Replies, Returns, HasFields, DataFields,
     RunFields, Quiet, NoRequest, fileVars, dataVars, serverVars, historyVars
<1>15. CASE RunFails
  BY <1>15 DEF RunFails, Fields, Replies, Returns, HasFields, DataFields, RunFields,
     EndRun, Spend, serverVars, IdleRun
<1>16. CASE Crash
  BY <1>16 DEF Crash, Fields, Replies, Returns, HasFields, DataFields, RunFields,
     IdleRun, Spend, serverVars, fileVars, dataVars, historyVars
<1>17. CASE Restart
  BY <1>17 DEF Restart, Fields, Replies, Returns, HasFields, DataFields, RunFields,
     NoRequest, dataVars, fileVars, historyVars, serverVars
<1>18. CASE UNCHANGED vars
  BY <1>18 DEF Fields, Replies, Returns, HasFields, DataFields, RunFields, vars,
     serverVars, fileVars, dataVars
<1> QED BY <1>1, <1>2, <1>3, <1>4, <1>5, <1>6, <1>7, <1>8, <1>9, <1>10, <1>11, <1>12,
         <1>13, <1>14, <1>15, <1>16, <1>17, <1>18 DEF Next, Engine, User

\* Every step keeps Artifacts.
LEMMA ArtifactsStep == Fields /\ Replies /\ Artifacts /\ [Next]_vars => Artifacts'
<1> SUFFICES ASSUME Fields, Replies, Artifacts, [Next]_vars PROVE Artifacts'
  OBVIOUS
<1>1. CASE ResumeInbox
  <2> USE DEF Fields, Artifacts, Installing, Returns, HasFields, DataFields,
     RunFields, CleanUp
  <2>1. CASE InboxInstalled
    BY <2>1 DEF InboxInstalled, Quiet, NoRequest, dataVars, serverVars, historyVars
  <2>2. CASE InboxReady
    BY <2>2 DEF InboxReady, Quiet, NoRequest, dataVars, fileVars, serverVars,
       historyVars
  <2>3. CASE InboxLost
    BY <2>3 DEF InboxLost, Quiet, NoRequest, Persist, serverVars, historyVars
  <2>4. CASE InboxDone
    BY <2>4 DEF InboxDone, Quiet, NoRequest, Goto, dataVars, fileVars, serverVars,
       historyVars
  <2> HIDE DEF Fields, Artifacts, Installing, Returns, HasFields, DataFields,
     RunFields, CleanUp
  <2> QED BY <1>1, <2>1, <2>2, <2>3, <2>4 DEF ResumeInbox
<1>2. CASE ResumeOutbox
  <2> USE DEF Fields, Artifacts, Installing, Returns, HasFields, DataFields,
     RunFields, CleanUp
  <2>1. CASE OutboxCommitted
    BY <2>1 DEF OutboxCommitted, Quiet, dataVars, serverVars, fileVars, historyVars,
       NoRequest
  <2>2. CASE OutboxResent
    BY <2>2 DEF OutboxResent, Quiet, NoRequest, dataVars, fileVars, serverVars,
       historyVars
  <2>3. CASE OutboxAbandoned
    BY <2>3 DEF OutboxAbandoned, Quiet, NoRequest, Persist, Discarded, Queued,
       fileVars, dataVars, serverVars, historyVars
  <2>4. CASE OutboxDone
    BY <2>4 DEF OutboxDone, Quiet, NoRequest, Goto, BeginRenames, dataVars,
       fileVars, serverVars, historyVars
  <2> HIDE DEF Fields, Artifacts, Installing, Returns, HasFields, DataFields,
     RunFields, CleanUp
  <2> QED BY <1>2, <2>1, <2>2, <2>3, <2>4 DEF ResumeOutbox
<1>3. CASE Reconcile
  <2> USE DEF Fields, Artifacts, Installing, Returns, HasFields, DataFields,
     RunFields, CleanUp
  <2>1. CASE ReadSnapshot
    BY <2>1 DEF ReadSnapshot, Quiet, NoRequest, dataVars, fileVars, serverVars,
       historyVars
  <2>2. CASE PreserveLocal
    BY <2>2 DEF PreserveLocal, Quiet, EndRun, dataVars, serverVars, IdleRun,
       NoRequest, historyVars
  <2>3. CASE DiscardLocal
    BY <2>3 DEF DiscardLocal, Quiet, Return, EndRun, dataVars, serverVars, IdleRun,
       NoRequest, historyVars
  <2>4. CASE PreserveDone
    BY <2>4 DEF PreserveDone, Quiet, NoRequest, Goto, dataVars, fileVars,
       serverVars, historyVars
  <2>5. CASE MergeSnapshot
    BY <2>5 DEF MergeSnapshot, NoRequest, fileVars, dataVars, serverVars,
       historyVars
  <2>6. CASE MergeDone
    BY <2>6 DEF MergeDone, Quiet, NoRequest, Persist, BeginRenames, fileVars,
       dataVars, serverVars, historyVars
  <2> HIDE DEF Fields, Artifacts, Installing, Returns, HasFields, DataFields,
     RunFields, CleanUp
  <2> QED BY <1>3, <2>1, <2>2, <2>3, <2>4, <2>5, <2>6 DEF Reconcile
<1>4. CASE Renames
  <2> USE DEF Fields, Artifacts, Installing, Returns, HasFields, DataFields,
     RunFields, CleanUp
  <2>1. CASE RenameSkipped
    BY <2>1 DEF RenameSkipped, Quiet, NoRequest, fileVars, dataVars, serverVars,
       historyVars
  <2>2. CASE RenameStaged
    BY <2>2 DEF RenameStaged, Quiet, Stage, fileVars, dataVars, serverVars,
       historyVars, Persist, NoRequest
  <2>3. CASE RenamesDone
    BY <2>3 DEF RenamesDone, Quiet, NoRequest, Goto, fileVars, dataVars, serverVars,
       historyVars
  <2> HIDE DEF Fields, Artifacts, Installing, Returns, HasFields, DataFields,
     RunFields, CleanUp
  <2> QED BY <1>4, <2>1, <2>2, <2>3 DEF Renames
<1>5. CASE Push
  <2> USE DEF Fields, Artifacts, Installing, Returns, HasFields, DataFields,
     RunFields, CleanUp
  <2>1. CASE PlanFull
    BY <2>1 DEF PlanFull, Plan, Quiet, NoRequest, dataVars, fileVars, serverVars,
       historyVars
  <2>2. CASE PlanQueued
    BY <2>2 DEF PlanQueued, Plan, Quiet, NoRequest, dataVars, fileVars, serverVars,
       historyVars
  <2>3. CASE PushDone
    BY <2>3 DEF PushDone, Quiet, NoRequest, Stage, dataVars, fileVars, serverVars,
       historyVars, Persist
  <2>4. CASE DeletesDone
    BY <2>4 DEF DeletesDone, Quiet, NoRequest, fileVars, dataVars, serverVars,
       historyVars
  <2>5. ASSUME NEW p \in Paths, ScanPath(p) PROVE Artifacts'
    BY <2>5 DEF ScanPath, Quiet, NoRequest, dataVars, fileVars, serverVars,
       historyVars
  <2>6. ASSUME NEW p \in Paths, PushPath(p) PROVE Artifacts'
    BY <2>6 DEF PushPath, Quiet, NoRequest, Stage, Queued, fileVars, dataVars,
       serverVars, historyVars, Persist
  <2>7. ASSUME NEW p \in Paths, DeletePath(p) PROVE Artifacts'
    BY <2>7 DEF DeletePath, Quiet, Stage, fileVars, dataVars, serverVars,
       historyVars, Persist, NoRequest
  <2> HIDE DEF Fields, Artifacts, Installing, Returns, HasFields, DataFields,
     RunFields, CleanUp
  <2> QED BY <1>5, <2>1, <2>2, <2>3, <2>4, <2>5, <2>6, <2>7 DEF Push
<1>6. CASE Answered
  <2> USE DEF Fields, Artifacts, Installing, Returns, HasFields, DataFields,
     RunFields, CleanUp
  <2>1. CASE AnswerApplied
    BY <2>1 DEF AnswerApplied, Quiet, Goto, Return, Complete, Queued, serverVars,
       fileVars, dataVars, historyVars, NoRequest
  <2>2. CASE AnswerConflict
    BY <2>2 DEF AnswerConflict, Quiet, Persist, Discarded, serverVars, fileVars,
       dataVars, historyVars, NoRequest
  <2>3. CASE KeepRefused
    BY <2>3 DEF KeepRefused, Quiet, NoRequest, dataVars, serverVars, historyVars
  <2>4. CASE AnswerMoved
    BY <2>4 DEF AnswerMoved, Quiet, Goto, Complete, serverVars, fileVars, dataVars,
       historyVars, NoRequest
  <2>5. CASE AnswerMoveConflict
    BY <2>5 DEF AnswerMoveConflict, Quiet, Goto, Return, Discarded, Queued,
       serverVars, fileVars, dataVars, historyVars, NoRequest
  <2>6. CASE AnswerBatch
    BY <2>6 DEF AnswerBatch, Quiet, Complete, serverVars, fileVars, dataVars,
       historyVars, NoRequest
  <2>7. CASE AnswerBatchConflict
    BY <2>7 DEF AnswerBatchConflict, Quiet, Persist, Discarded, Queued, serverVars,
       fileVars, dataVars, historyVars, NoRequest
  <2> HIDE DEF Fields, Artifacts, Installing, Returns, HasFields, DataFields,
     RunFields, CleanUp
  <2> QED BY <1>6, <2>1, <2>2, <2>3, <2>4, <2>5, <2>6, <2>7 DEF Answered
<1>7. CASE Apply
  <2>1. CASE ApplyRemoteChange
    BY <2>1, ArtifactsApplyRemoteChange
  <2> USE DEF Fields, Artifacts, Installing, Returns, HasFields, DataFields,
     RunFields, CleanUp
  <2>2. CASE RemoveLocal
    BY <2>2 DEF RemoveLocal, Quiet, Return, EndRun, serverVars, IdleRun, NoRequest,
       historyVars
  <2>3. CASE Download
    BY <2>3 DEF Download, Quiet, NoRequest, Goto, serverVars, historyVars
  <2>4. CASE SetAside
    BY <2>4 DEF SetAside, Quiet, NoRequest, Goto, serverVars, historyVars
  <2>5. CASE SwapIn
    BY <2>5 DEF SwapIn, Quiet, Goto, EndRun, dataVars, serverVars, IdleRun,
       NoRequest, historyVars
  <2>6. CASE VerifyInstalled
    BY <2>6 DEF VerifyInstalled, Quiet, Goto, EndRun, dataVars, serverVars, IdleRun,
       NoRequest, historyVars
  <2>7. CASE FinishDownload
    BY <2>7 DEF FinishDownload, Quiet, NoRequest, Goto, fileVars, dataVars,
       serverVars, historyVars
  <2>8. CASE Save
    BY <2>8 DEF Save, Quiet, NoRequest, Return, fileVars, dataVars, serverVars,
       historyVars
  <2> HIDE DEF Fields, Artifacts, Installing, Returns, HasFields, DataFields,
     RunFields, CleanUp
  <2> QED BY <1>7, <2>1, <2>2, <2>3, <2>4, <2>5, <2>6, <2>7, <2>8 DEF Apply
<1>8. CASE Pull
  <2> USE DEF Fields, Artifacts, Installing, Returns, HasFields, DataFields,
     RunFields, CleanUp
  <2>1. CASE PullPage
    BY <2>1 DEF PullPage, Quiet, NoRequest, dataVars, fileVars, serverVars,
       historyVars
  <2>2. CASE PageChange
    BY <2>2 DEF PageChange, Quiet, NoRequest, dataVars, fileVars, serverVars,
       historyVars
  <2>3. CASE PageDone
    BY <2>3 DEF PageDone, Quiet, NoRequest, Persist, fileVars, dataVars, serverVars,
       historyVars
  <2>4. CASE Finish
    BY <2>4 DEF Finish, Quiet, NoRequest, Persist, Goto, fileVars, dataVars,
       serverVars, historyVars
  <2>5. CASE AckCursor
    BY <2>5 DEF AckCursor, Quiet, Goto, Acknowledge, dataVars, fileVars, serverVars,
       historyVars, NoRequest
  <2>6. CASE CompleteRun
    BY <2>6 DEF CompleteRun, Quiet, EndRun, serverVars, fileVars, dataVars,
       historyVars, IdleRun, NoRequest
  <2> HIDE DEF Fields, Artifacts, Installing, Returns, HasFields, DataFields,
     RunFields, CleanUp
  <2> QED BY <1>8, <2>1, <2>2, <2>3, <2>4, <2>5, <2>6 DEF Pull
<1>9. ASSUME NEW p, NEW content, UserEdit(p, content) PROVE Artifacts'
  BY <1>9, FilesNoteEvents DEF UserEdit, NoRequest, serverVars
<1>10. ASSUME NEW from, NEW to, UserRename(from, to) PROVE Artifacts'
  BY <1>10, FilesNoteEvents DEF UserRename, NoRequest, serverVars
<1>11. CASE StartRun
  BY <1>11 DEF StartRun, Fields, Artifacts, Installing, Returns, HasFields,
     DataFields, RunFields, CleanUp, Quiet, NoRequest, Goto, dataVars, fileVars,
     serverVars, historyVars
<1>12. CASE Send
  BY <1>12 DEF Send, Fields, Artifacts, Installing, Returns, HasFields, DataFields,
     RunFields, CleanUp, Quiet, Goto, dataVars, fileVars, serverVars, historyVars,
     NoRequest
<1>13. CASE ServerMoves
  BY <1>13 DEF ServerMoves, Fields, Artifacts, Installing, Returns, HasFields,
     DataFields, RunFields, CleanUp, Spend, dataVars, fileVars, serverVars,
     historyVars
<1>14. CASE SaveEvents
  BY <1>14 DEF SaveEvents, Fields, Artifacts, Installing, Returns, HasFields,
     DataFields, RunFields, CleanUp, Quiet, NoRequest, fileVars, dataVars,
     serverVars, historyVars
<1>15. CASE RunFails
  BY <1>15 DEF RunFails, Fields, Artifacts, Installing, Returns, HasFields,
     DataFields, RunFields, CleanUp, EndRun, Spend, serverVars, IdleRun
<1>16. CASE Crash
  BY <1>16 DEF Crash, Fields, Artifacts, Installing, Returns, HasFields, DataFields,
     RunFields, CleanUp, IdleRun, Spend, serverVars, fileVars, dataVars, historyVars
<1>17. CASE Restart
  BY <1>17 DEF Restart, Fields, Artifacts, Installing, Returns, HasFields,
     DataFields, RunFields, CleanUp, NoRequest, dataVars, fileVars, historyVars,
     serverVars
<1>18. CASE UNCHANGED vars
  BY <1>18 DEF Fields, Artifacts, Installing, Returns, HasFields, DataFields,
     RunFields, CleanUp, vars, serverVars, fileVars, dataVars
<1> QED BY <1>1, <1>2, <1>3, <1>4, <1>5, <1>6, <1>7, <1>8, <1>9, <1>10, <1>11, <1>12,
         <1>13, <1>14, <1>15, <1>16, <1>17, <1>18 DEF Next, Engine, User

-----------------------------------------------------------------------------
(* The theorems.                                                           *)

\* The inductive invariant.
EngineInv == Shape /\ Position /\ Replies /\ Artifacts

\* It holds at the start.
LEMMA InitEngineInv == Init => EngineInv
BY InitShape, InitPosition, InitReplies DEF EngineInv

\* Every step keeps it.
LEMMA EngineInvStep == EngineInv /\ [Next]_vars => EngineInv'
<1> SUFFICES ASSUME EngineInv, [Next]_vars PROVE EngineInv'
  OBVIOUS
<1>1. Fields
  BY ShapeFields DEF EngineInv
<1>2. Shape'
  BY ShapeStep DEF EngineInv
<1>3. Position'
  BY <1>1, PositionStep DEF EngineInv
<1>4. Replies'
  BY <1>1, RepliesStep DEF EngineInv
<1>5. Artifacts'
  BY <1>1, ArtifactsStep DEF EngineInv
<1> QED BY <1>2, <1>3, <1>4, <1>5 DEF EngineInv

\* The device never acknowledges a revision that its saved cursor does not cover
\* (sync-engine.ts, run(): persist before ackCursor): a crash at any point leaves
\* on disk all that the server has been told it may forget.
THEOREM AcknowledgementIsSaved == Spec => []AckIsSaved
<1>1. EngineInv => AckIsSaved
  BY DEF EngineInv, Position, AckIsSaved
<1> QED BY InitEngineInv, EngineInvStep, <1>1, PTL DEF Spec

\* A temporary or backup file of a download exists only while the saved inbox
\* names it (stageDownload, finishDownload): a crash at any point leaves no file
\* that the next run does not know of.
THEOREM FilesAreTracked == Spec => []ArtifactsAreTracked
<1>1. EngineInv => ArtifactsAreTracked
  BY DEF EngineInv, Artifacts, ArtifactsAreTracked
<1> QED BY InitEngineInv, EngineInvStep, <1>1, PTL DEF Spec

-----------------------------------------------------------------------------
(* The first and the last of a set of revisions.                           *)

\* A set of naturals that is not empty has a smallest one.
LEMMA Smallest ==
    ASSUME NEW S \in SUBSET Nat, S # {}
    PROVE  \E x \in S : \A y \in S : x <= y
<1> DEFINE R == {ss \in Nat \X Nat : ss[1] < ss[2]}
<1>1. IsWellFoundedOn(R, Nat)
  BY NatLessThanWellFounded, Zenon DEF OpToRel
<1>2. PICK x \in S : \A y \in S : <<y, x>> \notin R
  BY <1>1, WFMin, Zenon
<1>3. ASSUME NEW y \in S PROVE x <= y
  <2>1. <<y, x>> \in Nat \X Nat
    OBVIOUS
  <2>2. ~(y < x)
    BY <1>2, <2>1
  <2> QED BY <2>2
<1> QED BY <1>3

\* It is the one that Min chooses.
LEMMA MinOfRevisions ==
    ASSUME NEW S \in SUBSET Nat, S # {}
    PROVE  Min(S) \in S /\ \A y \in S : Min(S) <= y
BY Smallest DEF Min

\* A set of revisions of the log that is not empty has a last one, which Max
\* chooses.
LEMMA MaxOfRevisions ==
    ASSUME NEW n \in Nat, NEW S \in SUBSET (1..n), S # {}
    PROVE  Max(S) \in S /\ \A y \in S : y <= Max(S)
<1> DEFINE T == {n - x : x \in S}
<1>1. T \in SUBSET Nat /\ T # {}
  <2>1. \A x \in 1..n : n - x \in Nat
    OBVIOUS
  <2> QED BY <2>1
<1>2. PICK d \in T : \A e \in T : d <= e
  BY <1>1, Smallest
<1>3. PICK x \in S : d = n - x
  BY <1>2
<1>4. ASSUME NEW y \in S PROVE y <= x
  <2>1. n - y \in T
    OBVIOUS
  <2>2. n - x <= n - y
    BY <1>2, <1>3, <2>1
  <2> QED BY <2>2
<1>5. \A y \in S : x >= y
  BY <1>4
<1>6. \E z \in S : \A y \in S : z >= y
  BY <1>5
<1>7. Max(S) \in S /\ \A y \in S : Max(S) >= y
  BY <1>6 DEF Max
<1> QED BY <1>7

-----------------------------------------------------------------------------
(* Types.  A step keeps them only in the states that the engine reaches:   *)
(* what is applied is a version, a rename that is answered is still queued *)
(* and the paths of a snapshot are in its part of the log.                 *)

\* Where the run has a change in hand.
Applying == {"apply", "refused", "discard", "remove"} \cup Installing

\* Where a change is applied for, and where a request is sent for.
Appliers == {"outbox", "push", "deletes", "merge", "page"}
Requesters == {"outbox", "renames", "push", "deletes", "pull"}

\* A procedure returns to the part of the run that has called it, and a request
\* is of the kind that this part makes.
Calls ==
    /\ pc \in {"send", "answer"} =>
         \/ run.ret = "outbox"
         \/ run.ret = "renames" /\ mem.outbox.request.kind = "rename"
         \/ run.ret \in {"push", "deletes"} /\ mem.outbox.request.kind = "apply"
         \/ run.ret = "pull" /\ mem.outbox.request.kind = "batch"
    /\ pc \in {"apply", "refused", "remove", "download"} => run.ret \in Appliers
    /\ pc \in {"install", "swap", "verify", "record"} => run.ret \in Appliers \cup {"inbox"}
    /\ pc = "save" => run.ret \in Appliers \cup Requesters \cup {"inbox"}
    /\ pc = "discard" => run.ret = "preserve"
    /\ pc \notin Inner \cup {"send", "answer", "refused"} => run.ret = "idle"

InSnapshot == pc \in {"preserve", "merge"} \/ run.ret \in {"preserve", "merge"}

\* What the steps take for granted: of the change in hand, of the queue of renames,
\* of the paths of a snapshot and of a batch.
ChangeReady ==
    /\ pc \in Applying => run.change \in Version
    /\ pc = "refused" => run.refused # Absent

MovesReady ==
    /\ pc \in {"send", "answer"} /\ run.ret = "renames" => run.moves < Len(mem.renames)
    /\ pc = "renames" \/ (pc = "save" /\ run.ret = "renames") => run.moves <= Len(mem.renames)

SnapshotReady == InSnapshot => run.todo \subseteq {log[r].path : r \in 1..run.upto}

BatchReady ==
    \A data \in {mem, saved} :
        data.outbox # NoOperation /\ data.outbox.request.kind = "batch" =>
          data.outbox.request.items # {}

Ready == ChangeReady /\ MovesReady /\ SnapshotReady /\ BatchReady

\* The parts of TypeOK.
ServerTypes ==
    /\ log \in Seq(Entry)
    /\ head \in [Paths -> Row]
    /\ answers \in [OpIds -> Reply \cup {NoReply}]
    /\ ack \in Nat
    /\ reply \in Reply \cup {NoReply}

FileTypes ==
    /\ disk \in [Paths -> Content]
    /\ copies \subseteq Copy
    /\ temp \in Content /\ backup \in Content

DataTypes == mem \in Data /\ saved \in Data

\* The run, field by field.
RunTypes ==
    /\ pc \in Labels
    /\ run.deferred \in SUBSET Paths /\ run.noted \in SUBSET Paths
    /\ run.full \in BOOLEAN
    /\ run.scope \in SUBSET Paths
    /\ run.found \in [Paths -> Content]
    /\ run.todo \in SUBSET Paths
    /\ run.moves \in Nat /\ run.at \in Nat /\ run.upto \in Nat
    /\ run.more \in BOOLEAN
    /\ run.change \in Version \cup {NoDownload}
    /\ run.keep \in BOOLEAN
    /\ run.refused \in Content
    /\ run.ret \in Returns

HistoryTypes ==
    /\ up \in BOOLEAN
    /\ work \in [Paths -> [content : Content \cup {Unknown}, exposed : BOOLEAN,
                       left : SUBSET Content]]
    /\ spent \in [{"user", "other", "fault", "collect"} -> Nat]

Types == ServerTypes /\ FileTypes /\ DataTypes /\ RunTypes /\ HistoryTypes

\* Together with the shape of the run the parts are TypeOK.
LEMMA TypesSuffice == Fields /\ Types => TypeOK
<1>1. Fields /\ RunTypes => run \in Run /\ pc \in Labels
  BY DEF Fields, HasFields, RunFields, RunTypes, Run, Returns, Labels
<1> QED BY <1>1 DEF Types, ServerTypes, FileTypes, DataTypes, HistoryTypes, TypeOK

-----------------------------------------------------------------------------
(* Records.                                                                *)

\* A request that is staged.
LEMMA Staged ==
    ASSUME Fields, NEW q, Stage(q)
    PROVE  /\ mem' = [mem EXCEPT !.outbox = [id |-> FreshId, request |-> q]]
           /\ mem'.outbox.request = q /\ mem'.outbox.id = FreshId
           /\ \A f \in DataFields \ {"outbox"} : mem'[f] = mem[f]
           /\ saved' = mem' /\ pc' = "send"
BY DEF Fields, HasFields, DataFields, Stage, Persist

\* Where a run ends.
LEMMA CallsEnded == ASSUME pc' = "idle", run' = IdleRun PROVE Calls'
BY DEF Calls, IdleRun, Inner

\* Where a procedure returns.
LEMMA CallsReturned == ASSUME Fields, Return PROVE Calls'
BY DEF Fields, HasFields, RunFields, Return, Returns, Calls, Inner, Appliers, Requesters

\* RemoveLocal ends the run or returns.
LEMMA CallsRemoveLocal == Fields /\ Calls /\ RemoveLocal => Calls'
<1> SUFFICES ASSUME Fields, Calls, RemoveLocal PROVE Calls'
  OBVIOUS
<1>1. CASE EndRun
  BY <1>1, CallsEnded DEF EndRun
<1>2. CASE Return
  BY <1>2, CallsReturned
<1> QED BY <1>1, <1>2 DEF RemoveLocal

\* So does DiscardLocal.
LEMMA CallsDiscardLocal == Fields /\ Calls /\ DiscardLocal => Calls'
<1> SUFFICES ASSUME Fields, Calls, DiscardLocal PROVE Calls'
  OBVIOUS
<1>1. CASE EndRun
  BY <1>1, CallsEnded DEF EndRun
<1>2. CASE Return
  BY <1>2, CallsReturned
<1> QED BY <1>1, <1>2 DEF DiscardLocal

\* PreserveLocal calls the removal of a file.
LEMMA CallsPreserveLocal == Fields /\ Calls /\ PreserveLocal => Calls'
<1> SUFFICES ASSUME Fields, Calls, PreserveLocal PROVE Calls'
  OBVIOUS
<1>1. CASE EndRun
  BY <1>1, CallsEnded DEF EndRun
<1>2. CASE ~EndRun
  <2>1. /\ pc' = "discard"
        /\ \E p : run' = [run EXCEPT !.scope = @ \ {p}, !.ret = "preserve",
                             !.change = [path |-> p, rev |-> 0, content |-> Absent]]
    BY <1>2, Zenon DEF PreserveLocal
  <2> QED BY <2>1 DEF Fields, HasFields, RunFields, Calls, Inner
<1> QED BY <1>1, <1>2

\* PushDone sends a batch or goes on.
LEMMA CallsPushDone == Fields /\ Calls /\ PushDone => Calls'
<1> SUFFICES ASSUME Fields, Calls, PushDone PROVE Calls'
  OBVIOUS
<1>1. CASE Cardinality(Deletions) > 1
  <2>1. PICK q : Stage(q) /\ q.kind = "batch"
    BY <1>1 DEF PushDone
  <2>2. run'.ret = "pull"
    BY <1>1 DEF PushDone, Fields, HasFields, RunFields
  <2> QED BY <2>1, <2>2, Staged DEF Calls, Inner
<1>2. CASE ~(Cardinality(Deletions) > 1)
  BY <1>2 DEF PushDone, Fields, HasFields, RunFields, Calls, Inner
<1> QED BY <1>1, <1>2

\* PushPath sends a put or goes on.
LEMMA CallsPushPath == ASSUME Fields, Calls, NEW p \in Paths, PushPath(p) PROVE Calls'
<1>1. CASE Stage(ApplyRequest(p, disk[p]))
  <2>1. mem'.outbox.request.kind = "apply" /\ pc' = "send"
    BY <1>1, Staged DEF ApplyRequest
  <2>2. run'.ret = "push"
    BY <2>1 DEF PushPath, Fields, HasFields, RunFields
  <2> QED BY <2>1, <2>2 DEF Calls, Inner
<1>2. CASE ~Stage(ApplyRequest(p, disk[p]))
  BY <1>2 DEF PushPath, Fields, HasFields, RunFields, Calls, Inner
<1> QED BY <1>1, <1>2

\* DeletePath sends a delete.
LEMMA CallsDeletePath == ASSUME Fields, Calls, NEW p \in Paths, DeletePath(p) PROVE Calls'
<1>1. mem'.outbox.request.kind = "apply" /\ pc' = "send"
  BY Staged DEF DeletePath, ApplyRequest
<1>2. run'.ret = "deletes"
  BY DEF DeletePath, Fields, HasFields, RunFields
<1> QED BY <1>1, <1>2 DEF Calls, Inner

\* The events of a step of the user.
LEMMA CallsNoteEvents ==
    ASSUME Fields, Calls, NEW ps, NEW ms, NoteEvents(ps, ms), UNCHANGED pc
    PROVE  Calls'
BY DEF NoteEvents, Fields, HasFields, DataFields, RunFields, Calls

\* Every step returns where it was called.
LEMMA CallsStep ==
    Fields /\ Calls /\ [Next]_vars => Calls'
<1> SUFFICES ASSUME Fields, Calls, [Next]_vars PROVE Calls'
  OBVIOUS
<1>1. CASE ResumeInbox
  <2> USE DEF Fields, Calls, HasFields, DataFields, RunFields, Appliers, Requesters,
     Inner
  <2>1. CASE InboxInstalled
    BY <2>1 DEF InboxInstalled, Quiet, NoRequest, dataVars, CleanUp, serverVars,
       historyVars
  <2>2. CASE InboxReady
    BY <2>2 DEF InboxReady, Quiet, NoRequest, dataVars, fileVars, serverVars,
       historyVars
  <2>3. CASE InboxLost
    BY <2>3 DEF InboxLost, Quiet, NoRequest, Persist, CleanUp, serverVars,
       historyVars
  <2>4. CASE InboxDone
    BY <2>4 DEF InboxDone, Quiet, NoRequest, Goto, dataVars, fileVars, serverVars,
       historyVars
  <2> HIDE DEF Fields, Calls, HasFields, DataFields, RunFields, Appliers,
     Requesters, Inner
  <2> QED BY <1>1, <2>1, <2>2, <2>3, <2>4 DEF ResumeInbox
<1>2. CASE ResumeOutbox
  <2> USE DEF Fields, Calls, HasFields, DataFields, RunFields, Appliers, Requesters,
     Inner
  <2>1. CASE OutboxCommitted
    BY <2>1 DEF OutboxCommitted, Quiet, dataVars, serverVars, fileVars, historyVars,
       NoRequest
  <2>2. CASE OutboxResent
    BY <2>2 DEF OutboxResent, Quiet, NoRequest, dataVars, fileVars, serverVars,
       historyVars
  <2>3. CASE OutboxAbandoned
    BY <2>3 DEF OutboxAbandoned, Quiet, NoRequest, Persist, Discarded, Queued,
       fileVars, dataVars, serverVars, historyVars
  <2>4. CASE OutboxDone
    BY <2>4 DEF OutboxDone, Quiet, NoRequest, Goto, BeginRenames, dataVars,
       fileVars, serverVars, historyVars
  <2> HIDE DEF Fields, Calls, HasFields, DataFields, RunFields, Appliers,
     Requesters, Inner
  <2> QED BY <1>2, <2>1, <2>2, <2>3, <2>4 DEF ResumeOutbox
<1>3. CASE Reconcile
  <2>1. CASE PreserveLocal
    BY <2>1, CallsPreserveLocal
  <2>2. CASE DiscardLocal
    BY <2>2, CallsDiscardLocal
  <2> USE DEF Fields, Calls, HasFields, DataFields, RunFields, Appliers, Requesters,
     Inner
  <2>3. CASE ReadSnapshot
    BY <2>3 DEF ReadSnapshot, Quiet, NoRequest, dataVars, fileVars, serverVars,
       historyVars
  <2>4. CASE PreserveDone
    BY <2>4 DEF PreserveDone, Quiet, NoRequest, Goto, dataVars, fileVars,
       serverVars, historyVars
  <2>5. CASE MergeSnapshot
    BY <2>5 DEF MergeSnapshot, NoRequest, fileVars, dataVars, serverVars,
       historyVars
  <2>6. CASE MergeDone
    BY <2>6 DEF MergeDone, Quiet, NoRequest, Persist, BeginRenames, fileVars,
       dataVars, serverVars, historyVars
  <2> HIDE DEF Fields, Calls, HasFields, DataFields, RunFields, Appliers,
     Requesters, Inner
  <2> QED BY <1>3, <2>1, <2>2, <2>3, <2>4, <2>5, <2>6 DEF Reconcile
<1>4. CASE Renames
  <2> USE DEF Fields, Calls, HasFields, DataFields, RunFields, Appliers, Requesters,
     Inner
  <2>1. CASE RenameSkipped
    BY <2>1 DEF RenameSkipped, Quiet, NoRequest, fileVars, dataVars, serverVars,
       historyVars
  <2>2. CASE RenameStaged
    BY <2>2 DEF RenameStaged, Quiet, Stage, fileVars, dataVars, serverVars,
       historyVars, Persist, NoRequest
  <2>3. CASE RenamesDone
    BY <2>3 DEF RenamesDone, Quiet, NoRequest, Goto, fileVars, dataVars, serverVars,
       historyVars
  <2> HIDE DEF Fields, Calls, HasFields, DataFields, RunFields, Appliers,
     Requesters, Inner
  <2> QED BY <1>4, <2>1, <2>2, <2>3 DEF Renames
<1>5. CASE Push
  <2>1. CASE PushDone
    BY <2>1, CallsPushDone
  <2>2. ASSUME NEW p \in Paths, PushPath(p) PROVE Calls'
    BY <2>2, CallsPushPath
  <2>3. ASSUME NEW p \in Paths, DeletePath(p) PROVE Calls'
    BY <2>3, CallsDeletePath
  <2> USE DEF Fields, Calls, HasFields, DataFields, RunFields, Appliers, Requesters,
     Inner
  <2>4. CASE PlanFull
    BY <2>4 DEF PlanFull, Plan, Quiet, NoRequest, dataVars, fileVars, serverVars,
       historyVars
  <2>5. CASE PlanQueued
    BY <2>5 DEF PlanQueued, Plan, Quiet, NoRequest, dataVars, fileVars, serverVars,
       historyVars
  <2>6. CASE DeletesDone
    BY <2>6 DEF DeletesDone, Quiet, NoRequest, fileVars, dataVars, serverVars,
       historyVars
  <2>7. ASSUME NEW p \in Paths, ScanPath(p) PROVE Calls'
    BY <2>7 DEF ScanPath, Quiet, NoRequest, dataVars, fileVars, serverVars,
       historyVars
  <2> HIDE DEF Fields, Calls, HasFields, DataFields, RunFields, Appliers,
     Requesters, Inner
  <2> QED BY <1>5, <2>1, <2>2, <2>3, <2>4, <2>5, <2>6, <2>7 DEF Push
<1>6. CASE Answered
  <2> USE DEF Fields, Calls, HasFields, DataFields, RunFields, Appliers, Requesters,
     Inner
  <2>1. CASE AnswerApplied
    BY <2>1 DEF AnswerApplied, Quiet, Goto, Return, Complete, Queued, serverVars,
       fileVars, dataVars, historyVars, NoRequest
  <2>2. CASE AnswerConflict
    BY <2>2 DEF AnswerConflict, Quiet, Persist, Discarded, serverVars, fileVars,
       dataVars, historyVars, NoRequest
  <2>3. CASE KeepRefused
    BY <2>3 DEF KeepRefused, Quiet, NoRequest, dataVars, serverVars, historyVars
  <2>4. CASE AnswerMoved
    BY <2>4 DEF AnswerMoved, Quiet, Goto, Complete, serverVars, fileVars, dataVars,
       historyVars, NoRequest
  <2>5. CASE AnswerMoveConflict
    BY <2>5 DEF AnswerMoveConflict, Quiet, Goto, Return, Discarded, Queued,
       serverVars, fileVars, dataVars, historyVars, NoRequest
  <2>6. CASE AnswerBatch
    BY <2>6 DEF AnswerBatch, Quiet, Complete, serverVars, fileVars, dataVars,
       historyVars, NoRequest
  <2>7. CASE AnswerBatchConflict
    BY <2>7 DEF AnswerBatchConflict, Quiet, Persist, Discarded, Queued, serverVars,
       fileVars, dataVars, historyVars, NoRequest
  <2> HIDE DEF Fields, Calls, HasFields, DataFields, RunFields, Appliers,
     Requesters, Inner
  <2> QED BY <1>6, <2>1, <2>2, <2>3, <2>4, <2>5, <2>6, <2>7 DEF Answered
<1>7. CASE Apply
  <2>1. CASE RemoveLocal
    BY <2>1, CallsRemoveLocal
  <2> USE DEF Fields, Calls, HasFields, DataFields, RunFields, Appliers, Requesters,
     Inner
  <2>2. CASE ApplyRemoteChange
    BY <2>2 DEF ApplyRemoteChange, Quiet, NoRequest, Goto, Return, StageDownload,
       dataVars, Persist, serverVars, historyVars
  <2>3. CASE Download
    BY <2>3 DEF Download, Quiet, NoRequest, Goto, serverVars, historyVars
  <2>4. CASE SetAside
    BY <2>4 DEF SetAside, Quiet, NoRequest, Goto, serverVars, historyVars
  <2>5. CASE SwapIn
    BY <2>5 DEF SwapIn, Quiet, Goto, EndRun, dataVars, serverVars, IdleRun,
       NoRequest, historyVars
  <2>6. CASE VerifyInstalled
    BY <2>6 DEF VerifyInstalled, Quiet, Goto, EndRun, dataVars, serverVars, IdleRun,
       NoRequest, historyVars
  <2>7. CASE FinishDownload
    BY <2>7 DEF FinishDownload, Quiet, NoRequest, Goto, fileVars, dataVars,
       serverVars, historyVars
  <2>8. CASE Save
    BY <2>8 DEF Save, Quiet, NoRequest, Return, fileVars, dataVars, serverVars,
       historyVars
  <2> HIDE DEF Fields, Calls, HasFields, DataFields, RunFields, Appliers,
     Requesters, Inner
  <2> QED BY <1>7, <2>1, <2>2, <2>3, <2>4, <2>5, <2>6, <2>7, <2>8 DEF Apply
<1>8. CASE Pull
  <2> USE DEF Fields, Calls, HasFields, DataFields, RunFields, Appliers, Requesters,
     Inner
  <2>1. CASE PullPage
    BY <2>1 DEF PullPage, Quiet, NoRequest, dataVars, fileVars, serverVars,
       historyVars
  <2>2. CASE PageChange
    BY <2>2 DEF PageChange, Quiet, NoRequest, dataVars, fileVars, serverVars,
       historyVars
  <2>3. CASE PageDone
    BY <2>3 DEF PageDone, Quiet, NoRequest, Persist, fileVars, dataVars, serverVars,
       historyVars
  <2>4. CASE Finish
    BY <2>4 DEF Finish, Quiet, NoRequest, Persist, Goto, fileVars, dataVars,
       serverVars, historyVars
  <2>5. CASE AckCursor
    BY <2>5 DEF AckCursor, Quiet, Goto, Acknowledge, dataVars, fileVars, serverVars,
       historyVars, NoRequest
  <2>6. CASE CompleteRun
    BY <2>6 DEF CompleteRun, Quiet, EndRun, serverVars, fileVars, dataVars,
       historyVars, IdleRun, NoRequest
  <2> HIDE DEF Fields, Calls, HasFields, DataFields, RunFields, Appliers,
     Requesters, Inner
  <2> QED BY <1>8, <2>1, <2>2, <2>3, <2>4, <2>5, <2>6 DEF Pull
<1>9. ASSUME NEW p \in Paths, NEW content \in UserContents \cup {Absent},
   UserEdit(p, content) PROVE Calls'
  BY <1>9, CallsNoteEvents DEF UserEdit
<1>10. ASSUME NEW from \in Paths, NEW to \in Paths, UserRename(from, to) PROVE
   Calls'
  BY <1>10, CallsNoteEvents DEF UserRename
<1>11. CASE StartRun
  BY <1>11 DEF StartRun, Fields, Calls, HasFields, DataFields, RunFields, Appliers,
     Requesters, Inner, Quiet, NoRequest, Goto, dataVars, fileVars, serverVars,
     historyVars
<1>12. CASE Send
  BY <1>12 DEF Send, Fields, Calls, HasFields, DataFields, RunFields, Appliers,
     Requesters, Inner, Quiet, Goto, dataVars, fileVars, serverVars, historyVars,
     NoRequest
<1>13. CASE ServerMoves
  BY <1>13 DEF ServerMoves, Fields, Calls, HasFields, DataFields, RunFields,
     Appliers, Requesters, Inner, Spend, dataVars, fileVars, serverVars, historyVars
<1>14. CASE SaveEvents
  BY <1>14 DEF SaveEvents, Fields, Calls, HasFields, DataFields, RunFields,
     Appliers, Requesters, Inner, Quiet, NoRequest, fileVars, dataVars, serverVars,
     historyVars
<1>15. CASE RunFails
  BY <1>15 DEF RunFails, Fields, Calls, HasFields, DataFields, RunFields, Appliers,
     Requesters, Inner, EndRun, Spend, serverVars, IdleRun
<1>16. CASE Crash
  BY <1>16 DEF Crash, Fields, Calls, HasFields, DataFields, RunFields, Appliers,
     Requesters, Inner, IdleRun, Spend, serverVars, fileVars, dataVars, historyVars
<1>17. CASE Restart
  BY <1>17 DEF Restart, Fields, Calls, HasFields, DataFields, RunFields, Appliers,
     Requesters, Inner, NoRequest, dataVars, fileVars, historyVars, serverVars
<1>18. CASE UNCHANGED vars
  BY <1>18 DEF Fields, Calls, HasFields, DataFields, RunFields, Appliers,
     Requesters, Inner, vars, serverVars, fileVars, dataVars, historyVars
<1> QED BY <1>1, <1>2, <1>3, <1>4, <1>5, <1>6, <1>7, <1>8, <1>9, <1>10, <1>11, <1>12,
         <1>13, <1>14, <1>15, <1>16, <1>17, <1>18 DEF Next, Engine, User

-----------------------------------------------------------------------------
(* The types of the data.                                                  *)

\* The records of all paths.
FilesOf == [Paths -> FileState \cup {Untracked}]

\* Recording versions gives records.
LEMMA RecordedTypes ==
    ASSUME mem \in Data, NEW vs \in SUBSET Version
    PROVE  Recorded(vs) \in FilesOf
<1> SUFFICES ASSUME NEW p \in Paths PROVE Recorded(vs)[p] \in FileState \cup {Untracked}
  BY DEF Recorded, FilesOf
<1>1. CASE \E v \in vs : v.path = p
  <2> DEFINE v == CHOOSE v \in vs : v.path = p
  <2>1. v \in Version
    BY <1>1
  <2>2. Recorded(vs)[p] = [rev |-> v.rev, content |-> v.content]
    BY <1>1 DEF Recorded
  <2> HIDE DEF v
  <2> QED BY <2>1, <2>2 DEF Version, FileState
<1>2. CASE ~\E v \in vs : v.path = p
  BY <1>2 DEF Recorded, Data
<1> QED BY <1>1, <1>2

\* A reply holds versions.
LEMMA AnsweredVersions ==
    ASSUME TypeOK, reply.kind \in {"ok", "conflict"}
    PROVE  reply \in Reply /\ reply.versions \in SUBSET Version
BY DEF TypeOK, Reply, NoReply

\* What is sent is a request.
LEMMA SentRequest ==
    ASSUME TypeOK, Shape, pc \in {"send", "answer"}
    PROVE  mem.outbox \in Operation /\ mem.outbox.request \in Request
BY DEF TypeOK, Data, Operation, NoOperation, Shape, OpIds

\* A request is about paths.
LEMMA TouchedPaths ==
    ASSUME NEW q \in Request
    PROVE  Touched(q) \subseteq Paths /\ (q.kind = "batch" => BatchPaths(q) \subseteq Paths)
BY DEF Touched, BatchPaths, Request, Item

\* Staging a request keeps the types of the data.
LEMMA DataStaged == ASSUME TypeOK, Shape, NEW q \in Request, Stage(q) PROVE DataTypes'
<1>1. FreshId \in OpIds
  BY DEF FreshId, OpIds, Shape, SoundData
<1> QED BY <1>1 DEF Stage, Persist, TypeOK, Data, DataTypes, Operation

\* A put or a delete is a request.
LEMMA ApplyRequestType ==
    ASSUME TypeOK, NEW p \in Paths, NEW c \in Content
    PROVE  ApplyRequest(p, c) \in Request
BY DEF ApplyRequest, Request, TypeOK, Data, FileState, Untracked

\* AnswerApplied keeps them.
LEMMA DataAnswerApplied == ASSUME TypeOK, Shape, AnswerApplied PROVE DataTypes'
<1>1. Recorded(reply.versions) \in FilesOf
  BY AnsweredVersions, RecordedTypes DEF AnswerApplied, TypeOK
<1>2. mem.outbox.request.path \in Paths
  BY SentRequest DEF AnswerApplied, Request
<1>3. Queued({mem.outbox.request.path}) \in SUBSET Paths
  BY <1>2 DEF Queued, TypeOK, Data
<1>4. CASE Recovering
  <2>1. /\ saved' = [mem EXCEPT !.files = Recorded(reply.versions),
                                !.pending = Queued({mem.outbox.request.path})]
        /\ mem' = [saved' EXCEPT !.outbox = NoOperation]
    BY <1>4, Zenon DEF AnswerApplied, Complete
  <2>2. saved' \in Data
    BY <1>1, <1>3, <2>1 DEF TypeOK, Data, FilesOf
  <2>3. mem' \in Data
    BY <2>1, <2>2 DEF Data
  <2> QED BY <2>2, <2>3 DEF DataTypes
<1>5. CASE ~Recovering
  BY <1>1, <1>5, ZenonT(40) DEF AnswerApplied, TypeOK, Data, FilesOf, DataTypes, Complete
<1> QED BY <1>4, <1>5

\* AnswerMoved keeps them.
LEMMA DataAnswerMoved == ASSUME TypeOK, Shape, Calls, Ready, AnswerMoved PROVE DataTypes'
<1>1. Recorded(reply.versions) \in FilesOf
  BY AnsweredVersions, RecordedTypes DEF AnswerMoved, TypeOK
<1>2. mem.renames \in Seq(Move) /\ (~Recovering => Tail(mem.renames) \in Seq(Move))
  BY DEF AnswerMoved, Calls, Ready, MovesReady, Recovering, TypeOK, Data, Run
<1> QED BY <1>1, <1>2 DEF AnswerMoved, TypeOK, Data, FilesOf, DataTypes, Complete

\* AnswerMoveConflict keeps them.
LEMMA DataAnswerMoveConflict ==
    ASSUME TypeOK, Shape, Calls, Ready, AnswerMoveConflict
    PROVE  DataTypes'
<1>1. mem.outbox.request.path \in Paths /\ mem.outbox.request.from \in Paths
  BY SentRequest DEF AnswerMoveConflict, Request
<1>2. mem.renames \in Seq(Move) /\ (~Recovering => Tail(mem.renames) \in Seq(Move))
  BY DEF AnswerMoveConflict, Calls, Ready, MovesReady, Recovering, TypeOK, Data, Run
<1> QED BY <1>1, <1>2 DEF AnswerMoveConflict, TypeOK, Data, DataTypes, Discarded, Queued

\* AnswerBatch keeps them.
LEMMA DataAnswerBatch == ASSUME TypeOK, Shape, AnswerBatch PROVE DataTypes'
<1>1. Recorded(reply.versions) \in FilesOf
  BY AnsweredVersions, RecordedTypes DEF AnswerBatch, TypeOK
<1> QED BY <1>1 DEF AnswerBatch, TypeOK, Data, FilesOf, DataTypes, Complete

\* AnswerBatchConflict keeps them.
LEMMA DataAnswerBatchConflict ==
    ASSUME TypeOK, Shape, AnswerBatchConflict
    PROVE  DataTypes'
<1>1. BatchPaths(mem.outbox.request) \subseteq Paths
  BY SentRequest, TouchedPaths DEF AnswerBatchConflict
<1>2. Queued(BatchPaths(mem.outbox.request)) \in SUBSET Paths
  BY <1>1 DEF Queued, TypeOK, Data
<1>3. CASE Recovering
  <2>1. /\ mem' = [Discarded EXCEPT !.pending = Queued(BatchPaths(mem.outbox.request))]
        /\ saved' = mem'
    BY <1>3, Zenon DEF AnswerBatchConflict, Persist
  <2> QED BY <1>2, <2>1 DEF TypeOK, Data, DataTypes, Discarded
<1>4. CASE ~Recovering
  BY <1>4, ZenonT(40) DEF AnswerBatchConflict, TypeOK, Data, DataTypes, Discarded, Persist
<1> QED BY <1>3, <1>4

\* OutboxAbandoned keeps them.
LEMMA DataOutboxAbandoned == ASSUME TypeOK, Shape, OutboxAbandoned PROVE DataTypes'
<1>1. Touched(mem.outbox.request) \subseteq Paths
  BY TouchedPaths DEF OutboxAbandoned, TypeOK, Data, Operation
<1> QED BY <1>1 DEF OutboxAbandoned, TypeOK, Data, DataTypes, Discarded, Queued, Persist

\* RemoveLocal keeps them.
LEMMA DataRemoveLocal == ASSUME TypeOK, Ready, RemoveLocal PROVE DataTypes'
<1>1. Recorded({run.change}) \in FilesOf
  BY RecordedTypes DEF RemoveLocal, TypeOK, Ready, ChangeReady, Applying
<1> QED BY <1>1 DEF RemoveLocal, EndRun, TypeOK, Data, FilesOf, DataTypes

\* FinishDownload keeps them.
LEMMA DataFinishDownload == ASSUME TypeOK, Ready, FinishDownload PROVE DataTypes'
<1>1. Recorded({run.change}) \in FilesOf
  BY RecordedTypes DEF FinishDownload, TypeOK, Ready, ChangeReady, Applying, Installing
<1> QED BY <1>1 DEF FinishDownload, TypeOK, Data, FilesOf, DataTypes

\* ApplyRemoteChange keeps them.
LEMMA DataApplyRemoteChange == ASSUME TypeOK, Ready, ApplyRemoteChange PROVE DataTypes'
<1>1. run.change \in Version
  BY DEF ApplyRemoteChange, TypeOK, Ready, ChangeReady, Applying, Installing
<1>2. Recorded({run.change}) \in FilesOf
  BY <1>1, RecordedTypes DEF TypeOK
<1>3. CASE mem' = [mem EXCEPT !.files = Recorded({run.change})] /\ UNCHANGED saved
  BY <1>2, <1>3 DEF TypeOK, Data, FilesOf, DataTypes
<1>4. CASE UNCHANGED dataVars
  BY <1>4 DEF TypeOK, DataTypes, dataVars
<1>5. CASE StageDownload(run.change)
  BY <1>1, <1>5 DEF StageDownload, Persist, TypeOK, Data, DataTypes
<1> QED BY <1>3, <1>4, <1>5 DEF ApplyRemoteChange

\* The version of a path in a snapshot is the last one of the path.
LEMMA SnapshotVersionType ==
    ASSUME TypeOK, Position, Ready, pc = "merge", NEW p \in run.todo
    PROVE  /\ SnapshotVersion(p) \in Version /\ SnapshotVersion(p).path = p
           /\ SnapshotVersion(p).rev \in 1..run.upto
           /\ \A r \in 1..run.upto : log[r].path = p => r <= SnapshotVersion(p).rev
           /\ SnapshotVersion(p) = Logged(SnapshotVersion(p).rev)
<1> DEFINE S == {r \in 1..run.upto : log[r].path = p}
<1>1. run.upto \in Nat /\ run.upto <= Len(log) /\ log \in Seq(Entry) /\ Len(log) \in Nat
  BY DEF Position, TypeOK, Loops
<1>2. S \in SUBSET (1..run.upto) /\ S # {}
  BY DEF Ready, SnapshotReady, InSnapshot
<1>3. Max(S) \in S /\ \A y \in S : y <= Max(S)
  BY <1>1, <1>2, MaxOfRevisions
<1>4. PICK r : r = Max(S)
  OBVIOUS
<1>5. r \in 1..run.upto /\ log[r].path = p /\ \A y \in S : y <= r
  BY <1>3, <1>4
<1>6. log[r] \in Entry /\ r \in Nat
  BY <1>1, <1>5
<1>7. SnapshotVersion(p) = Logged(r)
  BY <1>4 DEF SnapshotVersion
<1>8. Logged(r) \in Version /\ Logged(r).path = p /\ Logged(r).rev = r
  BY <1>5, <1>6 DEF Logged, Version, Entry
<1> QED BY <1>5, <1>7, <1>8

\* MergeSnapshot keeps them.
LEMMA DataMergeSnapshot == ASSUME TypeOK, Position, Ready, MergeSnapshot PROVE DataTypes'
<1>1. CASE mem.mode = "local"
  <2> DEFINE vs == {SnapshotVersion(p) : p \in MergeDue}
  <2>1. vs \in SUBSET Version
    <3>1. pc = "merge" /\ MergeDue \subseteq run.todo
      BY DEF MergeSnapshot, MergeDue
    <3> QED BY <3>1, SnapshotVersionType
  <2>2. mem' = [mem EXCEPT !.files = Recorded(vs)] /\ saved' = saved
    BY <1>1, Zenon DEF MergeSnapshot
  <2> HIDE DEF vs
  <2>3. Recorded(vs) \in FilesOf
    BY <2>1, RecordedTypes DEF TypeOK
  <2> QED BY <2>2, <2>3 DEF TypeOK, Data, FilesOf, DataTypes
<1>2. CASE mem.mode # "local"
  BY <1>2, Zenon DEF MergeSnapshot, TypeOK, DataTypes
<1> QED BY <1>1, <1>2

\* MergeDone keeps them.
LEMMA DataMergeDone == ASSUME TypeOK, MergeDone PROVE DataTypes'
BY DEF MergeDone, TypeOK, Data, DataTypes, Persist, Run

\* RenameSkipped keeps them.
LEMMA DataRenameSkipped == ASSUME TypeOK, Ready, RenameSkipped PROVE DataTypes'
<1>1. mem.renames \in Seq(Move) /\ Len(mem.renames) > 0
  BY DEF RenameSkipped, Ready, MovesReady, TypeOK, Data, Run
<1>2. Tail(mem.renames) \in Seq(Move)
  BY <1>1
<1> QED BY <1>2 DEF RenameSkipped, TypeOK, Data, DataTypes

\* RenameStaged keeps them.
LEMMA DataRenameStaged == ASSUME TypeOK, Shape, Ready, RenameStaged PROVE DataTypes'
<1> DEFINE m == Head(mem.renames)
           q == [kind |-> "rename", from |-> m.from, path |-> m.to,
                  base |-> mem.files[m.from].rev, content |-> mem.files[m.from].content]
<1>1. m \in Move
  BY DEF RenameStaged, Ready, MovesReady, TypeOK, Data, Run
<1>2. mem.files[m.from] \in FileState /\ mem.files[m.from].content # Absent
  BY <1>1 DEF RenameStaged, Sendable, TrackedLive, Tracked, TypeOK, Data, Move
<1>3. q \in Request
  BY <1>1, <1>2 DEF Move, FileState, Request, Content
<1>4. Stage(q)
  BY DEF RenameStaged
<1> QED BY <1>3, <1>4, DataStaged

\* PushPath keeps them.
LEMMA DataPushPath == ASSUME TypeOK, Shape, NEW p \in Paths, PushPath(p) PROVE DataTypes'
<1>1. CASE Stage(ApplyRequest(p, disk[p]))
  BY <1>1, ApplyRequestType, DataStaged DEF TypeOK
<1>2. CASE ~Stage(ApplyRequest(p, disk[p]))
  <2>1. Queued({p}) \in SUBSET Paths
    BY DEF Queued, TypeOK, Data
  <2>2. /\ mem' = mem \/ mem' = [mem EXCEPT !.pending = Queued({p})]
        /\ saved' = saved
    BY <1>2, Zenon DEF PushPath
  <2> QED BY <2>1, <2>2 DEF TypeOK, Data, DataTypes
<1> QED BY <1>1, <1>2

\* PushDone keeps them.
LEMMA DataPushDone == ASSUME TypeOK, Shape, PushDone PROVE DataTypes'
<1>1. Deletions \subseteq Paths
  BY DEF TypeOK, Run, Deletions
<1>2. CASE Cardinality(Deletions) > 1
  <2> DEFINE q == [kind |-> "batch", items |-> {[path |-> p, base |-> mem.files[p].rev] : p \in Deletions}]
  <2>1. \A p \in Paths : mem.files[p].rev \in Nat
    BY DEF TypeOK, Data, FileState, Untracked
  <2>2. q \in Request
    BY <1>1, <2>1 DEF Request, Item
  <2>3. Stage(q)
    BY <1>2 DEF PushDone
  <2> QED BY <2>2, <2>3, DataStaged
<1>3. CASE ~(Cardinality(Deletions) > 1)
  BY <1>3 DEF PushDone, TypeOK, DataTypes, dataVars
<1> QED BY <1>2, <1>3

\* DeletePath keeps them.
LEMMA DataDeletePath ==
    ASSUME TypeOK, Shape, NEW p \in Paths, DeletePath(p)
    PROVE  DataTypes'
BY ApplyRequestType, DataStaged DEF TypeOK, DeletePath, Content

\* PageDone keeps them.
LEMMA DataPageDone == ASSUME TypeOK, PageDone PROVE DataTypes'
BY DEF PageDone, PageCursor, TypeOK, Data, DataTypes, Persist, Run

\* Finish keeps them.
LEMMA DataFinish == ASSUME TypeOK, Finish PROVE DataTypes'
BY DEF Finish, PendingAfter, TypeOK, Data, DataTypes, Persist

\* The renames of an event are moves.
LEMMA EmptySeqType == <<>> \in Seq(Move)
OBVIOUS

\* As above, of a rename.
LEMMA OneMoveType ==
    ASSUME NEW from \in Paths, NEW to \in Paths
    PROVE  /\ <<[from |-> from, to |-> to]>> \in Seq(Move)
           /\ {from, to} \in SUBSET Paths
BY DEF Move

\* The user's events are about paths.
LEMMA DataNoteEvents ==
    ASSUME TypeOK, NEW ps \in SUBSET Paths, NEW ms \in Seq(Move), NoteEvents(ps, ms),
           UNCHANGED saved
    PROVE  DataTypes'
<1>1. Queued(ps) \in SUBSET Paths /\ mem.renames \o ms \in Seq(Move)
  BY DEF Queued, TypeOK, Data
<1>2. mem' \in {mem, [mem EXCEPT !.pending = Queued(ps), !.renames = @ \o ms]}
  BY DEF NoteEvents
<1> QED BY <1>1, <1>2 DEF TypeOK, Data, DataTypes

\* Every step keeps them.
LEMMA DataStep ==
    TypeOK /\ Shape /\ Position /\ Calls /\ Ready /\ [Next]_vars => DataTypes'
<1> SUFFICES ASSUME TypeOK, Shape, Position, Calls, Ready, [Next]_vars PROVE
   DataTypes'
  OBVIOUS
<1>1. CASE ResumeInbox
  <2> USE DEF TypeOK, Data, DataTypes, Ready, ChangeReady, Applying, Installing
  <2>1. CASE InboxInstalled
    BY <2>1 DEF InboxInstalled, Quiet, NoRequest, dataVars, CleanUp, serverVars,
       historyVars
  <2>2. CASE InboxReady
    BY <2>2 DEF InboxReady, Quiet, NoRequest, dataVars, fileVars, serverVars,
       historyVars
  <2>3. CASE InboxLost
    BY <2>3 DEF InboxLost, Quiet, NoRequest, Persist, CleanUp, serverVars,
       historyVars
  <2>4. CASE InboxDone
    BY <2>4 DEF InboxDone, Quiet, NoRequest, Goto, dataVars, fileVars, serverVars,
       historyVars
  <2> HIDE DEF TypeOK, Data, DataTypes, Ready, ChangeReady, Applying, Installing
  <2> QED BY <1>1, <2>1, <2>2, <2>3, <2>4 DEF ResumeInbox
<1>2. CASE ResumeOutbox
  <2>1. CASE OutboxAbandoned
    BY <2>1, DataOutboxAbandoned
  <2> USE DEF TypeOK, Data, DataTypes, Ready, ChangeReady, Applying, Installing
  <2>2. CASE OutboxCommitted
    BY <2>2 DEF OutboxCommitted, Quiet, dataVars, serverVars, fileVars, historyVars,
       NoRequest
  <2>3. CASE OutboxResent
    BY <2>3 DEF OutboxResent, Quiet, NoRequest, dataVars, fileVars, serverVars,
       historyVars
  <2>4. CASE OutboxDone
    BY <2>4 DEF OutboxDone, Quiet, NoRequest, Goto, BeginRenames, dataVars,
       fileVars, serverVars, historyVars
  <2> HIDE DEF TypeOK, Data, DataTypes, Ready, ChangeReady, Applying, Installing
  <2> QED BY <1>2, <2>1, <2>2, <2>3, <2>4 DEF ResumeOutbox
<1>3. CASE Reconcile
  <2>1. CASE MergeSnapshot
    BY <2>1, DataMergeSnapshot
  <2>2. CASE MergeDone
    BY <2>2, DataMergeDone
  <2> USE DEF TypeOK, Data, DataTypes, Ready, ChangeReady, Applying, Installing
  <2>3. CASE ReadSnapshot
    BY <2>3 DEF ReadSnapshot, Quiet, NoRequest, dataVars, fileVars, serverVars,
       historyVars
  <2>4. CASE PreserveLocal
    BY <2>4 DEF PreserveLocal, Quiet, EndRun, dataVars, serverVars, IdleRun,
       NoRequest, historyVars
  <2>5. CASE DiscardLocal
    BY <2>5 DEF DiscardLocal, Quiet, Return, EndRun, dataVars, serverVars, IdleRun,
       NoRequest, historyVars
  <2>6. CASE PreserveDone
    BY <2>6 DEF PreserveDone, Quiet, NoRequest, Goto, dataVars, fileVars,
       serverVars, historyVars
  <2> HIDE DEF TypeOK, Data, DataTypes, Ready, ChangeReady, Applying, Installing
  <2> QED BY <1>3, <2>1, <2>2, <2>3, <2>4, <2>5, <2>6 DEF Reconcile
<1>4. CASE Renames
  <2>1. CASE RenameSkipped
    BY <2>1, DataRenameSkipped
  <2>2. CASE RenameStaged
    BY <2>2, DataRenameStaged
  <2> USE DEF TypeOK, Data, DataTypes, Ready, ChangeReady, Applying, Installing
  <2>3. CASE RenamesDone
    BY <2>3 DEF RenamesDone, Quiet, NoRequest, Goto, fileVars, dataVars, serverVars,
       historyVars
  <2> HIDE DEF TypeOK, Data, DataTypes, Ready, ChangeReady, Applying, Installing
  <2> QED BY <1>4, <2>1, <2>2, <2>3 DEF Renames
<1>5. CASE Push
  <2>1. CASE PushDone
    BY <2>1, DataPushDone
  <2>2. ASSUME NEW p \in Paths, PushPath(p) PROVE DataTypes'
    BY <2>2, DataPushPath
  <2>3. ASSUME NEW p \in Paths, DeletePath(p) PROVE DataTypes'
    BY <2>3, DataDeletePath
  <2> USE DEF TypeOK, Data, DataTypes, Ready, ChangeReady, Applying, Installing
  <2>4. CASE PlanFull
    BY <2>4 DEF PlanFull, Plan, Quiet, NoRequest, dataVars, fileVars, serverVars,
       historyVars
  <2>5. CASE PlanQueued
    BY <2>5 DEF PlanQueued, Plan, Quiet, NoRequest, dataVars, fileVars, serverVars,
       historyVars
  <2>6. CASE DeletesDone
    BY <2>6 DEF DeletesDone, Quiet, NoRequest, fileVars, dataVars, serverVars,
       historyVars
  <2>7. ASSUME NEW p \in Paths, ScanPath(p) PROVE DataTypes'
    BY <2>7 DEF ScanPath, Quiet, NoRequest, dataVars, fileVars, serverVars,
       historyVars
  <2> HIDE DEF TypeOK, Data, DataTypes, Ready, ChangeReady, Applying, Installing
  <2> QED BY <1>5, <2>1, <2>2, <2>3, <2>4, <2>5, <2>6, <2>7 DEF Push
<1>6. CASE Answered
  <2>1. CASE AnswerApplied
    BY <2>1, DataAnswerApplied
  <2>2. CASE AnswerMoved
    BY <2>2, DataAnswerMoved
  <2>3. CASE AnswerMoveConflict
    BY <2>3, DataAnswerMoveConflict
  <2>4. CASE AnswerBatch
    BY <2>4, DataAnswerBatch
  <2>5. CASE AnswerBatchConflict
    BY <2>5, DataAnswerBatchConflict
  <2> USE DEF TypeOK, Data, DataTypes, Ready, ChangeReady, Applying, Installing
  <2>6. CASE AnswerConflict
    BY <2>6 DEF AnswerConflict, Quiet, Persist, Discarded, serverVars, fileVars,
       dataVars, historyVars, NoRequest
  <2>7. CASE KeepRefused
    BY <2>7 DEF KeepRefused, Quiet, NoRequest, dataVars, serverVars, historyVars
  <2> HIDE DEF TypeOK, Data, DataTypes, Ready, ChangeReady, Applying, Installing
  <2> QED BY <1>6, <2>1, <2>2, <2>3, <2>4, <2>5, <2>6, <2>7 DEF Answered
<1>7. CASE Apply
  <2>1. CASE ApplyRemoteChange
    BY <2>1, DataApplyRemoteChange
  <2>2. CASE RemoveLocal
    BY <2>2, DataRemoveLocal
  <2>3. CASE FinishDownload
    BY <2>3, DataFinishDownload
  <2> USE DEF TypeOK, Data, DataTypes, Ready, ChangeReady, Applying, Installing
  <2>4. CASE Download
    BY <2>4 DEF Download, Quiet, NoRequest, Goto, serverVars, historyVars
  <2>5. CASE SetAside
    BY <2>5 DEF SetAside, Quiet, NoRequest, Goto, serverVars, historyVars
  <2>6. CASE SwapIn
    BY <2>6 DEF SwapIn, Quiet, Goto, EndRun, dataVars, serverVars, IdleRun,
       NoRequest, historyVars
  <2>7. CASE VerifyInstalled
    BY <2>7 DEF VerifyInstalled, Quiet, Goto, EndRun, dataVars, serverVars, IdleRun,
       NoRequest, historyVars
  <2>8. CASE Save
    BY <2>8 DEF Save, Quiet, NoRequest, Return, fileVars, dataVars, serverVars,
       historyVars
  <2> HIDE DEF TypeOK, Data, DataTypes, Ready, ChangeReady, Applying, Installing
  <2> QED BY <1>7, <2>1, <2>2, <2>3, <2>4, <2>5, <2>6, <2>7, <2>8 DEF Apply
<1>8. CASE Pull
  <2>1. CASE PageDone
    BY <2>1, DataPageDone
  <2>2. CASE Finish
    BY <2>2, DataFinish
  <2> USE DEF TypeOK, Data, DataTypes, Ready, ChangeReady, Applying, Installing
  <2>3. CASE PullPage
    BY <2>3 DEF PullPage, Quiet, NoRequest, dataVars, fileVars, serverVars,
       historyVars
  <2>4. CASE PageChange
    BY <2>4 DEF PageChange, Quiet, NoRequest, dataVars, fileVars, serverVars,
       historyVars
  <2>5. CASE AckCursor
    BY <2>5 DEF AckCursor, Quiet, Goto, Acknowledge, dataVars, fileVars, serverVars,
       historyVars, NoRequest
  <2>6. CASE CompleteRun
    BY <2>6 DEF CompleteRun, Quiet, EndRun, serverVars, fileVars, dataVars,
       historyVars, IdleRun, NoRequest
  <2> HIDE DEF TypeOK, Data, DataTypes, Ready, ChangeReady, Applying, Installing
  <2> QED BY <1>8, <2>1, <2>2, <2>3, <2>4, <2>5, <2>6 DEF Pull
<1>9. ASSUME NEW p \in Paths, NEW content \in UserContents \cup {Absent},
   UserEdit(p, content) PROVE DataTypes'
  BY <1>9, DataNoteEvents, EmptySeqType DEF UserEdit
<1>10. ASSUME NEW from \in Paths, NEW to \in Paths, UserRename(from, to) PROVE
   DataTypes'
  BY <1>10, DataNoteEvents, OneMoveType DEF UserRename
<1>11. CASE StartRun
  BY <1>11 DEF StartRun, TypeOK, Data, DataTypes, Ready, ChangeReady, Applying,
     Installing, Quiet, NoRequest, Goto, dataVars, fileVars, serverVars, historyVars
<1>12. CASE Send
  BY <1>12 DEF Send, TypeOK, Data, DataTypes, Ready, ChangeReady, Applying,
     Installing, Quiet, Goto, dataVars, fileVars, serverVars, historyVars, NoRequest
<1>13. CASE ServerMoves
  BY <1>13 DEF ServerMoves, TypeOK, Data, DataTypes, Ready, ChangeReady, Applying,
     Installing, Spend, dataVars, fileVars, serverVars, historyVars
<1>14. CASE SaveEvents
  BY <1>14 DEF SaveEvents, TypeOK, Data, DataTypes, Ready, ChangeReady, Applying,
     Installing, Quiet, NoRequest, fileVars, dataVars, serverVars, historyVars
<1>15. CASE RunFails
  BY <1>15 DEF RunFails, TypeOK, Data, DataTypes, Ready, ChangeReady, Applying,
     Installing, EndRun, Spend, serverVars, IdleRun
<1>16. CASE Crash
  BY <1>16 DEF Crash, TypeOK, Data, DataTypes, Ready, ChangeReady, Applying,
     Installing, IdleRun, Spend, serverVars, fileVars, dataVars, historyVars
<1>17. CASE Restart
  BY <1>17 DEF Restart, TypeOK, Data, DataTypes, Ready, ChangeReady, Applying,
     Installing, NoRequest, dataVars, fileVars, historyVars, serverVars
<1>18. CASE UNCHANGED vars
  BY <1>18 DEF TypeOK, Data, DataTypes, Ready, ChangeReady, Applying, Installing,
     vars, serverVars, fileVars, dataVars, historyVars
<1> QED BY <1>1, <1>2, <1>3, <1>4, <1>5, <1>6, <1>7, <1>8, <1>9, <1>10, <1>11, <1>12,
         <1>13, <1>14, <1>15, <1>16, <1>17, <1>18 DEF Next, Engine, User

-----------------------------------------------------------------------------
(* The types of the files, of the histories and of the run.                *)

\* SetAside makes the target the backup.
LEMMA FileSetAside == ASSUME TypeOK, Ready, SetAside PROVE FileTypes'
<1>1. run.change \in Version
  BY DEF SetAside, Ready, ChangeReady, Applying, Installing
<1>2. disk[run.change.path] \in Content /\ Absent \in Content
  BY <1>1 DEF Version, TypeOK, Content
<1>3. /\ disk' \in {disk, [disk EXCEPT ![run.change.path] = Absent]}
      /\ backup' \in {backup, disk[run.change.path]}
      /\ copies' = copies /\ temp' = temp
  BY DEF SetAside
<1> QED BY <1>2, <1>3 DEF TypeOK, FileTypes

\* SwapIn makes the temporary file the target.
LEMMA FileSwapIn == ASSUME TypeOK, Ready, SwapIn PROVE FileTypes'
<1>1. run.change \in Version
  BY DEF SwapIn, Ready, ChangeReady, Applying, Installing
<1>2. /\ disk' \in {disk, [disk EXCEPT ![run.change.path] = temp]}
      /\ temp' \in {temp, Absent}
      /\ copies' = copies /\ backup' = backup
  BY DEF SwapIn
<1>3. Absent \in Content
  BY DEF Content
<1> QED BY <1>2, <1>3 DEF TypeOK, FileTypes

\* VerifyInstalled removes the backup, or makes it the target again.
LEMMA FileVerifyInstalled == ASSUME TypeOK, Ready, VerifyInstalled PROVE FileTypes'
<1>1. /\ disk' \in {disk, [disk EXCEPT ![run.change.path] = backup]}
      /\ backup' = Absent /\ copies' = copies /\ temp' = temp
  BY DEF VerifyInstalled
<1>2. Absent \in Content
  BY DEF Content
<1> QED BY <1>1, <1>2 DEF TypeOK, FileTypes

\* The user changes files.
LEMMA FileUserEdit ==
    ASSUME TypeOK, NEW p \in Paths, NEW c \in UserContents \cup {Absent}, UserEdit(p, c)
    PROVE  FileTypes'
<1>1. c \in Content
  BY EngineAssumption DEF Content
<1> QED BY <1>1 DEF UserEdit, TypeOK, FileTypes

\* As above, of a rename.
LEMMA FileUserRename ==
    ASSUME TypeOK, NEW from \in Paths, NEW to \in Paths, UserRename(from, to)
    PROVE  FileTypes'
<1>1. Absent \in Content /\ disk[from] \in Content
  BY DEF Content, TypeOK
<1> QED BY <1>1 DEF UserRename, TypeOK, FileTypes

\* Every step keeps the types of the files.
LEMMA FileStep ==
    TypeOK /\ Ready /\ [Next]_vars => FileTypes'
<1> SUFFICES ASSUME TypeOK, Ready, [Next]_vars PROVE FileTypes'
  OBVIOUS
<1>1. CASE ResumeInbox
  <2> USE DEF TypeOK, FileTypes, Ready, ChangeReady, Applying, Installing, Content,
     Data, Run, Version, Copy, ConflictCopy, Restored
  <2>1. CASE InboxInstalled
    BY <2>1 DEF InboxInstalled, Quiet, NoRequest, dataVars, CleanUp, serverVars,
       historyVars
  <2>2. CASE InboxReady
    BY <2>2 DEF InboxReady, Quiet, NoRequest, dataVars, fileVars, serverVars,
       historyVars
  <2>3. CASE InboxLost
    BY <2>3 DEF InboxLost, Quiet, NoRequest, Persist, CleanUp, serverVars,
       historyVars
  <2>4. CASE InboxDone
    BY <2>4 DEF InboxDone, Quiet, NoRequest, Goto, dataVars, fileVars, serverVars,
       historyVars
  <2> HIDE DEF TypeOK, FileTypes, Ready, ChangeReady, Applying, Installing, Content,
     Data, Run, Version, Copy, ConflictCopy, Restored
  <2> QED BY <1>1, <2>1, <2>2, <2>3, <2>4 DEF ResumeInbox
<1>2. CASE ResumeOutbox
  <2> USE DEF TypeOK, FileTypes, Ready, ChangeReady, Applying, Installing, Content,
     Data, Run, Version, Copy, ConflictCopy, Restored
  <2>1. CASE OutboxCommitted
    BY <2>1 DEF OutboxCommitted, Quiet, dataVars, serverVars, fileVars, historyVars,
       NoRequest
  <2>2. CASE OutboxResent
    BY <2>2 DEF OutboxResent, Quiet, NoRequest, dataVars, fileVars, serverVars,
       historyVars
  <2>3. CASE OutboxAbandoned
    BY <2>3 DEF OutboxAbandoned, Quiet, NoRequest, Persist, Discarded, Queued,
       fileVars, dataVars, serverVars, historyVars
  <2>4. CASE OutboxDone
    BY <2>4 DEF OutboxDone, Quiet, NoRequest, Goto, BeginRenames, dataVars,
       fileVars, serverVars, historyVars
  <2> HIDE DEF TypeOK, FileTypes, Ready, ChangeReady, Applying, Installing, Content,
     Data, Run, Version, Copy, ConflictCopy, Restored
  <2> QED BY <1>2, <2>1, <2>2, <2>3, <2>4 DEF ResumeOutbox
<1>3. CASE Reconcile
  <2> USE DEF TypeOK, FileTypes, Ready, ChangeReady, Applying, Installing, Content,
     Data, Run, Version, Copy, ConflictCopy, Restored
  <2>1. CASE ReadSnapshot
    BY <2>1 DEF ReadSnapshot, Quiet, NoRequest, dataVars, fileVars, serverVars,
       historyVars
  <2>2. CASE PreserveLocal
    BY <2>2 DEF PreserveLocal, Quiet, EndRun, dataVars, serverVars, IdleRun,
       NoRequest, historyVars
  <2>3. CASE DiscardLocal
    BY <2>3 DEF DiscardLocal, Quiet, Return, EndRun, dataVars, serverVars, IdleRun,
       NoRequest, historyVars
  <2>4. CASE PreserveDone
    BY <2>4 DEF PreserveDone, Quiet, NoRequest, Goto, dataVars, fileVars,
       serverVars, historyVars
  <2>5. CASE MergeSnapshot
    BY <2>5 DEF MergeSnapshot, NoRequest, fileVars, dataVars, serverVars,
       historyVars
  <2>6. CASE MergeDone
    BY <2>6 DEF MergeDone, Quiet, NoRequest, Persist, BeginRenames, fileVars,
       dataVars, serverVars, historyVars
  <2> HIDE DEF TypeOK, FileTypes, Ready, ChangeReady, Applying, Installing, Content,
     Data, Run, Version, Copy, ConflictCopy, Restored
  <2> QED BY <1>3, <2>1, <2>2, <2>3, <2>4, <2>5, <2>6 DEF Reconcile
<1>4. CASE Renames
  <2> USE DEF TypeOK, FileTypes, Ready, ChangeReady, Applying, Installing, Content,
     Data, Run, Version, Copy, ConflictCopy, Restored
  <2>1. CASE RenameSkipped
    BY <2>1 DEF RenameSkipped, Quiet, NoRequest, fileVars, dataVars, serverVars,
       historyVars
  <2>2. CASE RenameStaged
    BY <2>2 DEF RenameStaged, Quiet, Stage, fileVars, dataVars, serverVars,
       historyVars, Persist, NoRequest
  <2>3. CASE RenamesDone
    BY <2>3 DEF RenamesDone, Quiet, NoRequest, Goto, fileVars, dataVars, serverVars,
       historyVars
  <2> HIDE DEF TypeOK, FileTypes, Ready, ChangeReady, Applying, Installing, Content,
     Data, Run, Version, Copy, ConflictCopy, Restored
  <2> QED BY <1>4, <2>1, <2>2, <2>3 DEF Renames
<1>5. CASE Push
  <2> USE DEF TypeOK, FileTypes, Ready, ChangeReady, Applying, Installing, Content,
     Data, Run, Version, Copy, ConflictCopy, Restored
  <2>1. CASE PlanFull
    BY <2>1 DEF PlanFull, Plan, Quiet, NoRequest, dataVars, fileVars, serverVars,
       historyVars
  <2>2. CASE PlanQueued
    BY <2>2 DEF PlanQueued, Plan, Quiet, NoRequest, dataVars, fileVars, serverVars,
       historyVars
  <2>3. CASE PushDone
    BY <2>3 DEF PushDone, Quiet, NoRequest, Stage, dataVars, fileVars, serverVars,
       historyVars, Persist
  <2>4. CASE DeletesDone
    BY <2>4 DEF DeletesDone, Quiet, NoRequest, fileVars, dataVars, serverVars,
       historyVars
  <2>5. ASSUME NEW p \in Paths, ScanPath(p) PROVE FileTypes'
    BY <2>5 DEF ScanPath, Quiet, NoRequest, dataVars, fileVars, serverVars,
       historyVars
  <2>6. ASSUME NEW p \in Paths, PushPath(p) PROVE FileTypes'
    BY <2>6 DEF PushPath, Quiet, NoRequest, Stage, Queued, Unnoted, fileVars,
       dataVars, serverVars, historyVars, Persist
  <2>7. ASSUME NEW p \in Paths, DeletePath(p) PROVE FileTypes'
    BY <2>7 DEF DeletePath, Quiet, Stage, fileVars, dataVars, serverVars,
       historyVars, Persist, NoRequest
  <2> HIDE DEF TypeOK, FileTypes, Ready, ChangeReady, Applying, Installing, Content,
     Data, Run, Version, Copy, ConflictCopy, Restored
  <2> QED BY <1>5, <2>1, <2>2, <2>3, <2>4, <2>5, <2>6, <2>7 DEF Push
<1>6. CASE Answered
  <2> USE DEF TypeOK, FileTypes, Ready, ChangeReady, Applying, Installing, Content,
     Data, Run, Version, Copy, ConflictCopy, Restored
  <2>1. CASE AnswerApplied
    BY <2>1 DEF AnswerApplied, Quiet, Goto, Return, Complete, Queued, serverVars,
       fileVars, dataVars, historyVars, NoRequest
  <2>2. CASE AnswerConflict
    BY <2>2 DEF AnswerConflict, Quiet, Persist, Discarded, serverVars, fileVars,
       dataVars, historyVars, NoRequest
  <2>3. CASE KeepRefused
    BY <2>3 DEF KeepRefused, Quiet, NoRequest, dataVars, serverVars, historyVars
  <2>4. CASE AnswerMoved
    BY <2>4 DEF AnswerMoved, Quiet, Goto, Complete, serverVars, fileVars, dataVars,
       historyVars, NoRequest
  <2>5. CASE AnswerMoveConflict
    BY <2>5 DEF AnswerMoveConflict, Quiet, Goto, Return, Discarded, Queued,
       serverVars, fileVars, dataVars, historyVars, NoRequest
  <2>6. CASE AnswerBatch
    BY <2>6 DEF AnswerBatch, Quiet, Complete, serverVars, fileVars, dataVars,
       historyVars, NoRequest
  <2>7. CASE AnswerBatchConflict
    BY <2>7 DEF AnswerBatchConflict, Quiet, Persist, Discarded, Queued, serverVars,
       fileVars, dataVars, historyVars, NoRequest
  <2> HIDE DEF TypeOK, FileTypes, Ready, ChangeReady, Applying, Installing, Content,
     Data, Run, Version, Copy, ConflictCopy, Restored
  <2> QED BY <1>6, <2>1, <2>2, <2>3, <2>4, <2>5, <2>6, <2>7 DEF Answered
<1>7. CASE Apply
  <2>1. CASE SetAside
    BY <2>1, FileSetAside
  <2>2. CASE SwapIn
    BY <2>2, FileSwapIn
  <2>3. CASE VerifyInstalled
    BY <2>3, FileVerifyInstalled
  <2> USE DEF TypeOK, FileTypes, Ready, ChangeReady, Applying, Installing, Content,
     Data, Run, Version, Copy, ConflictCopy, Restored
  <2>4. CASE ApplyRemoteChange
    BY <2>4 DEF ApplyRemoteChange, Quiet, NoRequest, Goto, Return, StageDownload,
       dataVars, Persist, serverVars, historyVars
  <2>5. CASE RemoveLocal
    BY <2>5, SMTT(20) DEF RemoveLocal, Quiet, Return, EndRun, serverVars, IdleRun, NoRequest,
       historyVars
  <2>6. CASE Download
    BY <2>6 DEF Download, Quiet, NoRequest, Goto, serverVars, historyVars
  <2>7. CASE FinishDownload
    BY <2>7 DEF FinishDownload, Quiet, NoRequest, Goto, fileVars, dataVars,
       serverVars, historyVars
  <2>8. CASE Save
    BY <2>8 DEF Save, Quiet, NoRequest, Return, fileVars, dataVars, serverVars,
       historyVars
  <2> HIDE DEF TypeOK, FileTypes, Ready, ChangeReady, Applying, Installing, Content,
     Data, Run, Version, Copy, ConflictCopy, Restored
  <2> QED BY <1>7, <2>1, <2>2, <2>3, <2>4, <2>5, <2>6, <2>7, <2>8 DEF Apply
<1>8. CASE Pull
  <2> USE DEF TypeOK, FileTypes, Ready, ChangeReady, Applying, Installing, Content,
     Data, Run, Version, Copy, ConflictCopy, Restored
  <2>1. CASE PullPage
    BY <2>1 DEF PullPage, Quiet, NoRequest, dataVars, fileVars, serverVars,
       historyVars
  <2>2. CASE PageChange
    BY <2>2 DEF PageChange, Quiet, NoRequest, dataVars, fileVars, serverVars,
       historyVars
  <2>3. CASE PageDone
    BY <2>3 DEF PageDone, Quiet, NoRequest, Persist, fileVars, dataVars, serverVars,
       historyVars
  <2>4. CASE Finish
    BY <2>4 DEF Finish, Quiet, NoRequest, Persist, Goto, fileVars, dataVars,
       serverVars, historyVars
  <2>5. CASE AckCursor
    BY <2>5 DEF AckCursor, Quiet, Goto, Acknowledge, dataVars, fileVars, serverVars,
       historyVars, NoRequest
  <2>6. CASE CompleteRun
    BY <2>6 DEF CompleteRun, Quiet, EndRun, serverVars, fileVars, dataVars,
       historyVars, IdleRun, NoRequest
  <2> HIDE DEF TypeOK, FileTypes, Ready, ChangeReady, Applying, Installing, Content,
     Data, Run, Version, Copy, ConflictCopy, Restored
  <2> QED BY <1>8, <2>1, <2>2, <2>3, <2>4, <2>5, <2>6 DEF Pull
<1>9. ASSUME NEW p \in Paths, NEW content \in UserContents \cup {Absent},
   UserEdit(p, content) PROVE FileTypes'
  BY <1>9, FileUserEdit
<1>10. ASSUME NEW from \in Paths, NEW to \in Paths, UserRename(from, to) PROVE
   FileTypes'
  BY <1>10, FileUserRename
<1>11. CASE StartRun
  BY <1>11 DEF StartRun, TypeOK, FileTypes, Ready, ChangeReady, Applying,
     Installing, Content, Data, Run, Version, Copy, ConflictCopy, Restored, Quiet,
     NoRequest, Goto, dataVars, fileVars, serverVars, historyVars
<1>12. CASE Send
  BY <1>12 DEF Send, TypeOK, FileTypes, Ready, ChangeReady, Applying, Installing,
     Content, Data, Run, Version, Copy, ConflictCopy, Restored, Quiet, Goto,
     dataVars, fileVars, serverVars, historyVars, NoRequest
<1>13. CASE ServerMoves
  BY <1>13 DEF ServerMoves, TypeOK, FileTypes, Ready, ChangeReady, Applying,
     Installing, Content, Data, Run, Version, Copy, ConflictCopy, Restored, Spend,
     dataVars, fileVars, serverVars, historyVars
<1>14. CASE SaveEvents
  BY <1>14 DEF SaveEvents, TypeOK, FileTypes, Ready, ChangeReady, Applying,
     Installing, Content, Data, Run, Version, Copy, ConflictCopy, Restored, Quiet,
     NoRequest, fileVars, dataVars, serverVars, historyVars
<1>15. CASE RunFails
  BY <1>15 DEF RunFails, TypeOK, FileTypes, Ready, ChangeReady, Applying,
     Installing, Content, Data, Run, Version, Copy, ConflictCopy, Restored, EndRun,
     Spend, serverVars, IdleRun
<1>16. CASE Crash
  BY <1>16 DEF Crash, TypeOK, FileTypes, Ready, ChangeReady, Applying, Installing,
     Content, Data, Run, Version, Copy, ConflictCopy, Restored, IdleRun, Spend,
     serverVars, fileVars, dataVars, historyVars
<1>17. CASE Restart
  BY <1>17 DEF Restart, TypeOK, FileTypes, Ready, ChangeReady, Applying, Installing,
     Content, Data, Run, Version, Copy, ConflictCopy, Restored, NoRequest, dataVars,
     fileVars, historyVars, serverVars
<1>18. CASE UNCHANGED vars
  BY <1>18 DEF TypeOK, FileTypes, Ready, ChangeReady, Applying, Installing, Content,
     Data, Run, Version, Copy, ConflictCopy, Restored, vars, serverVars, fileVars,
     dataVars, historyVars
<1> QED BY <1>1, <1>2, <1>3, <1>4, <1>5, <1>6, <1>7, <1>8, <1>9, <1>10, <1>11, <1>12,
         <1>13, <1>14, <1>15, <1>16, <1>17, <1>18 DEF Next, Engine, User

\* What the user has given up in mode "local" are contents.
LEMMA HistoryMergeSnapshot == ASSUME TypeOK, Position, Ready, MergeSnapshot PROVE HistoryTypes'
<1>1. CASE mem.mode = "local"
  <2> DEFINE vs == {SnapshotVersion(p) : p \in MergeDue}
             given(p) == {v.content : v \in {w \in vs : w.path = p}}
  <2>1. vs \in SUBSET Version
    <3>1. pc = "merge" /\ MergeDue \subseteq run.todo
      BY DEF MergeSnapshot, MergeDue
    <3> QED BY <3>1, SnapshotVersionType
  <2>2. /\ work' = [p \in Paths |-> [work[p] EXCEPT !.left = @ \cup given(p)]]
        /\ UNCHANGED <<up, spent>>
    BY <1>1, Zenon DEF MergeSnapshot
  <2>3. \A p \in Paths : given(p) \in SUBSET Content
    BY <2>1 DEF Version
  <2> HIDE DEF vs, given
  <2> QED BY <2>2, <2>3 DEF TypeOK, HistoryTypes
<1>2. CASE mem.mode # "local"
  BY <1>2, Zenon DEF MergeSnapshot, TypeOK, HistoryTypes
<1> QED BY <1>1, <1>2

\* A crash uses up the bound.
LEMMA HistoryCrash == ASSUME TypeOK, Crash PROVE HistoryTypes'
<1>1. up' \in BOOLEAN /\ work' = work /\ spent' = [spent EXCEPT !["fault"] = @ + 1]
  BY DEF Crash, Spend
<1> QED BY <1>1 DEF TypeOK, HistoryTypes

\* What the user leaves are contents.
LEMMA HistoryUserEdit ==
    ASSUME TypeOK, NEW p \in Paths, NEW c \in UserContents \cup {Absent}, UserEdit(p, c)
    PROVE  HistoryTypes'
<1>1. c \in Content /\ disk[p] \in Content /\ Exposed(p) \in BOOLEAN
  BY EngineAssumption DEF Content, TypeOK, Exposed
<1>2. up' = up
  BY DEF UserEdit
<1>3. work' = [work EXCEPT ![p] = Worked(p, c, Exposed(p))]
  BY DEF UserEdit
<1>4. spent' = [spent EXCEPT !["user"] = @ + 1]
  BY DEF UserEdit, Spend
<1>5. work' \in [Paths -> [content : Content \cup {Unknown}, exposed : BOOLEAN,
                       left : SUBSET Content]]
  BY <1>1, <1>3 DEF Worked, TypeOK
<1> QED BY <1>2, <1>4, <1>5 DEF TypeOK, HistoryTypes

\* As above, of a rename.
LEMMA HistoryUserRename ==
    ASSUME TypeOK, NEW from \in Paths, NEW to \in Paths, UserRename(from, to)
    PROVE  HistoryTypes'
<1> DEFINE T == [content : Content \cup {Unknown}, exposed : BOOLEAN, left : SUBSET Content]
<1>1. /\ disk[from] \in Content /\ disk[to] \in Content /\ Absent \in Content
      /\ (Exposed(from) \/ Exposed(to)) \in BOOLEAN
  BY DEF Content, TypeOK, Exposed
<1>2. up' = up
  BY DEF UserRename
<1>3. work' = [work EXCEPT ![to] = Worked(to, disk[from], Exposed(from) \/ Exposed(to)),
                           ![from] = Worked(from, Absent, FALSE)]
  BY DEF UserRename
<1>4. spent' = [spent EXCEPT !["user"] = @ + 1]
  BY DEF UserRename, Spend
<1>5. work \in [Paths -> T]
  BY DEF TypeOK
<1>6. Worked(to, disk[from], Exposed(from) \/ Exposed(to)) \in T /\ Worked(from, Absent, FALSE) \in T
  BY <1>1, <1>5 DEF Worked
<1>7. work' \in [Paths -> T]
  BY <1>3, <1>5, <1>6
<1> QED BY <1>2, <1>4, <1>7 DEF TypeOK, HistoryTypes

\* Every step keeps the types of the histories.
LEMMA HistoryStep ==
    TypeOK /\ Position /\ Ready /\ [Next]_vars => HistoryTypes'
<1> SUFFICES ASSUME TypeOK, Position, Ready, [Next]_vars PROVE HistoryTypes'
  OBVIOUS
<1>1. CASE ResumeInbox
  <2> USE DEF TypeOK, HistoryTypes
  <2>1. CASE InboxInstalled
    BY <2>1 DEF InboxInstalled, Quiet, NoRequest, dataVars, CleanUp, serverVars,
       historyVars
  <2>2. CASE InboxReady
    BY <2>2 DEF InboxReady, Quiet, NoRequest, dataVars, fileVars, serverVars,
       historyVars
  <2>3. CASE InboxLost
    BY <2>3 DEF InboxLost, Quiet, NoRequest, Persist, CleanUp, serverVars,
       historyVars
  <2>4. CASE InboxDone
    BY <2>4 DEF InboxDone, Quiet, NoRequest, Goto, dataVars, fileVars, serverVars,
       historyVars
  <2> HIDE DEF TypeOK, HistoryTypes
  <2> QED BY <1>1, <2>1, <2>2, <2>3, <2>4 DEF ResumeInbox
<1>2. CASE ResumeOutbox
  <2> USE DEF TypeOK, HistoryTypes
  <2>1. CASE OutboxCommitted
    BY <2>1 DEF OutboxCommitted, Quiet, dataVars, serverVars, fileVars, historyVars,
       NoRequest
  <2>2. CASE OutboxResent
    BY <2>2 DEF OutboxResent, Quiet, NoRequest, dataVars, fileVars, serverVars,
       historyVars
  <2>3. CASE OutboxAbandoned
    BY <2>3 DEF OutboxAbandoned, Quiet, NoRequest, Persist, Discarded, Queued,
       fileVars, dataVars, serverVars, historyVars
  <2>4. CASE OutboxDone
    BY <2>4 DEF OutboxDone, Quiet, NoRequest, Goto, BeginRenames, dataVars,
       fileVars, serverVars, historyVars
  <2> HIDE DEF TypeOK, HistoryTypes
  <2> QED BY <1>2, <2>1, <2>2, <2>3, <2>4 DEF ResumeOutbox
<1>3. CASE Reconcile
  <2>1. CASE MergeSnapshot
    BY <2>1, HistoryMergeSnapshot
  <2> USE DEF TypeOK, HistoryTypes
  <2>2. CASE ReadSnapshot
    BY <2>2 DEF ReadSnapshot, Quiet, NoRequest, dataVars, fileVars, serverVars,
       historyVars
  <2>3. CASE PreserveLocal
    BY <2>3 DEF PreserveLocal, Quiet, EndRun, dataVars, serverVars, IdleRun,
       NoRequest, historyVars
  <2>4. CASE DiscardLocal
    BY <2>4 DEF DiscardLocal, Quiet, Return, EndRun, dataVars, serverVars, IdleRun,
       NoRequest, historyVars
  <2>5. CASE PreserveDone
    BY <2>5 DEF PreserveDone, Quiet, NoRequest, Goto, dataVars, fileVars,
       serverVars, historyVars
  <2>6. CASE MergeDone
    BY <2>6 DEF MergeDone, Quiet, NoRequest, Persist, BeginRenames, fileVars,
       dataVars, serverVars, historyVars
  <2> HIDE DEF TypeOK, HistoryTypes
  <2> QED BY <1>3, <2>1, <2>2, <2>3, <2>4, <2>5, <2>6 DEF Reconcile
<1>4. CASE Renames
  <2> USE DEF TypeOK, HistoryTypes
  <2>1. CASE RenameSkipped
    BY <2>1 DEF RenameSkipped, Quiet, NoRequest, fileVars, dataVars, serverVars,
       historyVars
  <2>2. CASE RenameStaged
    BY <2>2 DEF RenameStaged, Quiet, Stage, fileVars, dataVars, serverVars,
       historyVars, Persist, NoRequest
  <2>3. CASE RenamesDone
    BY <2>3 DEF RenamesDone, Quiet, NoRequest, Goto, fileVars, dataVars, serverVars,
       historyVars
  <2> HIDE DEF TypeOK, HistoryTypes
  <2> QED BY <1>4, <2>1, <2>2, <2>3 DEF Renames
<1>5. CASE Push
  <2> USE DEF TypeOK, HistoryTypes
  <2>1. CASE PlanFull
    BY <2>1 DEF PlanFull, Plan, Quiet, NoRequest, dataVars, fileVars, serverVars,
       historyVars
  <2>2. CASE PlanQueued
    BY <2>2 DEF PlanQueued, Plan, Quiet, NoRequest, dataVars, fileVars, serverVars,
       historyVars
  <2>3. CASE PushDone
    BY <2>3 DEF PushDone, Quiet, NoRequest, Stage, dataVars, fileVars, serverVars,
       historyVars, Persist
  <2>4. CASE DeletesDone
    BY <2>4 DEF DeletesDone, Quiet, NoRequest, fileVars, dataVars, serverVars,
       historyVars
  <2>5. ASSUME NEW p \in Paths, ScanPath(p) PROVE HistoryTypes'
    BY <2>5 DEF ScanPath, Quiet, NoRequest, dataVars, fileVars, serverVars,
       historyVars
  <2>6. ASSUME NEW p \in Paths, PushPath(p) PROVE HistoryTypes'
    BY <2>6 DEF PushPath, Quiet, NoRequest, Stage, Queued, Unnoted, fileVars,
       dataVars, serverVars, historyVars, Persist
  <2>7. ASSUME NEW p \in Paths, DeletePath(p) PROVE HistoryTypes'
    BY <2>7 DEF DeletePath, Quiet, Stage, fileVars, dataVars, serverVars,
       historyVars, Persist, NoRequest
  <2> HIDE DEF TypeOK, HistoryTypes
  <2> QED BY <1>5, <2>1, <2>2, <2>3, <2>4, <2>5, <2>6, <2>7 DEF Push
<1>6. CASE Answered
  <2> USE DEF TypeOK, HistoryTypes
  <2>1. CASE AnswerApplied
    BY <2>1 DEF AnswerApplied, Quiet, Goto, Return, Complete, Queued, serverVars,
       fileVars, dataVars, historyVars, NoRequest
  <2>2. CASE AnswerConflict
    BY <2>2 DEF AnswerConflict, Quiet, Persist, Discarded, serverVars, fileVars,
       dataVars, historyVars, NoRequest
  <2>3. CASE KeepRefused
    BY <2>3 DEF KeepRefused, Quiet, NoRequest, dataVars, serverVars, historyVars
  <2>4. CASE AnswerMoved
    BY <2>4 DEF AnswerMoved, Quiet, Goto, Complete, serverVars, fileVars, dataVars,
       historyVars, NoRequest
  <2>5. CASE AnswerMoveConflict
    BY <2>5 DEF AnswerMoveConflict, Quiet, Goto, Return, Discarded, Queued,
       serverVars, fileVars, dataVars, historyVars, NoRequest
  <2>6. CASE AnswerBatch
    BY <2>6 DEF AnswerBatch, Quiet, Complete, serverVars, fileVars, dataVars,
       historyVars, NoRequest
  <2>7. CASE AnswerBatchConflict
    BY <2>7 DEF AnswerBatchConflict, Quiet, Persist, Discarded, Queued, serverVars,
       fileVars, dataVars, historyVars, NoRequest
  <2> HIDE DEF TypeOK, HistoryTypes
  <2> QED BY <1>6, <2>1, <2>2, <2>3, <2>4, <2>5, <2>6, <2>7 DEF Answered
<1>7. CASE Apply
  <2> USE DEF TypeOK, HistoryTypes
  <2>1. CASE ApplyRemoteChange
    BY <2>1 DEF ApplyRemoteChange, Quiet, NoRequest, Goto, Return, StageDownload,
       dataVars, Persist, serverVars, historyVars
  <2>2. CASE RemoveLocal
    BY <2>2 DEF RemoveLocal, Quiet, Return, EndRun, serverVars, IdleRun, NoRequest,
       historyVars
  <2>3. CASE Download
    BY <2>3 DEF Download, Quiet, NoRequest, Goto, serverVars, historyVars
  <2>4. CASE SetAside
    BY <2>4 DEF SetAside, Quiet, NoRequest, Goto, serverVars, historyVars
  <2>5. CASE SwapIn
    BY <2>5 DEF SwapIn, Quiet, Goto, EndRun, dataVars, serverVars, IdleRun,
       NoRequest, historyVars
  <2>6. CASE VerifyInstalled
    BY <2>6 DEF VerifyInstalled, Quiet, Goto, EndRun, dataVars, serverVars, IdleRun,
       NoRequest, historyVars
  <2>7. CASE FinishDownload
    BY <2>7 DEF FinishDownload, Quiet, NoRequest, Goto, fileVars, dataVars,
       serverVars, historyVars
  <2>8. CASE Save
    BY <2>8 DEF Save, Quiet, NoRequest, Return, fileVars, dataVars, serverVars,
       historyVars
  <2> HIDE DEF TypeOK, HistoryTypes
  <2> QED BY <1>7, <2>1, <2>2, <2>3, <2>4, <2>5, <2>6, <2>7, <2>8 DEF Apply
<1>8. CASE Pull
  <2> USE DEF TypeOK, HistoryTypes
  <2>1. CASE PullPage
    BY <2>1 DEF PullPage, Quiet, NoRequest, dataVars, fileVars, serverVars,
       historyVars
  <2>2. CASE PageChange
    BY <2>2 DEF PageChange, Quiet, NoRequest, dataVars, fileVars, serverVars,
       historyVars
  <2>3. CASE PageDone
    BY <2>3 DEF PageDone, Quiet, NoRequest, Persist, fileVars, dataVars, serverVars,
       historyVars
  <2>4. CASE Finish
    BY <2>4 DEF Finish, Quiet, NoRequest, Persist, Goto, fileVars, dataVars,
       serverVars, historyVars
  <2>5. CASE AckCursor
    BY <2>5 DEF AckCursor, Quiet, Goto, Acknowledge, dataVars, fileVars, serverVars,
       historyVars, NoRequest
  <2>6. CASE CompleteRun
    BY <2>6 DEF CompleteRun, Quiet, EndRun, serverVars, fileVars, dataVars,
       historyVars, IdleRun, NoRequest
  <2> HIDE DEF TypeOK, HistoryTypes
  <2> QED BY <1>8, <2>1, <2>2, <2>3, <2>4, <2>5, <2>6 DEF Pull
<1>9. ASSUME NEW p \in Paths, NEW content \in UserContents \cup {Absent},
   UserEdit(p, content) PROVE HistoryTypes'
  BY <1>9, HistoryUserEdit
<1>10. ASSUME NEW from \in Paths, NEW to \in Paths, UserRename(from, to) PROVE
   HistoryTypes'
  BY <1>10, HistoryUserRename
<1>11. CASE StartRun
  BY <1>11 DEF StartRun, TypeOK, HistoryTypes, Quiet, NoRequest, Goto, dataVars,
     fileVars, serverVars, historyVars
<1>12. CASE Send
  BY <1>12 DEF Send, TypeOK, HistoryTypes, Quiet, Goto, dataVars, fileVars,
     serverVars, historyVars, NoRequest
<1>13. CASE ServerMoves
  BY <1>13 DEF ServerMoves, TypeOK, HistoryTypes, Spend, dataVars, fileVars,
     serverVars, historyVars
<1>14. CASE SaveEvents
  BY <1>14 DEF SaveEvents, TypeOK, HistoryTypes, Quiet, NoRequest, fileVars,
     dataVars, serverVars, historyVars
<1>15. CASE RunFails
  BY <1>15 DEF RunFails, TypeOK, HistoryTypes, EndRun, Spend, serverVars, IdleRun
<1>16. CASE Crash
  BY <1>16, HistoryCrash
<1>17. CASE Restart
  BY <1>17 DEF Restart, TypeOK, HistoryTypes, NoRequest, dataVars, fileVars,
     historyVars, serverVars
<1>18. CASE UNCHANGED vars
  BY <1>18 DEF TypeOK, HistoryTypes, vars, serverVars, fileVars, dataVars,
     historyVars
<1> QED BY <1>1, <1>2, <1>3, <1>4, <1>5, <1>6, <1>7, <1>8, <1>9, <1>10, <1>11, <1>12,
         <1>13, <1>14, <1>15, <1>16, <1>17, <1>18 DEF Next, Engine, User

-----------------------------------------------------------------------------
(* The types of the run.                                                   *)

\* Where a run ends.
LEMMA RunEnded == ASSUME pc' = "idle", run' = IdleRun PROVE RunTypes'
BY DEF RunTypes, IdleRun, Labels, NothingFound, Content, Returns

\* Where a procedure returns.
LEMMA RunReturned == ASSUME Fields, RunTypes, Return PROVE RunTypes'
BY DEF RunTypes, Return, Fields, HasFields, RunFields, Labels, Returns

\* RemoveLocal ends the run or returns.
LEMMA RunRemoveLocal == ASSUME Fields, RunTypes, RemoveLocal PROVE RunTypes'
<1>1. EndRun \/ Return
  BY DEF RemoveLocal
<1> QED BY <1>1, RunEnded, RunReturned DEF EndRun

\* So does DiscardLocal.
LEMMA RunDiscardLocal == ASSUME Fields, RunTypes, DiscardLocal PROVE RunTypes'
<1>1. EndRun \/ Return
  BY DEF DiscardLocal
<1> QED BY <1>1, RunEnded, RunReturned DEF EndRun

\* SwapIn goes on or ends the run.
LEMMA RunSwapIn == ASSUME Fields, RunTypes, SwapIn PROVE RunTypes'
<1>1. EndRun \/ Goto("verify")
  BY DEF SwapIn
<1>2. CASE Goto("verify")
  BY <1>2 DEF Goto, RunTypes, Labels
<1> QED BY <1>1, <1>2, RunEnded DEF EndRun

\* So does VerifyInstalled.
LEMMA RunVerifyInstalled == ASSUME Fields, RunTypes, VerifyInstalled PROVE RunTypes'
<1>1. EndRun \/ Goto("record")
  BY DEF VerifyInstalled
<1>2. CASE Goto("record")
  BY <1>2 DEF Goto, RunTypes, Labels
<1> QED BY <1>1, <1>2, RunEnded DEF EndRun

\* What the inbox holds is a version.
LEMMA InboxVersion == TypeOK /\ mem.inbox # NoDownload => mem.inbox \in Version
BY DEF TypeOK, Data

\* InboxInstalled takes the download in the inbox for the change.
LEMMA RunInboxInstalled == ASSUME Fields, TypeOK, RunTypes, InboxInstalled PROVE RunTypes'
<1>1. mem.inbox \in Version
  BY InboxVersion DEF InboxInstalled
<1>2. run' = [run EXCEPT !.change = mem.inbox, !.ret = "inbox"] /\ pc' = "record"
  BY DEF InboxInstalled
<1> QED BY <1>1, <1>2 DEF RunTypes, Fields, HasFields, RunFields, Labels, Returns

\* So does InboxReady.
LEMMA RunInboxReady == ASSUME Fields, TypeOK, RunTypes, InboxReady PROVE RunTypes'
<1>1. mem.inbox \in Version
  BY InboxVersion DEF InboxReady
<1>2. run' = [run EXCEPT !.change = mem.inbox, !.ret = "inbox"] /\ pc' = "install"
  BY DEF InboxReady
<1> QED BY <1>1, <1>2 DEF RunTypes, Fields, HasFields, RunFields, Labels, Returns

\* InboxLost defers a path.
LEMMA RunInboxLost == ASSUME Fields, TypeOK, RunTypes, InboxLost PROVE RunTypes'
<1>1. mem.inbox \in Version
  BY InboxVersion DEF InboxLost
<1>2. run' = [run EXCEPT !.deferred = @ \cup {mem.inbox.path}] /\ pc' = pc
  BY DEF InboxLost
<1>3. mem.inbox.path \in Paths
  BY <1>1 DEF Version
<1> QED BY <1>2, <1>3 DEF RunTypes, Fields, HasFields, RunFields

\* A conflict about a put or a delete names the current version of its path.
LEMMA ConflictVersion ==
    ASSUME TypeOK, Replies, pc = "answer", reply.kind = "conflict",
           mem.outbox.request.kind = "apply"
    PROVE  /\ (CHOOSE v \in reply.versions : TRUE) \in reply.versions
           /\ (CHOOSE v \in reply.versions : TRUE) \in Version
<1>1. reply.versions # {} /\ reply.versions \in SUBSET Version
  BY AnsweredVersions DEF Replies
<1> QED BY <1>1

\* AnswerConflict takes that version for the change.
LEMMA RunAnswerConflict ==
    ASSUME Fields, TypeOK, Shape, Replies, RunTypes, AnswerConflict
    PROVE  RunTypes'
<1> DEFINE v == CHOOSE v \in reply.versions : TRUE
<1>1. v \in Version
  BY ConflictVersion DEF AnswerConflict
<1>2. mem.outbox.request.content \in Content
  BY SentRequest DEF AnswerConflict, Request
<1>3. /\ run' = [run EXCEPT !.change = v, !.refused = mem.outbox.request.content]
      /\ pc' \in {"apply", "refused"}
  BY DEF AnswerConflict
<1> HIDE DEF v
<1> QED BY <1>1, <1>2, <1>3 DEF RunTypes, Fields, HasFields, RunFields, Labels

\* AnswerBatchConflict defers the paths of a batch.
LEMMA RunAnswerBatchConflict ==
    ASSUME Fields, TypeOK, Shape, RunTypes, AnswerBatchConflict
    PROVE  RunTypes'
<1>1. BatchPaths(mem.outbox.request) \subseteq Paths
  BY SentRequest, TouchedPaths DEF AnswerBatchConflict
<1>2. /\ run' \in {[run EXCEPT !.deferred = @ \cup BatchPaths(mem.outbox.request), !.ret = "idle"],
                   [run EXCEPT !.ret = "idle"]}
      /\ pc' \in {"outbox", "deletes"}
  BY DEF AnswerBatchConflict
<1> QED BY <1>1, <1>2, ZenonT(40) DEF RunTypes, Fields, HasFields, RunFields, Labels, Returns

\* OutboxDone counts the renames that are queued.
LEMMA RunOutboxDone == ASSUME Fields, TypeOK, RunTypes, OutboxDone PROVE RunTypes'
<1>1. Len(mem.renames) \in Nat
  BY DEF TypeOK, Data
<1>2. CASE BeginRenames
  BY <1>1, <1>2 DEF BeginRenames, RunTypes, Fields, HasFields, RunFields, Labels
<1>3. CASE Goto("snapshot")
  BY <1>3 DEF Goto, RunTypes, Labels
<1> QED BY <1>2, <1>3 DEF OutboxDone

\* So does MergeDone.
LEMMA RunMergeDone == ASSUME Fields, TypeOK, RunTypes, MergeDone PROVE RunTypes'
<1>1. Len(mem.renames) \in Nat
  BY DEF TypeOK, Data
<1>2. BeginRenames
  BY DEF MergeDone
<1> QED BY <1>1, <1>2 DEF BeginRenames, RunTypes, Fields, HasFields, RunFields, Labels

\* ReadSnapshot takes the paths of the log.
LEMMA RunReadSnapshot == ASSUME Fields, TypeOK, RunTypes, ReadSnapshot PROVE RunTypes'
<1> DEFINE remote == {log[r].path : r \in DOMAIN log}
<1>1. remote \in SUBSET Paths /\ Len(log) \in Nat
  <2>1. Len(log) \in Nat /\ \A r \in DOMAIN log : log[r] \in Entry
    BY DEF TypeOK
  <2> QED BY <2>1 DEF Entry
<1>2. /\ run'.upto = Len(log) /\ run'.todo = remote
      /\ run'.scope \in {{p \in Paths : disk[p] # Absent} \ remote, {}}
      /\ \A f \in RunFields \ {"upto", "todo", "scope"} : run'[f] = run[f]
      /\ pc' = "preserve"
  BY DEF ReadSnapshot, Fields, HasFields, RunFields
<1> HIDE DEF remote
<1>3. run'.scope \in SUBSET Paths
  BY <1>2
<1> QED BY <1>1, <1>2, <1>3 DEF RunTypes, RunFields, Labels

\* PreserveLocal takes the removal of a file for the change.
LEMMA RunPreserveLocal == ASSUME Fields, TypeOK, RunTypes, PreserveLocal PROVE RunTypes'
<1>1. CASE EndRun
  BY <1>1, RunEnded DEF EndRun
<1>2. CASE ~EndRun
  <2>1. PICK p \in run.scope :
          /\ run' = [run EXCEPT !.scope = @ \ {p}, !.ret = "preserve",
                             !.change = [path |-> p, rev |-> 0, content |-> Absent]]
          /\ pc' = "discard"
    BY <1>2, Zenon DEF PreserveLocal
  <2>2. [path |-> p, rev |-> 0, content |-> Absent] \in Version
    BY DEF RunTypes, Version, Content
  <2> QED BY <2>1, <2>2 DEF RunTypes, Fields, HasFields, RunFields, Labels, Returns
<1> QED BY <1>1, <1>2

\* MergeSnapshot takes a version of the snapshot for the change.
LEMMA RunMergeSnapshot ==
    ASSUME Fields, TypeOK, Position, Ready, RunTypes, MergeSnapshot
    PROVE  RunTypes'
<1>1. CASE mem.mode = "local"
  <2>1. UNCHANGED <<pc, run>>
    BY <1>1, Zenon DEF MergeSnapshot
  <2> QED BY <2>1 DEF RunTypes
<1>2. CASE mem.mode # "local"
  <2>1. PICK p \in MergeDue :
          run' = [run EXCEPT !.todo = @ \ {p}, !.change = SnapshotVersion(p), !.ret = "merge"]
    BY <1>2, Zenon DEF MergeSnapshot
  <2>2. SnapshotVersion(p) \in Version
    BY SnapshotVersionType DEF MergeSnapshot, MergeDue
  <2>3. pc' = "apply"
    BY <1>2, Zenon DEF MergeSnapshot
  <2> QED BY <2>1, <2>2, <2>3 DEF RunTypes, Fields, HasFields, RunFields, Labels, Returns
<1> QED BY <1>1, <1>2

\* A plan takes paths.
LEMMA RunPlan == ASSUME Fields, TypeOK, RunTypes, NEW full \in BOOLEAN, Plan(full) PROVE RunTypes'
<1> DEFINE scope == IF full THEN Paths ELSE mem.pending
<1>1. scope \in SUBSET Paths /\ mem.pending \in SUBSET Paths
  BY DEF TypeOK, Data
<1>2. /\ run' = [run EXCEPT !.full = full, !.noted = mem.pending, !.scope = scope, !.todo = scope]
      /\ pc' \in {"push", "scan"}
  BY DEF Plan
<1> HIDE DEF scope
<1> QED BY <1>1, <1>2 DEF RunTypes, Fields, HasFields, RunFields, Labels

\* As above.
LEMMA RunPlanFull == ASSUME Fields, TypeOK, RunTypes, PlanFull PROVE RunTypes'
BY RunPlan DEF PlanFull

\* As above.
LEMMA RunPlanQueued == ASSUME Fields, TypeOK, RunTypes, PlanQueued PROVE RunTypes'
BY RunPlan DEF PlanQueued

\* ScanPath reads a file.
LEMMA RunScanPath ==
    ASSUME Fields, TypeOK, RunTypes, NEW p \in Paths, ScanPath(p)
    PROVE  RunTypes'
<1> DEFINE found == [run.found EXCEPT ![p] = disk[p]]
<1>1. found \in [Paths -> Content]
  BY DEF TypeOK, RunTypes
<1>2. /\ run' \in {[run EXCEPT !.found = found, !.todo = run.todo \ {p}],
                   [run EXCEPT !.found = found, !.todo = {q \in Paths : found[q] # Absent}]}
      /\ pc' \in {pc, "push"}
  BY DEF ScanPath
<1> HIDE DEF found
<1> QED BY <1>1, <1>2, ZenonT(40) DEF RunTypes, Fields, HasFields, RunFields, Labels

\* PushPath takes a path from those to be pushed.
LEMMA RunPushPath ==
    ASSUME Fields, TypeOK, RunTypes, NEW p \in Paths, PushPath(p)
    PROVE  RunTypes'
<1>1. CASE Stage(ApplyRequest(p, disk[p])) /\ run' = [run EXCEPT !.todo = @ \ {p}, !.ret = "push"]
  BY <1>1 DEF Stage, RunTypes, Fields, HasFields, RunFields, Labels, Returns
<1>2. CASE ~(Stage(ApplyRequest(p, disk[p])) /\ run' = [run EXCEPT !.todo = @ \ {p}, !.ret = "push"])
  <2>1. /\ run' \in {[run EXCEPT !.todo = @ \ {p}, !.noted = @],
                     [run EXCEPT !.todo = @ \ {p}, !.noted = Unnoted({p})]}
        /\ pc' = pc
    BY <1>2 DEF PushPath
  <2>2. Unnoted({p}) \in SUBSET Paths
    BY DEF Unnoted, RunTypes
  <2> QED BY <2>1, <2>2, ZenonT(40) DEF RunTypes, Fields, HasFields, RunFields
<1> QED BY <1>1, <1>2

\* PushDone takes the deletions.
LEMMA RunPushDone == ASSUME Fields, TypeOK, RunTypes, PushDone PROVE RunTypes'
<1>1. Deletions \in SUBSET Paths
  BY DEF Deletions, RunTypes
<1>2. CASE Cardinality(Deletions) > 1
  <2>1. run' = [run EXCEPT !.todo = Deletions, !.ret = "pull"] /\ \E q : Stage(q)
    BY <1>2 DEF PushDone
  <2> QED BY <1>1, <2>1 DEF Stage, RunTypes, Fields, HasFields, RunFields, Labels, Returns
<1>3. CASE ~(Cardinality(Deletions) > 1)
  BY <1>1, <1>3 DEF PushDone, RunTypes, Fields, HasFields, RunFields, Labels
<1> QED BY <1>2, <1>3

\* PullPage reads a page that ends in the log.
LEMMA RunPullPage == ASSUME Fields, TypeOK, RunTypes, PullPage PROVE RunTypes'
<1> DEFINE last == Min({mem.cursor + PageSize, Len(log)})
<1>1. mem.cursor \in Nat /\ Len(log) \in Nat /\ mem.cursor + PageSize \in Nat
  BY EngineAssumption DEF TypeOK, Data
<1>2. last \in Nat
  BY <1>1, MinOfTwo
<1>3. run' = [run EXCEPT !.at = mem.cursor, !.upto = last, !.more = last < Len(log)] /\ pc' = "page"
  BY DEF PullPage
<1>4. (last < Len(log)) \in BOOLEAN
  BY <1>1, <1>2
<1> HIDE DEF last
<1> QED BY <1>1, <1>2, <1>3, <1>4 DEF RunTypes, Fields, HasFields, RunFields, Labels

\* The first due change of the page is in it, and is a version.
LEMMA PageDueTypes ==
    ASSUME TypeOK, RunTypes, Position, pc = "page", PageDue # {}
    PROVE  /\ Min(PageDue) \in PageDue /\ \A r \in PageDue : Min(PageDue) <= r
           /\ Min(PageDue) \in (run.at + 1)..run.upto
           /\ Min(PageDue) \in DOMAIN log /\ Logged(Min(PageDue)) \in Version
<1>1. run.at \in Nat /\ run.upto \in Nat /\ run.upto <= Len(log) /\ log \in Seq(Entry)
  BY DEF RunTypes, Position, Loops, TypeOK
<1>2. PageDue \in SUBSET Nat /\ PageDue \subseteq (run.at + 1)..run.upto
  BY <1>1 DEF PageDue
<1>3. PICK r : r = Min(PageDue)
  OBVIOUS
<1>4. r \in PageDue /\ \A y \in PageDue : r <= y
  BY <1>2, <1>3, MinOfRevisions
<1>5. r \in (run.at + 1)..run.upto /\ r \in Nat /\ r \in 1..Len(log)
  BY <1>1, <1>2, <1>4
<1>6. log[r] \in Entry
  BY <1>1, <1>5
<1>7. Logged(r) \in Version /\ r \in DOMAIN log
  BY <1>1, <1>5, <1>6 DEF Logged, Version, Entry
<1> QED BY <1>3, <1>4, <1>5, <1>7

\* PageChange takes it for the change.
LEMMA RunPageChange ==
    ASSUME Fields, TypeOK, Position, RunTypes, PageChange
    PROVE  RunTypes'
<1>1. /\ run' = [run EXCEPT !.at = Min(PageDue), !.change = Logged(Min(PageDue)), !.ret = "page"]
      /\ pc' = "apply"
  BY DEF PageChange
<1>2. Min(PageDue) \in Nat /\ Logged(Min(PageDue)) \in Version
  BY PageDueTypes DEF PageChange, TypeOK
<1> QED BY <1>1, <1>2 DEF RunTypes, Fields, HasFields, RunFields, Labels, Returns

\* RenameStaged takes one of the renames.
LEMMA RunRenameStaged == ASSUME Fields, RunTypes, RenameStaged PROVE RunTypes'
<1>1. run' = [run EXCEPT !.moves = run.moves - 1, !.ret = "renames"] /\ pc' = "send"
  BY DEF RenameStaged, Stage
<1>2. run.moves - 1 \in Nat
  <2>1. run.moves > 0 /\ run.moves \in Nat
    BY DEF RenameStaged, RunTypes
  <2> QED BY <2>1
<1>3. /\ run'.moves = run.moves - 1 /\ run'.ret = "renames"
      /\ run'.deferred = run.deferred /\ run'.noted = run.noted /\ run'.full = run.full
      /\ run'.scope = run.scope /\ run'.found = run.found /\ run'.todo = run.todo
      /\ run'.at = run.at /\ run'.upto = run.upto /\ run'.more = run.more
      /\ run'.change = run.change /\ run'.keep = run.keep /\ run'.refused = run.refused
  BY <1>1 DEF Fields, HasFields, RunFields
<1> QED BY <1>1, <1>2, <1>3 DEF RunTypes, Labels, Returns

\* Events take paths from those that the run has noted.
LEMMA RunNoteEvents ==
    ASSUME Fields, RunTypes, NEW ps, NEW ms, NoteEvents(ps, ms), UNCHANGED pc
    PROVE  RunTypes'
BY DEF NoteEvents, Unnoted, Fields, HasFields, RunFields, RunTypes

\* Every step keeps the types of the run.
LEMMA RunStep ==
    Fields /\ TypeOK /\ Shape /\ Position /\ Replies /\ Ready /\ RunTypes /\ [Next]_vars => RunTypes'
<1> SUFFICES ASSUME Fields, TypeOK, Shape, Position, Replies, Ready, RunTypes,
   [Next]_vars PROVE RunTypes'
  OBVIOUS
<1>1. CASE ResumeInbox
  <2>1. CASE InboxInstalled
    BY <2>1, RunInboxInstalled
  <2>2. CASE InboxReady
    BY <2>2, RunInboxReady
  <2>3. CASE InboxLost
    BY <2>3, RunInboxLost
  <2> USE DEF RunTypes, Fields, HasFields, RunFields, Labels, Returns, NothingFound,
     Content
  <2>4. CASE InboxDone
    BY <2>4 DEF InboxDone, Quiet, NoRequest, Goto, dataVars, fileVars, serverVars,
       historyVars
  <2> HIDE DEF RunTypes, Fields, HasFields, RunFields, Labels, Returns,
     NothingFound, Content
  <2> QED BY <1>1, <2>1, <2>2, <2>3, <2>4 DEF ResumeInbox
<1>2. CASE ResumeOutbox
  <2>1. CASE OutboxDone
    BY <2>1, RunOutboxDone
  <2> USE DEF RunTypes, Fields, HasFields, RunFields, Labels, Returns, NothingFound,
     Content
  <2>2. CASE OutboxCommitted
    BY <2>2 DEF OutboxCommitted, Quiet, dataVars, serverVars, fileVars, historyVars,
       NoRequest
  <2>3. CASE OutboxResent
    BY <2>3 DEF OutboxResent, Quiet, NoRequest, dataVars, fileVars, serverVars,
       historyVars
  <2>4. CASE OutboxAbandoned
    BY <2>4 DEF OutboxAbandoned, Quiet, NoRequest, Persist, Discarded, Queued,
       fileVars, dataVars, serverVars, historyVars
  <2> HIDE DEF RunTypes, Fields, HasFields, RunFields, Labels, Returns,
     NothingFound, Content
  <2> QED BY <1>2, <2>1, <2>2, <2>3, <2>4 DEF ResumeOutbox
<1>3. CASE Reconcile
  <2>1. CASE ReadSnapshot
    BY <2>1, RunReadSnapshot
  <2>2. CASE PreserveLocal
    BY <2>2, RunPreserveLocal
  <2>3. CASE DiscardLocal
    BY <2>3, RunDiscardLocal
  <2>4. CASE MergeSnapshot
    BY <2>4, RunMergeSnapshot
  <2>5. CASE MergeDone
    BY <2>5, RunMergeDone
  <2> USE DEF RunTypes, Fields, HasFields, RunFields, Labels, Returns, NothingFound,
     Content
  <2>6. CASE PreserveDone
    BY <2>6 DEF PreserveDone, Quiet, NoRequest, Goto, dataVars, fileVars,
       serverVars, historyVars
  <2> HIDE DEF RunTypes, Fields, HasFields, RunFields, Labels, Returns,
     NothingFound, Content
  <2> QED BY <1>3, <2>1, <2>2, <2>3, <2>4, <2>5, <2>6 DEF Reconcile
<1>4. CASE Renames
  <2> USE DEF RunTypes, Fields, HasFields, RunFields, Labels, Returns, NothingFound,
     Content
  <2>1. CASE RenameSkipped
    BY <2>1 DEF RenameSkipped, Quiet, NoRequest, fileVars, dataVars, serverVars,
       historyVars
  <2>2. CASE RenameStaged
    BY <2>2, RunRenameStaged
  <2>3. CASE RenamesDone
    BY <2>3 DEF RenamesDone, Quiet, NoRequest, Goto, fileVars, dataVars, serverVars,
       historyVars
  <2> HIDE DEF RunTypes, Fields, HasFields, RunFields, Labels, Returns,
     NothingFound, Content
  <2> QED BY <1>4, <2>1, <2>2, <2>3 DEF Renames
<1>5. CASE Push
  <2>1. CASE PlanFull
    BY <2>1, RunPlanFull
  <2>2. CASE PlanQueued
    BY <2>2, RunPlanQueued
  <2>3. CASE PushDone
    BY <2>3, RunPushDone
  <2>4. ASSUME NEW p \in Paths, ScanPath(p) PROVE RunTypes'
    BY <2>4, RunScanPath
  <2>5. ASSUME NEW p \in Paths, PushPath(p) PROVE RunTypes'
    BY <2>5, RunPushPath
  <2> USE DEF RunTypes, Fields, HasFields, RunFields, Labels, Returns, NothingFound,
     Content
  <2>6. CASE DeletesDone
    BY <2>6 DEF DeletesDone, Quiet, NoRequest, fileVars, dataVars, serverVars,
       historyVars
  <2>7. ASSUME NEW p \in Paths, DeletePath(p) PROVE RunTypes'
    BY <2>7 DEF DeletePath, Quiet, Stage, fileVars, dataVars, serverVars,
       historyVars, Persist, NoRequest
  <2> HIDE DEF RunTypes, Fields, HasFields, RunFields, Labels, Returns,
     NothingFound, Content
  <2> QED BY <1>5, <2>1, <2>2, <2>3, <2>4, <2>5, <2>6, <2>7 DEF Push
<1>6. CASE Answered
  <2>1. CASE AnswerConflict
    BY <2>1, RunAnswerConflict
  <2>2. CASE AnswerBatchConflict
    BY <2>2, RunAnswerBatchConflict
  <2> USE DEF RunTypes, Fields, HasFields, RunFields, Labels, Returns, NothingFound,
     Content
  <2>3. CASE AnswerApplied
    BY <2>3, ZenonT(40) DEF AnswerApplied, Quiet, Goto, Return, Complete, Queued, serverVars,
       fileVars, dataVars, historyVars, NoRequest
  <2>4. CASE KeepRefused
    BY <2>4 DEF KeepRefused, Quiet, NoRequest, dataVars, serverVars, historyVars
  <2>5. CASE AnswerMoved
    BY <2>5 DEF AnswerMoved, Quiet, Goto, Complete, serverVars, fileVars, dataVars,
       historyVars, NoRequest
  <2>6. CASE AnswerMoveConflict
    BY <2>6, ZenonT(40) DEF AnswerMoveConflict, Quiet, Goto, Return, Discarded, Queued,
       serverVars, fileVars, dataVars, historyVars, NoRequest
  <2>7. CASE AnswerBatch
    BY <2>7 DEF AnswerBatch, Quiet, Complete, serverVars, fileVars, dataVars,
       historyVars, NoRequest
  <2> HIDE DEF RunTypes, Fields, HasFields, RunFields, Labels, Returns,
     NothingFound, Content
  <2> QED BY <1>6, <2>1, <2>2, <2>3, <2>4, <2>5, <2>6, <2>7 DEF Answered
<1>7. CASE Apply
  <2>1. CASE RemoveLocal
    BY <2>1, RunRemoveLocal
  <2>2. CASE SwapIn
    BY <2>2, RunSwapIn
  <2>3. CASE VerifyInstalled
    BY <2>3, RunVerifyInstalled
  <2> USE DEF RunTypes, Fields, HasFields, RunFields, Labels, Returns, NothingFound,
     Content
  <2>4. CASE ApplyRemoteChange
    BY <2>4 DEF ApplyRemoteChange, Quiet, NoRequest, Goto, Return, StageDownload,
       dataVars, Persist, serverVars, historyVars
  <2>5. CASE Download
    BY <2>5 DEF Download, Quiet, NoRequest, Goto, serverVars, historyVars
  <2>6. CASE SetAside
    BY <2>6 DEF SetAside, Quiet, NoRequest, Goto, serverVars, historyVars
  <2>7. CASE FinishDownload
    BY <2>7 DEF FinishDownload, Quiet, NoRequest, Goto, fileVars, dataVars,
       serverVars, historyVars
  <2>8. CASE Save
    BY <2>8 DEF Save, Quiet, NoRequest, Return, fileVars, dataVars, serverVars,
       historyVars
  <2> HIDE DEF RunTypes, Fields, HasFields, RunFields, Labels, Returns,
     NothingFound, Content
  <2> QED BY <1>7, <2>1, <2>2, <2>3, <2>4, <2>5, <2>6, <2>7, <2>8 DEF Apply
<1>8. CASE Pull
  <2>1. CASE PullPage
    BY <2>1, RunPullPage
  <2>2. CASE PageChange
    BY <2>2, RunPageChange
  <2> USE DEF RunTypes, Fields, HasFields, RunFields, Labels, Returns, NothingFound,
     Content
  <2>3. CASE PageDone
    BY <2>3 DEF PageDone, Quiet, NoRequest, Persist, fileVars, dataVars, serverVars,
       historyVars
  <2>4. CASE Finish
    BY <2>4 DEF Finish, Quiet, NoRequest, Persist, Goto, fileVars, dataVars,
       serverVars, historyVars
  <2>5. CASE AckCursor
    BY <2>5 DEF AckCursor, Quiet, Goto, Acknowledge, dataVars, fileVars, serverVars,
       historyVars, NoRequest
  <2>6. CASE CompleteRun
    BY <2>6 DEF CompleteRun, Quiet, EndRun, serverVars, fileVars, dataVars,
       historyVars, IdleRun, NoRequest
  <2> HIDE DEF RunTypes, Fields, HasFields, RunFields, Labels, Returns,
     NothingFound, Content
  <2> QED BY <1>8, <2>1, <2>2, <2>3, <2>4, <2>5, <2>6 DEF Pull
<1>9. ASSUME NEW p \in Paths, NEW content \in UserContents \cup {Absent},
   UserEdit(p, content) PROVE RunTypes'
  BY <1>9, RunNoteEvents DEF UserEdit
<1>10. ASSUME NEW from \in Paths, NEW to \in Paths, UserRename(from, to) PROVE
   RunTypes'
  BY <1>10, RunNoteEvents DEF UserRename
<1>11. CASE StartRun
  BY <1>11 DEF StartRun, RunTypes, Fields, HasFields, RunFields, Labels, Returns,
     NothingFound, Content, Quiet, NoRequest, Goto, dataVars, fileVars, serverVars,
     historyVars
<1>12. CASE Send
  BY <1>12 DEF Send, RunTypes, Fields, HasFields, RunFields, Labels, Returns,
     NothingFound, Content, Quiet, Goto, dataVars, fileVars, serverVars,
     historyVars, NoRequest
<1>13. CASE ServerMoves
  BY <1>13 DEF ServerMoves, RunTypes, Fields, HasFields, RunFields, Labels, Returns,
     NothingFound, Content, Spend, dataVars, fileVars, serverVars, historyVars
<1>14. CASE SaveEvents
  BY <1>14 DEF SaveEvents, RunTypes, Fields, HasFields, RunFields, Labels, Returns,
     NothingFound, Content, Quiet, NoRequest, fileVars, dataVars, serverVars,
     historyVars
<1>15. CASE RunFails
  BY <1>15 DEF RunFails, RunTypes, Fields, HasFields, RunFields, Labels, Returns,
     NothingFound, Content, EndRun, Spend, serverVars, IdleRun
<1>16. CASE Crash
  BY <1>16 DEF Crash, RunTypes, Fields, HasFields, RunFields, Labels, Returns,
     NothingFound, Content, IdleRun, Spend, serverVars, fileVars, dataVars,
     historyVars
<1>17. CASE Restart
  BY <1>17 DEF Restart, RunTypes, Fields, HasFields, RunFields, Labels, Returns,
     NothingFound, Content, NoRequest, dataVars, fileVars, historyVars, serverVars
<1>18. CASE UNCHANGED vars
  BY <1>18 DEF RunTypes, Fields, HasFields, RunFields, Labels, Returns,
     NothingFound, Content, vars, serverVars, fileVars, dataVars, historyVars
<1> QED BY <1>1, <1>2, <1>3, <1>4, <1>5, <1>6, <1>7, <1>8, <1>9, <1>10, <1>11, <1>12,
         <1>13, <1>14, <1>15, <1>16, <1>17, <1>18 DEF Next, Engine, User

-----------------------------------------------------------------------------
(* The types of the server.                                                *)

\* Entries of different paths.
Distinct(new) == \A i, j \in DOMAIN new : i # j => new[i].path # new[j].path

\* The rows after entries have been appended after revision last: of a path that
\* they name one of its entries, of other paths what it was.
RowsOf(rows, new, last, after) ==
    \A p \in Paths :
        \/ \E i \in 1..Len(new) :
             new[i].path = p /\ after[p] = [rev |-> last + i, content |-> new[i].content]
        \/ (\A i \in 1..Len(new) : new[i].path # p) /\ after[p] = rows[p]

\* HeadAfter is that.
LEMMA RowsAfter ==
    ASSUME NEW rows \in [Paths -> Row], NEW new \in Seq(Entry), NEW last \in Nat,
           NEW after, after = HeadAfter(rows, new, last)
    PROVE  after \in [Paths -> Row] /\ RowsOf(rows, new, last, after)
<1>1. Len(new) \in Nat /\ DOMAIN new = 1..Len(new)
  OBVIOUS
<1>2. ASSUME NEW p \in Paths
      PROVE  /\ \/ \E i \in 1..Len(new) : new[i].path = p
                     /\ after[p] = [rev |-> last + i, content |-> new[i].content]
                \/ (\A i \in 1..Len(new) : new[i].path # p) /\ after[p] = rows[p]
             /\ after[p] \in Row
  <2>1. CASE \E i \in DOMAIN new : new[i].path = p
    <3> DEFINE j == CHOOSE i \in DOMAIN new : new[i].path = p
    <3>1. j \in 1..Len(new) /\ new[j].path = p
      BY <1>1, <2>1
    <3>2. after[p] = [rev |-> last + j, content |-> new[j].content]
      BY <1>1, <2>1 DEF HeadAfter
    <3> HIDE DEF j
    <3>3. new[j] \in Entry
      BY <1>1, <3>1
    <3>4. after[p] \in Row
      BY <1>1, <3>1, <3>2, <3>3 DEF Row, Entry
    <3> QED BY <3>1, <3>2, <3>4
  <2>2. CASE ~\E i \in DOMAIN new : new[i].path = p
    <3>1. after[p] = rows[p]
      BY <1>1, <2>2 DEF HeadAfter
    <3> QED BY <1>1, <2>2, <3>1
  <2> QED BY <2>1, <2>2
<1>3. after = [p \in Paths |-> after[p]]
  BY DEF HeadAfter
<1>4. after \in [Paths -> Row]
  BY <1>2, <1>3
<1> QED BY <1>2, <1>4 DEF RowsOf

\* What an append does to the log and to the rows.
LEMMA Appended ==
    ASSUME log \in Seq(Entry), head \in [Paths -> Row], NEW new \in Seq(Entry),
           AppendEntries(new)
    PROVE  /\ log' \in Seq(Entry) /\ head' \in [Paths -> Row]
           /\ Len(log) \in Nat /\ Len(new) \in Nat /\ Len(log') = Len(log) + Len(new)
           /\ \A r \in 1..Len(log) : log'[r] = log[r]
           /\ \A i \in 1..Len(new) : log'[Len(log) + i] = new[i]
           /\ RowsOf(head, new, Len(log), head')
<1>1. /\ Len(log) \in Nat /\ Len(new) \in Nat
      /\ log' = log \o new /\ head' = HeadAfter(head, new, Len(log))
  BY DEF AppendEntries
<1>2. /\ log' \in Seq(Entry) /\ Len(log') = Len(log) + Len(new)
      /\ \A r \in 1..Len(log) : log'[r] = log[r]
      /\ \A i \in 1..Len(new) : log'[Len(log) + i] = new[i]
  BY <1>1
<1>3. head' \in [Paths -> Row] /\ RowsOf(head, new, Len(log), head')
  BY <1>1, RowsAfter
<1> QED BY <1>1, <1>2, <1>3

\* The orders of a set of entries whose paths are different.
LEMMA OrdersDistinct ==
    ASSUME NEW S \in SUBSET Entry, IsFiniteSet(S), NEW s \in SetToSeqs(S),
           \A x, y \in S : x.path = y.path => x = y
    PROVE  /\ s \in Seq(Entry) /\ Distinct(s) /\ (s = <<>> => S = {})
           /\ \A i \in DOMAIN s : s[i] \in S
<1> DEFINE n == Cardinality(S)
<1>1. n \in Nat /\ (n = 0 => S = {})
  BY FS_CardinalityType, FS_EmptySet
<1>2. /\ s \in [1..n -> S]
      /\ \A i, j \in 1..n : i # j => s[i] # s[j]
  BY DEF SetToSeqs
<1> HIDE DEF n
<1>3. s \in Seq(S) /\ Len(s) = n /\ DOMAIN s = 1..n
  BY <1>1, <1>2
<1>4. s \in Seq(Entry)
  BY <1>3
<1>5. Distinct(s)
  BY <1>2, <1>3 DEF Distinct
<1>6. s = <<>> => S = {}
  BY <1>1, <1>3
<1> QED BY <1>2, <1>3, <1>4, <1>5, <1>6

\* What an accepted request appends: entries of this device, of different paths
\* of the request, and none only where a put finds the path as it wants it.
LEMMA EffectsTypes ==
    ASSUME head \in [Paths -> Row], NEW q \in Request, SoundRequest(q),
           q.kind = "batch" => q.items # {}, Accepts(q), NEW new \in Effects(q)
    PROVE  /\ new \in Seq(Entry) /\ Distinct(new)
           /\ \A i \in DOMAIN new : new[i].mine /\ new[i].path \in Touched(q)
           /\ new = <<>> => q.kind = "apply" /\ q.path \in Paths
<1>1. CASE q.kind = "apply"
  <2>1. q.path \in Paths /\ q.content \in Content
    BY <1>1 DEF Request
  <2> DEFINE e == [path |-> q.path, content |-> q.content, mine |-> TRUE]
  <2>2. e \in Entry /\ e.mine /\ e.path = q.path
    BY <2>1 DEF Entry
  <2>3. new = <<>> \/ new = <<e>>
    BY <1>1 DEF Effects
  <2>4. Touched(q) = {q.path}
    BY <1>1 DEF Touched
  <2> HIDE DEF e
  <2>5. CASE new = <<>>
    BY <1>1, <2>1, <2>5 DEF Distinct
  <2>6. CASE new = <<e>>
    <3>1. new \in Seq(Entry) /\ DOMAIN new = {1} /\ new[1] = e /\ new # <<>>
      BY <2>2, <2>6
    <3> QED BY <2>2, <2>4, <3>1 DEF Distinct
  <2> QED BY <2>3, <2>5, <2>6
<1>2. CASE q.kind = "rename"
  <2>1. /\ q.path \in Paths /\ q.from \in Paths /\ head[q.from] \in Row
        /\ head[q.from].content # Absent /\ head[q.path].content = Absent
    BY <1>2 DEF Request, Accepts, LiveAt
  <2> DEFINE d == [path |-> q.from, content |-> Absent, mine |-> TRUE]
             e == [path |-> q.path, content |-> head[q.from].content, mine |-> TRUE]
  <2>2. d \in Entry /\ e \in Entry /\ d.mine /\ e.mine
    BY <2>1 DEF Entry, Row, Content
  <2>3. new = <<d, e>>
    BY <1>2 DEF Effects
  <2>4. Touched(q) = {q.from, q.path}
    BY <1>2 DEF Touched
  <2>5. d.path = q.from /\ e.path = q.path /\ d.path # e.path
    BY <2>1
  <2> HIDE DEF d, e
  <2>6. new \in Seq(Entry) /\ DOMAIN new = {1, 2} /\ new[1] = d /\ new[2] = e /\ new # <<>>
    BY <2>2, <2>3
  <2> QED BY <2>2, <2>4, <2>5, <2>6 DEF Distinct
<1>3. CASE q.kind = "batch"
  <2> DEFINE entry(item) == [path |-> item.path, content |-> Absent, mine |-> TRUE]
             f == [item \in q.items |-> entry(item)]
             S == {entry(item) : item \in q.items}
  <2>1. q.items \in SUBSET Item /\ q.items # {} /\ IsFiniteSet(q.items)
    BY <1>3 DEF Request, SoundRequest
  <2>2. f = [item \in q.items |-> f[item]] /\ S = {f[item] : item \in q.items}
    OBVIOUS
  <2>3. ASSUME NEW x \in S
        PROVE  x \in Entry /\ x.mine /\ x.content = Absent /\ x.path \in Touched(q)
    <3>1. PICK item \in q.items : x = entry(item)
      OBVIOUS
    <3>2. item.path \in Paths
      BY <2>1 DEF Item
    <3>3. Touched(q) = {i.path : i \in q.items}
      BY <1>3 DEF Touched, BatchPaths
    <3> QED BY <3>1, <3>2, <3>3 DEF Entry, Content
  <2>4. ASSUME NEW x \in S, NEW y \in S, x.path = y.path PROVE x = y
    <3>1. PICK i \in q.items, j \in q.items : x = entry(i) /\ y = entry(j)
      OBVIOUS
    <3>2. i.path = j.path
      BY <2>4, <3>1
    <3> QED BY <3>1, <3>2
  <2>5. S # {}
    BY <2>1
  <2>6. new \in SetToSeqs(S)
    BY <1>3 DEF Effects
  <2> HIDE DEF f, S, entry
  <2>7. IsFiniteSet(S)
    BY <2>1, <2>2, ImageFinite
  <2>8. S \in SUBSET Entry
    BY <2>3
  <2>9. /\ new \in Seq(Entry) /\ Distinct(new) /\ new # <<>>
        /\ \A i \in DOMAIN new : new[i] \in S
    BY <2>4, <2>5, <2>6, <2>7, <2>8, OrdersDistinct
  <2> QED BY <2>3, <2>9
<1> QED BY <1>1, <1>2, <1>3 DEF SoundRequest

\* The row of a path is a version.
LEMMA RowVersionType ==
    ASSUME head \in [Paths -> Row], NEW p \in Paths
    PROVE  RowVersion(p) \in Version
BY DEF RowVersion, Version, Row

\* What Send is about.
LEMMA SendRequest ==
    ASSUME TypeOK, Shape, Ready, Send
    PROVE  LET q == mem.outbox.request
           IN  /\ q \in Request /\ SoundRequest(q) /\ (q.kind = "batch" => q.items # {})
               /\ mem.outbox.id \in OpIds
<1>1. pc = "send"
  BY DEF Send
<1>2. mem.outbox \in Operation
  BY <1>1, SentRequest
<1>3. mem.outbox # NoOperation
  BY <1>2 DEF Operation, NoOperation, OpIds
<1> QED BY <1>1, <1>2, <1>3, SentRequest DEF Shape, Ready, BatchReady
-----------------------------------------------------------------------------
(* Every step keeps the types of the server.                               *)

\* What an accepted request is answered.
LEMMA AcceptedTypes ==
    ASSUME log \in Seq(Entry), head \in [Paths -> Row], NEW q \in Request, NEW new \in Seq(Entry),
           new = <<>> => q.path \in Paths
    PROVE  Accepted(q, new) \in Reply
<1>1. Len(log) \in Nat /\ DOMAIN new = 1..Len(new) /\ Len(new) \in Nat
  OBVIOUS
<1>2. CASE new = <<>>
  <2>1. RowVersion(q.path) \in Version
    BY <1>2, RowVersionType
  <2> QED BY <1>2, <2>1 DEF Accepted, Reply
<1>3. CASE new # <<>>
  <2> DEFINE vs == {[path |-> new[i].path, rev |-> Len(log) + i, content |-> new[i].content] :
                      i \in DOMAIN new}
  <2>1. ASSUME NEW i \in DOMAIN new
        PROVE  [path |-> new[i].path, rev |-> Len(log) + i, content |-> new[i].content] \in Version
    <3>1. new[i] \in Entry /\ i \in Nat
      BY <1>1
    <3> QED BY <1>1, <3>1 DEF Entry, Version
  <2>2. vs \in SUBSET Version
    BY <2>1
  <2>3. Accepted(q, new) = [kind |-> "ok", versions |-> vs]
    BY <1>3 DEF Accepted
  <2> QED BY <2>2, <2>3 DEF Reply
<1> QED BY <1>2, <1>3

\* Send.
LEMMA ServerSend == ASSUME TypeOK, Shape, Ready, Send PROVE ServerTypes'
<1> DEFINE q == mem.outbox.request
           id == mem.outbox.id
<1>1. q \in Request /\ SoundRequest(q) /\ (q.kind = "batch" => q.items # {}) /\ id \in OpIds
  BY SendRequest
<1>2. log \in Seq(Entry) /\ head \in [Paths -> Row]
  BY DEF TypeOK
<1>3. ack' = ack /\ Serve(id, q, reply')
  BY DEF Send, Serve
<1> HIDE DEF q, id
<1>4. CASE Accepts(q)
  <2>1. PICK new \in Effects(q) : /\ AppendEntries(new)
                                  /\ reply' = Accepted(q, new)
                                  /\ answers' = [answers EXCEPT ![id] = reply']
    BY <1>3, <1>4, Zenon DEF Serve
  <2>2. new \in Seq(Entry) /\ (new = <<>> => q.path \in Paths)
    BY <1>1, <1>2, <1>4, EffectsTypes
  <2>3. log' \in Seq(Entry) /\ head' \in [Paths -> Row]
    BY <1>2, <2>1, <2>2, Appended
  <2>4. reply' \in Reply
    BY <1>1, <1>2, <2>1, <2>2, AcceptedTypes
  <2> QED BY <1>3, <2>1, <2>3, <2>4 DEF TypeOK, ServerTypes
<1>5. CASE ~Accepts(q)
  <2>1. reply' = ConflictWith(q) /\ UNCHANGED <<log, head, answers>>
    BY <1>3, <1>5, Zenon DEF Serve
  <2>2. q.kind = "apply" => RowVersion(q.path) \in Version
    BY <1>1, <1>2, RowVersionType DEF Request
  <2>3. reply' \in Reply
    BY <2>1, <2>2 DEF ConflictWith, Reply
  <2> QED BY <1>3, <2>1, <2>3 DEF TypeOK, ServerTypes
<1> QED BY <1>4, <1>5

\* The entry of another device.
LEMMA OtherEntry ==
    ASSUME NEW p \in Paths, NEW c \in OtherContents \cup {Absent}
    PROVE  LET e == [path |-> p, content |-> c, mine |-> FALSE]
           IN  /\ e \in Entry /\ <<e>> \in Seq(Entry) /\ Distinct(<<e>>)
               /\ Len(<<e>>) = 1 /\ <<e>>[1] = e
<1> DEFINE e == [path |-> p, content |-> c, mine |-> FALSE]
<1>1. e \in Entry
  BY ServerAssumption DEF Entry, Content
<1> HIDE DEF e
<1>2. <<e>> \in Seq(Entry) /\ Len(<<e>>) = 1 /\ DOMAIN <<e>> = {1} /\ <<e>>[1] = e
  BY <1>1
<1>3. Distinct(<<e>>)
  BY <1>2 DEF Distinct
<1> QED BY <1>1, <1>2, <1>3 DEF e

\* Other devices and the collector.
LEMMA ServerServerMoves == ASSUME TypeOK, ServerMoves PROVE ServerTypes'
<1>1. log \in Seq(Entry) /\ head \in [Paths -> Row]
  BY DEF TypeOK
<1>2. reply' = reply /\ answers' = answers /\ ack' = ack
  BY DEF ServerMoves, OtherCommit, Collect
<1>3. CASE \E p \in Paths, c \in OtherContents \cup {Absent} : OtherCommit(p, c)
  <2>1. PICK p \in Paths, c \in OtherContents \cup {Absent} : OtherCommit(p, c)
    BY <1>3
  <2>2. log' \in Seq(Entry) /\ head' \in [Paths -> Row]
    BY <1>1, <2>1, OtherEntry, Appended DEF OtherCommit
  <2> QED BY <1>2, <2>2 DEF TypeOK, ServerTypes
<1>4. CASE \E p \in Paths : Collect(p)
  <2>1. PICK p \in Paths : Collect(p)
    BY <1>4
  <2>2. head' \in [Paths -> Row] /\ log' = log
    BY <1>1, <2>1 DEF Collect, NoRow, Row, Content
  <2> QED BY <1>1, <1>2, <2>2 DEF TypeOK, ServerTypes
<1> QED BY <1>3, <1>4 DEF ServerMoves

\* A result that is looked up is a reply.
LEMMA ServerOutboxCommitted == ASSUME TypeOK, Shape, OutboxCommitted PROVE ServerTypes'
<1>1. mem.outbox.id \in OpIds
  BY DEF OutboxCommitted, Shape, SoundData
<1> QED BY <1>1 DEF OutboxCommitted, serverVars, TypeOK, ServerTypes

\* The cursor is acknowledged.
LEMMA ServerAckCursor == ASSUME TypeOK, AckCursor PROVE ServerTypes'
<1>1. mem.cursor \in Nat /\ ack' \in {mem.cursor, ack}
  BY DEF AckCursor, Acknowledge, TypeOK, Data
<1> QED BY <1>1 DEF AckCursor, Acknowledge, TypeOK, ServerTypes

\* Every other step leaves the server alone.
LEMMA ServerStep ==
    TypeOK /\ Shape /\ Ready /\ [Next]_vars => ServerTypes'
<1> SUFFICES ASSUME TypeOK, Shape, Ready, [Next]_vars PROVE ServerTypes'
  OBVIOUS
<1>1. CASE ResumeInbox
  <2> USE DEF TypeOK, ServerTypes
  <2>1. CASE InboxInstalled
    BY <2>1 DEF InboxInstalled, Quiet, NoRequest, dataVars, CleanUp, serverVars,
       historyVars
  <2>2. CASE InboxReady
    BY <2>2 DEF InboxReady, Quiet, NoRequest, dataVars, fileVars, serverVars,
       historyVars
  <2>3. CASE InboxLost
    BY <2>3 DEF InboxLost, Quiet, NoRequest, Persist, CleanUp, serverVars,
       historyVars
  <2>4. CASE InboxDone
    BY <2>4 DEF InboxDone, Quiet, NoRequest, Goto, dataVars, fileVars, serverVars,
       historyVars
  <2> HIDE DEF TypeOK, ServerTypes
  <2> QED BY <1>1, <2>1, <2>2, <2>3, <2>4 DEF ResumeInbox
<1>2. CASE ResumeOutbox
  <2>1. CASE OutboxCommitted
    BY <2>1, ServerOutboxCommitted
  <2> USE DEF TypeOK, ServerTypes
  <2>2. CASE OutboxResent
    BY <2>2 DEF OutboxResent, Quiet, NoRequest, dataVars, fileVars, serverVars,
       historyVars
  <2>3. CASE OutboxAbandoned
    BY <2>3 DEF OutboxAbandoned, Quiet, NoRequest, Persist, Discarded, Queued,
       fileVars, dataVars, serverVars, historyVars
  <2>4. CASE OutboxDone
    BY <2>4 DEF OutboxDone, Quiet, NoRequest, Goto, BeginRenames, dataVars,
       fileVars, serverVars, historyVars
  <2> HIDE DEF TypeOK, ServerTypes
  <2> QED BY <1>2, <2>1, <2>2, <2>3, <2>4 DEF ResumeOutbox
<1>3. CASE Reconcile
  <2> USE DEF TypeOK, ServerTypes
  <2>1. CASE ReadSnapshot
    BY <2>1 DEF ReadSnapshot, Quiet, NoRequest, dataVars, fileVars, serverVars,
       historyVars
  <2>2. CASE PreserveLocal
    BY <2>2 DEF PreserveLocal, Quiet, EndRun, dataVars, serverVars, IdleRun,
       NoRequest, historyVars
  <2>3. CASE DiscardLocal
    BY <2>3 DEF DiscardLocal, Quiet, Return, EndRun, dataVars, serverVars, IdleRun,
       NoRequest, historyVars
  <2>4. CASE PreserveDone
    BY <2>4 DEF PreserveDone, Quiet, NoRequest, Goto, dataVars, fileVars,
       serverVars, historyVars
  <2>5. CASE MergeSnapshot
    BY <2>5 DEF MergeSnapshot, NoRequest, fileVars, dataVars, serverVars,
       historyVars
  <2>6. CASE MergeDone
    BY <2>6 DEF MergeDone, Quiet, NoRequest, Persist, BeginRenames, fileVars,
       dataVars, serverVars, historyVars
  <2> HIDE DEF TypeOK, ServerTypes
  <2> QED BY <1>3, <2>1, <2>2, <2>3, <2>4, <2>5, <2>6 DEF Reconcile
<1>4. CASE Renames
  <2> USE DEF TypeOK, ServerTypes
  <2>1. CASE RenameSkipped
    BY <2>1 DEF RenameSkipped, Quiet, NoRequest, fileVars, dataVars, serverVars,
       historyVars
  <2>2. CASE RenameStaged
    BY <2>2 DEF RenameStaged, Quiet, Stage, fileVars, dataVars, serverVars,
       historyVars, Persist, NoRequest
  <2>3. CASE RenamesDone
    BY <2>3 DEF RenamesDone, Quiet, NoRequest, Goto, fileVars, dataVars, serverVars,
       historyVars
  <2> HIDE DEF TypeOK, ServerTypes
  <2> QED BY <1>4, <2>1, <2>2, <2>3 DEF Renames
<1>5. CASE Push
  <2> USE DEF TypeOK, ServerTypes
  <2>1. CASE PlanFull
    BY <2>1 DEF PlanFull, Plan, Quiet, NoRequest, dataVars, fileVars, serverVars,
       historyVars
  <2>2. CASE PlanQueued
    BY <2>2 DEF PlanQueued, Plan, Quiet, NoRequest, dataVars, fileVars, serverVars,
       historyVars
  <2>3. CASE PushDone
    BY <2>3 DEF PushDone, Quiet, NoRequest, Stage, dataVars, fileVars, serverVars,
       historyVars, Persist
  <2>4. CASE DeletesDone
    BY <2>4 DEF DeletesDone, Quiet, NoRequest, fileVars, dataVars, serverVars,
       historyVars
  <2>5. ASSUME NEW p \in Paths, ScanPath(p) PROVE ServerTypes'
    BY <2>5 DEF ScanPath, Quiet, NoRequest, dataVars, fileVars, serverVars,
       historyVars
  <2>6. ASSUME NEW p \in Paths, PushPath(p) PROVE ServerTypes'
    BY <2>6 DEF PushPath, Quiet, NoRequest, Stage, Queued, Unnoted, fileVars,
       dataVars, serverVars, historyVars, Persist
  <2>7. ASSUME NEW p \in Paths, DeletePath(p) PROVE ServerTypes'
    BY <2>7 DEF DeletePath, Quiet, Stage, fileVars, dataVars, serverVars,
       historyVars, Persist, NoRequest
  <2> HIDE DEF TypeOK, ServerTypes
  <2> QED BY <1>5, <2>1, <2>2, <2>3, <2>4, <2>5, <2>6, <2>7 DEF Push
<1>6. CASE Answered
  <2> USE DEF TypeOK, ServerTypes
  <2>1. CASE AnswerApplied
    BY <2>1 DEF AnswerApplied, Quiet, Goto, Return, Complete, Queued, serverVars,
       fileVars, dataVars, historyVars, NoRequest
  <2>2. CASE AnswerConflict
    BY <2>2 DEF AnswerConflict, Quiet, Persist, Discarded, serverVars, fileVars,
       dataVars, historyVars, NoRequest
  <2>3. CASE KeepRefused
    BY <2>3 DEF KeepRefused, Quiet, NoRequest, dataVars, serverVars, historyVars
  <2>4. CASE AnswerMoved
    BY <2>4 DEF AnswerMoved, Quiet, Goto, Complete, serverVars, fileVars, dataVars,
       historyVars, NoRequest
  <2>5. CASE AnswerMoveConflict
    BY <2>5 DEF AnswerMoveConflict, Quiet, Goto, Return, Discarded, Queued,
       serverVars, fileVars, dataVars, historyVars, NoRequest
  <2>6. CASE AnswerBatch
    BY <2>6 DEF AnswerBatch, Quiet, Complete, serverVars, fileVars, dataVars,
       historyVars, NoRequest
  <2>7. CASE AnswerBatchConflict
    BY <2>7 DEF AnswerBatchConflict, Quiet, Persist, Discarded, Queued, serverVars,
       fileVars, dataVars, historyVars, NoRequest
  <2> HIDE DEF TypeOK, ServerTypes
  <2> QED BY <1>6, <2>1, <2>2, <2>3, <2>4, <2>5, <2>6, <2>7 DEF Answered
<1>7. CASE Apply
  <2> USE DEF TypeOK, ServerTypes
  <2>1. CASE ApplyRemoteChange
    BY <2>1 DEF ApplyRemoteChange, Quiet, NoRequest, Goto, Return, StageDownload,
       dataVars, Persist, serverVars, historyVars
  <2>2. CASE RemoveLocal
    BY <2>2 DEF RemoveLocal, Quiet, Return, EndRun, serverVars, IdleRun, NoRequest,
       historyVars
  <2>3. CASE Download
    BY <2>3 DEF Download, Quiet, NoRequest, Goto, serverVars, historyVars
  <2>4. CASE SetAside
    BY <2>4 DEF SetAside, Quiet, NoRequest, Goto, serverVars, historyVars
  <2>5. CASE SwapIn
    BY <2>5 DEF SwapIn, Quiet, Goto, EndRun, dataVars, serverVars, IdleRun,
       NoRequest, historyVars
  <2>6. CASE VerifyInstalled
    BY <2>6 DEF VerifyInstalled, Quiet, Goto, EndRun, dataVars, serverVars, IdleRun,
       NoRequest, historyVars
  <2>7. CASE FinishDownload
    BY <2>7 DEF FinishDownload, Quiet, NoRequest, Goto, fileVars, dataVars,
       serverVars, historyVars
  <2>8. CASE Save
    BY <2>8 DEF Save, Quiet, NoRequest, Return, fileVars, dataVars, serverVars,
       historyVars
  <2> HIDE DEF TypeOK, ServerTypes
  <2> QED BY <1>7, <2>1, <2>2, <2>3, <2>4, <2>5, <2>6, <2>7, <2>8 DEF Apply
<1>8. CASE Pull
  <2>1. CASE AckCursor
    BY <2>1, ServerAckCursor
  <2> USE DEF TypeOK, ServerTypes
  <2>2. CASE PullPage
    BY <2>2 DEF PullPage, Quiet, NoRequest, dataVars, fileVars, serverVars,
       historyVars
  <2>3. CASE PageChange
    BY <2>3 DEF PageChange, Quiet, NoRequest, dataVars, fileVars, serverVars,
       historyVars
  <2>4. CASE PageDone
    BY <2>4 DEF PageDone, Quiet, NoRequest, Persist, fileVars, dataVars, serverVars,
       historyVars
  <2>5. CASE Finish
    BY <2>5 DEF Finish, Quiet, NoRequest, Persist, Goto, fileVars, dataVars,
       serverVars, historyVars
  <2>6. CASE CompleteRun
    BY <2>6 DEF CompleteRun, Quiet, EndRun, serverVars, fileVars, dataVars,
       historyVars, IdleRun, NoRequest
  <2> HIDE DEF TypeOK, ServerTypes
  <2> QED BY <1>8, <2>1, <2>2, <2>3, <2>4, <2>5, <2>6 DEF Pull
<1>9. ASSUME NEW p \in Paths, NEW content \in UserContents \cup {Absent},
   UserEdit(p, content) PROVE ServerTypes'
  BY <1>9, Zenon DEF UserEdit, NoRequest, serverVars, TypeOK, ServerTypes
<1>10. ASSUME NEW from \in Paths, NEW to \in Paths, UserRename(from, to) PROVE
   ServerTypes'
  BY <1>10, Zenon DEF UserRename, NoRequest, serverVars, TypeOK, ServerTypes
<1>11. CASE StartRun
  BY <1>11 DEF StartRun, TypeOK, ServerTypes, Quiet, NoRequest, Goto, dataVars,
     fileVars, serverVars, historyVars
<1>12. CASE Send
  BY <1>12, ServerSend
<1>13. CASE ServerMoves
  BY <1>13, ServerServerMoves
<1>14. CASE SaveEvents
  BY <1>14 DEF SaveEvents, TypeOK, ServerTypes, Quiet, NoRequest, fileVars,
     dataVars, serverVars, historyVars
<1>15. CASE RunFails
  BY <1>15 DEF RunFails, TypeOK, ServerTypes, EndRun, Spend, serverVars, IdleRun
<1>16. CASE Crash
  BY <1>16 DEF Crash, TypeOK, ServerTypes, IdleRun, Spend, serverVars, fileVars,
     dataVars, historyVars
<1>17. CASE Restart
  BY <1>17 DEF Restart, TypeOK, ServerTypes, NoRequest, dataVars, fileVars,
     historyVars, serverVars
<1>18. CASE UNCHANGED vars
  BY <1>18 DEF TypeOK, ServerTypes, vars, serverVars, fileVars, dataVars,
     historyVars
<1> QED BY <1>1, <1>2, <1>3, <1>4, <1>5, <1>6, <1>7, <1>8, <1>9, <1>10, <1>11, <1>12,
         <1>13, <1>14, <1>15, <1>16, <1>17, <1>18 DEF Next, Engine, User

-----------------------------------------------------------------------------
(* The change in hand is a version.                                        *)

\* InboxInstalled takes the download in the inbox.
LEMMA ChangeInboxInstalled == ASSUME Fields, TypeOK, InboxInstalled PROVE ChangeReady'
<1>1. mem.inbox \in Version
  BY InboxVersion DEF InboxInstalled
<1>2. run'.change = mem.inbox /\ pc' = "record"
  BY DEF InboxInstalled, Fields, HasFields, RunFields
<1> QED BY <1>1, <1>2 DEF ChangeReady

\* So does InboxReady.
LEMMA ChangeInboxReady == ASSUME Fields, TypeOK, InboxReady PROVE ChangeReady'
<1>1. mem.inbox \in Version
  BY InboxVersion DEF InboxReady
<1>2. run'.change = mem.inbox /\ pc' = "install"
  BY DEF InboxReady, Fields, HasFields, RunFields
<1> QED BY <1>1, <1>2 DEF ChangeReady

\* AnswerConflict takes the current version.
LEMMA ChangeAnswerConflict ==
    ASSUME Fields, TypeOK, Replies, AnswerConflict
    PROVE  ChangeReady'
<1> DEFINE v == CHOOSE v \in reply.versions : TRUE
<1>1. v \in Version
  BY ConflictVersion DEF AnswerConflict
<1>2. /\ run' = [run EXCEPT !.change = v, !.refused = mem.outbox.request.content]
      /\ pc' = IF mem.outbox.request.content = Absent THEN "apply" ELSE "refused"
  BY DEF AnswerConflict
<1> HIDE DEF v
<1> QED BY <1>1, <1>2 DEF ChangeReady, Fields, HasFields, RunFields

\* PreserveLocal takes the removal of a file.
LEMMA ChangePreserveLocal == ASSUME Fields, TypeOK, PreserveLocal PROVE ChangeReady'
<1>1. CASE EndRun
  BY <1>1 DEF EndRun, ChangeReady, Applying, Installing
<1>2. CASE ~EndRun
  <2>1. PICK p \in run.scope :
          /\ run' = [run EXCEPT !.scope = @ \ {p}, !.ret = "preserve",
                             !.change = [path |-> p, rev |-> 0, content |-> Absent]]
          /\ pc' = "discard"
    BY <1>2, Zenon DEF PreserveLocal
  <2>2. [path |-> p, rev |-> 0, content |-> Absent] \in Version
    BY DEF TypeOK, Run, Version, Content
  <2> QED BY <2>1, <2>2 DEF ChangeReady, Fields, HasFields, RunFields
<1> QED BY <1>1, <1>2

\* MergeSnapshot takes a version of the snapshot.
LEMMA ChangeMergeSnapshot ==
    ASSUME Fields, TypeOK, Position, Ready, MergeSnapshot
    PROVE  ChangeReady'
<1>1. CASE mem.mode = "local"
  <2>1. UNCHANGED <<pc, run>>
    BY <1>1, Zenon DEF MergeSnapshot
  <2> QED BY <2>1 DEF Ready, ChangeReady
<1>2. CASE mem.mode # "local"
  <2>1. PICK p \in MergeDue :
          run' = [run EXCEPT !.todo = @ \ {p}, !.change = SnapshotVersion(p), !.ret = "merge"]
    BY <1>2, Zenon DEF MergeSnapshot
  <2>2. SnapshotVersion(p) \in Version
    BY SnapshotVersionType DEF MergeSnapshot, MergeDue
  <2>3. pc' = "apply"
    BY <1>2, Zenon DEF MergeSnapshot
  <2> QED BY <2>1, <2>2, <2>3 DEF ChangeReady, Fields, HasFields, RunFields
<1> QED BY <1>1, <1>2

\* PageChange takes a version of the log.
LEMMA ChangePageChange ==
    ASSUME Fields, TypeOK, Position, RunTypes, PageChange
    PROVE  ChangeReady'
<1>1. /\ run' = [run EXCEPT !.at = Min(PageDue), !.change = Logged(Min(PageDue)), !.ret = "page"]
      /\ pc' = "apply"
  BY DEF PageChange
<1>2. Logged(Min(PageDue)) \in Version
  BY PageDueTypes DEF PageChange
<1> QED BY <1>1, <1>2 DEF ChangeReady, Fields, HasFields, RunFields

\* Events leave it alone.
LEMMA ChangeNoteEvents ==
    ASSUME Fields, ChangeReady, NEW ps, NEW ms, NoteEvents(ps, ms), UNCHANGED pc
    PROVE  ChangeReady'
BY DEF NoteEvents, Fields, HasFields, RunFields, ChangeReady

\* Every step keeps it so.
LEMMA ChangeStep ==
    Fields /\ TypeOK /\ Position /\ Replies /\ Calls /\ RunTypes /\ Ready /\ ChangeReady /\ [Next]_vars => ChangeReady'
<1> SUFFICES ASSUME Fields, TypeOK, Position, Replies, Calls, RunTypes, Ready,
   ChangeReady, [Next]_vars PROVE ChangeReady'
  OBVIOUS
<1>1. CASE ResumeInbox
  <2>1. CASE InboxInstalled
    BY <2>1, ChangeInboxInstalled
  <2>2. CASE InboxReady
    BY <2>2, ChangeInboxReady
  <2> USE DEF ChangeReady, Applying, Installing, Calls, Inner, Appliers, Fields,
     HasFields, RunFields, DataFields, Returns
  <2>3. CASE InboxLost
    BY <2>3 DEF InboxLost, Quiet, NoRequest, Persist, CleanUp, serverVars,
       historyVars
  <2>4. CASE InboxDone
    BY <2>4 DEF InboxDone, Quiet, NoRequest, Goto, dataVars, fileVars, serverVars,
       historyVars
  <2> HIDE DEF ChangeReady, Applying, Installing, Calls, Inner, Appliers, Fields,
     HasFields, RunFields, DataFields, Returns
  <2> QED BY <1>1, <2>1, <2>2, <2>3, <2>4 DEF ResumeInbox
<1>2. CASE ResumeOutbox
  <2> USE DEF ChangeReady, Applying, Installing, Calls, Inner, Appliers, Fields,
     HasFields, RunFields, DataFields, Returns
  <2>1. CASE OutboxCommitted
    BY <2>1 DEF OutboxCommitted, Quiet, dataVars, serverVars, fileVars, historyVars,
       NoRequest
  <2>2. CASE OutboxResent
    BY <2>2 DEF OutboxResent, Quiet, NoRequest, dataVars, fileVars, serverVars,
       historyVars
  <2>3. CASE OutboxAbandoned
    BY <2>3 DEF OutboxAbandoned, Quiet, NoRequest, Persist, Discarded, Queued,
       fileVars, dataVars, serverVars, historyVars
  <2>4. CASE OutboxDone
    BY <2>4 DEF OutboxDone, Quiet, NoRequest, Goto, BeginRenames, dataVars,
       fileVars, serverVars, historyVars
  <2> HIDE DEF ChangeReady, Applying, Installing, Calls, Inner, Appliers, Fields,
     HasFields, RunFields, DataFields, Returns
  <2> QED BY <1>2, <2>1, <2>2, <2>3, <2>4 DEF ResumeOutbox
<1>3. CASE Reconcile
  <2>1. CASE PreserveLocal
    BY <2>1, ChangePreserveLocal
  <2>2. CASE MergeSnapshot
    BY <2>2, ChangeMergeSnapshot
  <2> USE DEF ChangeReady, Applying, Installing, Calls, Inner, Appliers, Fields,
     HasFields, RunFields, DataFields, Returns
  <2>3. CASE ReadSnapshot
    BY <2>3 DEF ReadSnapshot, Quiet, NoRequest, dataVars, fileVars, serverVars,
       historyVars
  <2>4. CASE DiscardLocal
    BY <2>4 DEF DiscardLocal, Quiet, Return, EndRun, dataVars, serverVars, IdleRun,
       NoRequest, historyVars
  <2>5. CASE PreserveDone
    BY <2>5 DEF PreserveDone, Quiet, NoRequest, Goto, dataVars, fileVars,
       serverVars, historyVars
  <2>6. CASE MergeDone
    BY <2>6 DEF MergeDone, Quiet, NoRequest, Persist, BeginRenames, fileVars,
       dataVars, serverVars, historyVars
  <2> HIDE DEF ChangeReady, Applying, Installing, Calls, Inner, Appliers, Fields,
     HasFields, RunFields, DataFields, Returns
  <2> QED BY <1>3, <2>1, <2>2, <2>3, <2>4, <2>5, <2>6 DEF Reconcile
<1>4. CASE Renames
  <2> USE DEF ChangeReady, Applying, Installing, Calls, Inner, Appliers, Fields,
     HasFields, RunFields, DataFields, Returns
  <2>1. CASE RenameSkipped
    BY <2>1 DEF RenameSkipped, Quiet, NoRequest, fileVars, dataVars, serverVars,
       historyVars
  <2>2. CASE RenameStaged
    BY <2>2 DEF RenameStaged, Quiet, Stage, fileVars, dataVars, serverVars,
       historyVars, Persist, NoRequest
  <2>3. CASE RenamesDone
    BY <2>3 DEF RenamesDone, Quiet, NoRequest, Goto, fileVars, dataVars, serverVars,
       historyVars
  <2> HIDE DEF ChangeReady, Applying, Installing, Calls, Inner, Appliers, Fields,
     HasFields, RunFields, DataFields, Returns
  <2> QED BY <1>4, <2>1, <2>2, <2>3 DEF Renames
<1>5. CASE Push
  <2> USE DEF ChangeReady, Applying, Installing, Calls, Inner, Appliers, Fields,
     HasFields, RunFields, DataFields, Returns
  <2>1. CASE PlanFull
    BY <2>1 DEF PlanFull, Plan, Quiet, NoRequest, dataVars, fileVars, serverVars,
       historyVars
  <2>2. CASE PlanQueued
    BY <2>2 DEF PlanQueued, Plan, Quiet, NoRequest, dataVars, fileVars, serverVars,
       historyVars
  <2>3. CASE PushDone
    BY <2>3 DEF PushDone, Quiet, NoRequest, Stage, dataVars, fileVars, serverVars,
       historyVars, Persist
  <2>4. CASE DeletesDone
    BY <2>4 DEF DeletesDone, Quiet, NoRequest, fileVars, dataVars, serverVars,
       historyVars
  <2>5. ASSUME NEW p \in Paths, ScanPath(p) PROVE ChangeReady'
    BY <2>5 DEF ScanPath, Quiet, NoRequest, dataVars, fileVars, serverVars,
       historyVars
  <2>6. ASSUME NEW p \in Paths, PushPath(p) PROVE ChangeReady'
    BY <2>6 DEF PushPath, Quiet, NoRequest, Stage, Queued, Unnoted, fileVars,
       dataVars, serverVars, historyVars, Persist
  <2>7. ASSUME NEW p \in Paths, DeletePath(p) PROVE ChangeReady'
    BY <2>7 DEF DeletePath, Quiet, Stage, fileVars, dataVars, serverVars,
       historyVars, Persist, NoRequest
  <2> HIDE DEF ChangeReady, Applying, Installing, Calls, Inner, Appliers, Fields,
     HasFields, RunFields, DataFields, Returns
  <2> QED BY <1>5, <2>1, <2>2, <2>3, <2>4, <2>5, <2>6, <2>7 DEF Push
<1>6. CASE Answered
  <2>1. CASE AnswerConflict
    BY <2>1, ChangeAnswerConflict
  <2> USE DEF ChangeReady, Applying, Installing, Calls, Inner, Appliers, Fields,
     HasFields, RunFields, DataFields, Returns
  <2>2. CASE AnswerApplied
    BY <2>2 DEF AnswerApplied, Quiet, Goto, Return, Complete, Queued, serverVars,
       fileVars, dataVars, historyVars, NoRequest
  <2>3. CASE KeepRefused
    BY <2>3 DEF KeepRefused, Quiet, NoRequest, dataVars, serverVars, historyVars
  <2>4. CASE AnswerMoved
    BY <2>4 DEF AnswerMoved, Quiet, Goto, Complete, serverVars, fileVars, dataVars,
       historyVars, NoRequest
  <2>5. CASE AnswerMoveConflict
    BY <2>5 DEF AnswerMoveConflict, Quiet, Goto, Return, Discarded, Queued,
       serverVars, fileVars, dataVars, historyVars, NoRequest
  <2>6. CASE AnswerBatch
    BY <2>6 DEF AnswerBatch, Quiet, Complete, serverVars, fileVars, dataVars,
       historyVars, NoRequest
  <2>7. CASE AnswerBatchConflict
    BY <2>7 DEF AnswerBatchConflict, Quiet, Persist, Discarded, Queued, serverVars,
       fileVars, dataVars, historyVars, NoRequest
  <2> HIDE DEF ChangeReady, Applying, Installing, Calls, Inner, Appliers, Fields,
     HasFields, RunFields, DataFields, Returns
  <2> QED BY <1>6, <2>1, <2>2, <2>3, <2>4, <2>5, <2>6, <2>7 DEF Answered
<1>7. CASE Apply
  <2> USE DEF ChangeReady, Applying, Installing, Calls, Inner, Appliers, Fields,
     HasFields, RunFields, DataFields, Returns
  <2>1. CASE ApplyRemoteChange
    BY <2>1 DEF ApplyRemoteChange, Quiet, NoRequest, Goto, Return, StageDownload,
       dataVars, Persist, serverVars, historyVars
  <2>2. CASE RemoveLocal
    BY <2>2 DEF RemoveLocal, Quiet, Return, EndRun, serverVars, IdleRun, NoRequest,
       historyVars
  <2>3. CASE Download
    BY <2>3 DEF Download, Quiet, NoRequest, Goto, serverVars, historyVars
  <2>4. CASE SetAside
    BY <2>4 DEF SetAside, Quiet, NoRequest, Goto, serverVars, historyVars
  <2>5. CASE SwapIn
    BY <2>5 DEF SwapIn, Quiet, Goto, EndRun, dataVars, serverVars, IdleRun,
       NoRequest, historyVars
  <2>6. CASE VerifyInstalled
    BY <2>6 DEF VerifyInstalled, Quiet, Goto, EndRun, dataVars, serverVars, IdleRun,
       NoRequest, historyVars
  <2>7. CASE FinishDownload
    BY <2>7 DEF FinishDownload, Quiet, NoRequest, Goto, fileVars, dataVars,
       serverVars, historyVars
  <2>8. CASE Save
    BY <2>8 DEF Save, Quiet, NoRequest, Return, fileVars, dataVars, serverVars,
       historyVars
  <2> HIDE DEF ChangeReady, Applying, Installing, Calls, Inner, Appliers, Fields,
     HasFields, RunFields, DataFields, Returns
  <2> QED BY <1>7, <2>1, <2>2, <2>3, <2>4, <2>5, <2>6, <2>7, <2>8 DEF Apply
<1>8. CASE Pull
  <2>1. CASE PageChange
    BY <2>1, ChangePageChange
  <2> USE DEF ChangeReady, Applying, Installing, Calls, Inner, Appliers, Fields,
     HasFields, RunFields, DataFields, Returns
  <2>2. CASE PullPage
    BY <2>2 DEF PullPage, Quiet, NoRequest, dataVars, fileVars, serverVars,
       historyVars
  <2>3. CASE PageDone
    BY <2>3 DEF PageDone, Quiet, NoRequest, Persist, fileVars, dataVars, serverVars,
       historyVars
  <2>4. CASE Finish
    BY <2>4 DEF Finish, Quiet, NoRequest, Persist, Goto, fileVars, dataVars,
       serverVars, historyVars
  <2>5. CASE AckCursor
    BY <2>5 DEF AckCursor, Quiet, Goto, Acknowledge, dataVars, fileVars, serverVars,
       historyVars, NoRequest
  <2>6. CASE CompleteRun
    BY <2>6 DEF CompleteRun, Quiet, EndRun, serverVars, fileVars, dataVars,
       historyVars, IdleRun, NoRequest
  <2> HIDE DEF ChangeReady, Applying, Installing, Calls, Inner, Appliers, Fields,
     HasFields, RunFields, DataFields, Returns
  <2> QED BY <1>8, <2>1, <2>2, <2>3, <2>4, <2>5, <2>6 DEF Pull
<1>9. ASSUME NEW p \in Paths, NEW content \in UserContents \cup {Absent},
   UserEdit(p, content) PROVE ChangeReady'
  BY <1>9, ChangeNoteEvents DEF UserEdit
<1>10. ASSUME NEW from \in Paths, NEW to \in Paths, UserRename(from, to) PROVE
   ChangeReady'
  BY <1>10, ChangeNoteEvents DEF UserRename
<1>11. CASE StartRun
  BY <1>11 DEF StartRun, ChangeReady, Applying, Installing, Calls, Inner, Appliers,
     Fields, HasFields, RunFields, DataFields, Returns, Quiet, NoRequest, Goto,
     dataVars, fileVars, serverVars, historyVars
<1>12. CASE Send
  BY <1>12 DEF Send, ChangeReady, Applying, Installing, Calls, Inner, Appliers,
     Fields, HasFields, RunFields, DataFields, Returns, Quiet, Goto, dataVars,
     fileVars, serverVars, historyVars, NoRequest
<1>13. CASE ServerMoves
  BY <1>13 DEF ServerMoves, ChangeReady, Applying, Installing, Calls, Inner,
     Appliers, Fields, HasFields, RunFields, DataFields, Returns, Spend, dataVars,
     fileVars, serverVars, historyVars
<1>14. CASE SaveEvents
  BY <1>14 DEF SaveEvents, ChangeReady, Applying, Installing, Calls, Inner,
     Appliers, Fields, HasFields, RunFields, DataFields, Returns, Quiet, NoRequest,
     fileVars, dataVars, serverVars, historyVars
<1>15. CASE RunFails
  BY <1>15 DEF RunFails, ChangeReady, Applying, Installing, Calls, Inner, Appliers,
     Fields, HasFields, RunFields, DataFields, Returns, EndRun, Spend, serverVars,
     IdleRun
<1>16. CASE Crash
  BY <1>16 DEF Crash, ChangeReady, Applying, Installing, Calls, Inner, Appliers,
     Fields, HasFields, RunFields, DataFields, Returns, IdleRun, Spend, serverVars,
     fileVars, dataVars, historyVars
<1>17. CASE Restart
  BY <1>17 DEF Restart, ChangeReady, Applying, Installing, Calls, Inner, Appliers,
     Fields, HasFields, RunFields, DataFields, Returns, NoRequest, dataVars,
     fileVars, historyVars, serverVars
<1>18. CASE UNCHANGED vars
  BY <1>18 DEF ChangeReady, Applying, Installing, Calls, Inner, Appliers, Fields,
     HasFields, RunFields, DataFields, Returns, vars, serverVars, fileVars,
     dataVars, historyVars
<1> QED BY <1>1, <1>2, <1>3, <1>4, <1>5, <1>6, <1>7, <1>8, <1>9, <1>10, <1>11, <1>12,
         <1>13, <1>14, <1>15, <1>16, <1>17, <1>18 DEF Next, Engine, User

-----------------------------------------------------------------------------
(* No more renames are processed than are queued.                          *)

\* Where no rename is processed.
LEMMA MovesElsewhere ==
    ASSUME pc' # "renames", pc' \in {"send", "answer", "save"} => run'.ret # "renames"
    PROVE  MovesReady'
BY DEF MovesReady

\* A change is not applied for a rename.
LEMMA MovesReturned ==
    ASSUME Fields, Calls, pc \in {"apply", "remove", "discard"}, Return
    PROVE  MovesReady'
<1>1. pc' \in Appliers \cup {"preserve"} /\ run'.ret = "idle"
  BY DEF Calls, Return, Fields, HasFields, RunFields
<1> QED BY <1>1, MovesElsewhere DEF Appliers

\* ApplyRemoteChange goes on or returns.
LEMMA MovesApplyRemoteChange == ASSUME Fields, Calls, ApplyRemoteChange PROVE MovesReady'
<1>1. pc = "apply" /\ (Return \/ pc' \in {"remove", "download"})
  BY DEF ApplyRemoteChange, Goto
<1> QED BY <1>1, MovesReturned, MovesElsewhere

\* RemoveLocal ends the run or returns.
LEMMA MovesRemoveLocal == ASSUME Fields, Calls, RemoveLocal PROVE MovesReady'
<1>1. pc = "remove" /\ (Return \/ pc' = "idle")
  BY DEF RemoveLocal, EndRun
<1> QED BY <1>1, MovesReturned, MovesElsewhere

\* A download is not for a rename.
LEMMA MovesFinishDownload == ASSUME Fields, Calls, FinishDownload PROVE MovesReady'
<1>1. pc' = "save" /\ run' = run /\ run.ret \in Appliers \cup {"inbox"}
  BY DEF FinishDownload, Goto, Calls
<1> QED BY <1>1, MovesElsewhere DEF Appliers

\* The rename that was answered leaves the queue.
LEMMA MovesAnswerMoved == ASSUME Fields, TypeOK, Calls, MovesReady, AnswerMoved PROVE MovesReady'
<1>1. pc' = "save" /\ run' = run /\ pc = "answer"
  BY DEF AnswerMoved, Goto
<1>2. CASE run.ret = "renames"
  <2>1. mem'.renames = Tail(mem.renames)
    BY <1>2 DEF AnswerMoved, Recovering, Complete, Fields, HasFields, DataFields
  <2>2. mem.renames \in Seq(Move) /\ run.moves < Len(mem.renames) /\ run.moves \in Nat
    BY <1>1, <1>2 DEF MovesReady, TypeOK, Data, Run
  <2>3. Len(Tail(mem.renames)) = Len(mem.renames) - 1 /\ Len(mem.renames) \in Nat
    BY <2>2
  <2>4. run.moves <= Len(mem'.renames)
    BY <2>1, <2>2, <2>3
  <2> QED BY <1>1, <2>4 DEF MovesReady
<1> QED BY <1>1, <1>2, MovesElsewhere

\* So does one that was refused.
LEMMA MovesAnswerMoveConflict ==
    ASSUME Fields, TypeOK, Calls, MovesReady, AnswerMoveConflict
    PROVE  MovesReady'
<1>1. pc = "answer"
  BY DEF AnswerMoveConflict
<1>2. CASE Recovering
  BY <1>2, MovesElsewhere DEF AnswerMoveConflict, Recovering, Goto
<1>3. CASE ~Recovering
  <2>1. run.ret = "renames"
    BY <1>3 DEF AnswerMoveConflict, Recovering, Calls
  <2>2. mem'.renames = Tail(mem.renames)
    BY <1>3 DEF AnswerMoveConflict, Discarded, Fields, HasFields, DataFields
  <2>3. mem.renames \in Seq(Move) /\ run.moves < Len(mem.renames) /\ run.moves \in Nat
    BY <1>1, <2>1 DEF MovesReady, TypeOK, Data, Run
  <2>4. Len(Tail(mem.renames)) = Len(mem.renames) - 1 /\ Len(mem.renames) \in Nat
    BY <2>3
  <2>5. pc' = "renames" /\ run'.moves = run.moves
    BY <1>3, <2>1 DEF AnswerMoveConflict, Return, Fields, HasFields, RunFields
  <2>6. run'.moves <= Len(mem'.renames)
    BY <2>2, <2>3, <2>4, <2>5
  <2> QED BY <2>5, <2>6 DEF MovesReady
<1> QED BY <1>2, <1>3

\* The renames are counted before they are processed.
LEMMA MovesBegun ==
    ASSUME Fields, TypeOK, BeginRenames, mem'.renames = mem.renames
    PROVE  MovesReady'
<1>1. Len(mem.renames) \in Nat
  BY DEF TypeOK, Data
<1>2. pc' = "renames" /\ run'.moves = Len(mem.renames)
  BY DEF BeginRenames, Fields, HasFields, RunFields
<1> QED BY <1>1, <1>2 DEF MovesReady

\* OutboxDone begins with them, or with the snapshot.
LEMMA MovesOutboxDone == ASSUME Fields, TypeOK, OutboxDone PROVE MovesReady'
<1>1. mem' = mem /\ (BeginRenames \/ pc' = "snapshot")
  BY DEF OutboxDone, Goto, dataVars
<1> QED BY <1>1, MovesBegun, MovesElsewhere

\* MergeDone begins with them.
LEMMA MovesMergeDone == ASSUME Fields, TypeOK, MergeDone PROVE MovesReady'
<1>1. mem'.renames = mem.renames /\ BeginRenames
  BY DEF MergeDone, Persist, Fields, HasFields, DataFields
<1> QED BY <1>1, MovesBegun

\* The rename that is skipped leaves the queue.
LEMMA MovesRenameSkipped == ASSUME Fields, TypeOK, MovesReady, RenameSkipped PROVE MovesReady'
<1>1. mem.renames \in Seq(Move) /\ run.moves <= Len(mem.renames) /\ run.moves \in Nat
      /\ run.moves > 0
  BY DEF RenameSkipped, MovesReady, TypeOK, Data, Run
<1>2. Len(Tail(mem.renames)) = Len(mem.renames) - 1 /\ Len(mem.renames) \in Nat
  BY <1>1
<1>3. mem'.renames = Tail(mem.renames) /\ run'.moves = run.moves - 1 /\ pc' = "renames"
  BY DEF RenameSkipped, Fields, HasFields, DataFields, RunFields
<1>4. run'.moves <= Len(mem'.renames)
  BY <1>1, <1>2, <1>3
<1> QED BY <1>3, <1>4 DEF MovesReady

\* The rename that is sent stays until it is answered.
LEMMA MovesRenameStaged == ASSUME Fields, TypeOK, MovesReady, RenameStaged PROVE MovesReady'
<1>1. run.moves <= Len(mem.renames) /\ run.moves \in Nat /\ run.moves > 0
      /\ Len(mem.renames) \in Nat
  BY DEF RenameStaged, MovesReady, TypeOK, Data, Run
<1>2. \E q : Stage(q)
  BY DEF RenameStaged
<1>3. mem'.renames = mem.renames /\ pc' = "send"
  BY <1>2, Staged DEF DataFields
<1>4. run'.moves = run.moves - 1
  BY DEF RenameStaged, Fields, HasFields, RunFields
<1>5. run'.moves < Len(mem'.renames)
  BY <1>1, <1>3, <1>4
<1> QED BY <1>3, <1>5 DEF MovesReady

\* Other requests are not for a rename.
LEMMA MovesStaged ==
    ASSUME Fields, NEW q, Stage(q), run'.ret \in {"push", "pull", "deletes"}
    PROVE  MovesReady'
BY Staged, MovesElsewhere

\* Events only extend the queue.
LEMMA MovesNoteEvents ==
    ASSUME Fields, TypeOK, MovesReady, NEW ps, NEW ms \in Seq(Move), NoteEvents(ps, ms), UNCHANGED pc
    PROVE  MovesReady'
<1>1. run'.ret = run.ret /\ run'.moves = run.moves
  BY DEF NoteEvents, Fields, HasFields, RunFields
<1>2. mem'.renames \in {mem.renames, mem.renames \o ms}
  BY DEF NoteEvents, Fields, HasFields, DataFields
<1>3. mem.renames \in Seq(Move) /\ run.moves \in Nat
  BY DEF TypeOK, Data, Run
<1>4. Len(mem.renames \o ms) \in Nat /\ Len(mem.renames) \in Nat
      /\ Len(mem.renames) <= Len(mem.renames \o ms)
  BY <1>3
<1>5. Len(mem'.renames) \in Nat /\ Len(mem.renames) <= Len(mem'.renames)
  BY <1>2, <1>4
<1> QED BY <1>1, <1>3, <1>4, <1>5 DEF MovesReady

\* Every step keeps it so.
LEMMA MovesStep ==
    Fields /\ TypeOK /\ Calls /\ MovesReady /\ [Next]_vars => MovesReady'
<1> SUFFICES ASSUME Fields, TypeOK, Calls, MovesReady, [Next]_vars PROVE MovesReady'
  OBVIOUS
<1>1. CASE ResumeInbox
  <2> USE DEF MovesReady, Calls, Inner, Fields, HasFields, RunFields, DataFields,
     Returns
  <2>1. CASE InboxInstalled
    BY <2>1 DEF InboxInstalled, Quiet, NoRequest, dataVars, CleanUp, serverVars,
       historyVars
  <2>2. CASE InboxReady
    BY <2>2 DEF InboxReady, Quiet, NoRequest, dataVars, fileVars, serverVars,
       historyVars
  <2>3. CASE InboxLost
    BY <2>3 DEF InboxLost, Quiet, NoRequest, Persist, CleanUp, serverVars,
       historyVars
  <2>4. CASE InboxDone
    BY <2>4 DEF InboxDone, Quiet, NoRequest, Goto, dataVars, fileVars, serverVars,
       historyVars
  <2> HIDE DEF MovesReady, Calls, Inner, Fields, HasFields, RunFields, DataFields,
     Returns
  <2> QED BY <1>1, <2>1, <2>2, <2>3, <2>4 DEF ResumeInbox
<1>2. CASE ResumeOutbox
  <2>1. CASE OutboxDone
    BY <2>1, MovesOutboxDone
  <2> USE DEF MovesReady, Calls, Inner, Fields, HasFields, RunFields, DataFields,
     Returns
  <2>2. CASE OutboxCommitted
    BY <2>2 DEF OutboxCommitted, Quiet, dataVars, serverVars, fileVars, historyVars,
       NoRequest
  <2>3. CASE OutboxResent
    BY <2>3 DEF OutboxResent, Quiet, NoRequest, dataVars, fileVars, serverVars,
       historyVars
  <2>4. CASE OutboxAbandoned
    BY <2>4 DEF OutboxAbandoned, Quiet, NoRequest, Persist, Discarded, Queued,
       fileVars, dataVars, serverVars, historyVars
  <2> HIDE DEF MovesReady, Calls, Inner, Fields, HasFields, RunFields, DataFields,
     Returns
  <2> QED BY <1>2, <2>1, <2>2, <2>3, <2>4 DEF ResumeOutbox
<1>3. CASE Reconcile
  <2>1. CASE MergeDone
    BY <2>1, MovesMergeDone
  <2> USE DEF MovesReady, Calls, Inner, Fields, HasFields, RunFields, DataFields,
     Returns
  <2>2. CASE ReadSnapshot
    BY <2>2 DEF ReadSnapshot, Quiet, NoRequest, dataVars, fileVars, serverVars,
       historyVars
  <2>3. CASE PreserveLocal
    BY <2>3 DEF PreserveLocal, Quiet, EndRun, dataVars, serverVars, IdleRun,
       NoRequest, historyVars
  <2>4. CASE DiscardLocal
    BY <2>4 DEF DiscardLocal, Quiet, Return, EndRun, dataVars, serverVars, IdleRun,
       NoRequest, historyVars
  <2>5. CASE PreserveDone
    BY <2>5 DEF PreserveDone, Quiet, NoRequest, Goto, dataVars, fileVars,
       serverVars, historyVars
  <2>6. CASE MergeSnapshot
    BY <2>6 DEF MergeSnapshot, NoRequest, fileVars, dataVars, serverVars,
       historyVars
  <2> HIDE DEF MovesReady, Calls, Inner, Fields, HasFields, RunFields, DataFields,
     Returns
  <2> QED BY <1>3, <2>1, <2>2, <2>3, <2>4, <2>5, <2>6 DEF Reconcile
<1>4. CASE Renames
  <2>1. CASE RenameSkipped
    BY <2>1, MovesRenameSkipped
  <2>2. CASE RenameStaged
    BY <2>2, MovesRenameStaged
  <2> USE DEF MovesReady, Calls, Inner, Fields, HasFields, RunFields, DataFields,
     Returns
  <2>3. CASE RenamesDone
    BY <2>3 DEF RenamesDone, Quiet, NoRequest, Goto, fileVars, dataVars, serverVars,
       historyVars
  <2> HIDE DEF MovesReady, Calls, Inner, Fields, HasFields, RunFields, DataFields,
     Returns
  <2> QED BY <1>4, <2>1, <2>2, <2>3 DEF Renames
<1>5. CASE Push
  <2> USE DEF MovesReady, Calls, Inner, Fields, HasFields, RunFields, DataFields,
     Returns
  <2>1. CASE PlanFull
    BY <2>1 DEF PlanFull, Plan, Quiet, NoRequest, dataVars, fileVars, serverVars,
       historyVars
  <2>2. CASE PlanQueued
    BY <2>2 DEF PlanQueued, Plan, Quiet, NoRequest, dataVars, fileVars, serverVars,
       historyVars
  <2>3. CASE PushDone
    BY <2>3 DEF PushDone, Quiet, NoRequest, Stage, dataVars, fileVars, serverVars,
       historyVars, Persist
  <2>4. CASE DeletesDone
    BY <2>4 DEF DeletesDone, Quiet, NoRequest, fileVars, dataVars, serverVars,
       historyVars
  <2>5. ASSUME NEW p \in Paths, ScanPath(p) PROVE MovesReady'
    BY <2>5 DEF ScanPath, Quiet, NoRequest, dataVars, fileVars, serverVars,
       historyVars
  <2>6. ASSUME NEW p \in Paths, PushPath(p) PROVE MovesReady'
    BY <2>6 DEF PushPath, Quiet, NoRequest, Stage, Queued, Unnoted, fileVars,
       dataVars, serverVars, historyVars, Persist
  <2>7. ASSUME NEW p \in Paths, DeletePath(p) PROVE MovesReady'
    BY <2>7 DEF DeletePath, Quiet, Stage, fileVars, dataVars, serverVars,
       historyVars, Persist, NoRequest
  <2> HIDE DEF MovesReady, Calls, Inner, Fields, HasFields, RunFields, DataFields,
     Returns
  <2> QED BY <1>5, <2>1, <2>2, <2>3, <2>4, <2>5, <2>6, <2>7 DEF Push
<1>6. CASE Answered
  <2>1. CASE AnswerMoved
    BY <2>1, MovesAnswerMoved
  <2>2. CASE AnswerMoveConflict
    BY <2>2, MovesAnswerMoveConflict
  <2> USE DEF MovesReady, Calls, Inner, Fields, HasFields, RunFields, DataFields,
     Returns
  <2>3. CASE AnswerApplied
    BY <2>3 DEF AnswerApplied, Quiet, Goto, Return, Complete, Queued, serverVars,
       fileVars, dataVars, historyVars, NoRequest
  <2>4. CASE AnswerConflict
    BY <2>4 DEF AnswerConflict, Quiet, Persist, Discarded, serverVars, fileVars,
       dataVars, historyVars, NoRequest
  <2>5. CASE KeepRefused
    BY <2>5 DEF KeepRefused, Quiet, NoRequest, dataVars, serverVars, historyVars
  <2>6. CASE AnswerBatch
    BY <2>6 DEF AnswerBatch, Quiet, Complete, serverVars, fileVars, dataVars,
       historyVars, NoRequest
  <2>7. CASE AnswerBatchConflict
    BY <2>7 DEF AnswerBatchConflict, Quiet, Persist, Discarded, Queued, serverVars,
       fileVars, dataVars, historyVars, NoRequest
  <2> HIDE DEF MovesReady, Calls, Inner, Fields, HasFields, RunFields, DataFields,
     Returns
  <2> QED BY <1>6, <2>1, <2>2, <2>3, <2>4, <2>5, <2>6, <2>7 DEF Answered
<1>7. CASE Apply
  <2>1. CASE ApplyRemoteChange
    BY <2>1, MovesApplyRemoteChange
  <2>2. CASE RemoveLocal
    BY <2>2, MovesRemoveLocal
  <2>3. CASE FinishDownload
    BY <2>3, MovesFinishDownload
  <2> USE DEF MovesReady, Calls, Inner, Fields, HasFields, RunFields, DataFields,
     Returns
  <2>4. CASE Download
    BY <2>4 DEF Download, Quiet, NoRequest, Goto, serverVars, historyVars
  <2>5. CASE SetAside
    BY <2>5 DEF SetAside, Quiet, NoRequest, Goto, serverVars, historyVars
  <2>6. CASE SwapIn
    BY <2>6 DEF SwapIn, Quiet, Goto, EndRun, dataVars, serverVars, IdleRun,
       NoRequest, historyVars
  <2>7. CASE VerifyInstalled
    BY <2>7 DEF VerifyInstalled, Quiet, Goto, EndRun, dataVars, serverVars, IdleRun,
       NoRequest, historyVars
  <2>8. CASE Save
    BY <2>8 DEF Save, Quiet, NoRequest, Return, fileVars, dataVars, serverVars,
       historyVars
  <2> HIDE DEF MovesReady, Calls, Inner, Fields, HasFields, RunFields, DataFields,
     Returns
  <2> QED BY <1>7, <2>1, <2>2, <2>3, <2>4, <2>5, <2>6, <2>7, <2>8 DEF Apply
<1>8. CASE Pull
  <2> USE DEF MovesReady, Calls, Inner, Fields, HasFields, RunFields, DataFields,
     Returns
  <2>1. CASE PullPage
    BY <2>1 DEF PullPage, Quiet, NoRequest, dataVars, fileVars, serverVars,
       historyVars
  <2>2. CASE PageChange
    BY <2>2 DEF PageChange, Quiet, NoRequest, dataVars, fileVars, serverVars,
       historyVars
  <2>3. CASE PageDone
    BY <2>3 DEF PageDone, Quiet, NoRequest, Persist, fileVars, dataVars, serverVars,
       historyVars
  <2>4. CASE Finish
    BY <2>4 DEF Finish, Quiet, NoRequest, Persist, Goto, fileVars, dataVars,
       serverVars, historyVars
  <2>5. CASE AckCursor
    BY <2>5 DEF AckCursor, Quiet, Goto, Acknowledge, dataVars, fileVars, serverVars,
       historyVars, NoRequest
  <2>6. CASE CompleteRun
    BY <2>6 DEF CompleteRun, Quiet, EndRun, serverVars, fileVars, dataVars,
       historyVars, IdleRun, NoRequest
  <2> HIDE DEF MovesReady, Calls, Inner, Fields, HasFields, RunFields, DataFields,
     Returns
  <2> QED BY <1>8, <2>1, <2>2, <2>3, <2>4, <2>5, <2>6 DEF Pull
<1>9. ASSUME NEW p \in Paths, NEW content \in UserContents \cup {Absent},
   UserEdit(p, content) PROVE MovesReady'
  BY <1>9, MovesNoteEvents, EmptySeqType DEF UserEdit
<1>10. ASSUME NEW from \in Paths, NEW to \in Paths, UserRename(from, to) PROVE
   MovesReady'
  BY <1>10, MovesNoteEvents, OneMoveType DEF UserRename
<1>11. CASE StartRun
  BY <1>11 DEF StartRun, MovesReady, Calls, Inner, Fields, HasFields, RunFields,
     DataFields, Returns, Quiet, NoRequest, Goto, dataVars, fileVars, serverVars,
     historyVars
<1>12. CASE Send
  BY <1>12 DEF Send, MovesReady, Calls, Inner, Fields, HasFields, RunFields,
     DataFields, Returns, Quiet, Goto, dataVars, fileVars, serverVars, historyVars,
     NoRequest
<1>13. CASE ServerMoves
  BY <1>13 DEF ServerMoves, MovesReady, Calls, Inner, Fields, HasFields, RunFields,
     DataFields, Returns, Spend, dataVars, fileVars, serverVars, historyVars
<1>14. CASE SaveEvents
  BY <1>14 DEF SaveEvents, MovesReady, Calls, Inner, Fields, HasFields, RunFields,
     DataFields, Returns, Quiet, NoRequest, fileVars, dataVars, serverVars,
     historyVars
<1>15. CASE RunFails
  BY <1>15 DEF RunFails, MovesReady, Calls, Inner, Fields, HasFields, RunFields,
     DataFields, Returns, EndRun, Spend, serverVars, IdleRun
<1>16. CASE Crash
  BY <1>16 DEF Crash, MovesReady, Calls, Inner, Fields, HasFields, RunFields,
     DataFields, Returns, IdleRun, Spend, serverVars, fileVars, dataVars,
     historyVars
<1>17. CASE Restart
  BY <1>17 DEF Restart, MovesReady, Calls, Inner, Fields, HasFields, RunFields,
     DataFields, Returns, NoRequest, dataVars, fileVars, historyVars, serverVars
<1>18. CASE UNCHANGED vars
  BY <1>18 DEF MovesReady, Calls, Inner, Fields, HasFields, RunFields, DataFields,
     Returns, vars, serverVars, fileVars, dataVars, historyVars
<1> QED BY <1>1, <1>2, <1>3, <1>4, <1>5, <1>6, <1>7, <1>8, <1>9, <1>10, <1>11, <1>12,
         <1>13, <1>14, <1>15, <1>16, <1>17, <1>18 DEF Next, Engine, User

-----------------------------------------------------------------------------
(* The paths of a snapshot are those of its part of the log.               *)

\* Outside a snapshot, and where its paths only become fewer.
LEMMA SnapshotKept ==
    ASSUME Position, SnapshotReady, UNCHANGED log,
           InSnapshot' => InSnapshot,
           InSnapshot => run'.todo \subseteq run.todo /\ run'.upto = run.upto
    PROVE  SnapshotReady'
BY DEF SnapshotReady

\* A procedure returns with the paths it was called with.
LEMMA SnapshotReturned ==
    ASSUME Fields, Position, SnapshotReady, UNCHANGED log, Return
    PROVE  SnapshotReady'
<1>1. pc' = run.ret /\ run'.ret = "idle" /\ run'.todo = run.todo /\ run'.upto = run.upto
  BY DEF Return, Fields, HasFields, RunFields
<1> QED BY <1>1, SnapshotKept DEF InSnapshot

\* A run that ends is in no snapshot.
LEMMA SnapshotEnded == ASSUME pc' = "idle", run' = IdleRun PROVE SnapshotReady'
BY DEF SnapshotReady, InSnapshot, IdleRun

\* ApplyRemoteChange goes on or returns.
LEMMA SnapshotApplyRemoteChange ==
    ASSUME Fields, Position, SnapshotReady, ApplyRemoteChange
    PROVE  SnapshotReady'
<1>1. UNCHANGED log /\ (Return \/ Goto("remove") \/ Goto("download"))
  BY DEF ApplyRemoteChange, NoRequest, serverVars
<1>2. CASE Goto("remove") \/ Goto("download")
  BY <1>1, <1>2, SnapshotKept DEF Goto, InSnapshot
<1> QED BY <1>1, <1>2, SnapshotReturned

\* RemoveLocal ends the run or returns.
LEMMA SnapshotRemoveLocal ==
    ASSUME Fields, Position, SnapshotReady, RemoveLocal
    PROVE  SnapshotReady'
<1>1. UNCHANGED log /\ (Return \/ EndRun)
  BY DEF RemoveLocal, serverVars
<1> QED BY <1>1, SnapshotReturned, SnapshotEnded DEF EndRun

\* So does DiscardLocal.
LEMMA SnapshotDiscardLocal ==
    ASSUME Fields, Position, SnapshotReady, DiscardLocal
    PROVE  SnapshotReady'
<1>1. UNCHANGED log /\ (Return \/ EndRun)
  BY DEF DiscardLocal, serverVars
<1> QED BY <1>1, SnapshotReturned, SnapshotEnded DEF EndRun

\* PreserveLocal calls a removal.
LEMMA SnapshotPreserveLocal ==
    ASSUME Fields, Position, SnapshotReady, PreserveLocal
    PROVE  SnapshotReady'
<1>1. CASE EndRun
  BY <1>1, SnapshotEnded DEF EndRun
<1>2. CASE ~EndRun
  <2>1. PICK p : run' = [run EXCEPT !.scope = @ \ {p}, !.ret = "preserve",
                             !.change = [path |-> p, rev |-> 0, content |-> Absent]]
    BY <1>2, Zenon DEF PreserveLocal
  <2>2. run'.todo = run.todo /\ run'.upto = run.upto
    BY <2>1 DEF Fields, HasFields, RunFields
  <2>3. pc = "preserve" /\ UNCHANGED log
    BY DEF PreserveLocal, serverVars
  <2> QED BY <2>2, <2>3, SnapshotKept DEF InSnapshot
<1> QED BY <1>1, <1>2

\* MergeSnapshot calls the application of a version.
LEMMA SnapshotMergeSnapshot ==
    ASSUME Fields, Position, SnapshotReady, MergeSnapshot
    PROVE  SnapshotReady'
<1>1. pc = "merge" /\ UNCHANGED log
  BY Zenon DEF MergeSnapshot, NoRequest, serverVars
<1>2. CASE mem.mode = "local"
  <2>1. UNCHANGED run
    BY <1>2, Zenon DEF MergeSnapshot
  <2> QED BY <1>1, <2>1, SnapshotKept DEF InSnapshot
<1>3. CASE mem.mode # "local"
  <2>1. PICK p \in MergeDue :
          run' = [run EXCEPT !.todo = @ \ {p}, !.change = SnapshotVersion(p), !.ret = "merge"]
    BY <1>3, Zenon DEF MergeSnapshot
  <2>2. run'.todo = run.todo \ {p} /\ run'.upto = run.upto
    BY <2>1 DEF Fields, HasFields, RunFields
  <2> QED BY <1>1, <2>2, SnapshotKept DEF InSnapshot
<1> QED BY <1>2, <1>3

\* The log is only extended.
LEMMA SnapshotServerMoves ==
    ASSUME Fields, TypeOK, Position, SnapshotReady, ServerMoves
    PROVE  SnapshotReady'
<1>1. UNCHANGED <<pc, run>>
  BY DEF ServerMoves
<1>2. CASE \E p \in Paths, c \in OtherContents \cup {Absent} : OtherCommit(p, c)
  <2>1. PICK p \in Paths, c \in OtherContents \cup {Absent} : OtherCommit(p, c)
    BY <1>2
  <2>2. \A r \in 1..Len(log) : log'[r] = log[r]
    BY <2>1, OtherEntry, Appended DEF OtherCommit, TypeOK
  <2>3. InSnapshot => run.upto \in Nat /\ run.upto <= Len(log) /\ Len(log) \in Nat
    BY DEF InSnapshot, Position, Loops, TypeOK
  <2>4. InSnapshot => \A r \in 1..run.upto : log'[r] = log[r]
    BY <2>2, <2>3
  <2> QED BY <1>1, <2>4 DEF SnapshotReady, InSnapshot
<1>3. CASE \E p \in Paths : Collect(p)
  BY <1>1, <1>3 DEF Collect, SnapshotReady, InSnapshot
<1> QED BY <1>2, <1>3 DEF ServerMoves

\* Events leave them alone.
LEMMA SnapshotNoteEvents ==
    ASSUME Fields, Position, SnapshotReady, NEW ps, NEW ms, NoteEvents(ps, ms), UNCHANGED <<pc, log>>
    PROVE  SnapshotReady'
BY DEF NoteEvents, Fields, HasFields, RunFields, SnapshotReady, InSnapshot

\* Every step keeps it so.
LEMMA SnapshotStep ==
    Fields /\ TypeOK /\ Position /\ Calls /\ SnapshotReady /\ [Next]_vars => SnapshotReady'
<1> SUFFICES ASSUME Fields, TypeOK, Position, Calls, SnapshotReady, [Next]_vars
   PROVE SnapshotReady'
  OBVIOUS
<1>1. CASE ResumeInbox
  <2> USE DEF SnapshotReady, InSnapshot, Calls, Inner, Fields, HasFields, RunFields,
     DataFields, Returns
  <2>1. CASE InboxInstalled
    BY <2>1 DEF InboxInstalled, Quiet, NoRequest, dataVars, CleanUp, serverVars,
       historyVars
  <2>2. CASE InboxReady
    BY <2>2 DEF InboxReady, Quiet, NoRequest, dataVars, fileVars, serverVars,
       historyVars
  <2>3. CASE InboxLost
    BY <2>3 DEF InboxLost, Quiet, NoRequest, Persist, CleanUp, serverVars,
       historyVars
  <2>4. CASE InboxDone
    BY <2>4 DEF InboxDone, Quiet, NoRequest, Goto, dataVars, fileVars, serverVars,
       historyVars
  <2> HIDE DEF SnapshotReady, InSnapshot, Calls, Inner, Fields, HasFields,
     RunFields, DataFields, Returns
  <2> QED BY <1>1, <2>1, <2>2, <2>3, <2>4 DEF ResumeInbox
<1>2. CASE ResumeOutbox
  <2> USE DEF SnapshotReady, InSnapshot, Calls, Inner, Fields, HasFields, RunFields,
     DataFields, Returns
  <2>1. CASE OutboxCommitted
    BY <2>1 DEF OutboxCommitted, Quiet, dataVars, serverVars, fileVars, historyVars,
       NoRequest
  <2>2. CASE OutboxResent
    BY <2>2 DEF OutboxResent, Quiet, NoRequest, dataVars, fileVars, serverVars,
       historyVars
  <2>3. CASE OutboxAbandoned
    BY <2>3 DEF OutboxAbandoned, Quiet, NoRequest, Persist, Discarded, Queued,
       fileVars, dataVars, serverVars, historyVars
  <2>4. CASE OutboxDone
    BY <2>4 DEF OutboxDone, Quiet, NoRequest, Goto, BeginRenames, dataVars,
       fileVars, serverVars, historyVars
  <2> HIDE DEF SnapshotReady, InSnapshot, Calls, Inner, Fields, HasFields,
     RunFields, DataFields, Returns
  <2> QED BY <1>2, <2>1, <2>2, <2>3, <2>4 DEF ResumeOutbox
<1>3. CASE Reconcile
  <2>1. CASE PreserveLocal
    BY <2>1, SnapshotPreserveLocal
  <2>2. CASE DiscardLocal
    BY <2>2, SnapshotDiscardLocal
  <2>3. CASE MergeSnapshot
    BY <2>3, SnapshotMergeSnapshot
  <2> USE DEF SnapshotReady, InSnapshot, Calls, Inner, Fields, HasFields, RunFields,
     DataFields, Returns
  <2>4. CASE ReadSnapshot
    BY <2>4 DEF ReadSnapshot, Quiet, NoRequest, dataVars, fileVars, serverVars,
       historyVars
  <2>5. CASE PreserveDone
    BY <2>5 DEF PreserveDone, Quiet, NoRequest, Goto, dataVars, fileVars,
       serverVars, historyVars
  <2>6. CASE MergeDone
    BY <2>6 DEF MergeDone, Quiet, NoRequest, Persist, BeginRenames, fileVars,
       dataVars, serverVars, historyVars
  <2> HIDE DEF SnapshotReady, InSnapshot, Calls, Inner, Fields, HasFields,
     RunFields, DataFields, Returns
  <2> QED BY <1>3, <2>1, <2>2, <2>3, <2>4, <2>5, <2>6 DEF Reconcile
<1>4. CASE Renames
  <2> USE DEF SnapshotReady, InSnapshot, Calls, Inner, Fields, HasFields, RunFields,
     DataFields, Returns
  <2>1. CASE RenameSkipped
    BY <2>1 DEF RenameSkipped, Quiet, NoRequest, fileVars, dataVars, serverVars,
       historyVars
  <2>2. CASE RenameStaged
    BY <2>2 DEF RenameStaged, Quiet, Stage, fileVars, dataVars, serverVars,
       historyVars, Persist, NoRequest
  <2>3. CASE RenamesDone
    BY <2>3 DEF RenamesDone, Quiet, NoRequest, Goto, fileVars, dataVars, serverVars,
       historyVars
  <2> HIDE DEF SnapshotReady, InSnapshot, Calls, Inner, Fields, HasFields,
     RunFields, DataFields, Returns
  <2> QED BY <1>4, <2>1, <2>2, <2>3 DEF Renames
<1>5. CASE Push
  <2> USE DEF SnapshotReady, InSnapshot, Calls, Inner, Fields, HasFields, RunFields,
     DataFields, Returns
  <2>1. CASE PlanFull
    BY <2>1 DEF PlanFull, Plan, Quiet, NoRequest, dataVars, fileVars, serverVars,
       historyVars
  <2>2. CASE PlanQueued
    BY <2>2 DEF PlanQueued, Plan, Quiet, NoRequest, dataVars, fileVars, serverVars,
       historyVars
  <2>3. CASE PushDone
    BY <2>3 DEF PushDone, Quiet, NoRequest, Stage, dataVars, fileVars, serverVars,
       historyVars, Persist
  <2>4. CASE DeletesDone
    BY <2>4 DEF DeletesDone, Quiet, NoRequest, fileVars, dataVars, serverVars,
       historyVars
  <2>5. ASSUME NEW p \in Paths, ScanPath(p) PROVE SnapshotReady'
    BY <2>5 DEF ScanPath, Quiet, NoRequest, dataVars, fileVars, serverVars,
       historyVars
  <2>6. ASSUME NEW p \in Paths, PushPath(p) PROVE SnapshotReady'
    BY <2>6 DEF PushPath, Quiet, NoRequest, Stage, Queued, Unnoted, fileVars,
       dataVars, serverVars, historyVars, Persist
  <2>7. ASSUME NEW p \in Paths, DeletePath(p) PROVE SnapshotReady'
    BY <2>7 DEF DeletePath, Quiet, Stage, fileVars, dataVars, serverVars,
       historyVars, Persist, NoRequest
  <2> HIDE DEF SnapshotReady, InSnapshot, Calls, Inner, Fields, HasFields,
     RunFields, DataFields, Returns
  <2> QED BY <1>5, <2>1, <2>2, <2>3, <2>4, <2>5, <2>6, <2>7 DEF Push
<1>6. CASE Answered
  <2> USE DEF SnapshotReady, InSnapshot, Calls, Inner, Fields, HasFields, RunFields,
     DataFields, Returns
  <2>1. CASE AnswerApplied
    BY <2>1 DEF AnswerApplied, Quiet, Goto, Return, Complete, Queued, serverVars,
       fileVars, dataVars, historyVars, NoRequest
  <2>2. CASE AnswerConflict
    BY <2>2 DEF AnswerConflict, Quiet, Persist, Discarded, serverVars, fileVars,
       dataVars, historyVars, NoRequest
  <2>3. CASE KeepRefused
    BY <2>3 DEF KeepRefused, Quiet, NoRequest, dataVars, serverVars, historyVars
  <2>4. CASE AnswerMoved
    BY <2>4 DEF AnswerMoved, Quiet, Goto, Complete, serverVars, fileVars, dataVars,
       historyVars, NoRequest
  <2>5. CASE AnswerMoveConflict
    BY <2>5 DEF AnswerMoveConflict, Quiet, Goto, Return, Discarded, Queued,
       serverVars, fileVars, dataVars, historyVars, NoRequest
  <2>6. CASE AnswerBatch
    BY <2>6 DEF AnswerBatch, Quiet, Complete, serverVars, fileVars, dataVars,
       historyVars, NoRequest
  <2>7. CASE AnswerBatchConflict
    BY <2>7 DEF AnswerBatchConflict, Quiet, Persist, Discarded, Queued, serverVars,
       fileVars, dataVars, historyVars, NoRequest
  <2> HIDE DEF SnapshotReady, InSnapshot, Calls, Inner, Fields, HasFields,
     RunFields, DataFields, Returns
  <2> QED BY <1>6, <2>1, <2>2, <2>3, <2>4, <2>5, <2>6, <2>7 DEF Answered
<1>7. CASE Apply
  <2>1. CASE ApplyRemoteChange
    BY <2>1, SnapshotApplyRemoteChange
  <2>2. CASE RemoveLocal
    BY <2>2, SnapshotRemoveLocal
  <2> USE DEF SnapshotReady, InSnapshot, Calls, Inner, Fields, HasFields, RunFields,
     DataFields, Returns
  <2>3. CASE Download
    BY <2>3 DEF Download, Quiet, NoRequest, Goto, serverVars, historyVars
  <2>4. CASE SetAside
    BY <2>4 DEF SetAside, Quiet, NoRequest, Goto, serverVars, historyVars
  <2>5. CASE SwapIn
    BY <2>5 DEF SwapIn, Quiet, Goto, EndRun, dataVars, serverVars, IdleRun,
       NoRequest, historyVars
  <2>6. CASE VerifyInstalled
    BY <2>6 DEF VerifyInstalled, Quiet, Goto, EndRun, dataVars, serverVars, IdleRun,
       NoRequest, historyVars
  <2>7. CASE FinishDownload
    BY <2>7 DEF FinishDownload, Quiet, NoRequest, Goto, fileVars, dataVars,
       serverVars, historyVars
  <2>8. CASE Save
    BY <2>8 DEF Save, Quiet, NoRequest, Return, fileVars, dataVars, serverVars,
       historyVars
  <2> HIDE DEF SnapshotReady, InSnapshot, Calls, Inner, Fields, HasFields,
     RunFields, DataFields, Returns
  <2> QED BY <1>7, <2>1, <2>2, <2>3, <2>4, <2>5, <2>6, <2>7, <2>8 DEF Apply
<1>8. CASE Pull
  <2> USE DEF SnapshotReady, InSnapshot, Calls, Inner, Fields, HasFields, RunFields,
     DataFields, Returns
  <2>1. CASE PullPage
    BY <2>1 DEF PullPage, Quiet, NoRequest, dataVars, fileVars, serverVars,
       historyVars
  <2>2. CASE PageChange
    BY <2>2 DEF PageChange, Quiet, NoRequest, dataVars, fileVars, serverVars,
       historyVars
  <2>3. CASE PageDone
    BY <2>3 DEF PageDone, Quiet, NoRequest, Persist, fileVars, dataVars, serverVars,
       historyVars
  <2>4. CASE Finish
    BY <2>4 DEF Finish, Quiet, NoRequest, Persist, Goto, fileVars, dataVars,
       serverVars, historyVars
  <2>5. CASE AckCursor
    BY <2>5 DEF AckCursor, Quiet, Goto, Acknowledge, dataVars, fileVars, serverVars,
       historyVars, NoRequest
  <2>6. CASE CompleteRun
    BY <2>6 DEF CompleteRun, Quiet, EndRun, serverVars, fileVars, dataVars,
       historyVars, IdleRun, NoRequest
  <2> HIDE DEF SnapshotReady, InSnapshot, Calls, Inner, Fields, HasFields,
     RunFields, DataFields, Returns
  <2> QED BY <1>8, <2>1, <2>2, <2>3, <2>4, <2>5, <2>6 DEF Pull
<1>9. ASSUME NEW p \in Paths, NEW content \in UserContents \cup {Absent},
   UserEdit(p, content) PROVE SnapshotReady'
  BY <1>9, SnapshotNoteEvents DEF UserEdit, NoRequest, serverVars
<1>10. ASSUME NEW from \in Paths, NEW to \in Paths, UserRename(from, to) PROVE
   SnapshotReady'
  BY <1>10, SnapshotNoteEvents DEF UserRename, NoRequest, serverVars
<1>11. CASE StartRun
  BY <1>11 DEF StartRun, SnapshotReady, InSnapshot, Calls, Inner, Fields, HasFields,
     RunFields, DataFields, Returns, Quiet, NoRequest, Goto, dataVars, fileVars,
     serverVars, historyVars
<1>12. CASE Send
  BY <1>12 DEF Send, SnapshotReady, InSnapshot, Calls, Inner, Fields, HasFields,
     RunFields, DataFields, Returns, Quiet, Goto, dataVars, fileVars, serverVars,
     historyVars, NoRequest
<1>13. CASE ServerMoves
  BY <1>13, SnapshotServerMoves
<1>14. CASE SaveEvents
  BY <1>14 DEF SaveEvents, SnapshotReady, InSnapshot, Calls, Inner, Fields,
     HasFields, RunFields, DataFields, Returns, Quiet, NoRequest, fileVars,
     dataVars, serverVars, historyVars
<1>15. CASE RunFails
  BY <1>15 DEF RunFails, SnapshotReady, InSnapshot, Calls, Inner, Fields, HasFields,
     RunFields, DataFields, Returns, EndRun, Spend, serverVars, IdleRun
<1>16. CASE Crash
  BY <1>16 DEF Crash, SnapshotReady, InSnapshot, Calls, Inner, Fields, HasFields,
     RunFields, DataFields, Returns, IdleRun, Spend, serverVars, fileVars, dataVars,
     historyVars
<1>17. CASE Restart
  BY <1>17 DEF Restart, SnapshotReady, InSnapshot, Calls, Inner, Fields, HasFields,
     RunFields, DataFields, Returns, NoRequest, dataVars, fileVars, historyVars,
     serverVars
<1>18. CASE UNCHANGED vars
  BY <1>18 DEF SnapshotReady, InSnapshot, Calls, Inner, Fields, HasFields,
     RunFields, DataFields, Returns, vars, serverVars, fileVars, dataVars,
     historyVars
<1> QED BY <1>1, <1>2, <1>3, <1>4, <1>5, <1>6, <1>7, <1>8, <1>9, <1>10, <1>11, <1>12,
         <1>13, <1>14, <1>15, <1>16, <1>17, <1>18 DEF Next, Engine, User

-----------------------------------------------------------------------------
(* A batch has items.                                                      *)

\* Where the outbox is emptied or left alone.
LEMMA BatchKept ==
    ASSUME BatchReady, mem'.outbox \in {mem.outbox, saved.outbox, NoOperation},
           saved'.outbox \in {mem.outbox, saved.outbox, NoOperation}
    PROVE  BatchReady'
BY DEF BatchReady

\* Where a request is staged.
LEMMA BatchStaged ==
    ASSUME Fields, NEW q, Stage(q), q.kind = "batch" => q.items # {}
    PROVE  BatchReady'
BY Staged DEF BatchReady

\* AnswerApplied empties the outbox.
LEMMA BatchAnswerApplied == ASSUME Fields, BatchReady, AnswerApplied PROVE BatchReady'
<1>1. saved'.outbox = mem.outbox /\ mem'.outbox = NoOperation
  <2>1. CASE Recovering
    BY <2>1 DEF AnswerApplied, Complete, Fields, HasFields, DataFields
  <2>2. CASE ~Recovering
    BY <2>2 DEF AnswerApplied, Complete, Fields, HasFields, DataFields
  <2> QED BY <2>1, <2>2
<1> QED BY <1>1, BatchKept

\* PushDone stages a batch of more than one item.
LEMMA BatchPushDone == ASSUME Fields, TypeOK, BatchReady, PushDone PROVE BatchReady'
<1>1. CASE Cardinality(Deletions) > 1
  <2> DEFINE items == {[path |-> p, base |-> mem.files[p].rev] : p \in Deletions}
  <2>1. Deletions # {}
    BY <1>1, FS_EmptySet
  <2>2. items # {}
    BY <2>1
  <2>3. PICK q : Stage(q) /\ q.items = items
    BY <1>1 DEF PushDone
  <2> QED BY <2>2, <2>3, BatchStaged
<1>2. CASE ~(Cardinality(Deletions) > 1)
  BY <1>2, BatchKept DEF PushDone, dataVars
<1> QED BY <1>1, <1>2

\* PushPath stages no batch.
LEMMA BatchPushPath ==
    ASSUME Fields, BatchReady, NEW p \in Paths, PushPath(p)
    PROVE  BatchReady'
<1>1. CASE Stage(ApplyRequest(p, disk[p]))
  BY <1>1, BatchStaged DEF ApplyRequest
<1>2. CASE ~Stage(ApplyRequest(p, disk[p]))
  <2>1. mem'.outbox = mem.outbox /\ saved' = saved
    BY <1>2 DEF PushPath, Fields, HasFields, DataFields
  <2> QED BY <2>1, BatchKept
<1> QED BY <1>1, <1>2

\* Nor does DeletePath.
LEMMA BatchDeletePath ==
    ASSUME Fields, BatchReady, NEW p \in Paths, DeletePath(p)
    PROVE  BatchReady'
BY BatchStaged DEF DeletePath, ApplyRequest

\* Events leave the outbox alone.
LEMMA BatchNoteEvents ==
    ASSUME Fields, BatchReady, NEW ps, NEW ms, NoteEvents(ps, ms), UNCHANGED saved
    PROVE  BatchReady'
<1>1. mem'.outbox = mem.outbox
  BY DEF NoteEvents, Fields, HasFields, DataFields
<1> QED BY <1>1, BatchKept

\* Every step keeps it so.
LEMMA BatchStep ==
    Fields /\ TypeOK /\ BatchReady /\ [Next]_vars => BatchReady'
<1> SUFFICES ASSUME Fields, TypeOK, BatchReady, [Next]_vars PROVE BatchReady'
  OBVIOUS
<1>1. CASE ResumeInbox
  <2> USE DEF BatchReady, Fields, HasFields, DataFields
  <2>1. CASE InboxInstalled
    BY <2>1 DEF InboxInstalled, Quiet, NoRequest, dataVars, CleanUp, serverVars,
       historyVars
  <2>2. CASE InboxReady
    BY <2>2 DEF InboxReady, Quiet, NoRequest, dataVars, fileVars, serverVars,
       historyVars
  <2>3. CASE InboxLost
    BY <2>3 DEF InboxLost, Quiet, NoRequest, Persist, CleanUp, serverVars,
       historyVars
  <2>4. CASE InboxDone
    BY <2>4 DEF InboxDone, Quiet, NoRequest, Goto, dataVars, fileVars, serverVars,
       historyVars
  <2> HIDE DEF BatchReady, Fields, HasFields, DataFields
  <2> QED BY <1>1, <2>1, <2>2, <2>3, <2>4 DEF ResumeInbox
<1>2. CASE ResumeOutbox
  <2> USE DEF BatchReady, Fields, HasFields, DataFields
  <2>1. CASE OutboxCommitted
    BY <2>1 DEF OutboxCommitted, Quiet, dataVars, serverVars, fileVars, historyVars,
       NoRequest
  <2>2. CASE OutboxResent
    BY <2>2 DEF OutboxResent, Quiet, NoRequest, dataVars, fileVars, serverVars,
       historyVars
  <2>3. CASE OutboxAbandoned
    BY <2>3 DEF OutboxAbandoned, Quiet, NoRequest, Persist, Discarded, Queued,
       fileVars, dataVars, serverVars, historyVars
  <2>4. CASE OutboxDone
    BY <2>4 DEF OutboxDone, Quiet, NoRequest, Goto, BeginRenames, dataVars,
       fileVars, serverVars, historyVars
  <2> HIDE DEF BatchReady, Fields, HasFields, DataFields
  <2> QED BY <1>2, <2>1, <2>2, <2>3, <2>4 DEF ResumeOutbox
<1>3. CASE Reconcile
  <2> USE DEF BatchReady, Fields, HasFields, DataFields
  <2>1. CASE ReadSnapshot
    BY <2>1 DEF ReadSnapshot, Quiet, NoRequest, dataVars, fileVars, serverVars,
       historyVars
  <2>2. CASE PreserveLocal
    BY <2>2 DEF PreserveLocal, Quiet, EndRun, dataVars, serverVars, IdleRun,
       NoRequest, historyVars
  <2>3. CASE DiscardLocal
    BY <2>3 DEF DiscardLocal, Quiet, Return, EndRun, dataVars, serverVars, IdleRun,
       NoRequest, historyVars
  <2>4. CASE PreserveDone
    BY <2>4 DEF PreserveDone, Quiet, NoRequest, Goto, dataVars, fileVars,
       serverVars, historyVars
  <2>5. CASE MergeSnapshot
    BY <2>5 DEF MergeSnapshot, NoRequest, fileVars, dataVars, serverVars,
       historyVars
  <2>6. CASE MergeDone
    BY <2>6 DEF MergeDone, Quiet, NoRequest, Persist, BeginRenames, fileVars,
       dataVars, serverVars, historyVars
  <2> HIDE DEF BatchReady, Fields, HasFields, DataFields
  <2> QED BY <1>3, <2>1, <2>2, <2>3, <2>4, <2>5, <2>6 DEF Reconcile
<1>4. CASE Renames
  <2> USE DEF BatchReady, Fields, HasFields, DataFields
  <2>1. CASE RenameSkipped
    BY <2>1 DEF RenameSkipped, Quiet, NoRequest, fileVars, dataVars, serverVars,
       historyVars
  <2>2. CASE RenameStaged
    BY <2>2 DEF RenameStaged, Quiet, Stage, fileVars, dataVars, serverVars,
       historyVars, Persist, NoRequest
  <2>3. CASE RenamesDone
    BY <2>3 DEF RenamesDone, Quiet, NoRequest, Goto, fileVars, dataVars, serverVars,
       historyVars
  <2> HIDE DEF BatchReady, Fields, HasFields, DataFields
  <2> QED BY <1>4, <2>1, <2>2, <2>3 DEF Renames
<1>5. CASE Push
  <2>1. CASE PushDone
    BY <2>1, BatchPushDone
  <2>2. ASSUME NEW p \in Paths, PushPath(p) PROVE BatchReady'
    BY <2>2, BatchPushPath
  <2>3. ASSUME NEW p \in Paths, DeletePath(p) PROVE BatchReady'
    BY <2>3, BatchDeletePath
  <2> USE DEF BatchReady, Fields, HasFields, DataFields
  <2>4. CASE PlanFull
    BY <2>4 DEF PlanFull, Plan, Quiet, NoRequest, dataVars, fileVars, serverVars,
       historyVars
  <2>5. CASE PlanQueued
    BY <2>5 DEF PlanQueued, Plan, Quiet, NoRequest, dataVars, fileVars, serverVars,
       historyVars
  <2>6. CASE DeletesDone
    BY <2>6 DEF DeletesDone, Quiet, NoRequest, fileVars, dataVars, serverVars,
       historyVars
  <2>7. ASSUME NEW p \in Paths, ScanPath(p) PROVE BatchReady'
    BY <2>7 DEF ScanPath, Quiet, NoRequest, dataVars, fileVars, serverVars,
       historyVars
  <2> HIDE DEF BatchReady, Fields, HasFields, DataFields
  <2> QED BY <1>5, <2>1, <2>2, <2>3, <2>4, <2>5, <2>6, <2>7 DEF Push
<1>6. CASE Answered
  <2>1. CASE AnswerApplied
    BY <2>1, BatchAnswerApplied
  <2> USE DEF BatchReady, Fields, HasFields, DataFields
  <2>2. CASE AnswerConflict
    BY <2>2 DEF AnswerConflict, Quiet, Persist, Discarded, serverVars, fileVars,
       dataVars, historyVars, NoRequest
  <2>3. CASE KeepRefused
    BY <2>3 DEF KeepRefused, Quiet, NoRequest, dataVars, serverVars, historyVars
  <2>4. CASE AnswerMoved
    BY <2>4 DEF AnswerMoved, Quiet, Goto, Complete, serverVars, fileVars, dataVars,
       historyVars, NoRequest
  <2>5. CASE AnswerMoveConflict
    BY <2>5 DEF AnswerMoveConflict, Quiet, Goto, Return, Discarded, Queued,
       serverVars, fileVars, dataVars, historyVars, NoRequest
  <2>6. CASE AnswerBatch
    BY <2>6 DEF AnswerBatch, Quiet, Complete, serverVars, fileVars, dataVars,
       historyVars, NoRequest
  <2>7. CASE AnswerBatchConflict
    BY <2>7, ZenonT(40) DEF AnswerBatchConflict, Quiet, Persist, Discarded, Queued, serverVars,
       fileVars, dataVars, historyVars, NoRequest
  <2> HIDE DEF BatchReady, Fields, HasFields, DataFields
  <2> QED BY <1>6, <2>1, <2>2, <2>3, <2>4, <2>5, <2>6, <2>7 DEF Answered
<1>7. CASE Apply
  <2> USE DEF BatchReady, Fields, HasFields, DataFields
  <2>1. CASE ApplyRemoteChange
    BY <2>1 DEF ApplyRemoteChange, Quiet, NoRequest, Goto, Return, StageDownload,
       dataVars, Persist, serverVars, historyVars
  <2>2. CASE RemoveLocal
    BY <2>2 DEF RemoveLocal, Quiet, Return, EndRun, serverVars, IdleRun, NoRequest,
       historyVars
  <2>3. CASE Download
    BY <2>3 DEF Download, Quiet, NoRequest, Goto, serverVars, historyVars
  <2>4. CASE SetAside
    BY <2>4 DEF SetAside, Quiet, NoRequest, Goto, serverVars, historyVars
  <2>5. CASE SwapIn
    BY <2>5 DEF SwapIn, Quiet, Goto, EndRun, dataVars, serverVars, IdleRun,
       NoRequest, historyVars
  <2>6. CASE VerifyInstalled
    BY <2>6 DEF VerifyInstalled, Quiet, Goto, EndRun, dataVars, serverVars, IdleRun,
       NoRequest, historyVars
  <2>7. CASE FinishDownload
    BY <2>7 DEF FinishDownload, Quiet, NoRequest, Goto, fileVars, dataVars,
       serverVars, historyVars
  <2>8. CASE Save
    BY <2>8 DEF Save, Quiet, NoRequest, Return, fileVars, dataVars, serverVars,
       historyVars
  <2> HIDE DEF BatchReady, Fields, HasFields, DataFields
  <2> QED BY <1>7, <2>1, <2>2, <2>3, <2>4, <2>5, <2>6, <2>7, <2>8 DEF Apply
<1>8. CASE Pull
  <2> USE DEF BatchReady, Fields, HasFields, DataFields
  <2>1. CASE PullPage
    BY <2>1 DEF PullPage, Quiet, NoRequest, dataVars, fileVars, serverVars,
       historyVars
  <2>2. CASE PageChange
    BY <2>2 DEF PageChange, Quiet, NoRequest, dataVars, fileVars, serverVars,
       historyVars
  <2>3. CASE PageDone
    BY <2>3 DEF PageDone, Quiet, NoRequest, Persist, fileVars, dataVars, serverVars,
       historyVars
  <2>4. CASE Finish
    BY <2>4 DEF Finish, Quiet, NoRequest, Persist, Goto, fileVars, dataVars,
       serverVars, historyVars
  <2>5. CASE AckCursor
    BY <2>5 DEF AckCursor, Quiet, Goto, Acknowledge, dataVars, fileVars, serverVars,
       historyVars, NoRequest
  <2>6. CASE CompleteRun
    BY <2>6 DEF CompleteRun, Quiet, EndRun, serverVars, fileVars, dataVars,
       historyVars, IdleRun, NoRequest
  <2> HIDE DEF BatchReady, Fields, HasFields, DataFields
  <2> QED BY <1>8, <2>1, <2>2, <2>3, <2>4, <2>5, <2>6 DEF Pull
<1>9. ASSUME NEW p \in Paths, NEW content \in UserContents \cup {Absent},
   UserEdit(p, content) PROVE BatchReady'
  BY <1>9, BatchNoteEvents DEF UserEdit
<1>10. ASSUME NEW from \in Paths, NEW to \in Paths, UserRename(from, to) PROVE
   BatchReady'
  BY <1>10, BatchNoteEvents DEF UserRename
<1>11. CASE StartRun
  BY <1>11 DEF StartRun, BatchReady, Fields, HasFields, DataFields, Quiet,
     NoRequest, Goto, dataVars, fileVars, serverVars, historyVars
<1>12. CASE Send
  BY <1>12 DEF Send, BatchReady, Fields, HasFields, DataFields, Quiet, Goto,
     dataVars, fileVars, serverVars, historyVars, NoRequest
<1>13. CASE ServerMoves
  BY <1>13 DEF ServerMoves, BatchReady, Fields, HasFields, DataFields, Spend,
     dataVars, fileVars, serverVars, historyVars
<1>14. CASE SaveEvents
  BY <1>14 DEF SaveEvents, BatchReady, Fields, HasFields, DataFields, Quiet,
     NoRequest, fileVars, dataVars, serverVars, historyVars
<1>15. CASE RunFails
  BY <1>15 DEF RunFails, BatchReady, Fields, HasFields, DataFields, EndRun, Spend,
     serverVars, IdleRun
<1>16. CASE Crash
  BY <1>16 DEF Crash, BatchReady, Fields, HasFields, DataFields, IdleRun, Spend,
     serverVars, fileVars, dataVars, historyVars
<1>17. CASE Restart
  BY <1>17 DEF Restart, BatchReady, Fields, HasFields, DataFields, NoRequest,
     dataVars, fileVars, historyVars, serverVars
<1>18. CASE UNCHANGED vars
  BY <1>18 DEF BatchReady, Fields, HasFields, DataFields, vars, serverVars,
     fileVars, dataVars, historyVars
<1> QED BY <1>1, <1>2, <1>3, <1>4, <1>5, <1>6, <1>7, <1>8, <1>9, <1>10, <1>11, <1>12,
         <1>13, <1>14, <1>15, <1>16, <1>17, <1>18 DEF Next, Engine, User

-----------------------------------------------------------------------------
(* Type correctness.                                                       *)

TypeInv == EngineInv /\ Calls /\ Ready /\ Types

\* The vault that the device joins: files of other devices, of different paths.
LEMMA InitServer ==
    ServerInit => /\ log \in Seq(Entry) /\ Distinct(log) /\ head \in [Paths -> Row]
                  /\ \A r \in DOMAIN log : ~log[r].mine /\ log[r].content # Absent
                  /\ \A p \in Paths :
                       \/ \E r \in 1..Len(log) :
                            log[r].path = p /\ head[p] = [rev |-> r, content |-> log[r].content]
                       \/ (\A r \in 1..Len(log) : log[r].path # p) /\ head[p] = NoRow
<1> SUFFICES ASSUME ServerInit
             PROVE  /\ log \in Seq(Entry) /\ Distinct(log) /\ head \in [Paths -> Row]
                    /\ \A r \in DOMAIN log : ~log[r].mine /\ log[r].content # Absent
                    /\ \A p \in Paths :
                         \/ \E r \in 1..Len(log) :
                              log[r].path = p /\ head[p] = [rev |-> r, content |-> log[r].content]
                         \/ (\A r \in 1..Len(log) : log[r].path # p) /\ head[p] = NoRow
  OBVIOUS
<1>1. PICK existing \in Vaults, c \in OtherContents :
        log \in SetToSeqs({[path |-> p, content |-> c, mine |-> FALSE] : p \in existing})
  BY Zenon DEF ServerInit
<1> DEFINE f == [p \in existing |-> [path |-> p, content |-> c, mine |-> FALSE]]
           S == {[path |-> p, content |-> c, mine |-> FALSE] : p \in existing}
<1>2. IsFiniteSet(existing) /\ existing \subseteq Paths /\ c \in Contents
  BY FS_Subset, ServerAssumption
<1>3. f = [p \in existing |-> f[p]] /\ S = {f[p] : p \in existing} /\ log \in SetToSeqs(S)
  BY <1>1
<1>4. ASSUME NEW x \in S PROVE x \in Entry /\ ~x.mine /\ x.content # Absent
  <2>1. PICK p \in existing : x = [path |-> p, content |-> c, mine |-> FALSE]
    OBVIOUS
  <2> QED BY <1>2, <2>1, ServerAssumption DEF Entry, Content
<1>5. ASSUME NEW x \in S, NEW y \in S, x.path = y.path PROVE x = y
  <2>1. PICK p \in existing, q \in existing :
          /\ x = [path |-> p, content |-> c, mine |-> FALSE]
          /\ y = [path |-> q, content |-> c, mine |-> FALSE]
    OBVIOUS
  <2> QED BY <1>5, <2>1
<1> HIDE DEF f, S
<1>6. IsFiniteSet(S) /\ S \in SUBSET Entry
  BY <1>2, <1>3, <1>4, ImageFinite
<1>7. log \in Seq(Entry) /\ Distinct(log) /\ \A r \in DOMAIN log : log[r] \in S
  BY <1>3, <1>5, <1>6, OrdersDistinct
<1> DEFINE none == [p \in Paths |-> NoRow]
<1>8. none \in [Paths -> Row] /\ \A p \in Paths : none[p] = NoRow
  BY DEF Row, NoRow, Content
<1>9. head = HeadAfter(none, log, 0)
  BY DEF ServerInit
<1> HIDE DEF none
<1>10. head \in [Paths -> Row] /\ RowsOf(none, log, 0, head)
  BY <1>7, <1>8, <1>9, RowsAfter
<1>11. \A i \in 1..Len(log) : 0 + i = i
  BY <1>7
<1>12. ASSUME NEW p \in Paths
       PROVE  \/ \E r \in 1..Len(log) :
                   log[r].path = p /\ head[p] = [rev |-> r, content |-> log[r].content]
              \/ (\A r \in 1..Len(log) : log[r].path # p) /\ head[p] = NoRow
  BY <1>8, <1>10, <1>11 DEF RowsOf
<1>13. \A r \in DOMAIN log : ~log[r].mine /\ log[r].content # Absent
  BY <1>4, <1>7
<1> QED BY <1>7, <1>10, <1>12, <1>13

\* Types hold at the start.
LEMMA InitTypes == Init => Calls /\ Ready /\ Types
<1> SUFFICES ASSUME Init PROVE Calls /\ Ready /\ Types
  OBVIOUS
<1>1. PICK mode \in InitialModes : mem = EmptyData(mode) /\ saved = mem
  BY DEF Init
<1>2. DataTypes
  <2>1. mode \in {"merge", "remote", "local", "done"}
    BY EngineAssumption
  <2>2. <<>> \in Seq(Move)
    OBVIOUS
  <2> QED BY <1>1, <2>1, <2>2 DEF DataTypes, EmptyData, Data
<1>3. pc = "idle" /\ run = IdleRun
  BY DEF Init
<1>4. RunTypes
  BY <1>3 DEF RunTypes, IdleRun, Labels, NothingFound, Content, Returns
<1>5. ServerTypes
  BY InitServer DEF Init, ServerInit, ServerTypes
<1>6. FileTypes
  BY DEF Init, FileTypes, Content
<1>7. HistoryTypes
  BY DEF Init, HistoryTypes
<1>8. Calls
  BY <1>3 DEF IdleRun, Calls
<1>9. Ready
  <2>1. mem.outbox = NoOperation /\ saved.outbox = NoOperation
    BY <1>1 DEF EmptyData
  <2> QED BY <1>3, <2>1 DEF IdleRun, Ready, ChangeReady, MovesReady, SnapshotReady, InSnapshot,
             BatchReady, Applying, Installing
<1> QED BY <1>2, <1>4, <1>5, <1>6, <1>7, <1>8, <1>9 DEF Types

\* Every step keeps them.
LEMMA TypeInvStep == TypeInv /\ [Next]_vars => TypeInv'
<1> SUFFICES ASSUME TypeInv, [Next]_vars PROVE TypeInv'
  OBVIOUS
<1>1. /\ Shape /\ Position /\ Replies /\ Artifacts /\ Fields /\ Calls
      /\ Ready /\ ChangeReady /\ MovesReady /\ SnapshotReady /\ BatchReady
      /\ Types /\ TypeOK /\ RunTypes
  BY ShapeFields, TypesSuffice DEF TypeInv, EngineInv, Ready, Types
<1>2. EngineInv'
  BY EngineInvStep DEF TypeInv
<1>3. Calls'
  BY <1>1, CallsStep
<1>4. Ready'
  BY <1>1, ChangeStep, MovesStep, SnapshotStep, BatchStep DEF Ready
<1>5. Types'
  BY <1>1, ServerStep, FileStep, DataStep, RunStep, HistoryStep DEF Types
<1> QED BY <1>2, <1>3, <1>4, <1>5 DEF TypeInv

\* What the engine keeps, sends and applies always has its type: a version is
\* applied, a request is sent for the part of the run that made it, no rename is
\* taken from an empty queue (sync-engine.ts; types.ts, PersistedData).
THEOREM EngineTypeCorrect == Spec => []TypeOK
<1>1. Init => TypeInv
  BY InitEngineInv, InitTypes DEF TypeInv
<1>2. TypeInv => TypeOK
  BY ShapeFields, TypesSuffice DEF TypeInv, EngineInv
<1> QED BY <1>1, <1>2, TypeInvStep, PTL DEF Spec

=============================================================================
