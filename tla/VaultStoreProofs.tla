-------------------------- MODULE VaultStoreProofs --------------------------
(***************************************************************************)
(* Theorems about VaultStore, for all values of its constants: its types   *)
(* and the safety of collection, that the table of files implements a      *)
(* versioned map, what the operations return, that no update is lost, and  *)
(* what a collection takes and leaves.                                     *)
(***************************************************************************)
EXTENDS VaultStore, FiniteSetTheorems, WellFoundedInduction, TLAPS

-----------------------------------------------------------------------------
(* The minimum that SQL computes.                                          *)

\* A set of naturals that is not empty has the minimum that Min chooses.
LEMMA MinOfNaturals ==
    ASSUME NEW S \in SUBSET Nat, S # {}
    PROVE  Min(S) \in S /\ \A y \in S : Min(S) <= y
<1> DEFINE R == {ss \in Nat \X Nat : ss[1] < ss[2]}
<1>1. IsWellFoundedOn(R, Nat)
  BY NatLessThanWellFounded, Zenon DEF OpToRel
<1>2. PICK x \in S : \A y \in S : <<y, x>> \notin R
  BY <1>1, WFMin, Zenon
<1>3. \A y \in S : x <= y
  <2> TAKE y \in S
  <2>1. <<y, x>> \in Nat \X Nat
    OBVIOUS
  <2>2. ~(y < x)
    BY <1>2, <2>1
  <2> QED BY <2>2
<1> QED BY <1>3 DEF Min

-----------------------------------------------------------------------------
(* What the mutations have in common: each one commits outcomes that are   *)
(* new, or answers with the row it finds.                                  *)

\* The outcomes get the next revisions, one each, for as many paths.
NewOutcomes(new) ==
    /\ new \in SUBSET Outcome
    /\ new # {}
    /\ IsFiniteSet(new)
    /\ \A o \in new : seq < o.rev /\ o.rev <= seq + Cardinality(new)
    /\ \A o, q \in new : o.rev = q.rev \/ o.path = q.path => o = q

\* The one outcome of a PUT or DELETE.
Applied(request) ==
    {[rev |-> seq + 1, path |-> request.path, content |-> request.content]}

\* The bytes of every live outcome come with the request or are those of a
\* file that the vault has.
Sourced(new, stored) ==
    \A o \in new : o.content # Deleted =>
        o.content \in stored \/ \E p \in Paths : files[p].content = o.content

Commits(d) ==
    \E op \in OpIds \cup RestoreIds \cup {NoOp}, request \in Request,
       new \in SUBSET Outcome, stored \in SUBSET Contents :
       /\ NewOutcomes(new)
       /\ Sourced(new, stored)
       /\ Commit(d, op, request, new, stored)
       /\ request.kind = "apply" => new = Applied(request)

Answers(d) ==
    \E op \in OpIds \cup RestoreIds \cup {NoOp}, request \in ApplyRequest :
       AnswerUnchanged(d, op, request, files[request.path])

\* A PUT or DELETE has one outcome.
LEMMA ApplyTxCommits ==
    ASSUME TypeOK, NEW d \in Writers, NEW op \in OpIds \cup RestoreIds \cup {NoOp},
           NEW request \in ApplyRequest, ApplyTx(d, op, request)
    PROVE  \/ Answers(d)
           \/ /\ Commits(d)
              /\ ~AlreadySo(files[request.path], request)
<1> DEFINE new == Applied(request)
           stored == {request.content} \ {Deleted}
<1>1. CASE AlreadySo(files[request.path], request)
  BY <1>1, Zenon DEF ApplyTx, Answers
<1>2. CASE ~AlreadySo(files[request.path], request)
  <2>1. Commit(d, op, request, new, stored)
    BY <1>2, Zenon DEF ApplyTx, Applied
  <2>2. new \in SUBSET Outcome
    BY DEF ApplyRequest, Outcome, TypeOK, Content, Applied
  <2>3. IsFiniteSet(new) /\ Cardinality(new) = 1
    BY FS_Singleton, Zenon DEF Applied
  <2>4. NewOutcomes(new)
    BY <2>2, <2>3 DEF NewOutcomes, TypeOK, Applied
  <2>5. request \in Request
    BY DEF Request
  <2>6. stored \in SUBSET Contents
    BY DEF ApplyRequest, Content
  <2>7. Sourced(new, stored)
    BY DEF Sourced, Applied
  <2> HIDE DEF new, stored
  <2> QED BY <1>2, <2>1, <2>2, <2>4, <2>5, <2>6, <2>7, Zenon DEF Commits, new
<1> QED BY <1>1, <1>2

\* A rename has two, the tombstone and the destination.
LEMMA RenameCommits ==
    ASSUME TypeOK, NEW d \in Writers, Rename(d)
    PROVE  Commits(d)
<1>1. PICK op \in OpIds, from \in Paths, to \in Paths, base \in 0..seq :
        /\ from # to
        /\ Commit(d, op,
              [kind |-> "rename", from |-> from, to |-> to, base |-> base],
              {[rev |-> seq + 1, path |-> from, content |-> Deleted],
               [rev |-> seq + 2, path |-> to, content |-> files[from].content]},
              {})
  BY DEF Rename
<1> DEFINE a == [rev |-> seq + 1, path |-> from, content |-> Deleted]
           b == [rev |-> seq + 2, path |-> to, content |-> files[from].content]
           new == {a, b}
<1>2. a \in Outcome /\ b \in Outcome
  BY DEF Outcome, TypeOK, Content, Row
<1>3. a # b
  BY <1>1
<1>4. IsFiniteSet({a}) /\ Cardinality({a}) = 1
  BY FS_Singleton, Zenon
<1>5. IsFiniteSet(new) /\ Cardinality(new) = 2
  <2>1. new = {a} \cup {b} /\ b \notin {a}
    BY <1>3
  <2> HIDE DEF a, b, new
  <2>2. IsFiniteSet({a} \cup {b})
        /\ Cardinality({a} \cup {b}) = IF b \in {a} THEN 1 ELSE 1 + 1
    BY <1>4, FS_AddElement
  <2> QED BY <2>1, <2>2
<1>6. \A o \in new : seq < o.rev /\ o.rev <= seq + Cardinality(new)
  BY <1>5 DEF TypeOK
<1>7. \A o, q \in new : o.rev = q.rev \/ o.path = q.path => o = q
  BY <1>1 DEF TypeOK
<1> DEFINE request == [kind |-> "rename", from |-> from, to |-> to, base |-> base]
<1>8. request \in Request /\ request.kind # "apply"
  BY DEF Request, RenameRequest, TypeOK
<1>9. NewOutcomes(new) /\ new \in SUBSET Outcome
  BY <1>2, <1>5, <1>6, <1>7 DEF NewOutcomes
<1>10. Commit(d, op, request, new, {})
  BY <1>1
<1>11. Sourced(new, {})
  BY DEF Sourced
<1>12. {} \in SUBSET Contents
  OBVIOUS
<1> HIDE DEF new, request
<1> QED BY <1>8, <1>9, <1>10, <1>11, <1>12, Zenon DEF Commits

\* A batch has one tombstone per item.
LEMMA BatchDeleteCommits ==
    ASSUME TypeOK, NEW d \in Writers, BatchDelete(d)
    PROVE  Commits(d)
<1>1. PICK op \in OpIds, batch \in (SUBSET Paths) \ {{}} :
        \E base \in [batch -> 0..seq],
           rank \in Injection(batch, 1..Cardinality(batch)) :
           Commit(d, op, BatchOf(batch, base), Tombstones(batch, rank), {})
  BY Zenon DEF BatchDelete
<1>2. PICK base \in [batch -> 0..seq],
           rank \in Injection(batch, 1..Cardinality(batch)) :
           Commit(d, op, BatchOf(batch, base), Tombstones(batch, rank), {})
  BY <1>1
<1> DEFINE new == Tombstones(batch, rank)
           outcome == [p \in batch |->
                         [rev |-> seq + rank[p], path |-> p, content |-> Deleted]]
<1>3. IsFiniteSet(batch)
  BY FS_Subset, StoreAssumption
<1>4. Cardinality(batch) \in Nat
  BY <1>3, FS_CardinalityType
<1>5. /\ rank \in [batch -> 1..Cardinality(batch)]
      /\ \A p, q \in batch : rank[p] = rank[q] => p = q
  BY DEF Injection, IsInjective
<1>6. outcome \in Bijection(batch, new)
  BY DEF Bijection, Injection, Surjection, IsInjective, Tombstones
<1>7. IsFiniteSet(new) /\ Cardinality(new) = Cardinality(batch)
  <2>1. ExistsBijection(batch, new)
    BY <1>6, Zenon DEF ExistsBijection
  <2> HIDE DEF new
  <2> QED BY <1>3, <2>1, FS_Bijection
<1>8. new \in SUBSET Outcome
  BY <1>4, <1>5 DEF Outcome, TypeOK, Content, Tombstones
<1>9. new # {}
  <2>1. PICK p \in batch : TRUE
    OBVIOUS
  <2>2. [rev |-> seq + rank[p], path |-> p, content |-> Deleted] \in new
    BY DEF Tombstones
  <2> QED BY <2>2
<1>10. \A o \in new : seq < o.rev /\ o.rev <= seq + Cardinality(new)
  BY <1>4, <1>5, <1>7 DEF TypeOK, Tombstones
<1>11. \A o, q \in new : o.rev = q.rev \/ o.path = q.path => o = q
  BY <1>4, <1>5 DEF TypeOK, Tombstones
<1>12. BatchOf(batch, base) \in Request /\ BatchOf(batch, base).kind # "apply"
  BY DEF Request, BatchRequest, BatchOf, TypeOK
<1>13. NewOutcomes(new)
  <2> HIDE DEF new
  <2> QED BY <1>7, <1>8, <1>9, <1>10, <1>11 DEF NewOutcomes
<1>14. Sourced(new, {}) /\ {} \in SUBSET Contents
  BY DEF Sourced, Tombstones
<1> HIDE DEF new
<1> QED BY <1>2, <1>8, <1>12, <1>13, <1>14, Zenon DEF Commits, new

\* Every mutation commits or answers, and leaves everything else alone.
LEMMA MutateCommits ==
    ASSUME TypeOK, NEW d \in Writers, Mutate(d)
    PROVE  /\ Commits(d) \/ Answers(d)
           /\ UNCHANGED <<clock, devices, builder, plans, restoring>>
<1>1. CASE Apply(d)
  <2>1. PICK op \in OpIds \cup {NoOp}, p \in Paths, base \in 0..seq,
             c \in Content :
             ApplyTx(d, op, [kind |-> "apply", path |-> p, base |-> base,
                             content |-> c])
    BY <1>1, Zenon DEF Apply
  <2>2. [kind |-> "apply", path |-> p, base |-> base, content |-> c]
          \in ApplyRequest
    BY DEF ApplyRequest, TypeOK
  <2>3. Commits(d) \/ Answers(d)
    BY <2>1, <2>2, ApplyTxCommits, Zenon
  <2> QED BY <1>1, <2>3 DEF Apply
<1>2. CASE Rename(d)
  BY <1>2, RenameCommits DEF Rename
<1>3. CASE BatchDelete(d)
  BY <1>3, BatchDeleteCommits DEF BatchDelete
<1> QED BY <1>1, <1>2, <1>3 DEF Mutate

\* A row that a commit writes is the row of one of its outcomes.
LEMMA UpsertedRows ==
    ASSUME NEW new, NEW p \in Paths
    PROVE  \/ /\ \A o \in new : o.path # p
              /\ Upserted(new)[p] = files[p]
           \/ \E o \in new : /\ o.path = p
                             /\ Upserted(new)[p] = [rev |-> o.rev, content |-> o.content]
<1>1. CASE \E o \in new : o.path = p
  <2> DEFINE out == CHOOSE o \in new : o.path = p
  <2>1. out \in new /\ out.path = p
    BY <1>1
  <2>2. Upserted(new)[p] = [rev |-> out.rev, content |-> out.content]
    BY <1>1 DEF Upserted
  <2> HIDE DEF out
  <2> QED BY <2>1, <2>2
<1>2. CASE ~\E o \in new : o.path = p
  BY <1>2 DEF Upserted
<1> QED BY <1>1, <1>2

-----------------------------------------------------------------------------
(* Types.                                                                  *)

\* What a result that is kept for retries looks like.
LEMMA RememberType ==
    ASSUME TypeOK, NEW d \in Writers, NEW op \in OpIds \cup RestoreIds \cup {NoOp},
           NEW request \in Request, NEW result \in SUBSET Outcome,
           NEW changed \in BOOLEAN, Remember(d, op, request, result, changed)
    PROVE  operations' \subseteq Operation /\ answers' \subseteq Operation
<1> DEFINE o == [device |-> d, id |-> op, request |-> request, result |-> result,
                 changed |-> changed, created |-> clock]
<1>1. CASE op = NoOp
  BY <1>1 DEF Remember, TypeOK
<1>2. CASE op # NoOp
  <2>1. o \in Operation
    BY <1>2 DEF Operation, TypeOK
  <2>2. operations' = operations \cup {o} /\ answers' = answers \cup {o}
    BY <1>2 DEF Remember
  <2> HIDE DEF o
  <2> QED BY <2>1, <2>2 DEF TypeOK
<1> QED BY <1>1, <1>2

\* A commit writes rows of their types.
LEMMA CommitsType ==
    ASSUME TypeOK, NEW d \in Writers, Commits(d)
    PROVE  /\ seq' \in Nat
           /\ changes' \subseteq Change
           /\ files' \in [Paths -> Row]
           /\ blobs' \subseteq Contents
           /\ operations' \subseteq Operation
           /\ answers' \subseteq Operation
<1>1. PICK op \in OpIds \cup RestoreIds \cup {NoOp}, request \in Request,
           new \in SUBSET Outcome, stored \in SUBSET Contents :
           NewOutcomes(new) /\ Commit(d, op, request, new, stored)
  BY Zenon DEF Commits
<1>2. seq' \in Nat
  BY <1>1, FS_CardinalityType DEF NewOutcomes, Commit, Issued, TypeOK
<1>3. changes' \subseteq Change
  BY <1>1 DEF Commit, Logged, Change, Outcome, TypeOK
<1>4. files' \in [Paths -> Row]
  <2>1. files' = Upserted(new)
    BY <1>1 DEF Commit
  <2>2. ASSUME NEW p \in Paths
        PROVE  Upserted(new)[p] \in Row
    <3>1. CASE Upserted(new)[p] = files[p]
      BY <3>1 DEF TypeOK
    <3>2. CASE \E o \in new :
                  Upserted(new)[p] = [rev |-> o.rev, content |-> o.content]
      BY <3>2 DEF Outcome, Row
    <3> QED BY <3>1, <3>2, UpsertedRows
  <2> QED BY <2>1, <2>2 DEF Upserted
<1>5. blobs' \subseteq Contents
  BY <1>1 DEF Commit, TypeOK
<1>6. operations' \subseteq Operation /\ answers' \subseteq Operation
  BY <1>1, RememberType DEF Commit
<1> QED BY <1>2, <1>3, <1>4, <1>5, <1>6

\* The answer to a request for what is already so is a stored result.
LEMMA AnswersType ==
    ASSUME TypeOK, NEW d \in Writers, Answers(d)
    PROVE  /\ UNCHANGED <<seq, changes, files, blobs>>
           /\ operations' \subseteq Operation
           /\ answers' \subseteq Operation
<1>1. PICK op \in OpIds \cup RestoreIds \cup {NoOp}, request \in ApplyRequest :
           AnswerUnchanged(d, op, request, files[request.path])
  BY DEF Answers
<1> DEFINE result == {[rev |-> files[request.path].rev, path |-> request.path,
                       content |-> files[request.path].content]}
<1>2. request \in Request /\ request.path \in Paths
  BY DEF Request, ApplyRequest
<1>3. result \in SUBSET Outcome
  BY <1>2 DEF TypeOK, Row, Outcome
<1>4. Remember(d, op, request, result, FALSE)
  BY <1>1, Zenon DEF AnswerUnchanged
<1> HIDE DEF result
<1> QED BY <1>1, <1>2, <1>3, <1>4, RememberType DEF AnswerUnchanged

\* A device's watermark, and so their minimum, is a revision.
LEMMA WatermarkType ==
    ASSUME TypeOK
    PROVE  /\ Watermark \in Nat
           /\ \A d \in Active : Watermark <= devices[d].ack
<1> DEFINE acks == {devices[d].ack : d \in Active}
<1>1. acks \in SUBSET Nat
  BY DEF TypeOK, Device, Active
<1>2. CASE Active = {}
  BY <1>2 DEF Watermark
<1>3. CASE Active # {}
  <2>1. acks # {}
    BY <1>3
  <2>2. Watermark = Min(acks)
    BY <1>3 DEF Watermark
  <2>3. Min(acks) \in acks /\ \A y \in acks : Min(acks) <= y
    <3> HIDE DEF acks
    <3> QED BY <1>1, <2>1, MinOfNaturals
  <2> QED BY <1>1, <2>2, <2>3
<1> QED BY <1>2, <1>3

LEMMA TypeInit == Init => TypeOK
BY DEF Init, TypeOK, NoRow, NoPlan, Row, Content, Device, Builder, Plan, Restore

LEMMA TypeStep == TypeOK /\ [Next]_vars => TypeOK'
<1> SUFFICES ASSUME TypeOK, [Next]_vars
             PROVE  TypeOK'
  OBVIOUS
<1>1. ASSUME NEW d \in Writers, Mutate(d)
      PROVE  TypeOK'
  <2>1. (Commits(d) \/ Answers(d))
        /\ UNCHANGED <<clock, devices, builder, plans, restoring>>
    BY <1>1, MutateCommits
  <2> QED BY <2>1, CommitsType, AnswersType DEF TypeOK
<1>2. ASSUME NEW d \in Writers, RestoreVersion(d)
      PROVE  TypeOK'
  <2>1. CASE RestoreRead(d)
    <3>1. PICK v \in changes, op \in RestoreIds \cup {NoOp}, base \in 0..seq :
            restoring' = [restoring EXCEPT ![d] =
                [phase |-> "read", op |-> op, source |-> v.rev, rev |-> 0,
                 request |-> [kind |-> "apply", path |-> v.path, base |-> base,
                              content |-> v.content]]]
      BY <2>1, Zenon DEF RestoreRead
    <3>2. [phase |-> "read", op |-> op, source |-> v.rev, rev |-> 0,
           request |-> [kind |-> "apply", path |-> v.path, base |-> base,
                        content |-> v.content]] \in Restore
      BY DEF Restore, ApplyRequest, TypeOK, Change
    <3>3. restoring' \in [Writers -> Restore]
      BY <3>1, <3>2 DEF TypeOK
    <3> QED BY <2>1, <3>3 DEF RestoreRead, TypeOK
  <2>2. CASE RestorePut(d)
    <3> DEFINE r == restoring[d]
    <3>1. /\ r \in Restore
          /\ r.phase = "read"
      BY <2>2 DEF RestorePut, TypeOK
    <3>2. /\ r.op \in OpIds \cup RestoreIds \cup {NoOp}
          /\ r.request \in ApplyRequest
      BY <3>1 DEF Restore, Idle
    <3>3. ASSUME NEW n \in Nat
          PROVE  [r EXCEPT !.phase = "put", !.rev = n] \in Restore
      <4>1. r \in [phase : {"read", "put"}, op : RestoreIds \cup {NoOp},
                   request : ApplyRequest, source : Nat, rev : Nat]
        BY <3>1 DEF Restore, Idle
      <4> HIDE DEF r
      <4> QED BY <4>1 DEF Restore
    <3>4. CASE /\ ApplyTx(d, r.op, r.request)
               /\ restoring' = [restoring EXCEPT ![d] =
                     IF AlreadySo(files[r.request.path], r.request) THEN Idle
                     ELSE [r EXCEPT !.phase = "put", !.rev = seq + 1]]
      <4>1. Commits(d) \/ Answers(d)
        BY <3>2, <3>4, ApplyTxCommits
      <4>2. restoring' \in [Writers -> Restore]
        <5>1. [r EXCEPT !.phase = "put", !.rev = seq + 1] \in Restore
          <6>1. seq + 1 \in Nat
            BY DEF TypeOK
          <6> QED BY <3>3, <6>1
        <5>2. Idle \in Restore
          BY DEF Restore
        <5> HIDE DEF r
        <5> QED BY <3>4, <5>1, <5>2 DEF TypeOK
      <4>3. UNCHANGED <<clock, devices, builder, plans>>
        BY <2>2 DEF RestorePut
      <4> QED BY <4>1, <4>2, <4>3, CommitsType, AnswersType DEF TypeOK
    <3>5. CASE \E o \in StoredChange(d, r.op, r.request) : \E out \in o.result :
                 /\ restoring' = [restoring EXCEPT ![d] =
                       [r EXCEPT !.phase = "put", !.rev = out.rev]]
                 /\ UNCHANGED <<seq, changes, files, blobs, operations, answers>>
      <4>1. PICK o \in operations : \E out \in o.result :
                 /\ restoring' = [restoring EXCEPT ![d] =
                       [r EXCEPT !.phase = "put", !.rev = out.rev]]
                 /\ UNCHANGED <<seq, changes, files, blobs, operations, answers>>
        BY <3>5, Zenon DEF StoredChange
      <4>2. PICK out \in o.result :
                 /\ restoring' = [restoring EXCEPT ![d] =
                       [r EXCEPT !.phase = "put", !.rev = out.rev]]
                 /\ UNCHANGED <<seq, changes, files, blobs, operations, answers>>
        BY <4>1, Zenon
      <4>3. out.rev \in Nat
        <5>1. o \in Operation
          BY DEF TypeOK
        <5>2. out \in Outcome
          BY <5>1 DEF Operation
        <5> QED BY <5>2 DEF Outcome
      <4>4. [r EXCEPT !.phase = "put", !.rev = out.rev] \in Restore
        BY <3>3, <4>3
      <4>5. restoring' \in [Writers -> Restore]
        <5> HIDE DEF r
        <5> QED BY <4>2, <4>4 DEF TypeOK
      <4> QED BY <2>2, <4>2, <4>5 DEF RestorePut, TypeOK
    <3> QED BY <2>2, <3>4, <3>5, Zenon DEF RestorePut
  <2>3. CASE RestoreMark(d)
    <3> DEFINE r == restoring[d]
    <3>1. r.source \in Nat
      BY <2>3 DEF RestoreMark, TypeOK, Restore, Idle
    <3>2. \A c \in changes : [c EXCEPT !.restoredFrom = r.source] \in Change
      BY <3>1 DEF TypeOK, Change
    <3>3. changes' \subseteq Change
      <4>1. changes' = {IF IsRestored(c, r)
                        THEN [c EXCEPT !.restoredFrom = r.source]
                        ELSE c : c \in changes}
        BY <2>3 DEF RestoreMark
      <4> HIDE DEF r
      <4> QED BY <3>2, <4>1 DEF TypeOK
    <3>4. restoring' \in [Writers -> Restore]
      BY <2>3 DEF RestoreMark, TypeOK, Restore
    <3> QED BY <2>3, <3>3, <3>4 DEF RestoreMark, TypeOK
  <2>4. CASE RestoreEnd(d)
    BY <2>4 DEF RestoreEnd, TypeOK, Restore
  <2> QED BY <1>2, <2>1, <2>2, <2>3, <2>4 DEF RestoreVersion
<1>3. ASSUME NEW d \in Devices, Manage(d)
      PROVE  TypeOK'
  <2>1. devices' \in [Devices -> Device]
    BY <1>3 DEF Manage, PairDevice, SetDeviceStatus, AcknowledgeDevice, TypeOK, Device
  <2>2. UNCHANGED <<clock, seq, changes, files, blobs, operations, answers,
                    builder, plans, restoring>>
    BY <1>3 DEF Manage, PairDevice, SetDeviceStatus, AcknowledgeDevice
  <2> QED BY <2>1, <2>2 DEF TypeOK
<1>4. ASSUME CollectGarbage
      PROVE  TypeOK'
  <2>1. ASSUME NEW g \in PlanIds, GCReadWatermark(g)
        PROVE  TypeOK'
    <3>1. builder' \in Builder
      BY <2>1, WatermarkType DEF GCReadWatermark, TypeOK, Builder
    <3>2. plans' \in [PlanIds -> Plan]
      BY <2>1 DEF GCReadWatermark, TypeOK, Plan, NoPlan
    <3> QED BY <2>1, <3>1, <3>2 DEF GCReadWatermark, TypeOK
  <2>2. ASSUME NEW g \in PlanIds, ExecuteGCPlan(g)
        PROVE  TypeOK'
    <3>1. changes' \subseteq Change
      BY <2>2 DEF ExecuteGCPlan, Survivors, TypeOK
    <3>2. files' \in [Paths -> Row]
      BY <2>2 DEF ExecuteGCPlan, FilesAfter, TypeOK, NoRow, Row, Content
    <3>3. blobs' \subseteq Contents
      BY <2>2 DEF ExecuteGCPlan, BlobsAfter, TypeOK
    <3>4. operations' \subseteq Operation
      BY <2>2 DEF ExecuteGCPlan, TypeOK
    <3>5. plans' \in [PlanIds -> Plan]
      BY <2>2 DEF ExecuteGCPlan, TypeOK, Plan
    <3> QED BY <2>2, <3>1, <3>2, <3>3, <3>4, <3>5 DEF ExecuteGCPlan, TypeOK
  <2>3. CASE GCRankChanges
    <3>1. clock - Retention \in Int
      BY StoreAssumption DEF TypeOK
    <3>2. builder \in Builder /\ builder.phase = "watermark"
      BY <2>3 DEF GCRankChanges, TypeOK
    <3>3. ASSUME NEW revs \in SUBSET Nat, NEW paths \in SUBSET Paths,
                 builder' = [builder EXCEPT
                   !.phase = "ranked", !.cutoff = clock - Retention,
                   !.revs = revs, !.paths = paths, !.audience = Active]
          PROVE  builder' \in Builder
      <4>1. builder \in [phase : {"watermark", "ranked"}, plan : PlanIds,
                         watermark : Nat, revs : SUBSET Nat,
                         paths : SUBSET Paths, cutoff : Int,
                         audience : SUBSET Devices]
        BY <3>2 DEF Builder, Idle
      <4>2. Active \in SUBSET Devices
        BY DEF Active
      <4> QED BY <3>1, <3>3, <4>1, <4>2 DEF Builder
    <3>4. \A cs \in SUBSET changes : Revs(cs) \in SUBSET Nat
      BY DEF TypeOK, Change, Revs
    <3>5. \A cs \in SUBSET changes : {c.path : c \in cs} \in SUBSET Paths
      BY DEF TypeOK, Change
    <3>6. builder' \in Builder
      <4> DEFINE candidates ==
                   {c \in changes : Collectable(c, Watermark, clock - Retention)}
                 tops == {x \in candidates : Position(x) = 1 /\ x.content = Deleted}
      <4>1. builder' = [builder EXCEPT
                !.phase = "ranked", !.cutoff = clock - Retention,
                !.revs = Revs(candidates), !.paths = {c.path : c \in tops},
                !.audience = Active]
        BY <2>3 DEF GCRankChanges
      <4>2. candidates \in SUBSET changes /\ tops \in SUBSET changes
        OBVIOUS
      <4> HIDE DEF candidates, tops
      <4> QED BY <3>3, <3>4, <3>5, <4>1, <4>2
    <3> QED BY <2>3, <3>6 DEF GCRankChanges, TypeOK
  <2>4. CASE GCSavePlan
    <3>1. builder \in Builder /\ builder.phase = "ranked"
      BY <2>4 DEF GCSavePlan, TypeOK
    <3>2. /\ builder.revs \cup Revs(HistoryOfDeleted) \in SUBSET Nat
          /\ builder.paths \in SUBSET Paths
          /\ builder.cutoff \in Int
          /\ builder.audience \in SUBSET Devices
      BY <3>1 DEF Builder, Idle, Revs, HistoryOfDeleted, TypeOK, Change
    <3>3. \A revs : OnlyIn(revs) \in SUBSET Contents
      BY DEF OnlyIn, TypeOK
    <3>4. plans' \in [PlanIds -> Plan]
      BY <2>4, <3>2, <3>3 DEF GCSavePlan, TypeOK, Plan
    <3>5. builder' \in Builder
      BY <2>4 DEF GCSavePlan, Builder
    <3> QED BY <2>4, <3>4, <3>5 DEF GCSavePlan, TypeOK
  <2>5. CASE GCBuildEnd
    BY <2>5 DEF GCBuildEnd, TypeOK, Builder
  <2> QED BY <1>4, <2>1, <2>2, <2>3, <2>4, <2>5 DEF CollectGarbage
<1>5. CASE DayPasses
  BY <1>5 DEF DayPasses, TypeOK
<1>6. CASE UNCHANGED vars
  BY <1>6 DEF vars, TypeOK
<1> QED BY <1>1, <1>2, <1>3, <1>4, <1>5, <1>6 DEF Next

\* Every table keeps rows of its type, whatever the number of paths, devices,
\* requests and plans.
THEOREM TypeCorrect == Spec => []TypeOK
BY TypeInit, TypeStep, PTL DEF Spec

-----------------------------------------------------------------------------
(* The steps by what they do to the log and to the plans.                  *)

\* Nothing but a call in progress, the clock or nothing at all changes.
Quiet == UNCHANGED <<seq, changes, files, blobs, operations, answers, devices,
                     builder, plans>>

LEMMA StepCases ==
    ASSUME TypeOK, [Next]_vars
    PROVE  \/ \E d \in Writers : /\ Commits(d)
                                 /\ UNCHANGED <<clock, devices, builder, plans>>
           \/ \E d \in Writers : /\ Answers(d)
                                 /\ UNCHANGED <<clock, devices, builder, plans>>
           \/ \E d \in Writers : RestoreMark(d)
           \/ \E d \in Devices : Manage(d)
           \/ \E g \in PlanIds : GCReadWatermark(g)
           \/ GCRankChanges
           \/ GCSavePlan
           \/ GCBuildEnd
           \/ \E g \in PlanIds : ExecuteGCPlan(g)
           \/ Quiet
<1>1. ASSUME NEW d \in Writers, Mutate(d)
      PROVE  /\ Commits(d) \/ Answers(d)
             /\ UNCHANGED <<clock, devices, builder, plans>>
  BY <1>1, MutateCommits
<1>2. ASSUME NEW d \in Writers, RestorePut(d)
      PROVE  \/ /\ Commits(d) \/ Answers(d)
                /\ UNCHANGED <<clock, devices, builder, plans>>
             \/ Quiet
  <2> DEFINE r == restoring[d]
  <2>1. r \in Restore /\ r.phase = "read"
    BY <1>2 DEF RestorePut, TypeOK
  <2>2. /\ r.op \in OpIds \cup RestoreIds \cup {NoOp}
        /\ r.request \in ApplyRequest
    BY <2>1 DEF Restore, Idle
  <2>3. UNCHANGED <<clock, devices, builder, plans>>
    BY <1>2 DEF RestorePut
  <2>4. \/ ApplyTx(d, r.op, r.request)
        \/ UNCHANGED <<seq, changes, files, blobs, operations, answers>>
    BY <1>2, Zenon DEF RestorePut
  <2> HIDE DEF r
  <2> QED BY <2>2, <2>3, <2>4, ApplyTxCommits DEF Quiet
<1>3. ASSUME NEW d \in Writers, RestoreRead(d) \/ RestoreEnd(d)
      PROVE  Quiet
  BY <1>3 DEF RestoreRead, RestoreEnd, Quiet
<1>4. DayPasses \/ UNCHANGED vars => Quiet
  BY DEF DayPasses, Quiet, vars
<1> QED BY <1>1, <1>2, <1>3, <1>4 DEF Next, RestoreVersion, CollectGarbage

\* What a commit adds: fresh revisions, one per path, which become current.
LEMMA CommitAdds ==
    ASSUME TypeOK, NEW d \in Writers, Commits(d)
    PROVE  \E added \in SUBSET Change :
              /\ IsFiniteSet(added) /\ added # {}
              /\ changes' = changes \cup added
              /\ seq <= seq'
              /\ \A c \in added : seq < c.rev /\ c.rev <= seq'
              /\ \A c, e \in added : c.rev = e.rev \/ c.path = e.path => c = e
              /\ \A c \in added : c.restoredFrom = 0
              /\ blobs \subseteq blobs'
              /\ \A c \in added : c.content # Deleted =>
                    \/ c.content \in blobs'
                    \/ \E p \in Paths : files[p].content = c.content
              /\ \A p \in Paths :
                    \/ files'[p] = files[p] /\ \A c \in added : c.path # p
                    \/ \E c \in added :
                          /\ c.path = p
                          /\ files'[p] = [rev |-> c.rev, content |-> c.content]
<1>1. PICK op \in OpIds \cup RestoreIds \cup {NoOp}, request \in Request,
           new \in SUBSET Outcome, stored \in SUBSET Contents :
           /\ NewOutcomes(new)
           /\ Sourced(new, stored)
           /\ Commit(d, op, request, new, stored)
  BY Zenon DEF Commits
<1> DEFINE row(o) == [rev |-> o.rev, path |-> o.path, content |-> o.content,
                      created |-> clock, restoredFrom |-> 0]
           rows == [o \in new |-> row(o)]
           added == Logged(new)
<1>2. \A o \in new : row(o) \in added
  BY DEF Logged
<1>3. \A c \in added : \E o \in new : c = row(o)
  BY DEF Logged
<1>4. added \in SUBSET Change
  BY DEF Logged, Change, Outcome, TypeOK
<1>5. IsFiniteSet(added)
  <2>1. rows \in Surjection(new, added)
    BY <1>2, <1>3 DEF Surjection
  <2>2. IsFiniteSet(new)
    BY <1>1 DEF NewOutcomes
  <2> HIDE DEF rows, added
  <2> QED BY <2>1, <2>2, FS_Surjection
<1>6. /\ changes' = changes \cup added
      /\ seq' = seq + Cardinality(new)
      /\ files' = Upserted(new)
      /\ blobs' = blobs \cup stored
  BY <1>1 DEF Commit, Issued
<1>7. Cardinality(new) \in Nat
  BY <1>1, FS_CardinalityType DEF NewOutcomes
<1>8. \A c \in added : seq < c.rev /\ c.rev <= seq'
  BY <1>1, <1>3, <1>6 DEF NewOutcomes
<1>9. \A c, e \in added : c.rev = e.rev \/ c.path = e.path => c = e
  BY <1>1, <1>3 DEF NewOutcomes
<1>10. \A c \in added : c.content # Deleted =>
          \/ c.content \in blobs'
          \/ \E p \in Paths : files[p].content = c.content
  BY <1>1, <1>3, <1>6 DEF Sourced
<1>11. ASSUME NEW p \in Paths
       PROVE  \/ files'[p] = files[p] /\ \A c \in added : c.path # p
              \/ \E c \in added :
                    /\ c.path = p
                    /\ files'[p] = [rev |-> c.rev, content |-> c.content]
  <2>1. CASE /\ \A o \in new : o.path # p
             /\ Upserted(new)[p] = files[p]
    BY <1>3, <1>6, <2>1
  <2>2. ASSUME NEW o \in new, o.path = p,
               Upserted(new)[p] = [rev |-> o.rev, content |-> o.content]
        PROVE  \E c \in added :
                  /\ c.path = p
                  /\ files'[p] = [rev |-> c.rev, content |-> c.content]
    BY <1>2, <1>6, <2>2
  <2>3. \/ /\ \A o \in new : o.path # p
           /\ Upserted(new)[p] = files[p]
        \/ \E o \in new : /\ o.path = p
                          /\ Upserted(new)[p] = [rev |-> o.rev, content |-> o.content]
    BY UpsertedRows
  <2> HIDE DEF added
  <2> QED BY <2>1, <2>2, <2>3
<1>12. seq <= seq' /\ blobs \subseteq blobs'
  BY <1>6, <1>7 DEF TypeOK
<1>13. added # {}
  BY <1>1, <1>2 DEF NewOutcomes
<1>14. \A c \in added : c.restoredFrom = 0
  BY <1>3
<1> HIDE DEF added
<1> QED BY <1>4, <1>5, <1>6, <1>8, <1>9, <1>10, <1>11, <1>12, <1>13, <1>14

\* A commit takes nothing away and its revisions are in no plan yet.
LEMMA CommitKeepsSafe ==
    ASSUME TypeOK, TypeOK', CollectionSafe, NEW d \in Writers, Commits(d),
           UNCHANGED <<clock, devices, builder, plans>>
    PROVE  CollectionSafe'
<1>1. PICK added \in SUBSET Change :
              /\ IsFiniteSet(added)
              /\ changes' = changes \cup added
              /\ seq <= seq'
              /\ \A c \in added : seq < c.rev /\ c.rev <= seq'
              /\ \A c, e \in added : c.rev = e.rev \/ c.path = e.path => c = e
              /\ blobs \subseteq blobs'
              /\ \A c \in added : c.content # Deleted =>
                    \/ c.content \in blobs'
                    \/ \E p \in Paths : files[p].content = c.content
              /\ \A p \in Paths :
                    \/ files'[p] = files[p] /\ \A c \in added : c.path # p
                    \/ \E c \in added :
                          /\ c.path = p
                          /\ files'[p] = [rev |-> c.rev, content |-> c.content]
  BY CommitAdds
<1>2. /\ seq \in Nat /\ seq' \in Nat
      /\ \A c \in changes \cup added : c.rev \in Nat /\ c.path \in Paths
      /\ \A p \in Paths : files[p].rev \in Nat /\ files'[p].rev \in Nat
  BY <1>1 DEF TypeOK, Change, Row
<1>3. /\ IsFiniteSet(changes)
      /\ \A c \in changes : 0 < c.rev /\ c.rev <= seq
      /\ \A c, e \in changes : c.rev = e.rev => c = e
      /\ \A p \in Paths : files[p].rev = 0 => files[p].content = Deleted
  BY DEF CollectionSafe, LogSound
<1>4. ASSUME NEW p \in Paths
      PROVE  files'[p] = files[p] \/ seq < files'[p].rev
  <2>1. CASE \E c \in added :
               /\ c.path = p
               /\ files'[p] = [rev |-> c.rev, content |-> c.content]
    BY <1>1, <2>1
  <2> QED BY <1>1, <2>1
<1>5. LogSound'
  <2>1. IsFiniteSet(changes')
    BY <1>1, <1>3, FS_Union
  <2>2. \A c \in changes' : 0 < c.rev /\ c.rev <= seq'
    BY <1>1, <1>2, <1>3
  <2>3. \A c, e \in changes' : c.rev = e.rev => c = e
    BY <1>1, <1>2, <1>3
  <2>4. \A p \in Paths : files'[p].rev = 0 => files'[p].content = Deleted
    BY <1>4, <1>2, <1>3
  <2> QED BY <2>1, <2>2, <2>3, <2>4 DEF LogSound
<1>6. \A x \in Devices : devices'[x].ack <= seq'
  BY <1>1, <1>2 DEF CollectionSafe, TypeOK, Device
<1>7. CurrentVersionRetained'
  <2> SUFFICES ASSUME NEW p \in Paths, files'[p].rev # 0
               PROVE  /\ \E c \in changes' : /\ c.path = p
                                             /\ c.rev = files'[p].rev
                                             /\ c.content = files'[p].content
                      /\ \A c \in changes' : c.path = p => c.rev <= files'[p].rev
    BY DEF CurrentVersionRetained
  <2>1. CASE files'[p] = files[p] /\ \A c \in added : c.path # p
    BY <1>1, <2>1 DEF CollectionSafe, CurrentVersionRetained
  <2>2. CASE \E c \in added :
               /\ c.path = p
               /\ files'[p] = [rev |-> c.rev, content |-> c.content]
    BY <1>1, <1>2, <1>3, <2>2
  <2> QED BY <1>1, <2>1, <2>2
<1>8. RetainedContentStored'
  <2>1. ASSUME NEW p \in Paths, files[p].content # Deleted
        PROVE  files[p].content \in blobs
    <3>1. PICK c \in changes : c.content = files[p].content
      BY <1>3, <2>1 DEF CollectionSafe, CurrentVersionRetained
    <3> QED BY <2>1, <3>1 DEF CollectionSafe, RetainedContentStored
  <2> QED BY <1>1, <2>1 DEF CollectionSafe, RetainedContentStored
<1>9. ASSUME NEW revs \in SUBSET Nat, NEW paths, TakesNoLiveVersion(revs, paths)
      PROVE  TakesNoLiveVersion(revs, paths)'
  <2>1. \A x \in revs : x \in Nat /\ x <= seq /\ x <= seq'
    BY <1>1, <1>2, <1>9 DEF TakesNoLiveVersion
  <2>2. ASSUME NEW p \in Paths, files'[p].rev # 0, files'[p].rev \in revs
        PROVE  p \in paths /\ files'[p].content = Deleted
    <3>1. files'[p] = files[p]
      BY <1>4, <1>2, <2>1, <2>2
    <3> QED BY <1>9, <2>2, <3>1 DEF TakesNoLiveVersion
  <2> QED BY <2>1, <2>2 DEF TakesNoLiveVersion
<1>10. BuilderSafe'
  <2>1. CASE builder.phase = "idle"
    BY <2>1 DEF BuilderSafe
  <2>2. CASE builder.phase # "idle"
    <3>1. /\ builder.watermark \in Nat
          /\ builder.revs \in SUBSET Nat
          /\ builder.paths \in SUBSET Paths
      BY <2>2 DEF TypeOK, Builder, Idle
    <3>2. BuilderSafe
      BY DEF CollectionSafe
    <3>3. builder' = builder
      OBVIOUS
    <3> QED BY <1>4, <1>1, <1>2, <1>9, <2>2, <3>1, <3>2, <3>3 DEF BuilderSafe
  <2> QED BY <2>1, <2>2
<1>11. ASSUME NEW g \in PlanIds, plans'[g].status = "pending"
       PROVE  TakesNoLiveVersion(plans[g].revs, plans[g].paths)'
  BY <1>9, <1>11 DEF CollectionSafe, TypeOK, Plan
<1> QED BY <1>5, <1>6, <1>7, <1>8, <1>10, <1>11 DEF CollectionSafe

\* The mark of a restore changes no revision, path or content in the log.
LEMMA MarkKeepsVersions ==
    ASSUME TypeOK, NEW d \in Writers, RestoreMark(d)
    PROVE  /\ IsFiniteSet(changes) => IsFiniteSet(changes')
           /\ \A c \in changes' : \E e \in changes :
                 c.rev = e.rev /\ c.path = e.path /\ c.content = e.content
           /\ \A e \in changes : \E c \in changes' :
                 c.rev = e.rev /\ c.path = e.path /\ c.content = e.content
           /\ (\A c, e \in changes : c.rev = e.rev => c = e)
                 => \A c, e \in changes' : c.rev = e.rev => c = e
<1> DEFINE r == restoring[d]
           mark(c) == IF IsRestored(c, r)
                      THEN [c EXCEPT !.restoredFrom = r.source] ELSE c
           marked == [c \in changes |-> mark(c)]
<1>1. changes' = {mark(c) : c \in changes}
  BY DEF RestoreMark
<1>2. \A c \in changes :
         /\ mark(c).rev = c.rev
         /\ mark(c).path = c.path
         /\ mark(c).content = c.content
  BY DEF TypeOK, Change
<1>3. marked \in Surjection(changes, changes')
  BY <1>1 DEF Surjection
<1>4. IsFiniteSet(changes) => IsFiniteSet(changes')
  <2> HIDE DEF marked
  <2> QED BY <1>3, FS_Surjection
<1> HIDE DEF mark
<1> QED BY <1>1, <1>2, <1>4

LEMMA MarkKeepsSafe ==
    ASSUME TypeOK, CollectionSafe, NEW d \in Writers, RestoreMark(d)
    PROVE  CollectionSafe'
<1>1. UNCHANGED <<seq, files, blobs, devices, builder, plans>>
  BY DEF RestoreMark
<1>2. LogSound'
  <2>1. IsFiniteSet(changes')
    BY MarkKeepsVersions DEF CollectionSafe, LogSound
  <2>2. \A c \in changes' : 0 < c.rev /\ c.rev <= seq
    BY MarkKeepsVersions DEF CollectionSafe, LogSound
  <2>3. \A c, e \in changes' : c.rev = e.rev => c = e
    BY MarkKeepsVersions DEF CollectionSafe, LogSound
  <2> QED BY <1>1, <2>1, <2>2, <2>3 DEF CollectionSafe, LogSound
<1>3. CurrentVersionRetained'
  <2> SUFFICES ASSUME NEW p \in Paths, files[p].rev # 0
               PROVE  /\ \E c \in changes' : /\ c.path = p
                                             /\ c.rev = files[p].rev
                                             /\ c.content = files[p].content
                      /\ \A c \in changes' : c.path = p => c.rev <= files[p].rev
    BY <1>1 DEF CurrentVersionRetained
  <2>1. PICK e \in changes : /\ e.path = p
                             /\ e.rev = files[p].rev
                             /\ e.content = files[p].content
    BY DEF CollectionSafe, CurrentVersionRetained
  <2>2. \A c \in changes : c.path = p => c.rev <= files[p].rev
    BY DEF CollectionSafe, CurrentVersionRetained
  <2> QED BY <2>1, <2>2, MarkKeepsVersions
<1>4. RetainedContentStored'
  BY <1>1, MarkKeepsVersions DEF CollectionSafe, RetainedContentStored
<1>5. BuilderSafe'
  BY <1>1 DEF CollectionSafe, BuilderSafe, TakesNoLiveVersion
<1>6. ASSUME NEW g \in PlanIds, plans[g].status = "pending"
      PROVE  TakesNoLiveVersion(plans[g].revs, plans[g].paths)'
  BY <1>1, <1>6 DEF CollectionSafe, TakesNoLiveVersion
<1> QED BY <1>1, <1>2, <1>3, <1>4, <1>5, <1>6 DEF CollectionSafe

\* A step that leaves the tables of versions and the plans alone.
LEMMA DevicesKeepSafe ==
    ASSUME CollectionSafe, UNCHANGED <<seq, changes, files, blobs, builder, plans>>,
           \A d \in Devices : devices'[d].ack <= seq
    PROVE  CollectionSafe'
<1>1. LogSound' /\ CurrentVersionRetained' /\ RetainedContentStored'
  BY DEF CollectionSafe, LogSound, CurrentVersionRetained, RetainedContentStored
<1>2. BuilderSafe'
  BY DEF CollectionSafe, BuilderSafe, TakesNoLiveVersion
<1>3. \A g \in PlanIds : plans[g].status = "pending"
         => TakesNoLiveVersion(plans[g].revs, plans[g].paths)'
  BY DEF CollectionSafe, TakesNoLiveVersion
<1> QED BY <1>1, <1>2, <1>3 DEF CollectionSafe

LEMMA ManageKeepsSafe ==
    ASSUME TypeOK, CollectionSafe, NEW d \in Devices, Manage(d)
    PROVE  CollectionSafe'
<1>1. UNCHANGED <<seq, changes, files, blobs, builder, plans>>
  BY DEF Manage, PairDevice, SetDeviceStatus, AcknowledgeDevice
<1>2. \A x \in Devices : devices'[x].ack <= seq
  BY DEF Manage, PairDevice, SetDeviceStatus, AcknowledgeDevice,
         CollectionSafe, TypeOK, Device
<1> QED BY <1>1, <1>2, DevicesKeepSafe

-----------------------------------------------------------------------------
(* Garbage collection.                                                     *)

\* A version at the first position of its path is the newest one of it, and
\* the newest one is at the first position.
LEMMA FirstIsNewest ==
    ASSUME TypeOK, LogSound, NEW c \in changes
    PROVE  Position(c) = 1 <=> \A e \in changes : e.path = c.path => e.rev <= c.rev
<1> DEFINE above == {e \in changes : e.path = c.path /\ e.rev >= c.rev}
<1>1. IsFiniteSet(above)
  BY FS_Subset DEF LogSound
<1>2. c \in above
  BY DEF TypeOK, Change
<1>3. Position(c) = Cardinality(above)
  BY DEF Position
<1>4. ASSUME Position(c) = 1
      PROVE  \A e \in changes : e.path = c.path => e.rev <= c.rev
  <2>1. \E x : above = {x}
    <3> HIDE DEF above
    <3> QED BY <1>1, <1>3, <1>4, FS_Singleton
  <2>2. above = {c}
    BY <1>2, <2>1
  <2>3. \A e \in changes : e.rev \in Nat
    BY DEF TypeOK, Change
  <2> QED BY <2>2, <2>3
<1>5. ASSUME \A e \in changes : e.path = c.path => e.rev <= c.rev
      PROVE  Position(c) = 1
  <2>1. \A e \in changes : e.rev \in Nat
    BY DEF TypeOK, Change
  <2>2. above = {c}
    BY <1>2, <1>5, <2>1 DEF LogSound
  <2> HIDE DEF above
  <2> QED BY <1>3, <2>2, FS_Singleton
<1> QED BY <1>4, <1>5

\* The ranked query takes of the current versions only settled tombstones.
LEMMA RankKeepsSafe ==
    ASSUME TypeOK, CollectionSafe, GCRankChanges
    PROVE  CollectionSafe'
<1> DEFINE cutoff == clock - Retention
           candidates == {c \in changes : Collectable(c, Watermark, cutoff)}
           tops == {x \in candidates : Position(x) = 1 /\ x.content = Deleted}
           revs == Revs(candidates)
           paths == {c.path : c \in tops}
<1>1. /\ builder.phase = "watermark"
      /\ builder' = [builder EXCEPT
              !.phase = "ranked", !.cutoff = cutoff, !.revs = revs,
              !.paths = paths, !.audience = Active]
      /\ UNCHANGED <<clock, seq, changes, files, blobs, devices, plans>>
  BY DEF GCRankChanges
<1>2. LogSound /\ CurrentVersionRetained
  BY DEF CollectionSafe
<1>3. ASSUME NEW p \in Paths, files[p].rev # 0, files[p].rev \in revs
      PROVE  p \in paths /\ files[p].content = Deleted
  <2>1. PICK c \in candidates : c.rev = files[p].rev
    BY <1>3 DEF Revs
  <2>2. PICK e \in changes : /\ e.path = p
                             /\ e.rev = files[p].rev
                             /\ e.content = files[p].content
    BY <1>2, <1>3 DEF CurrentVersionRetained
  <2>3. c = e
    BY <1>2, <2>1, <2>2 DEF LogSound
  <2>4. Position(c) = 1
    BY <1>2, <1>3, <2>1, <2>2, <2>3, FirstIsNewest DEF CurrentVersionRetained
  <2>5. ~BeyondKept(c)
    BY <2>4, StoreAssumption DEF BeyondKept
  <2>6. c.content = Deleted
    BY <2>1, <2>5 DEF Collectable
  <2> QED BY <2>1, <2>2, <2>3, <2>4, <2>6
<1>4. \A r \in revs : r <= seq
  BY <1>2 DEF Revs, LogSound
<1>5. ASSUME NEW p \in paths
      PROVE  files[p].content = Deleted
  <2>1. PICK c \in tops : c.path = p
    OBVIOUS
  <2>2. p \in Paths
    BY <2>1 DEF TypeOK, Change
  <2>3. CASE files[p].rev = 0
    BY <1>2, <2>2, <2>3 DEF LogSound
  <2>4. CASE files[p].rev # 0
    <3>1. PICK e \in changes : /\ e.path = p
                               /\ e.rev = files[p].rev
                               /\ e.content = files[p].content
      BY <1>2, <2>2, <2>4 DEF CurrentVersionRetained
    <3>2. e.rev <= c.rev
      BY <1>2, <2>1, <3>1, FirstIsNewest
    <3>3. c.rev <= e.rev
      BY <1>2, <2>1, <2>2, <2>4, <3>1 DEF CurrentVersionRetained
    <3>4. c = e
      BY <1>2, <2>1, <3>1, <3>2, <3>3 DEF LogSound, TypeOK, Change
    <3> QED BY <2>1, <3>1, <3>4
  <2> QED BY <2>3, <2>4
<1>6. /\ builder'.revs = revs
      /\ builder'.paths = paths
      /\ builder'.watermark = builder.watermark
      /\ builder.watermark <= seq
  <2>1. builder.watermark <= seq
    BY <1>1 DEF CollectionSafe, BuilderSafe
  <2>2. builder \in [phase : {"watermark", "ranked"}, plan : PlanIds,
                     watermark : Nat, revs : SUBSET Nat, paths : SUBSET Paths,
                     cutoff : Int, audience : SUBSET Devices]
    BY <1>1 DEF TypeOK, Builder, Idle
  <2> HIDE DEF revs, paths, cutoff
  <2> QED BY <1>1, <2>1, <2>2
<1> HIDE DEF revs, paths, cutoff
<1>7. BuilderSafe'
  BY <1>1, <1>3, <1>4, <1>5, <1>6 DEF BuilderSafe, TakesNoLiveVersion
<1>8. LogSound' /\ CurrentVersionRetained' /\ RetainedContentStored'
  BY <1>1 DEF CollectionSafe, LogSound, CurrentVersionRetained, RetainedContentStored
<1>9. \A g \in PlanIds : plans[g].status = "pending"
         => TakesNoLiveVersion(plans[g].revs, plans[g].paths)'
  BY <1>1 DEF CollectionSafe, TakesNoLiveVersion
<1> QED BY <1>1, <1>7, <1>8, <1>9 DEF CollectionSafe

LEMMA ReadWatermarkKeepsSafe ==
    ASSUME TypeOK, CollectionSafe, NEW g \in PlanIds, GCReadWatermark(g)
    PROVE  CollectionSafe'
<1>1. UNCHANGED <<seq, changes, files, blobs, devices>>
  BY DEF GCReadWatermark
<1>2. Watermark <= seq
  <2>1. CASE Active = {}
    BY <2>1 DEF Watermark, TypeOK
  <2>2. CASE Active # {}
    <3>1. PICK d \in Active : TRUE
      BY <2>2
    <3>2. Watermark <= devices[d].ack /\ devices[d].ack <= seq
      BY WatermarkType DEF Active, CollectionSafe
    <3> QED BY <3>2, WatermarkType DEF TypeOK, Device, Active
  <2> QED BY <2>1, <2>2
<1>3. BuilderSafe'
  BY <1>1, <1>2 DEF GCReadWatermark, CollectionSafe, BuilderSafe
<1>4. ASSUME NEW h \in PlanIds, plans'[h].status = "pending"
      PROVE  TakesNoLiveVersion(plans[h].revs, plans[h].paths)'
  <2>1. CASE plans'[h] = plans[h]
    BY <1>1, <1>4, <2>1 DEF CollectionSafe, TakesNoLiveVersion
  <2>2. CASE plans'[h] # plans[h]
    <3>1. plans'[h] = [NoPlan EXCEPT !.status = "pending"]
      BY <2>2 DEF GCReadWatermark, TypeOK
    <3>2. plans'[h].revs = {}
      BY <3>1 DEF NoPlan
    <3>3. \A p \in Paths : files'[p].rev \notin plans'[h].revs
      BY <3>2
    <3> QED BY <3>2, <3>3 DEF TakesNoLiveVersion
  <2> QED BY <2>1, <2>2
<1>5. LogSound' /\ CurrentVersionRetained' /\ RetainedContentStored'
  BY <1>1 DEF CollectionSafe, LogSound, CurrentVersionRetained, RetainedContentStored
<1> QED BY <1>1, <1>3, <1>4, <1>5 DEF CollectionSafe

\* The third query adds, of the paths taken as deleted, only what is not
\* newer than the first watermark: no version a path came to life with.
LEMMA SaveKeepsSafe ==
    ASSUME TypeOK, CollectionSafe, GCSavePlan
    PROVE  CollectionSafe'
<1> DEFINE revs == builder.revs \cup Revs(HistoryOfDeleted)
           paths == builder.paths
           saved == [status |-> "pending", revs |-> revs, paths |-> paths,
                     blobs |-> OnlyIn(revs), opCutoff |-> builder.cutoff,
                     audience |-> builder.audience]
<1>1. /\ builder.phase = "ranked"
      /\ plans' = [plans EXCEPT ![builder.plan] = saved]
      /\ builder' = Idle
      /\ UNCHANGED <<seq, changes, files, blobs, devices>>
  BY DEF GCSavePlan
<1>2. LogSound /\ CurrentVersionRetained
  BY DEF CollectionSafe
<1>3. /\ TakesNoLiveVersion(builder.revs, paths)
      /\ \A p \in paths : files[p].content = Deleted \/ builder.watermark < files[p].rev
  BY <1>1 DEF CollectionSafe, BuilderSafe
<1>4. ASSUME NEW p \in Paths, files[p].rev # 0, files[p].rev \in revs
      PROVE  p \in paths /\ files[p].content = Deleted
  <2>1. CASE files[p].rev \in builder.revs
    BY <1>3, <1>4, <2>1 DEF TakesNoLiveVersion
  <2>2. CASE files[p].rev \in Revs(HistoryOfDeleted)
    <3>1. PICK c \in HistoryOfDeleted : c.rev = files[p].rev
      BY <2>2 DEF Revs
    <3>2. c \in changes /\ c.path \in paths /\ c.rev <= builder.watermark
      BY <3>1 DEF HistoryOfDeleted
    <3>3. c.path = p
      BY <1>2, <1>4, <3>1, <3>2 DEF CurrentVersionRetained, LogSound
    <3>4. builder.watermark \in Nat /\ c.rev \in Nat
      BY <1>1, <3>2 DEF TypeOK, Builder, Idle, Change
    <3>5. ~(builder.watermark < files[p].rev)
      BY <3>1, <3>2, <3>4
    <3> QED BY <1>3, <3>2, <3>3, <3>5
  <2> QED BY <1>4, <2>1, <2>2
<1>5. \A r \in revs : r <= seq
  BY <1>2, <1>3 DEF TakesNoLiveVersion, Revs, HistoryOfDeleted, LogSound
<1>6. TakesNoLiveVersion(revs, paths)
  BY <1>4, <1>5 DEF TakesNoLiveVersion
<1>7. ASSUME NEW h \in PlanIds, plans'[h].status = "pending"
      PROVE  TakesNoLiveVersion(plans[h].revs, plans[h].paths)'
  <2>1. saved.revs = revs /\ saved.paths = paths
    OBVIOUS
  <2> HIDE DEF saved, revs, paths
  <2>2. CASE plans'[h] = plans[h]
    BY <1>1, <1>7, <2>2 DEF CollectionSafe, TakesNoLiveVersion
  <2>3. CASE plans'[h] = saved
    BY <1>1, <1>6, <2>1, <2>3 DEF TakesNoLiveVersion
  <2>4. plans'[h] = plans[h] \/ plans'[h] = saved
    BY <1>1 DEF TypeOK
  <2> QED BY <2>2, <2>3, <2>4
<1>8. BuilderSafe'
  BY <1>1 DEF BuilderSafe, Idle
<1>9. LogSound' /\ CurrentVersionRetained' /\ RetainedContentStored'
  BY <1>1 DEF CollectionSafe, LogSound, CurrentVersionRetained, RetainedContentStored
<1> QED BY <1>1, <1>7, <1>8, <1>9 DEF CollectionSafe

LEMMA BuildEndKeepsSafe ==
    ASSUME CollectionSafe, GCBuildEnd
    PROVE  CollectionSafe'
<1>1. /\ builder' = Idle
      /\ UNCHANGED <<seq, changes, files, blobs, devices, plans>>
  BY DEF GCBuildEnd
<1>2. BuilderSafe'
  BY <1>1 DEF BuilderSafe, Idle
<1>3. LogSound' /\ CurrentVersionRetained' /\ RetainedContentStored'
  BY <1>1 DEF CollectionSafe, LogSound, CurrentVersionRetained, RetainedContentStored
<1> QED BY <1>1, <1>2, <1>3 DEF CollectionSafe, TakesNoLiveVersion

\* Executing a plan, at whatever later time, is safe because the plan is.
LEMMA ExecuteKeepsSafe ==
    ASSUME TypeOK, CollectionSafe, NEW g \in PlanIds, ExecuteGCPlan(g)
    PROVE  CollectionSafe'
<1> DEFINE plan == plans[g]
<1>1. /\ builder.phase = "idle"
      /\ plan.status = "pending"
      /\ changes' = Survivors(plan)
      /\ files' = FilesAfter(plan)
      /\ blobs' = BlobsAfter(plan)
      /\ plans' = [plans EXCEPT ![g].status = "executed"]
      /\ UNCHANGED <<seq, devices, builder>>
  BY DEF ExecuteGCPlan
<1>2. LogSound /\ CurrentVersionRetained /\ RetainedContentStored
  BY DEF CollectionSafe
<1>3. TakesNoLiveVersion(plan.revs, plan.paths)
  BY <1>1 DEF CollectionSafe
<1>4. changes' \in SUBSET changes /\ \A c \in changes : c.rev \notin plan.revs => c \in changes'
  BY <1>1 DEF Survivors
<1>5. ASSUME NEW p \in Paths
      PROVE  \/ files'[p] = NoRow
             \/ files'[p] = files[p] /\ ~(p \in plan.paths /\ files[p].content = Deleted)
  BY <1>1 DEF FilesAfter
<1>6. LogSound'
  <2>1. IsFiniteSet(changes')
    BY <1>2, <1>4, FS_Subset DEF LogSound
  <2>2. \A p \in Paths : files'[p].rev = 0 => files'[p].content = Deleted
    BY <1>2, <1>5 DEF LogSound, NoRow
  <2> QED BY <1>1, <1>2, <1>4, <2>1, <2>2 DEF LogSound
<1>7. CurrentVersionRetained'
  <2> SUFFICES ASSUME NEW p \in Paths, files'[p].rev # 0
               PROVE  /\ \E c \in changes' : /\ c.path = p
                                             /\ c.rev = files'[p].rev
                                             /\ c.content = files'[p].content
                      /\ \A c \in changes' : c.path = p => c.rev <= files'[p].rev
    BY DEF CurrentVersionRetained
  <2>1. /\ files'[p] = files[p]
        /\ ~(p \in plan.paths /\ files[p].content = Deleted)
    BY <1>5 DEF NoRow
  <2>2. files[p].rev \notin plan.revs
    BY <1>3, <2>1 DEF TakesNoLiveVersion
  <2> QED BY <1>2, <1>4, <2>1, <2>2 DEF CurrentVersionRetained
<1>8. RetainedContentStored'
  <2>1. \A c \in changes' : c \in Survivors(plan) /\ c \in changes
    BY <1>1, <1>4
  <2> QED BY <1>1, <1>2, <2>1 DEF BlobsAfter, RetainedContentStored
<1>9. BuilderSafe'
  BY <1>1 DEF BuilderSafe
<1>10. ASSUME NEW h \in PlanIds, plans'[h].status = "pending"
       PROVE  TakesNoLiveVersion(plans[h].revs, plans[h].paths)'
  <2>1. plans'[h] = plans[h]
    BY <1>1, <1>10 DEF TypeOK, Plan
  <2>2. TakesNoLiveVersion(plans[h].revs, plans[h].paths)
    BY <1>10, <2>1 DEF CollectionSafe
  <2>3. \A p \in Paths : files'[p].rev # 0 => files'[p] = files[p]
    BY <1>5 DEF NoRow
  <2> QED BY <1>1, <2>1, <2>2, <2>3 DEF TakesNoLiveVersion
<1> QED BY <1>1, <1>6, <1>7, <1>8, <1>9, <1>10 DEF CollectionSafe

LEMMA SafeInit == Init => CollectionSafe
<1> SUFFICES ASSUME Init PROVE CollectionSafe
  OBVIOUS
<1>1. LogSound
  BY FS_EmptySet DEF Init, LogSound, NoRow
<1>2. CurrentVersionRetained /\ RetainedContentStored
  BY DEF Init, CurrentVersionRetained, RetainedContentStored, NoRow
<1> QED BY <1>1, <1>2 DEF Init, CollectionSafe, BuilderSafe, Idle, NoPlan

LEMMA SafeStep == TypeOK /\ TypeOK' /\ CollectionSafe /\ [Next]_vars => CollectionSafe'
<1> SUFFICES ASSUME TypeOK, TypeOK', CollectionSafe, [Next]_vars
             PROVE  CollectionSafe'
  OBVIOUS
<1>1. ASSUME NEW d \in Writers, Commits(d),
             UNCHANGED <<clock, devices, builder, plans>>
      PROVE  CollectionSafe'
  BY <1>1, CommitKeepsSafe
<1>2. ASSUME NEW d \in Writers, Answers(d),
             UNCHANGED <<clock, devices, builder, plans>>
      PROVE  CollectionSafe'
  BY <1>2, AnswersType, DevicesKeepSafe DEF CollectionSafe
<1>3. ASSUME NEW d \in Writers, RestoreMark(d)
      PROVE  CollectionSafe'
  BY <1>3, MarkKeepsSafe
<1>4. ASSUME NEW d \in Devices, Manage(d)
      PROVE  CollectionSafe'
  BY <1>4, ManageKeepsSafe
<1>5. ASSUME NEW g \in PlanIds, GCReadWatermark(g)
      PROVE  CollectionSafe'
  BY <1>5, ReadWatermarkKeepsSafe
<1>6. CASE GCRankChanges
  BY <1>6, RankKeepsSafe
<1>7. CASE GCSavePlan
  BY <1>7, SaveKeepsSafe
<1>8. ASSUME NEW g \in PlanIds, ExecuteGCPlan(g)
      PROVE  CollectionSafe'
  BY <1>8, ExecuteKeepsSafe
<1>9. CASE GCBuildEnd
  BY <1>9, BuildEndKeepsSafe
<1>10. CASE Quiet
  BY <1>10, DevicesKeepSafe DEF Quiet, CollectionSafe
<1> QED BY <1>1, <1>2, <1>3, <1>4, <1>5, <1>6, <1>7, <1>8, <1>9, <1>10, StepCases

\* The inductive invariant holds throughout.
THEOREM CollectionIsSafe == Spec => []CollectionSafe
<1>1. Init => TypeOK /\ CollectionSafe
  BY TypeInit, SafeInit
<1>2. TypeOK /\ CollectionSafe /\ [Next]_vars => TypeOK' /\ CollectionSafe'
  BY TypeStep, SafeStep
<1> QED BY <1>1, <1>2, PTL DEF Spec

\* No collection, whenever its plan was built and whatever was committed or
\* acknowledged since, takes the version that a path's row names.
THEOREM CurrentVersionIsRetained == Spec => []CurrentVersionRetained
<1>1. CollectionSafe => CurrentVersionRetained
  BY DEF CollectionSafe
<1> QED BY <1>1, CollectionIsSafe, PTL

\* Nor does it take the bytes of a version that is still in the log.
THEOREM RetainedContentIsStored == Spec => []RetainedContentStored
<1>1. CollectionSafe => RetainedContentStored
  BY DEF CollectionSafe
<1> QED BY <1>1, CollectionIsSafe, PTL

-----------------------------------------------------------------------------
(* Refinement.                                                             *)

\* Each step of the store is a step of the versioned map or leaves it alone.
LEMMA MapStep ==
    TypeOK /\ TypeOK' /\ [Next]_vars => [Map!Next]_(Map!vars)
<1> SUFFICES ASSUME TypeOK, TypeOK', [Next]_vars
             PROVE  [Map!Next]_(Map!vars)
  OBVIOUS
<1>1. ASSUME NEW d \in Writers, Commits(d)
      PROVE  Map!Next
  <2>1. PICK added \in SUBSET Change :
              /\ IsFiniteSet(added) /\ added # {}
              /\ changes' = changes \cup added
              /\ seq <= seq'
              /\ \A c \in added : seq < c.rev /\ c.rev <= seq'
              /\ \A c, e \in added : c.rev = e.rev \/ c.path = e.path => c = e
              /\ \A p \in Paths :
                    \/ files'[p] = files[p] /\ \A c \in added : c.path # p
                    \/ \E c \in added :
                          /\ c.path = p
                          /\ files'[p] = [rev |-> c.rev, content |-> c.content]
    BY <1>1, CommitAdds
  <2> DEFINE written == {c.path : c \in added}
  <2>2. written \in SUBSET Paths
    BY DEF Change
  <2>3. seq \in Nat /\ seq' \in Nat /\ \A c \in added : c.rev \in Nat
    BY <2>1 DEF TypeOK, Change
  <2>4. seq' > seq
    BY <2>1, <2>3
  <2>5. files' \in [Paths -> [rev : Nat, content : Contents \cup {Deleted}]]
    BY DEF TypeOK, Row, Content
  <2>6. ASSUME NEW p \in Paths \ written
        PROVE  files'[p] = files[p]
    <3>1. ~\E c \in added : c.path = p
      OBVIOUS
    <3> QED BY <2>1, <3>1
  <2>7. ASSUME NEW p \in written
        PROVE  \E c \in added : c.path = p /\ files'[p].rev = c.rev
    <3>1. p \in Paths /\ ~\A c \in added : c.path # p
      BY <2>2
    <3>2. PICK c \in added : /\ c.path = p
                             /\ files'[p] = [rev |-> c.rev, content |-> c.content]
      BY <2>1, <3>1
    <3> QED BY <3>2
  <2>8. \A p \in written : seq < files'[p].rev /\ files'[p].rev <= seq'
    BY <2>1, <2>7
  <2>9. \A p, q \in written : files'[p].rev = files'[q].rev => p = q
    BY <2>1, <2>7
  <2>10. Map!Commit(written)
    <3> HIDE DEF written
    <3> QED BY <2>3, <2>4, <2>5, <2>6, <2>8, <2>9, Zenon DEF Map!Commit
  <2> HIDE DEF written
  <2> QED BY <2>2, <2>10, Zenon DEF Map!Next
<1>2. ASSUME NEW g \in PlanIds, ExecuteGCPlan(g)
      PROVE  Map!Next
  <2> DEFINE dropped == {p \in plans[g].paths : files[p].content = Deleted}
  <2>1. plans[g].paths \in SUBSET Paths
    BY DEF TypeOK, Plan
  <2>2. files' = FilesAfter(plans[g]) /\ seq' = seq
    BY <1>2 DEF ExecuteGCPlan
  <2>3. Map!Forget(dropped)
    BY <2>1, <2>2 DEF Map!Forget, Map!None, FilesAfter, NoRow
  <2> QED BY <2>1, <2>3 DEF Map!Next
<1>3. ASSUME NEW d \in Writers, Answers(d)
      PROVE  UNCHANGED Map!vars
  BY <1>3, AnswersType DEF Map!vars
<1>4. ASSUME NEW d \in Writers, RestoreMark(d)
      PROVE  UNCHANGED Map!vars
  BY <1>4 DEF RestoreMark, Map!vars
<1>5. ASSUME NEW d \in Devices, Manage(d)
      PROVE  UNCHANGED Map!vars
  BY <1>5 DEF Manage, PairDevice, SetDeviceStatus, AcknowledgeDevice, Map!vars
<1>6. ASSUME \/ \E g \in PlanIds : GCReadWatermark(g)
             \/ GCRankChanges
             \/ GCSavePlan
             \/ GCBuildEnd
      PROVE  UNCHANGED Map!vars
  BY <1>6 DEF GCReadWatermark, GCRankChanges, GCSavePlan, GCBuildEnd, Map!vars
<1>7. Quiet => UNCHANGED Map!vars
  BY DEF Quiet, Map!vars
<1> QED BY <1>1, <1>2, <1>3, <1>4, <1>5, <1>6, <1>7, StepCases

\* The store keeps what the versioned map promises: every step gives fresh
\* revisions to the rows it writes, forgets tombstones, or changes no row.
THEOREM StoreImplementsMap == Spec => ImplementsVersionedMap
<1>1. Init => Map!Init
  BY DEF Init, Map!Init, Map!None, NoRow
<1>2. TypeOK /\ TypeOK' /\ [Next]_vars => [Map!Next]_(Map!vars)
  BY MapStep
<1> QED BY <1>1, <1>2, TypeCorrect, PTL DEF Spec, ImplementsVersionedMap, Map!Spec

-----------------------------------------------------------------------------
(* What operations return.                                                 *)

\* The revisions of every result were given out before it was returned.
ResultsIssued == \A a \in answers : \A x \in a.result : x.rev <= seq

\* A result that a commit stores has revisions of its own.
LEMMA CommitRemembers ==
    ASSUME TypeOK, NEW d \in Writers, Commits(d)
    PROVE  /\ seq <= seq'
           /\ \/ UNCHANGED <<answers, operations>>
              \/ \E o \in answers' :
                    /\ answers' = answers \cup {o}
                    /\ operations' = operations \cup {o}
                    /\ \A x \in o.result : seq < x.rev /\ x.rev <= seq'
                    /\ o.request.kind = "apply" => o.result = Applied(o.request)
<1>1. PICK op \in OpIds \cup RestoreIds \cup {NoOp}, request \in Request,
           new \in SUBSET Outcome, stored \in SUBSET Contents :
           /\ NewOutcomes(new)
           /\ Commit(d, op, request, new, stored)
           /\ request.kind = "apply" => new = Applied(request)
  BY Zenon DEF Commits
<1>2. seq' = seq + Cardinality(new) /\ Cardinality(new) \in Nat
  BY <1>1, FS_CardinalityType DEF Commit, Issued, NewOutcomes
<1>3. \A x \in new : seq < x.rev /\ x.rev <= seq'
  BY <1>1, <1>2 DEF NewOutcomes
<1> DEFINE o == [device |-> d, id |-> op, request |-> request, result |-> new,
                 changed |-> TRUE, created |-> clock]
<1>4. \/ UNCHANGED <<answers, operations>>
      \/ answers' = answers \cup {o} /\ operations' = operations \cup {o}
  BY <1>1 DEF Commit, Remember
<1>5. o.result = new /\ o.request = request
  OBVIOUS
<1> HIDE DEF o
<1> QED BY <1>1, <1>2, <1>3, <1>4, <1>5 DEF TypeOK

\* The result of a request for what is already so is the row it found.
LEMMA AnswersRemember ==
    ASSUME TypeOK, CollectionSafe, NEW d \in Writers, Answers(d)
    PROVE  /\ UNCHANGED <<seq, changes>>
           /\ \/ UNCHANGED <<answers, operations>>
              \/ \E o \in answers' :
                    /\ answers' = answers \cup {o}
                    /\ operations' = operations \cup {o}
                    /\ \A x \in o.result : x.rev <= seq
                    /\ ~o.changed
<1>1. PICK op \in OpIds \cup RestoreIds \cup {NoOp}, request \in ApplyRequest :
           AnswerUnchanged(d, op, request, files[request.path])
  BY DEF Answers
<1> DEFINE row == files[request.path]
           x == [rev |-> row.rev, path |-> request.path, content |-> row.content]
           o == [device |-> d, id |-> op, request |-> request, result |-> {x},
                 changed |-> FALSE, created |-> clock]
<1>2. request.path \in Paths
  BY DEF ApplyRequest
<1>3. row.rev <= seq
  <2>1. CASE row.rev = 0
    BY <2>1 DEF TypeOK
  <2>2. CASE row.rev # 0
    <3>1. PICK c \in changes : c.rev = row.rev
      BY <1>2, <2>2 DEF CollectionSafe, CurrentVersionRetained
    <3> QED BY <3>1 DEF CollectionSafe, LogSound
  <2> QED BY <2>1, <2>2
<1>4. \/ UNCHANGED <<answers, operations>>
      \/ answers' = answers \cup {o} /\ operations' = operations \cup {o}
  BY <1>1 DEF AnswerUnchanged, Remember
<1>5. (\A y \in o.result : y.rev <= seq) /\ ~o.changed
  BY <1>3
<1>6. UNCHANGED <<seq, changes>>
  BY <1>1 DEF AnswerUnchanged
<1> HIDE DEF o
<1> QED BY <1>4, <1>5, <1>6

LEMMA ResultsStep ==
    TypeOK /\ TypeOK' /\ CollectionSafe /\ ResultsIssued /\ [Next]_vars
    => ResultsIssued'
<1> SUFFICES ASSUME TypeOK, TypeOK', CollectionSafe, ResultsIssued, [Next]_vars
             PROVE  ResultsIssued'
  OBVIOUS
<1>1. /\ seq \in Nat /\ seq' \in Nat
      /\ \A a \in answers' : \A x \in a.result : x.rev \in Nat
  BY DEF TypeOK, Operation, Outcome
<1>2. ASSUME NEW d \in Writers, Commits(d)
      PROVE  ResultsIssued'
  <2>1. seq <= seq'
    BY <1>2, CommitRemembers
  <2>2. \/ answers' = answers
        \/ \E o \in answers' :
              /\ answers' = answers \cup {o}
              /\ \A x \in o.result : x.rev <= seq'
    BY <1>2, CommitRemembers
  <2> QED BY <1>1, <2>1, <2>2 DEF ResultsIssued
<1>3. ASSUME NEW d \in Writers, Answers(d)
      PROVE  ResultsIssued'
  <2>1. /\ seq' = seq
        /\ \/ answers' = answers
           \/ \E o \in answers' :
                 /\ answers' = answers \cup {o}
                 /\ \A x \in o.result : x.rev <= seq
    BY <1>3, AnswersRemember
  <2> QED BY <2>1 DEF ResultsIssued
<1>4. CASE UNCHANGED <<seq, answers>>
  BY <1>4 DEF ResultsIssued
<1>5. ASSUME \/ \E d \in Writers : RestoreMark(d)
             \/ \E d \in Devices : Manage(d)
             \/ \E g \in PlanIds : GCReadWatermark(g) \/ ExecuteGCPlan(g)
             \/ GCRankChanges
             \/ GCSavePlan
             \/ GCBuildEnd
             \/ Quiet
      PROVE  UNCHANGED <<seq, answers>>
  BY <1>5 DEF RestoreMark, Manage, PairDevice, SetDeviceStatus, AcknowledgeDevice,
              GCReadWatermark, GCRankChanges, GCSavePlan, GCBuildEnd, ExecuteGCPlan, Quiet
<1> QED BY <1>2, <1>3, <1>4, <1>5, StepCases

-----------------------------------------------------------------------------
(* Retries and lost updates.                                               *)

\* What a request writes: it is based on the current version of each path it
\* names, makes one new version of that path, and where it is no PUT or DELETE,
\* the paths it names have live files.
Writes(request, result) ==
    /\ changes' = changes \cup Logged(result)
    /\ \A x \in result : seq < x.rev
    /\ \A x, y \in result : x.path = y.path => x = y
    /\ \A b \in Bases(request) : /\ b.base = files[b.path].rev
                                 /\ \E x \in result : x.path = b.path
    /\ request.kind = "apply" => \A x \in result : x.path = request.path
    /\ request.kind # "apply" =>
          \E b \in Bases(request) : files[b.path].content # Deleted

\* The answer that a step adds: no result was stored under its operation id.
NewAnswer(o) ==
    /\ answers' = answers \cup {o}
    /\ operations' = operations \cup {o}
    /\ Fresh(o.device, o.id)
    /\ o.changed => Writes(o.request, o.result)

\* What is kept of a mutation that found no earlier result.
LEMMA RememberAnswers ==
    ASSUME NEW d, NEW op, NEW request, NEW result, NEW changed \in BOOLEAN,
           Fresh(d, op), Remember(d, op, request, result, changed),
           changed => Writes(request, result)
    PROVE  UNCHANGED <<answers, operations>> \/ \E o \in answers' : NewAnswer(o)
<1> DEFINE o == [device |-> d, id |-> op, request |-> request, result |-> result,
                 changed |-> changed, created |-> clock]
<1>1. \/ UNCHANGED <<answers, operations>>
      \/ answers' = answers \cup {o} /\ operations' = operations \cup {o}
  BY DEF Remember
<1>2. /\ o.device = d /\ o.id = op /\ o.request = request
      /\ o.result = result /\ o.changed = changed
  OBVIOUS
<1> HIDE DEF o
<1> QED BY <1>1, <1>2 DEF NewAnswer

\* A PUT or DELETE, of a client or of a restore.
LEMMA ApplyTxAnswers ==
    ASSUME TypeOK, NEW d, NEW op, NEW request \in ApplyRequest,
           ApplyTx(d, op, request)
    PROVE  UNCHANGED <<answers, operations>> \/ \E o \in answers' : NewAnswer(o)
<1> DEFINE row == files[request.path]
           found == {[rev |-> row.rev, path |-> request.path, content |-> row.content]}
           made == {[rev |-> seq + 1, path |-> request.path,
                     content |-> request.content]}
<1>1. CASE AnswerUnchanged(d, op, request, row)
  <2>1. Fresh(d, op) /\ Remember(d, op, request, found, FALSE)
    BY <1>1, Zenon DEF ApplyTx, AnswerUnchanged
  <2> HIDE DEF found
  <2> QED BY <2>1, RememberAnswers
<1>2. CASE /\ BaseCurrent(row, request.base)
           /\ Commit(d, op, request, made, {request.content} \ {Deleted})
  <2>1. /\ Fresh(d, op)
        /\ Remember(d, op, request, made, TRUE)
        /\ changes' = changes \cup Logged(made)
    BY <1>2, Zenon DEF ApplyTx, Commit
  <2>2. Bases(request) = {[path |-> request.path, base |-> request.base]}
    BY DEF Bases, ApplyRequest
  <2>3. \A b \in Bases(request) : /\ b.base = files[b.path].rev
                                  /\ \E x \in made : x.path = b.path
    BY <1>2, <2>2 DEF BaseCurrent
  <2>4. /\ \A x, y \in made : x.path = y.path => x = y
        /\ \A x \in made : seq < x.rev /\ x.path = request.path
    BY DEF TypeOK
  <2>5. request.kind = "apply"
    BY DEF ApplyRequest
  <2> HIDE DEF made
  <2>6. Writes(request, made)
    BY <2>1, <2>3, <2>4, <2>5 DEF Writes
  <2> QED BY <2>1, <2>6, RememberAnswers
<1> QED BY <1>1, <1>2, Zenon DEF ApplyTx

\* A rename is based on its source alone: its destination must have no file.
LEMMA RenameAnswers ==
    ASSUME TypeOK, NEW d, Rename(d)
    PROVE  UNCHANGED <<answers, operations>> \/ \E o \in answers' : NewAnswer(o)
<1> DEFINE request(from, to, base) ==
              [kind |-> "rename", from |-> from, to |-> to, base |-> base]
           made(from, to) ==
              {[rev |-> seq + 1, path |-> from, content |-> Deleted],
               [rev |-> seq + 2, path |-> to, content |-> files[from].content]}
<1>1. PICK op \in OpIds, from \in Paths, to \in Paths, base \in 0..seq :
        /\ Fresh(d, op)
        /\ BaseCurrent(files[from], base)
        /\ from # to
        /\ files[from].content # Deleted
        /\ Remember(d, op, request(from, to, base), made(from, to), TRUE)
        /\ changes' = changes \cup Logged(made(from, to))
  BY ZenonT(40) DEF Rename, Commit
<1>2. Bases(request(from, to, base)) = {[path |-> from, base |-> base]}
  BY DEF Bases
<1>3. /\ \A x, y \in made(from, to) : x.path = y.path => x = y
      /\ \A x \in made(from, to) : seq < x.rev
      /\ \E x \in made(from, to) : x.path = from
  BY <1>1 DEF TypeOK
<1>4. Writes(request(from, to, base), made(from, to))
  <2>1. \A b \in Bases(request(from, to, base)) :
           b.base = files[b.path].rev /\ b.path = from
    BY <1>1, <1>2 DEF BaseCurrent
  <2>2. \E b \in Bases(request(from, to, base)) : files[b.path].content # Deleted
    <3>1. [path |-> from, base |-> base] \in Bases(request(from, to, base))
      BY <1>2
    <3> QED BY <1>1, <3>1
  <2>3. request(from, to, base).kind = "rename"
    OBVIOUS
  <2> HIDE DEF request, made
  <2> QED BY <1>1, <1>3, <2>1, <2>2, <2>3 DEF Writes
<1> HIDE DEF request, made
<1> QED BY <1>1, <1>4, RememberAnswers

\* A batch is based on every version it deletes.
LEMMA BatchDeleteAnswers ==
    ASSUME TypeOK, NEW d, BatchDelete(d)
    PROVE  UNCHANGED <<answers, operations>> \/ \E o \in answers' : NewAnswer(o)
<1>1. PICK op \in OpIds, batch \in (SUBSET Paths) \ {{}} :
        \E base \in [batch -> 0..seq],
           rank \in Injection(batch, 1..Cardinality(batch)) :
           /\ Fresh(d, op)
           /\ \A p \in batch : /\ files[p].content # Deleted
                                /\ BaseCurrent(files[p], base[p])
           /\ Remember(d, op, BatchOf(batch, base), Tombstones(batch, rank), TRUE)
           /\ changes' = changes \cup Logged(Tombstones(batch, rank))
  BY Zenon DEF BatchDelete, Commit
<1>2. PICK base \in [batch -> 0..seq],
           rank \in Injection(batch, 1..Cardinality(batch)) :
           /\ Fresh(d, op)
           /\ \A p \in batch : /\ files[p].content # Deleted
                                /\ BaseCurrent(files[p], base[p])
           /\ Remember(d, op, BatchOf(batch, base), Tombstones(batch, rank), TRUE)
           /\ changes' = changes \cup Logged(Tombstones(batch, rank))
  BY <1>1
<1>3. Bases(BatchOf(batch, base)) = {[path |-> p, base |-> base[p]] : p \in batch}
  BY DEF Bases, BatchOf
<1>4. \A p \in batch : rank[p] \in Nat \ {0}
  <2>1. Cardinality(batch) \in Nat
    BY FS_Subset, FS_CardinalityType, StoreAssumption
  <2>2. rank \in [batch -> 1..Cardinality(batch)]
    BY DEF Injection
  <2> QED BY <2>1, <2>2
<1>5. /\ \A x, y \in Tombstones(batch, rank) : x.path = y.path => x = y
      /\ \A p \in batch : \E x \in Tombstones(batch, rank) : x.path = p
  <2>1. \A p \in batch : [rev |-> seq + rank[p], path |-> p, content |-> Deleted]
                              \in Tombstones(batch, rank)
    BY DEF Tombstones
  <2>2. \A p \in batch : \E x \in Tombstones(batch, rank) : x.path = p
    BY <2>1, Zenon
  <2>3. \A x, y \in Tombstones(batch, rank) : x.path = y.path => x = y
    BY DEF Tombstones
  <2> QED BY <2>2, <2>3
<1>6. \A x \in Tombstones(batch, rank) : seq < x.rev
  <2>1. seq \in Nat
    BY DEF TypeOK
  <2>2. \A p \in batch : seq < seq + rank[p]
    BY <1>4, <2>1
  <2> QED BY <2>2 DEF Tombstones
<1>7. /\ \A b \in Bases(BatchOf(batch, base)) :
            b.path \in batch /\ b.base = files[b.path].rev
      /\ \E b \in Bases(BatchOf(batch, base)) : files[b.path].content # Deleted
  <2>1. PICK p \in batch : files[p].content # Deleted
    BY <1>2
  <2>2. [path |-> p, base |-> base[p]] \in Bases(BatchOf(batch, base))
    BY <1>3
  <2> QED BY <1>2, <1>3, <2>1, <2>2 DEF BaseCurrent
<1>8. BatchOf(batch, base).kind = "batch"
  BY DEF BatchOf
<1>9. Writes(BatchOf(batch, base), Tombstones(batch, rank))
  BY <1>2, <1>5, <1>6, <1>7, <1>8 DEF Writes
<1> QED BY <1>2, <1>9, RememberAnswers

\* Every step adds such an answer or none; only a collection forgets one.
LEMMA StepAnswers ==
    ASSUME TypeOK, [Next]_vars
    PROVE  \/ \E o \in answers' : NewAnswer(o)
           \/ /\ UNCHANGED answers
              /\ UNCHANGED operations \/ \E g \in PlanIds : ExecuteGCPlan(g)
<1>1. ASSUME NEW d \in Writers, Apply(d)
      PROVE  UNCHANGED <<answers, operations>> \/ \E o \in answers' : NewAnswer(o)
  <2>1. PICK op \in OpIds \cup {NoOp}, p \in Paths, base \in 0..seq,
             c \in Content :
             ApplyTx(d, op, [kind |-> "apply", path |-> p, base |-> base,
                             content |-> c])
    BY <1>1, Zenon DEF Apply
  <2>2. [kind |-> "apply", path |-> p, base |-> base, content |-> c]
          \in ApplyRequest
    BY DEF ApplyRequest, TypeOK
  <2> QED BY <2>1, <2>2, ApplyTxAnswers
<1>2. ASSUME NEW d \in Writers, RestorePut(d)
      PROVE  UNCHANGED <<answers, operations>> \/ \E o \in answers' : NewAnswer(o)
  <2> DEFINE r == restoring[d]
  <2>1. r.request \in ApplyRequest
    <3>1. r \in Restore /\ r.phase = "read"
      BY <1>2 DEF RestorePut, TypeOK
    <3> QED BY <3>1 DEF Restore, Idle
  <2>2. \/ ApplyTx(d, r.op, r.request)
        \/ UNCHANGED <<answers, operations>>
    BY <1>2, Zenon DEF RestorePut
  <2> HIDE DEF r
  <2> QED BY <2>1, <2>2, ApplyTxAnswers
<1>3. ASSUME NEW d \in Writers, RestoreRead(d) \/ RestoreMark(d) \/ RestoreEnd(d)
      PROVE  UNCHANGED <<answers, operations>>
  BY <1>3 DEF RestoreRead, RestoreMark, RestoreEnd
<1>4. ASSUME \/ \E d \in Devices : Manage(d)
             \/ \E g \in PlanIds : GCReadWatermark(g)
             \/ GCRankChanges \/ GCSavePlan \/ GCBuildEnd
             \/ DayPasses \/ UNCHANGED vars
      PROVE  UNCHANGED <<answers, operations>>
  BY <1>4 DEF Manage, PairDevice, SetDeviceStatus, AcknowledgeDevice,
              GCReadWatermark, GCRankChanges, GCSavePlan, GCBuildEnd, DayPasses, vars
<1>5. ASSUME NEW g \in PlanIds, ExecuteGCPlan(g)
      PROVE  UNCHANGED answers
  BY <1>5 DEF ExecuteGCPlan
<1> QED BY <1>1, <1>2, <1>3, <1>4, <1>5, RenameAnswers, BatchDeleteAnswers
        DEF Next, Mutate, RestoreVersion, CollectGarbage

\* While nothing is collected, every path of the log has its row and every
\* answer is kept.
NothingForgotten ==
    PlanIds = {} => /\ \A c \in changes : c.rev <= files[c.path].rev
                    /\ operations = answers

\* NoLostUpdate, but for a request that is based on no version of a path whose
\* tombstone may have been collected.
NamedBaseNotLost ==
    \A a \in answers : a.changed =>
        \A b \in Bases(a.request), o \in a.result, c \in changes :
            (b.base # 0 \/ PlanIds = {}) /\ b.path = o.path /\ b.path = c.path
                => ~(b.base < c.rev /\ c.rev < o.rev)

LEMMA NothingForgottenStep ==
    ASSUME TypeOK, TypeOK', CollectionSafe, NothingForgotten, [Next]_vars
    PROVE  NothingForgotten'
<1> SUFFICES ASSUME PlanIds = {}
             PROVE  /\ \A c \in changes' : c.rev <= files'[c.path].rev
                    /\ operations' = answers'
  BY DEF NothingForgotten
<1>1. operations' = answers'
  BY StepAnswers DEF NothingForgotten, NewAnswer
<1>2. /\ \A c \in changes : c.path \in Paths /\ c.rev \in Nat
      /\ \A c \in changes' : c.path \in Paths /\ c.rev \in Nat
      /\ \A p \in Paths : files[p].rev \in Nat /\ files'[p].rev \in Nat
      /\ seq \in Nat
  BY DEF TypeOK, Change, Row
<1>3. ASSUME NEW d \in Writers, Commits(d)
      PROVE  \A c \in changes' : c.rev <= files'[c.path].rev
  <2>1. PICK added \in SUBSET Change :
              /\ changes' = changes \cup added
              /\ \A c \in added : seq < c.rev /\ c.rev <= seq'
              /\ \A c, e \in added : c.rev = e.rev \/ c.path = e.path => c = e
              /\ \A p \in Paths :
                    \/ files'[p] = files[p] /\ \A c \in added : c.path # p
                    \/ \E c \in added :
                          /\ c.path = p
                          /\ files'[p] = [rev |-> c.rev, content |-> c.content]
    BY <1>3, CommitAdds
  <2>2. ASSUME NEW c \in changes'
        PROVE  c.rev <= files'[c.path].rev
    <3>1. c.path \in Paths
      BY <1>2
    <3>2. CASE files'[c.path] = files[c.path] /\ \A e \in added : e.path # c.path
      BY <2>1, <3>2 DEF NothingForgotten
    <3>3. ASSUME NEW e \in added, e.path = c.path,
                 files'[c.path] = [rev |-> e.rev, content |-> e.content]
          PROVE  c.rev <= files'[c.path].rev
      <4>1. files'[c.path].rev = e.rev /\ e.rev \in Nat
        BY <3>3 DEF Change
      <4>2. CASE c \in added
        BY <2>1, <3>3, <4>1, <4>2
      <4>3. CASE c \in changes
        BY <1>2, <1>3, <2>1, <3>3, <4>1, <4>3 DEF CollectionSafe, LogSound
      <4> QED BY <2>1, <4>2, <4>3
    <3> QED BY <2>1, <3>1, <3>2, <3>3
  <2> QED BY <2>2
<1>4. ASSUME NEW d \in Writers, RestoreMark(d)
      PROVE  \A c \in changes' : c.rev <= files'[c.path].rev
  <2>1. files' = files
    BY <1>4 DEF RestoreMark
  <2>2. \A c \in changes' : \E e \in changes : c.rev = e.rev /\ c.path = e.path
    BY <1>4, MarkKeepsVersions
  <2> QED BY <2>1, <2>2 DEF NothingForgotten
<1>5. ASSUME \/ \E d \in Writers : Answers(d)
             \/ \E d \in Devices : Manage(d)
             \/ \E g \in PlanIds : GCReadWatermark(g) \/ ExecuteGCPlan(g)
             \/ GCRankChanges
             \/ GCSavePlan
             \/ GCBuildEnd
             \/ Quiet
      PROVE  UNCHANGED <<changes, files>>
  BY <1>5, AnswersType
     DEF Manage, PairDevice, SetDeviceStatus, AcknowledgeDevice,
         GCRankChanges, GCSavePlan, GCBuildEnd, Quiet
<1>6. CASE UNCHANGED <<changes, files>>
  BY <1>1, <1>6 DEF NothingForgotten
<1> QED BY <1>1, <1>3, <1>4, <1>5, <1>6, StepCases

\* What a step adds to the log is beyond the sequence.
LEMMA LogAppends ==
    ASSUME TypeOK, [Next]_vars, NEW c \in changes'
    PROVE  \/ seq < c.rev
           \/ \E e \in changes : c.rev = e.rev /\ c.path = e.path
<1>1. ASSUME NEW d \in Writers, Commits(d)
      PROVE  seq < c.rev \/ c \in changes
  BY <1>1, CommitAdds
<1>2. ASSUME NEW d \in Writers, RestoreMark(d)
      PROVE  \E e \in changes : c.rev = e.rev /\ c.path = e.path
  BY <1>2, MarkKeepsVersions
<1>3. ASSUME \/ \E d \in Writers : Answers(d)
             \/ \E d \in Devices : Manage(d)
             \/ \E g \in PlanIds : GCReadWatermark(g) \/ ExecuteGCPlan(g)
             \/ GCRankChanges
             \/ GCSavePlan
             \/ GCBuildEnd
             \/ Quiet
      PROVE  c \in changes
  BY <1>3, AnswersType
     DEF Manage, PairDevice, SetDeviceStatus, AcknowledgeDevice, GCReadWatermark,
         GCRankChanges, GCSavePlan, GCBuildEnd, ExecuteGCPlan, Survivors, Quiet
<1> QED BY <1>1, <1>2, <1>3, StepCases

LEMMA NamedBaseStep ==
    ASSUME TypeOK, TypeOK', CollectionSafe, ResultsIssued, NothingForgotten,
           NamedBaseNotLost, [Next]_vars
    PROVE  NamedBaseNotLost'
<1> SUFFICES ASSUME NEW a \in answers', a.changed, NEW b \in Bases(a.request),
                    NEW o \in a.result, NEW c \in changes',
                    b.base # 0 \/ PlanIds = {}, b.path = o.path, b.path = c.path,
                    b.base < c.rev, c.rev < o.rev
             PROVE  FALSE
  BY DEF NamedBaseNotLost
<1>1. /\ seq \in Nat /\ c.rev \in Nat /\ o.rev \in Nat /\ c.path \in Paths
      /\ files[c.path].rev \in Nat
      /\ \A e \in changes : e.rev \in Nat
  BY DEF TypeOK, Change, Operation, Outcome, Row
<1>2. CASE a \in answers
  <2>1. o.rev <= seq
    BY <1>2 DEF ResultsIssued
  <2>2. PICK e \in changes : c.rev = e.rev /\ c.path = e.path
    BY <1>1, <2>1, LogAppends
  <2> QED BY <1>2, <2>2 DEF NamedBaseNotLost
<1>3. ASSUME NewAnswer(a)
      PROVE  FALSE
  <2>1. /\ b.base = files[c.path].rev
        /\ changes' = changes \cup Logged(a.result)
        /\ \A x, y \in a.result : x.path = y.path => x = y
    BY <1>3 DEF NewAnswer, Writes
  <2>2. CASE c \in Logged(a.result)
    <3>1. PICK y \in a.result : c.rev = y.rev /\ c.path = y.path
      BY <2>2 DEF Logged
    <3>2. y = o
      BY <2>1, <3>1
    <3>3. ~(c.rev < o.rev)
      BY <1>1, <3>1, <3>2
    <3> QED BY <3>3
  <2>3. CASE c \in changes
    <3>1. c.rev <= files[c.path].rev
      <4>1. CASE b.base # 0
        BY <1>1, <2>1, <2>3, <4>1 DEF CollectionSafe, CurrentVersionRetained
      <4>2. CASE PlanIds = {}
        BY <2>3, <4>2 DEF NothingForgotten
      <4> QED BY <4>1, <4>2
    <3> QED BY <1>1, <2>1, <3>1
  <2> QED BY <2>1, <2>2, <2>3
<1>4. a \in answers \/ NewAnswer(a)
  BY StepAnswers DEF NewAnswer
<1> QED BY <1>2, <1>3, <1>4

\* A mutation that names a version of a path replaces that version and no
\* other, whatever writers, restores and collections come between.
THEOREM NamedBaseIsNotLost == Spec => []NamedBaseNotLost
<1>1. Init => ResultsIssued /\ NothingForgotten /\ NamedBaseNotLost
  BY DEF Init, ResultsIssued, NothingForgotten, NamedBaseNotLost
<1>2. /\ TypeOK /\ TypeOK' /\ CollectionSafe
      /\ ResultsIssued /\ NothingForgotten /\ NamedBaseNotLost
      /\ [Next]_vars
      => ResultsIssued' /\ NothingForgotten' /\ NamedBaseNotLost'
  BY ResultsStep, NothingForgottenStep, NamedBaseStep
<1> QED BY <1>1, <1>2, TypeCorrect, CollectionIsSafe, PTL DEF Spec

\* Where nothing is collected this holds of every mutation: also one that is
\* to make the first version of a path overwrites nobody's.
THEOREM NoUpdateIsLost ==
    ASSUME PlanIds = {}
    PROVE  Spec => []NoLostUpdate
<1>1. NamedBaseNotLost => NoLostUpdate
  BY DEF NamedBaseNotLost, NoLostUpdate
<1> QED BY <1>1, NamedBaseIsNotLost, PTL

\* Where nothing is collected, a retry gets what its original got, though any
\* mutations, restores and other requests come between the two.
THEOREM RetriesGetTheOriginal ==
    ASSUME PlanIds = {}
    PROVE  Spec => []RetryReturnsOriginal
<1> DEFINE Inv == NothingForgotten /\ RetryReturnsOriginal
<1>1. Init => Inv
  BY DEF Init, NothingForgotten, RetryReturnsOriginal
<1>2. TypeOK /\ TypeOK' /\ CollectionSafe /\ Inv /\ [Next]_vars => Inv'
  <2> SUFFICES ASSUME TypeOK, TypeOK', CollectionSafe, Inv, [Next]_vars
               PROVE  Inv'
    OBVIOUS
  <2>1. NothingForgotten'
    BY NothingForgottenStep
  <2>2. ASSUME NEW o \in answers', NewAnswer(o)
        PROVE  RetryReturnsOriginal'
    <3>1. \A a \in answers : ~(a.device = o.device /\ a.id = o.id)
      BY <2>2 DEF NewAnswer, Fresh, NothingForgotten
    <3> QED BY <2>2, <3>1 DEF NewAnswer, RetryReturnsOriginal
  <2>3. UNCHANGED answers => RetryReturnsOriginal'
    BY DEF RetryReturnsOriginal
  <2> QED BY <2>1, <2>2, <2>3, StepAnswers
<1> QED BY <1>1, <1>2, TypeCorrect, CollectionIsSafe, PTL DEF Spec

-----------------------------------------------------------------------------
(* Restores.                                                               *)

\* The version rev, where it is still in the log, is one of path with content.
VersionIs(rev, path, content) ==
    /\ rev <= seq
    /\ \A c \in changes : c.rev = rev => c.path = path /\ c.content = content

\* What a restore knows of the versions it names, and a retry of the result
\* that is stored for it.
RestoreSound ==
    /\ \A o \in operations : o.changed /\ o.request.kind = "apply" =>
          \A x \in o.result : VersionIs(x.rev, o.request.path, o.request.content)
    /\ \A d \in Writers : restoring[d].phase # "idle" =>
          VersionIs(restoring[d].source, restoring[d].request.path,
                    restoring[d].request.content)
    /\ \A d \in Writers : restoring[d].phase = "put" =>
          VersionIs(restoring[d].rev, restoring[d].request.path,
                    restoring[d].request.content)
    /\ \A c \in changes : c.restoredFrom <= seq
    /\ RestoreFaithful

\* Revisions are never given out twice, so a version stays what it is.
LEMMA VersionStays ==
    ASSUME TypeOK, TypeOK', [Next]_vars, NEW rev \in Nat, NEW path, NEW content,
           VersionIs(rev, path, content)
    PROVE  VersionIs(rev, path, content)'
<1>1. seq \in Nat /\ seq' \in Nat
  BY DEF TypeOK
<1>2. ASSUME NEW d \in Writers, Commits(d)
      PROVE  VersionIs(rev, path, content)'
  <2>1. PICK added \in SUBSET Change :
          /\ changes' = changes \cup added
          /\ seq <= seq'
          /\ \A c \in added : seq < c.rev
    BY <1>2, CommitAdds
  <2>2. \A c \in added : c.rev # rev
    BY <1>1, <2>1 DEF VersionIs, Change
  <2> QED BY <1>1, <2>1, <2>2 DEF VersionIs
<1>3. ASSUME NEW d \in Writers, RestoreMark(d)
      PROVE  VersionIs(rev, path, content)'
  <2>1. seq' = seq
    BY <1>3 DEF RestoreMark
  <2>2. \A c \in changes' : \E e \in changes :
          c.rev = e.rev /\ c.path = e.path /\ c.content = e.content
    BY <1>3, MarkKeepsVersions
  <2> QED BY <2>1, <2>2 DEF VersionIs
<1>4. CASE seq' = seq /\ changes' \subseteq changes
  BY <1>4 DEF VersionIs
<1>5. ASSUME \/ \E d \in Writers : Answers(d)
             \/ \E d \in Devices : Manage(d)
             \/ \E g \in PlanIds : GCReadWatermark(g) \/ ExecuteGCPlan(g)
             \/ GCRankChanges
             \/ GCSavePlan
             \/ GCBuildEnd
             \/ Quiet
      PROVE  seq' = seq /\ changes' \subseteq changes
  BY <1>5, AnswersType
     DEF Manage, PairDevice, SetDeviceStatus, AcknowledgeDevice, GCReadWatermark,
         GCRankChanges, GCSavePlan, GCBuildEnd, ExecuteGCPlan, Survivors, Quiet
<1> QED BY <1>2, <1>3, <1>4, <1>5, StepCases

\* The version that a PUT or DELETE makes is one of its path with its content.
LEMMA AppliedVersion ==
    ASSUME TypeOK, CollectionSafe, NEW d, NEW op, NEW request \in ApplyRequest,
           NEW stored, Commit(d, op, request, Applied(request), stored),
           NEW rev \in Nat, rev = seq + 1
    PROVE  VersionIs(rev, request.path, request.content)'
<1>1. Cardinality(Applied(request)) = 1
  BY FS_Singleton, Zenon DEF Applied
<1>2. seq' = rev /\ changes' = changes \cup Logged(Applied(request))
  BY <1>1 DEF Commit, Issued
<1>3. \A c \in changes : c.rev # rev
  BY DEF CollectionSafe, LogSound, TypeOK, Change
<1>4. \A c \in Logged(Applied(request)) :
         c.path = request.path /\ c.content = request.content
  BY DEF Logged, Applied
<1> QED BY <1>2, <1>3, <1>4 DEF VersionIs, TypeOK

\* What is stored for retries names the version that the original made.
LEMMA StoredVersions ==
    ASSUME TypeOK, TypeOK', CollectionSafe, RestoreSound, [Next]_vars,
           NEW o \in operations', o.changed, o.request.kind = "apply",
           NEW x \in o.result
    PROVE  VersionIs(x.rev, o.request.path, o.request.content)'
<1>1. x.rev \in Nat
  BY DEF TypeOK, Operation, Outcome
<1>2. CASE o \in operations
  BY <1>1, <1>2, VersionStays DEF RestoreSound
<1>3. ASSUME NEW d \in Writers, Commits(d), o \notin operations
      PROVE  VersionIs(x.rev, o.request.path, o.request.content)'
  <2>1. PICK op \in OpIds \cup RestoreIds \cup {NoOp}, request \in Request,
             new \in SUBSET Outcome, stored \in SUBSET Contents :
             /\ NewOutcomes(new)
             /\ Commit(d, op, request, new, stored)
             /\ request.kind = "apply" => new = Applied(request)
    BY <1>3, Zenon DEF Commits
  <2>2. o.request = request /\ o.result = new
    BY <1>3, <2>1 DEF Commit, Remember
  <2>3. request \in ApplyRequest /\ new = Applied(request)
    BY <2>1, <2>2 DEF Request, ApplyRequest, RenameRequest, BatchRequest
  <2>4. x.rev = seq + 1
    BY <2>2, <2>3 DEF Applied
  <2> QED BY <1>1, <2>1, <2>2, <2>3, <2>4, AppliedVersion
<1>4. ASSUME NEW d \in Writers, Answers(d), o \notin operations
      PROVE  FALSE
  <2>1. PICK op \in OpIds \cup RestoreIds \cup {NoOp}, request \in ApplyRequest :
             AnswerUnchanged(d, op, request, files[request.path])
    BY <1>4 DEF Answers
  <2>2. ~o.changed
    BY <1>4, <2>1 DEF AnswerUnchanged, Remember
  <2> QED BY <2>2
<1>5. ASSUME \/ \E d \in Writers : RestoreMark(d)
             \/ \E d \in Devices : Manage(d)
             \/ \E g \in PlanIds : GCReadWatermark(g) \/ ExecuteGCPlan(g)
             \/ GCRankChanges
             \/ GCSavePlan
             \/ GCBuildEnd
             \/ Quiet
      PROVE  o \in operations
  BY <1>5 DEF RestoreMark, Manage, PairDevice, SetDeviceStatus, AcknowledgeDevice,
              GCReadWatermark, GCRankChanges, GCSavePlan, GCBuildEnd, ExecuteGCPlan, Quiet
<1> QED BY <1>2, <1>3, <1>4, <1>5, StepCases

\* Only a device's own call touches what is known of its restore.
LEMMA RestoringCases ==
    ASSUME TypeOK, [Next]_vars, NEW d \in Writers
    PROVE  \/ restoring'[d] = restoring[d]
           \/ restoring'[d] = Idle
           \/ RestoreRead(d)
           \/ RestorePut(d)
<1>1. ASSUME NEW x \in Writers, RestoreVersion(x)
      PROVE  \/ restoring'[d] = restoring[d]
             \/ restoring'[d] = Idle
             \/ RestoreRead(d)
             \/ RestorePut(d)
  <2>1. CASE x = d
    <3>1. RestoreMark(d) \/ RestoreEnd(d) => restoring'[d] = Idle
      BY DEF RestoreMark, RestoreEnd, TypeOK
    <3> QED BY <1>1, <2>1, <3>1 DEF RestoreVersion
  <2>2. CASE x # d
    <3>1. RestoreRead(x) => restoring'[d] = restoring[d]
      BY <2>2 DEF RestoreRead, TypeOK
    <3>2. RestorePut(x) => restoring'[d] = restoring[d]
      BY <2>2 DEF RestorePut, TypeOK
    <3>3. RestoreMark(x) \/ RestoreEnd(x) => restoring'[d] = restoring[d]
      BY <2>2 DEF RestoreMark, RestoreEnd, TypeOK
    <3> QED BY <1>1, <3>1, <3>2, <3>3 DEF RestoreVersion
  <2> QED BY <2>1, <2>2
<1>2. ASSUME NEW x \in Writers, Mutate(x)
      PROVE  restoring' = restoring
  BY <1>2, MutateCommits
<1>3. ASSUME NEW x \in Devices, Manage(x)
      PROVE  restoring' = restoring
  BY <1>3 DEF Manage, PairDevice, SetDeviceStatus, AcknowledgeDevice
<1>4. CollectGarbage \/ DayPasses \/ UNCHANGED vars => restoring' = restoring
  BY DEF CollectGarbage, GCReadWatermark, GCRankChanges, GCSavePlan,
         GCBuildEnd, ExecuteGCPlan, DayPasses, vars
<1> QED BY <1>1, <1>2, <1>3, <1>4 DEF Next

\* What a restore knows of its source and its result stays true.
LEMMA RestoringVersions ==
    ASSUME TypeOK, TypeOK', CollectionSafe, RestoreSound, [Next]_vars,
           NEW d \in Writers, restoring'[d].phase # "idle"
    PROVE  /\ VersionIs(restoring[d].source, restoring[d].request.path,
                        restoring[d].request.content)'
           /\ restoring'[d].phase = "put" =>
                VersionIs(restoring[d].rev, restoring[d].request.path,
                          restoring[d].request.content)'
<1> DEFINE r == restoring[d]
           Full == [phase : {"read", "put"}, op : RestoreIds \cup {NoOp},
                    request : ApplyRequest, source : Nat, rev : Nat]
<1>1. restoring'[d] \in Full
  BY DEF TypeOK, Restore, Idle
<1>2. ASSUME r.phase # "idle"
      PROVE  /\ r \in Full
             /\ VersionIs(r.source, r.request.path, r.request.content)
             /\ r.phase = "put" => VersionIs(r.rev, r.request.path, r.request.content)
  BY <1>2 DEF TypeOK, Restore, Idle, RestoreSound
<1>3. CASE restoring'[d] = r
  BY <1>1, <1>2, <1>3, VersionStays
<1>4. CASE RestoreRead(d)
  <2>1. PICK v \in changes, op \in RestoreIds \cup {NoOp}, base \in 0..seq :
            restoring' = [restoring EXCEPT ![d] =
                [phase |-> "read", op |-> op, source |-> v.rev, rev |-> 0,
                 request |-> [kind |-> "apply", path |-> v.path, base |-> base,
                              content |-> v.content]]]
    BY <1>4, Zenon DEF RestoreRead
  <2>2. restoring'[d] =
                [phase |-> "read", op |-> op, source |-> v.rev, rev |-> 0,
                 request |-> [kind |-> "apply", path |-> v.path, base |-> base,
                              content |-> v.content]]
    BY <2>1 DEF TypeOK
  <2>3. VersionIs(v.rev, v.path, v.content)
    BY DEF VersionIs, CollectionSafe, LogSound
  <2>4. v.rev \in Nat
    BY DEF TypeOK, Change
  <2>5. VersionIs(v.rev, v.path, v.content)'
    BY <1>4, <2>3 DEF RestoreRead, VersionIs
  <2> QED BY <2>2, <2>5 DEF VersionIs
<1>5. CASE RestorePut(d)
  <2>1. r.phase = "read"
    BY <1>5 DEF RestorePut
  <2>2. PICK source \in Nat, request \in ApplyRequest :
          /\ r \in Full
          /\ r.source = source /\ r.request = request
          /\ VersionIs(source, request.path, request.content)
    BY <1>2, <2>1
  <2>3. VersionIs(source, request.path, request.content)'
    BY <2>2, VersionStays
  <2>4. ASSUME NEW rev \in Nat, VersionIs(rev, request.path, request.content)',
               restoring' = [restoring EXCEPT ![d] =
                               [r EXCEPT !.phase = "put", !.rev = rev]]
        PROVE  /\ VersionIs(restoring[d].source, restoring[d].request.path,
                            restoring[d].request.content)'
               /\ VersionIs(restoring[d].rev, restoring[d].request.path,
                            restoring[d].request.content)'
    <3>1. restoring'[d] = [r EXCEPT !.phase = "put", !.rev = rev]
      BY <2>4 DEF TypeOK
    <3>2. /\ restoring'[d].source = source
          /\ restoring'[d].request = request
          /\ restoring'[d].rev = rev
      <4> HIDE DEF r
      <4> QED BY <2>2, <3>1
    <3> QED BY <2>3, <2>4, <3>2 DEF VersionIs
  <2>5. CASE /\ ApplyTx(d, r.op, r.request)
             /\ restoring' = [restoring EXCEPT ![d] =
                   IF AlreadySo(files[r.request.path], r.request) THEN Idle
                   ELSE [r EXCEPT !.phase = "put", !.rev = seq + 1]]
    <3>1. ~AlreadySo(files[r.request.path], r.request)
      BY <2>5 DEF TypeOK, Idle
    <3>2. Commit(d, r.op, request, Applied(request), {request.content} \ {Deleted})
      BY <2>2, <2>5, <3>1 DEF ApplyTx, Applied
    <3>3. PICK rev \in Nat : rev = seq + 1
      BY DEF TypeOK
    <3>4. VersionIs(rev, request.path, request.content)'
      BY <3>2, <3>3, AppliedVersion
    <3>5. restoring' = [restoring EXCEPT ![d] =
                          [r EXCEPT !.phase = "put", !.rev = rev]]
      BY <2>5, <3>1, <3>3
    <3> QED BY <2>4, <3>4, <3>5
  <2>6. CASE \E o \in StoredChange(d, r.op, r.request) : \E out \in o.result :
                 /\ restoring' = [restoring EXCEPT ![d] =
                       [r EXCEPT !.phase = "put", !.rev = out.rev]]
                 /\ UNCHANGED <<seq, changes, files, blobs, operations, answers>>
    <3>1. PICK o \in StoredChange(d, r.op, r.request) : \E out \in o.result :
                 restoring' = [restoring EXCEPT ![d] =
                       [r EXCEPT !.phase = "put", !.rev = out.rev]]
      BY <2>6, Zenon
    <3>2. PICK out \in o.result :
                 restoring' = [restoring EXCEPT ![d] =
                       [r EXCEPT !.phase = "put", !.rev = out.rev]]
      BY <3>1, Zenon
    <3>3. o \in operations /\ o.request = request /\ o.changed
      BY <2>2 DEF StoredChange
    <3>4. request.kind = "apply"
      BY DEF ApplyRequest
    <3>5. VersionIs(out.rev, request.path, request.content)
      BY <3>3, <3>4 DEF RestoreSound
    <3>6. out.rev \in Nat
      BY <3>3 DEF TypeOK, Operation, Outcome
    <3>7. VersionIs(out.rev, request.path, request.content)'
      BY <3>5, <3>6, VersionStays
    <3> QED BY <2>4, <3>2, <3>6, <3>7
  <2> QED BY <1>5, <2>5, <2>6, Zenon DEF RestorePut
<1>6. restoring'[d] # Idle
  BY DEF Idle
<1> QED BY <1>3, <1>4, <1>5, <1>6, RestoringCases

\* A mark names an older version, and one with the same path and content.
LEMMA MarksFaithful ==
    ASSUME TypeOK, TypeOK', CollectionSafe, RestoreSound, [Next]_vars
    PROVE  (\A c \in changes : c.restoredFrom <= seq)' /\ RestoreFaithful'
<1>1. /\ seq \in Nat /\ seq' \in Nat
      /\ \A c \in changes : /\ 0 < c.rev /\ c.rev <= seq /\ c.rev \in Nat
                            /\ c.restoredFrom <= seq /\ c.restoredFrom \in Nat
      /\ RestoreFaithful
  BY DEF TypeOK, Change, CollectionSafe, LogSound, RestoreSound
<1>2. ASSUME NEW d \in Writers, Commits(d)
      PROVE  (\A c \in changes : c.restoredFrom <= seq)' /\ RestoreFaithful'
  <2>1. PICK added \in SUBSET Change :
          /\ changes' = changes \cup added
          /\ seq <= seq'
          /\ \A c \in added : seq < c.rev
          /\ \A c \in added : c.restoredFrom = 0
    BY <1>2, CommitAdds
  <2>2. \A c \in changes' : c.restoredFrom <= seq /\ c.restoredFrom <= seq'
    BY <1>1, <2>1
  <2>3. ASSUME NEW c \in changes', NEW s \in changes', c.restoredFrom = s.rev
        PROVE  s.path = c.path /\ s.content = c.content
    <3>1. s \in changes
      BY <1>1, <2>1, <2>2, <2>3 DEF Change
    <3>2. c \in changes
      BY <1>1, <2>1, <2>3, <3>1
    <3> QED BY <1>1, <2>3, <3>1, <3>2 DEF RestoreFaithful
  <2> QED BY <2>2, <2>3 DEF RestoreFaithful
<1>3. ASSUME NEW d \in Writers, RestoreMark(d)
      PROVE  (\A c \in changes : c.restoredFrom <= seq)' /\ RestoreFaithful'
  <2> DEFINE r == restoring[d]
             mark(c) == IF IsRestored(c, r)
                        THEN [c EXCEPT !.restoredFrom = r.source] ELSE c
  <2>1. /\ changes' = {mark(c) : c \in changes}
        /\ seq' = seq
    BY <1>3 DEF RestoreMark
  <2>2. /\ VersionIs(r.source, r.request.path, r.request.content)
        /\ VersionIs(r.rev, r.request.path, r.request.content)
    BY <1>3 DEF RestoreMark, RestoreSound
  <2>3. \A c \in changes :
          /\ mark(c).rev = c.rev
          /\ mark(c).path = c.path
          /\ mark(c).content = c.content
          /\ \/ mark(c).restoredFrom = c.restoredFrom
             \/ c.rev = r.rev /\ mark(c).restoredFrom = r.source
    BY DEF TypeOK, Change, IsRestored
  <2> HIDE DEF mark
  <2>4. \A c \in changes' : c.restoredFrom <= seq
    BY <1>1, <2>1, <2>2, <2>3 DEF VersionIs
  <2>5. ASSUME NEW c \in changes, NEW s \in changes,
               mark(c).restoredFrom = mark(s).rev
        PROVE  mark(s).path = mark(c).path /\ mark(s).content = mark(c).content
    BY <1>1, <2>2, <2>3, <2>5 DEF VersionIs, RestoreFaithful
  <2> QED BY <2>1, <2>4, <2>5 DEF RestoreFaithful
<1>4. CASE seq' = seq /\ changes' \subseteq changes
  BY <1>1, <1>4 DEF RestoreFaithful
<1>5. ASSUME \/ \E d \in Writers : Answers(d)
             \/ \E d \in Devices : Manage(d)
             \/ \E g \in PlanIds : GCReadWatermark(g) \/ ExecuteGCPlan(g)
             \/ GCRankChanges
             \/ GCSavePlan
             \/ GCBuildEnd
             \/ Quiet
      PROVE  seq' = seq /\ changes' \subseteq changes
  BY <1>5, AnswersType
     DEF Manage, PairDevice, SetDeviceStatus, AcknowledgeDevice, GCReadWatermark,
         GCRankChanges, GCSavePlan, GCBuildEnd, ExecuteGCPlan, Survivors, Quiet
<1> QED BY <1>2, <1>3, <1>4, <1>5, StepCases

\* A version marked as a restore is the version its mark names, byte for byte,
\* though the source is read, put and marked in three steps.
THEOREM RestoreIsFaithful == Spec => []RestoreFaithful
<1>1. Init => RestoreSound
  BY DEF Init, RestoreSound, RestoreFaithful, Idle
<1>2. TypeOK /\ TypeOK' /\ CollectionSafe /\ RestoreSound /\ [Next]_vars
        => RestoreSound'
  <2> SUFFICES ASSUME TypeOK, TypeOK', CollectionSafe, RestoreSound, [Next]_vars
               PROVE  RestoreSound'
    OBVIOUS
  <2>1. \A o \in operations' : o.changed /\ o.request.kind = "apply" =>
          \A x \in o.result : VersionIs(x.rev, o.request.path, o.request.content)'
    BY StoredVersions
  <2>2. \A d \in Writers : restoring'[d].phase # "idle" =>
          VersionIs(restoring[d].source, restoring[d].request.path,
                    restoring[d].request.content)'
    BY RestoringVersions
  <2>3. \A d \in Writers : restoring'[d].phase = "put" =>
          VersionIs(restoring[d].rev, restoring[d].request.path,
                    restoring[d].request.content)'
    BY RestoringVersions
  <2>4. (\A c \in changes : c.restoredFrom <= seq)' /\ RestoreFaithful'
    BY MarksFaithful
  <2> QED BY <2>1, <2>2, <2>3, <2>4 DEF RestoreSound
<1>3. RestoreSound => RestoreFaithful
  BY DEF RestoreSound
<1> QED BY <1>1, <1>2, <1>3, TypeCorrect, CollectionIsSafe, PTL DEF Spec

-----------------------------------------------------------------------------
(* Collections.                                                            *)

\* The version is older than the retention period, and the devices have all
\* acknowledged it.
Settled(c, audience) ==
    /\ c.created < clock - Retention
    /\ \A d \in audience : c.rev <= devices[d].ack

\* Revisions are given out in the order of time.
Chronological ==
    /\ \A c \in changes : c.created <= clock
    /\ \A c, e \in changes : c.rev <= e.rev => c.created <= e.created

\* What a plan takes, or will take when the third query is made, is settled;
\* it stays so, as acknowledgements only rise once a device is paired.
PlansSettled ==
    /\ Chronological
    /\ \A d \in Devices : devices[d].status = "unpaired" => devices[d].ack = 0
    /\ builder.phase = "ranked" =>
          \A c \in changes :
             c.rev \in builder.revs \/ c \in HistoryOfDeleted
                => Settled(c, builder.audience)
    /\ \A g \in PlanIds : plans[g].status = "pending" =>
          \A c \in changes :
             c.rev \in plans[g].revs => Settled(c, plans[g].audience)

\* The clock never goes back.
LEMMA ClockAdvances ==
    ASSUME TypeOK, [Next]_vars
    PROVE  clock <= clock'
<1>1. clock \in Nat
  BY DEF TypeOK
<1>2. ASSUME NEW d \in Writers, Mutate(d) \/ RestoreVersion(d)
      PROVE  clock' = clock
  BY <1>2, MutateCommits, Zenon
     DEF RestoreVersion, RestoreRead, RestorePut, RestoreMark, RestoreEnd
<1>3. ASSUME NEW d \in Devices, Manage(d)
      PROVE  clock' = clock
  BY <1>3 DEF Manage, PairDevice, SetDeviceStatus, AcknowledgeDevice
<1>4. CollectGarbage => clock' = clock
  BY DEF CollectGarbage, GCReadWatermark, GCRankChanges, GCSavePlan, GCBuildEnd,
         ExecuteGCPlan
<1>5. DayPasses => clock' = clock + 1
  BY DEF DayPasses
<1>6. UNCHANGED vars => clock' = clock
  BY DEF vars
<1> QED BY <1>1, <1>2, <1>3, <1>4, <1>5, <1>6 DEF Next

\* What a step adds to the log is of now; what it keeps, of when it was.
LEMMA LogKeepsTimes ==
    ASSUME TypeOK, [Next]_vars, NEW c \in changes'
    PROVE  \/ seq < c.rev /\ c.created = clock /\ clock' = clock
           \/ \E e \in changes :
                 c.rev = e.rev /\ c.path = e.path /\ c.created = e.created
<1>1. ASSUME NEW d \in Writers, Commits(d), clock' = clock
      PROVE  c \in changes \/ (seq < c.rev /\ c.created = clock /\ clock' = clock)
  <2>1. PICK new \in SUBSET Outcome :
           NewOutcomes(new) /\ changes' = changes \cup Logged(new)
    BY <1>1, Zenon DEF Commits, Commit
  <2>2. CASE c \in Logged(new)
    BY <1>1, <2>1, <2>2 DEF NewOutcomes, Logged
  <2> QED BY <2>1, <2>2
<1>2. ASSUME NEW d \in Writers, RestoreMark(d)
      PROVE  \E e \in changes :
                c.rev = e.rev /\ c.path = e.path /\ c.created = e.created
  <2>1. PICK e \in changes :
           c = IF IsRestored(e, restoring[d])
               THEN [e EXCEPT !.restoredFrom = restoring[d].source] ELSE e
    BY <1>2, Zenon DEF RestoreMark
  <2> QED BY <2>1 DEF TypeOK, Change
<1>3. ASSUME \/ \E d \in Writers : Answers(d)
             \/ \E d \in Devices : Manage(d)
             \/ \E g \in PlanIds : GCReadWatermark(g) \/ ExecuteGCPlan(g)
             \/ GCRankChanges
             \/ GCSavePlan
             \/ GCBuildEnd
             \/ Quiet
      PROVE  c \in changes
  BY <1>3, AnswersType
     DEF Manage, PairDevice, SetDeviceStatus, AcknowledgeDevice, GCReadWatermark,
         GCRankChanges, GCSavePlan, GCBuildEnd, ExecuteGCPlan, Survivors, Quiet
<1> QED BY <1>1, <1>2, <1>3, StepCases

\* A device is managed, or stays as it is.
LEMMA DeviceCases ==
    ASSUME TypeOK, [Next]_vars
    PROVE  UNCHANGED devices \/ \E d \in Devices : Manage(d)
<1>1. ASSUME NEW d \in Writers, RestoreMark(d)
      PROVE  UNCHANGED devices
  BY <1>1 DEF RestoreMark
<1>2. ASSUME \/ \E g \in PlanIds : GCReadWatermark(g) \/ ExecuteGCPlan(g)
             \/ GCRankChanges
             \/ GCSavePlan
             \/ GCBuildEnd
             \/ Quiet
      PROVE  UNCHANGED devices
  BY <1>2 DEF GCReadWatermark, GCRankChanges, GCSavePlan, GCBuildEnd, ExecuteGCPlan,
              Quiet
<1> QED BY <1>1, <1>2, StepCases

\* An acknowledgement never falls.
LEMMA AcknowledgementsRise ==
    ASSUME TypeOK, PlansSettled, [Next]_vars
    PROVE  \A d \in Devices :
              /\ devices[d].ack <= devices'[d].ack
              /\ devices'[d].status = "unpaired" => devices'[d].ack = 0
<1>1. \A d \in Devices : devices[d] \in Device /\ devices[d].ack \in Nat
  BY DEF TypeOK, Device
<1>2. CASE UNCHANGED devices
  BY <1>1, <1>2 DEF PlansSettled
<1>3. ASSUME NEW d \in Devices, NEW e \in Devices, Manage(e)
      PROVE  /\ devices[d].ack <= devices'[d].ack
             /\ devices'[d].status = "unpaired" => devices'[d].ack = 0
  <2>1. CASE PairDevice(e)
    BY <1>1, <2>1 DEF PairDevice, PlansSettled, TypeOK
  <2>2. CASE SetDeviceStatus(e)
    BY <1>1, <2>2 DEF SetDeviceStatus, PlansSettled, TypeOK, Device
  <2>3. CASE AcknowledgeDevice(e)
    <3>1. PICK r \in 0..seq :
            devices' = [devices EXCEPT ![e].ack = IF r > @ THEN r ELSE @]
      BY <2>3 DEF AcknowledgeDevice
    <3>2. devices[e].status = "active"
      BY <2>3 DEF AcknowledgeDevice
    <3>3. r \in Nat
      BY DEF TypeOK
    <3> QED BY <1>1, <3>1, <3>2, <3>3 DEF PlansSettled, TypeOK, Device
  <2> QED BY <1>3, <2>1, <2>2, <2>3 DEF Manage
<1> QED BY <1>2, <1>3, DeviceCases

\* What is settled stays settled.
LEMMA SettledStays ==
    ASSUME TypeOK, TypeOK', PlansSettled, [Next]_vars,
           NEW audience \in SUBSET Devices, NEW e \in changes, NEW c \in changes',
           c.rev = e.rev, c.created = e.created, Settled(e, audience)
    PROVE  Settled(c, audience)'
<1>1. /\ clock \in Nat /\ clock' \in Nat /\ Retention \in Nat
      /\ c.created \in Nat /\ c.rev \in Nat
      /\ \A d \in Devices : devices[d].ack \in Nat /\ devices'[d].ack \in Nat
  BY StoreAssumption DEF TypeOK, Change, Device
<1>2. clock <= clock'
  BY ClockAdvances
<1>3. c.created < clock' - Retention
  BY <1>1, <1>2 DEF Settled
<1>4. \A d \in audience : c.rev <= devices'[d].ack
  BY <1>1, AcknowledgementsRise DEF Settled
<1> QED BY <1>3, <1>4 DEF Settled

\* The log stays in the order of time.
LEMMA ChronologicalStep ==
    ASSUME TypeOK, TypeOK', LogSound, Chronological, [Next]_vars
    PROVE  Chronological'
<1>1. /\ clock \in Nat /\ clock' \in Nat /\ seq \in Nat /\ clock <= clock'
      /\ \A c \in changes : c.rev \in Nat /\ c.created \in Nat /\ c.rev <= seq
      /\ \A c \in changes' : c.rev \in Nat /\ c.created \in Nat
  BY ClockAdvances DEF TypeOK, Change, LogSound
<1>2. ASSUME NEW c \in changes'
      PROVE  c.created <= clock'
  BY <1>1, LogKeepsTimes DEF Chronological
<1>3. ASSUME NEW c \in changes', NEW e \in changes', c.rev <= e.rev
      PROVE  c.created <= e.created
  <2>1. CASE seq < c.rev
    <3>1. seq < e.rev
      BY <1>1, <1>3, <2>1
    <3>2. c.created = clock /\ e.created = clock
      BY <1>1, <2>1, <3>1, LogKeepsTimes
    <3> QED BY <1>1, <3>2
  <2>2. ASSUME NEW x \in changes, c.rev = x.rev, c.created = x.created
        PROVE  c.created <= e.created
    <3>1. CASE e.created = clock
      BY <1>1, <2>2, <3>1 DEF Chronological
    <3>2. ASSUME NEW y \in changes, e.rev = y.rev, e.created = y.created
          PROVE  c.created <= e.created
      BY <1>3, <2>2, <3>2 DEF Chronological
    <3> QED BY <3>1, <3>2, LogKeepsTimes
  <2> QED BY <2>1, <2>2, LogKeepsTimes
<1> QED BY <1>2, <1>3 DEF Chronological

\* The second query takes what is settled, and with a tombstone what is older.
LEMMA RankTakesSettled ==
    ASSUME TypeOK, LogSound, PlansSettled, GCRankChanges, NEW c \in changes',
           c.rev \in builder'.revs \/ c \in HistoryOfDeleted'
    PROVE  Settled(c, builder.audience)'
<1> DEFINE cutoff == clock - Retention
           candidates == {x \in changes : Collectable(x, Watermark, cutoff)}
           tops == {x \in candidates : Position(x) = 1 /\ x.content = Deleted}
           revs == Revs(candidates)
           paths == {x.path : x \in tops}
<1>1. /\ builder.phase = "watermark"
      /\ builder' = [builder EXCEPT
              !.phase = "ranked", !.cutoff = cutoff, !.revs = revs,
              !.paths = paths, !.audience = Active]
      /\ UNCHANGED <<clock, changes, devices>>
  BY DEF GCRankChanges
<1>2. /\ builder'.revs = revs /\ builder'.paths = paths
      /\ builder'.audience = Active
  <2>1. builder \in [phase : {"watermark", "ranked"}, plan : PlanIds,
                     watermark : Nat, revs : SUBSET Nat, paths : SUBSET Paths,
                     cutoff : Int, audience : SUBSET Devices]
    BY <1>1 DEF TypeOK, Builder, Idle
  <2> HIDE DEF revs, paths, cutoff
  <2> QED BY <1>1, <2>1
<1>3. /\ clock \in Nat /\ Retention \in Nat
      /\ \A x \in changes : x.rev \in Nat /\ x.created \in Nat
      /\ \A d \in Active : devices[d].ack \in Nat
  BY StoreAssumption DEF TypeOK, Change, Active, Device
<1>4. ASSUME NEW x \in candidates
      PROVE  Settled(x, Active)
  <2>1. x \in changes /\ x.rev <= Watermark /\ x.created < cutoff
    BY DEF Collectable
  <2>2. \A d \in Active : x.rev <= devices[d].ack
    BY <1>3, <2>1, WatermarkType
  <2> QED BY <2>1, <2>2 DEF Settled
<1>5. c \in changes
  BY <1>1
<1>6. CASE c.rev \in revs
  <2>1. PICK x \in candidates : x.rev = c.rev
    BY <1>6 DEF Revs
  <2>2. x = c
    BY <1>5, <2>1 DEF LogSound
  <2> QED BY <1>1, <1>2, <1>4, <2>1, <2>2 DEF Settled
<1>7. CASE c.path \in paths
  <2>1. PICK x \in tops : x.path = c.path
    BY <1>7
  <2>2. x \in candidates /\ x \in changes /\ Position(x) = 1
    OBVIOUS
  <2>3. c.rev <= x.rev
    BY <1>5, <2>1, <2>2, FirstIsNewest
  <2>4. c.created <= x.created
    BY <1>5, <2>2, <2>3 DEF PlansSettled, Chronological
  <2>5. Settled(x, Active)
    BY <1>4, <2>2
  <2>6. c.created < clock - Retention /\ \A d \in Active : c.rev <= devices[d].ack
    BY <1>3, <1>5, <2>2, <2>3, <2>4, <2>5 DEF Settled
  <2> QED BY <1>1, <1>2, <2>6 DEF Settled
<1>8. c.rev \in revs \/ c.path \in paths
  BY <1>2 DEF HistoryOfDeleted
<1> QED BY <1>6, <1>7, <1>8

\* The call of BuildGCPlan in progress.
LEMMA BuilderCases ==
    ASSUME TypeOK, [Next]_vars, builder'.phase = "ranked"
    PROVE  UNCHANGED builder \/ GCRankChanges
<1>1. ASSUME \/ \E d \in Writers : RestoreMark(d)
             \/ \E d \in Devices : Manage(d)
             \/ \E g \in PlanIds : ExecuteGCPlan(g)
             \/ Quiet
      PROVE  UNCHANGED builder
  BY <1>1 DEF RestoreMark, Manage, PairDevice, SetDeviceStatus, AcknowledgeDevice,
              ExecuteGCPlan, Quiet
<1>2. ASSUME NEW g \in PlanIds, GCReadWatermark(g)
      PROVE  UNCHANGED builder
  BY <1>2 DEF GCReadWatermark
<1>3. ~GCSavePlan /\ ~GCBuildEnd
  BY DEF GCSavePlan, GCBuildEnd, Idle
<1> QED BY <1>1, <1>2, <1>3, StepCases

\* A plan that is pending was so before, is empty, or is saved by this step.
LEMMA PlanCases ==
    ASSUME TypeOK, [Next]_vars, NEW g \in PlanIds, plans'[g].status = "pending"
    PROVE  \/ plans'[g] = plans[g]
           \/ plans'[g].revs = {} /\ plans'[g].opCutoff = 0
           \/ /\ GCSavePlan
              /\ plans'[g].revs = builder.revs \cup Revs(HistoryOfDeleted)
              /\ plans'[g].audience = builder.audience
              /\ plans'[g].opCutoff = builder.cutoff
<1>1. ASSUME \/ \E d \in Writers : RestoreMark(d)
             \/ \E d \in Devices : Manage(d)
             \/ GCRankChanges
             \/ GCBuildEnd
             \/ Quiet
      PROVE  UNCHANGED plans
  BY <1>1 DEF RestoreMark, Manage, PairDevice, SetDeviceStatus, AcknowledgeDevice,
              GCRankChanges, GCBuildEnd, Quiet
<1>2. ASSUME NEW h \in PlanIds, GCReadWatermark(h)
      PROVE  \/ plans'[g] = plans[g]
             \/ plans'[g].revs = {} /\ plans'[g].opCutoff = 0
  BY <1>2 DEF GCReadWatermark, NoPlan, TypeOK
<1>3. ASSUME NEW h \in PlanIds, ExecuteGCPlan(h)
      PROVE  plans'[g] = plans[g]
  BY <1>3 DEF ExecuteGCPlan, TypeOK, Plan
<1>4. ASSUME GCSavePlan
      PROVE  \/ plans'[g] = plans[g]
             \/ /\ plans'[g].revs = builder.revs \cup Revs(HistoryOfDeleted)
                /\ plans'[g].audience = builder.audience
                /\ plans'[g].opCutoff = builder.cutoff
  BY <1>4 DEF GCSavePlan, TypeOK
<1> QED BY <1>1, <1>2, <1>3, <1>4, StepCases

LEMMA PlansSettledStep ==
    ASSUME TypeOK, TypeOK', CollectionSafe, PlansSettled, [Next]_vars
    PROVE  PlansSettled'
<1>1. /\ seq \in Nat
      /\ \A c \in changes' : c.rev \in Nat
  BY DEF TypeOK, Change
<1>2. Chronological'
  BY ChronologicalStep DEF CollectionSafe, PlansSettled
<1>3. \A d \in Devices : devices'[d].status = "unpaired" => devices'[d].ack = 0
  BY AcknowledgementsRise
<1>4. ASSUME builder.phase = "ranked"
      PROVE  /\ builder.audience \in SUBSET Devices
             /\ builder.watermark \in Nat /\ builder.watermark <= seq
             /\ \A r \in builder.revs : r \in Nat /\ r <= seq
  <2>1. builder \in [phase : {"watermark", "ranked"}, plan : PlanIds,
                     watermark : Nat, revs : SUBSET Nat, paths : SUBSET Paths,
                     cutoff : Int, audience : SUBSET Devices]
    BY <1>4 DEF TypeOK, Builder, Idle
  <2> QED BY <1>4, <2>1 DEF CollectionSafe, BuilderSafe, TakesNoLiveVersion
<1>5. ASSUME builder'.phase = "ranked", NEW c \in changes',
             c.rev \in builder'.revs \/ c \in HistoryOfDeleted'
      PROVE  Settled(c, builder.audience)'
  <2>1. CASE UNCHANGED builder
    <3>1. \/ c.rev \in builder.revs
          \/ c.path \in builder.paths /\ c.rev <= builder.watermark
      BY <1>5, <2>1 DEF HistoryOfDeleted
    <3>2. builder.phase = "ranked" /\ c.rev <= seq
      BY <1>1, <1>4, <1>5, <2>1, <3>1
    <3>3. PICK e \in changes :
             c.rev = e.rev /\ c.path = e.path /\ c.created = e.created
      BY <1>1, <3>2, LogKeepsTimes
    <3>4. Settled(e, builder.audience)
      BY <3>1, <3>2, <3>3 DEF PlansSettled, HistoryOfDeleted
    <3>5. PICK audience \in SUBSET Devices : audience = builder.audience
      BY <1>4, <3>2
    <3>6. Settled(c, audience)'
      BY <3>3, <3>4, <3>5, SettledStays
    <3> QED BY <2>1, <3>5, <3>6 DEF Settled
  <2>2. CASE GCRankChanges
    BY <1>5, <2>2, RankTakesSettled DEF CollectionSafe
  <2> QED BY <1>5, <2>1, <2>2, BuilderCases
<1>6. ASSUME NEW g \in PlanIds, plans'[g].status = "pending", NEW c \in changes',
             c.rev \in plans'[g].revs
      PROVE  Settled(c, plans[g].audience)'
  <2>1. CASE plans'[g] = plans[g]
    <3>1. c.rev <= seq
      BY <1>6, <2>1 DEF CollectionSafe, TakesNoLiveVersion
    <3>2. PICK e \in changes :
             c.rev = e.rev /\ c.path = e.path /\ c.created = e.created
      BY <1>1, <3>1, LogKeepsTimes
    <3>3. Settled(e, plans[g].audience)
      BY <1>6, <2>1, <3>2 DEF PlansSettled
    <3>4. PICK audience \in SUBSET Devices : audience = plans[g].audience
      BY DEF TypeOK, Plan
    <3>5. Settled(c, audience)'
      BY <3>2, <3>3, <3>4, SettledStays
    <3> QED BY <2>1, <3>4, <3>5 DEF Settled
  <2>2. CASE /\ GCSavePlan
             /\ plans'[g].revs = builder.revs \cup Revs(HistoryOfDeleted)
             /\ plans'[g].audience = builder.audience
    <3>1. builder.phase = "ranked" /\ UNCHANGED <<clock, changes, devices>>
      BY <2>2 DEF GCSavePlan
    <3>2. c \in changes
      BY <3>1
    <3>3. c.rev \in builder.revs \/ c \in HistoryOfDeleted
      <4>1. CASE c.rev \in Revs(HistoryOfDeleted)
        <5>1. PICK x \in HistoryOfDeleted : x.rev = c.rev
          BY <4>1 DEF Revs
        <5>2. x = c
          BY <3>2, <5>1 DEF HistoryOfDeleted, CollectionSafe, LogSound
        <5> QED BY <5>1, <5>2
      <4> QED BY <1>6, <2>2, <4>1
    <3>4. Settled(c, builder.audience)
      BY <3>1, <3>2, <3>3 DEF PlansSettled
    <3> QED BY <2>2, <3>1, <3>4 DEF Settled
  <2> QED BY <1>6, <2>1, <2>2, PlanCases
<1> QED BY <1>2, <1>3, <1>5, <1>6 DEF PlansSettled

\* A collection takes only versions that are past the retention period and that
\* every device its plan counted has acknowledged, though the plan is read in
\* three queries and executed at any later time.
THEOREM CollectionTakesSettled == Spec => GCRemovesOnlySettled
<1> DEFINE OnlySettled ==
              \A g \in PlanIds :
                 plans[g].status = "pending" /\ plans'[g].status = "executed" =>
                   \A c \in changes : c.rev \notin Revs(changes') =>
                     /\ c.created < clock - Retention
                     /\ \A d \in plans[g].audience : c.rev <= devices[d].ack
<1>1. Init => PlansSettled
  BY DEF Init, PlansSettled, Chronological, NoPlan, Idle
<1>2. TypeOK /\ TypeOK' /\ CollectionSafe /\ PlansSettled /\ [Next]_vars
        => PlansSettled'
  BY PlansSettledStep
<1>3. TypeOK /\ PlansSettled /\ [Next]_vars => [OnlySettled]_vars
  <2> SUFFICES ASSUME TypeOK, PlansSettled, [Next]_vars,
                      NEW g \in PlanIds, plans[g].status = "pending",
                      plans'[g].status = "executed",
                      NEW c \in changes, c.rev \notin Revs(changes')
               PROVE  Settled(c, plans[g].audience)
    BY DEF Settled
  <2>1. ExecuteGCPlan(g)
    <3>1. ASSUME \/ \E d \in Writers : RestoreMark(d)
                 \/ \E d \in Devices : Manage(d)
                 \/ GCRankChanges
                 \/ GCBuildEnd
                 \/ Quiet
          PROVE  UNCHANGED plans
      BY <3>1 DEF RestoreMark, Manage, PairDevice, SetDeviceStatus,
                  AcknowledgeDevice, GCRankChanges, GCBuildEnd, Quiet
    <3>2. ASSUME NEW h \in PlanIds, GCReadWatermark(h)
          PROVE  plans'[g].status # "executed"
      BY <3>2 DEF GCReadWatermark, NoPlan, TypeOK
    <3>3. ASSUME NEW h \in PlanIds, ExecuteGCPlan(h)
          PROVE  h = g
      BY <3>3 DEF ExecuteGCPlan, TypeOK
    <3>4. GCSavePlan => plans'[g].status # "executed"
      BY DEF GCSavePlan, TypeOK
    <3> QED BY <3>1, <3>2, <3>3, <3>4, StepCases
  <2>2. changes' = Survivors(plans[g])
    BY <2>1 DEF ExecuteGCPlan
  <2>3. c.rev \in plans[g].revs
    BY <2>2 DEF Survivors, Revs
  <2> QED BY <2>3 DEF PlansSettled
<1> QED BY <1>1, <1>2, <1>3, TypeCorrect, CollectionIsSafe, PTL
        DEF Spec, GCRemovesOnlySettled

-----------------------------------------------------------------------------
(* Retries that come after a collection.                                   *)

\* A plan, and the call that builds one, take only records that are past the
\* retention period; so an answer whose record is gone is past it.
RecordsKept ==
    /\ \A a \in answers : a \in operations \/ a.created < clock - Retention
    /\ builder.phase = "ranked" => builder.cutoff <= clock - Retention
    /\ \A g \in PlanIds : plans[g].status = "pending" =>
          plans[g].opCutoff <= clock - Retention \/ plans[g].opCutoff = 0

\* What a changing request wrote is newer than what it was based on, and as
\* long as its paths have rows, these are that version or a later one.
WritesStand ==
    \A a \in answers : a.changed =>
        /\ \A b \in Bases(a.request) :
              \E x \in a.result : x.path = b.path /\ b.base < x.rev
        /\ a.request.kind = "apply" => \A x \in a.result : x.path = a.request.path
        /\ \A x \in a.result :
              files[x.path].rev = 0 \/ x.rev <= files[x.path].rev

LEMMA RecordsKeptStep ==
    ASSUME TypeOK, TypeOK', RecordsKept, [Next]_vars
    PROVE  RecordsKept'
<1>1. /\ clock \in Nat /\ clock' \in Nat /\ clock <= clock' /\ Retention \in Nat
      /\ \A a \in answers' : a.created \in Nat
      /\ \A g \in PlanIds : plans[g].opCutoff \in Int
  BY ClockAdvances, StoreAssumption DEF TypeOK, Operation, Plan
<1>2. ASSUME NEW a \in answers'
      PROVE  a \in operations' \/ a.created < clock' - Retention
  <2>1. CASE a \notin answers
    BY <2>1, StepAnswers DEF NewAnswer
  <2>2. CASE a \in answers /\ operations \subseteq operations'
    BY <1>1, <2>2 DEF RecordsKept
  <2>3. ASSUME a \in answers, NEW g \in PlanIds, ExecuteGCPlan(g)
        PROVE  a \in operations' \/ a.created < clock' - Retention
    <3>1. /\ plans[g].status = "pending"
          /\ operations' = {o \in operations : o.created >= plans[g].opCutoff}
      BY <2>3 DEF ExecuteGCPlan
    <3>2. CASE a \in operations /\ a.created < plans[g].opCutoff
      BY <1>1, <3>1, <3>2 DEF RecordsKept
    <3>3. CASE a \in operations /\ ~(a.created < plans[g].opCutoff)
      BY <1>1, <3>1, <3>3
    <3>4. CASE a \notin operations
      BY <1>1, <2>3, <3>4 DEF RecordsKept
    <3> QED BY <3>2, <3>3, <3>4
  <2>4. \/ operations \subseteq operations'
        \/ \E g \in PlanIds : ExecuteGCPlan(g)
    BY StepAnswers DEF NewAnswer
  <2> QED BY <2>1, <2>2, <2>3, <2>4
<1>3. ASSUME builder'.phase = "ranked"
      PROVE  builder'.cutoff <= clock' - Retention
  <2>1. CASE UNCHANGED builder
    <3>1. builder.cutoff \in Int
      BY <1>3, <2>1 DEF TypeOK, Builder, Idle
    <3> QED BY <1>1, <1>3, <2>1, <3>1 DEF RecordsKept
  <2>2. CASE GCRankChanges
    <3>1. builder'.cutoff = clock - Retention /\ clock' = clock
      BY <2>2 DEF GCRankChanges, TypeOK, Builder, Idle
    <3>2. clock - Retention \in Int
      BY <1>1
    <3>3. builder'.cutoff = clock' - Retention /\ builder'.cutoff \in Int
      BY <3>1, <3>2
    <3> QED BY <3>3
  <2> QED BY <1>3, <2>1, <2>2, BuilderCases
<1>4. ASSUME NEW g \in PlanIds, plans'[g].status = "pending"
      PROVE  plans'[g].opCutoff <= clock' - Retention \/ plans'[g].opCutoff = 0
  <2>1. CASE plans'[g] = plans[g]
    BY <1>1, <1>4, <2>1 DEF RecordsKept
  <2>2. CASE plans'[g].opCutoff = 0
    BY <2>2
  <2>3. CASE GCSavePlan /\ plans'[g].opCutoff = builder.cutoff
    <3>1. builder.phase = "ranked" /\ clock' = clock
      BY <2>3 DEF GCSavePlan
    <3> QED BY <2>3, <3>1 DEF RecordsKept
  <2> QED BY <1>4, <2>1, <2>2, <2>3, PlanCases
<1> QED BY <1>2, <1>3, <1>4 DEF RecordsKept

\* A row is never newer than the sequence.
LEMMA RowsIssued ==
    ASSUME TypeOK, CollectionSafe, NEW p \in Paths
    PROVE  files[p].rev <= seq
<1>1. CASE files[p].rev = 0
  BY <1>1 DEF TypeOK
<1>2. CASE files[p].rev # 0
  <2>1. PICK c \in changes : c.rev = files[p].rev
    BY <1>2 DEF CollectionSafe, CurrentVersionRetained
  <2> QED BY <2>1 DEF CollectionSafe, LogSound
<1> QED BY <1>1, <1>2

\* A row keeps its version, loses it to a later one, or is forgotten.
LEMMA RowsAdvance ==
    ASSUME TypeOK, TypeOK', [Next]_vars, NEW p \in Paths
    PROVE  \/ files'[p] = files[p]
           \/ files'[p].rev = 0
           \/ seq < files'[p].rev
<1>1. ASSUME NEW ps \in SUBSET Paths, Map!Commit(ps)
      PROVE  files'[p] = files[p] \/ seq < files'[p].rev
  BY <1>1 DEF Map!Commit
<1>2. ASSUME NEW ps \in SUBSET Paths, Map!Forget(ps)
      PROVE  files'[p] = files[p] \/ files'[p].rev = 0
  BY <1>2 DEF Map!Forget, Map!None
<1> QED BY <1>1, <1>2, MapStep DEF Map!Next, Map!vars

LEMMA WritesStandStep ==
    ASSUME TypeOK, TypeOK', CollectionSafe, CollectionSafe', ResultsIssued,
           WritesStand, [Next]_vars
    PROVE  WritesStand'
<1> SUFFICES ASSUME NEW a \in answers', a.changed
             PROVE  /\ \A b \in Bases(a.request) :
                          \E x \in a.result : x.path = b.path /\ b.base < x.rev
                    /\ a.request.kind = "apply" =>
                          \A x \in a.result : x.path = a.request.path
                    /\ \A x \in a.result :
                          files'[x.path].rev = 0 \/ x.rev <= files'[x.path].rev
  BY DEF WritesStand
<1>1. /\ seq \in Nat
      /\ \A p \in Paths : files[p].rev \in Nat /\ files'[p].rev \in Nat
      /\ \A x \in a.result : x.path \in Paths /\ x.rev \in Nat
  BY DEF TypeOK, Row, Operation, Outcome
<1>2. CASE a \in answers
  <2>1. ASSUME NEW x \in a.result
        PROVE  files'[x.path].rev = 0 \/ x.rev <= files'[x.path].rev
    <3>1. x.rev <= seq
      BY <1>2 DEF ResultsIssued
    <3>2. files[x.path].rev = 0 \/ x.rev <= files[x.path].rev
      BY <1>2 DEF WritesStand
    <3>3. \/ files'[x.path] = files[x.path]
          \/ files'[x.path].rev = 0
          \/ seq < files'[x.path].rev
      BY <1>1, RowsAdvance
    <3> QED BY <1>1, <3>1, <3>2, <3>3
  <2> QED BY <1>2, <2>1 DEF WritesStand
<1>3. CASE a \notin answers
  <2>1. Writes(a.request, a.result)
    BY <1>3, StepAnswers DEF NewAnswer
  <2>2. ASSUME NEW b \in Bases(a.request)
        PROVE  \E x \in a.result : x.path = b.path /\ b.base < x.rev
    <3>1. PICK x \in a.result : x.path = b.path
      BY <2>1, <2>2 DEF Writes
    <3>2. b.base <= seq
      BY <1>1, <2>1, <2>2, <3>1, RowsIssued DEF Writes
    <3>3. b.base \in Nat
      BY <1>1, <2>1, <2>2, <3>1 DEF Writes
    <3>4. seq < x.rev
      BY <2>1 DEF Writes
    <3> QED BY <1>1, <3>1, <3>2, <3>3, <3>4
  <2>3. ASSUME NEW x \in a.result
        PROVE  files'[x.path].rev = 0 \/ x.rev <= files'[x.path].rev
    <3> DEFINE c == [rev |-> x.rev, path |-> x.path, content |-> x.content,
                     created |-> clock, restoredFrom |-> 0]
    <3>1. c \in changes' /\ c.path = x.path /\ c.rev = x.rev
      BY <2>1 DEF Writes, Logged
    <3> HIDE DEF c
    <3> QED BY <1>1, <3>1 DEF CollectionSafe, CurrentVersionRetained
  <2> QED BY <2>1, <2>2, <2>3 DEF Writes
<1> QED BY <1>2, <1>3

\* An operation that is executed again was answered longer ago than the
\* retention period; and where both executions change something, the paths have
\* had no row since a collection: nothing written meanwhile is overwritten.
THEOREM RetriesAreHarmless == Spec => LateRetriesAreHarmless
<1> DEFINE Inv == ResultsIssued /\ RecordsKept /\ WritesStand
           Harmless ==
              \A a \in answers, b \in answers' \ answers :
                 a.device = b.device /\ a.id = b.id =>
                   /\ a.created < clock - Retention
                   /\ a.request = b.request /\ a.changed /\ b.changed =>
                        \A x \in a.result : files[x.path] = NoRow
<1>1. Init => Inv
  BY DEF Init, ResultsIssued, RecordsKept, WritesStand, NoPlan, Idle
<1>2. /\ TypeOK /\ TypeOK' /\ CollectionSafe /\ CollectionSafe' /\ Inv
      /\ [Next]_vars
      => Inv'
  BY ResultsStep, RecordsKeptStep, WritesStandStep
<1>3. TypeOK /\ CollectionSafe /\ Inv /\ [Next]_vars => [Harmless]_vars
  <2> SUFFICES ASSUME TypeOK, CollectionSafe, Inv, [Next]_vars,
                      NEW a \in answers, NEW b \in answers' \ answers,
                      a.device = b.device, a.id = b.id
               PROVE  /\ a.created < clock - Retention
                      /\ a.request = b.request /\ a.changed /\ b.changed =>
                           \A x \in a.result : files[x.path] = NoRow
    OBVIOUS
  <2>1. NewAnswer(b)
    BY StepAnswers DEF NewAnswer
  <2>2. a.created < clock - Retention
    <3>1. a \notin operations
      BY <2>1 DEF NewAnswer, Fresh
    <3> QED BY <3>1 DEF RecordsKept
  <2>3. ASSUME a.request = b.request, a.changed, b.changed, NEW x \in a.result
        PROVE  files[x.path] = NoRow
    <3>1. Writes(a.request, b.result)
      BY <2>1, <2>3 DEF NewAnswer
    <3>2. /\ a.request \in Request
          /\ \A y \in a.result : y.path \in Paths /\ y.rev \in Nat
          /\ \A p \in Paths : files[p] \in Row /\ files[p].rev \in Nat
      BY DEF TypeOK, Operation, Outcome, Row
    <3>3. ASSUME NEW e \in Bases(a.request)
          PROVE  e.path \in Paths /\ files[e.path].rev = 0
      <4>1. e.base = files[e.path].rev
        BY <3>1, <3>3 DEF Writes
      <4>2. PICK y \in a.result : y.path = e.path /\ e.base < y.rev
        BY <2>3, <3>3 DEF WritesStand
      <4>3. files[y.path].rev = 0 \/ y.rev <= files[y.path].rev
        BY <2>3 DEF WritesStand
      <4> QED BY <3>2, <4>1, <4>2, <4>3
    <3>4. \A e \in Bases(a.request) : files[e.path].content = Deleted
      BY <3>3 DEF CollectionSafe, LogSound
    <3>5. a.request.kind = "apply"
      BY <3>1, <3>4 DEF Writes
    <3>6. x.path = a.request.path
      BY <2>3, <3>5 DEF WritesStand
    <3>7. [path |-> x.path, base |-> a.request.base] \in Bases(a.request)
      BY <3>5, <3>6 DEF Bases
    <3>8. files[x.path].rev = 0 /\ files[x.path].content = Deleted
      BY <3>3, <3>4, <3>7
    <3> QED BY <3>2, <3>8 DEF Row, NoRow
  <2> QED BY <2>2, <2>3
<1> QED BY <1>1, <1>2, <1>3, TypeCorrect, CollectionIsSafe, PTL
        DEF Spec, LateRetriesAreHarmless

-----------------------------------------------------------------------------
(* What a collection leaves.                                               *)

\* The plan takes the oldest versions of each path.
TakesOldest(revs) ==
    \A c, e \in changes :
        c.path = e.path /\ c.rev <= e.rev /\ e.rev \in revs => c.rev \in revs

\* It leaves the newest ones, unless it takes the path as deleted.
LeavesNewest(revs, paths) ==
    \A c \in changes : c.rev \in revs /\ c.path \notin paths => BeyondKept(c)

\* What the plan will take that is being made.
WillTake(c) ==
    \/ c.rev \in builder.revs
    \/ c.path \in builder.paths /\ c.rev <= builder.watermark

PlansTakeOldest ==
    /\ builder.phase = "ranked" =>
          \A c, e \in changes :
             c.path = e.path /\ c.rev <= e.rev /\ WillTake(e) => WillTake(c)
    /\ \A g \in PlanIds : plans[g].status = "pending" => TakesOldest(plans[g].revs)

PlansLeaveNewest ==
    /\ builder.phase = "ranked" => LeavesNewest(builder.revs, builder.paths)
    /\ \A g \in PlanIds : plans[g].status = "pending" =>
          LeavesNewest(plans[g].revs, plans[g].paths)

\* What is left of a path without a row ends with a tombstone.
GoneIsDeleted ==
    \A c \in changes :
        /\ files[c.path].rev = 0
        /\ \A e \in changes : e.path = c.path => e.rev <= c.rev
        => c.content = Deleted

\* A set of versions is at least as large as one whose revisions it has.
LEMMA MoreRevisions ==
    ASSUME NEW S, NEW T, IsFiniteSet(T),
           \A e \in S : \E x \in T : x.rev = e.rev,
           \A e, f \in S : e.rev = f.rev => e = f
    PROVE  IsFiniteSet(S) /\ Cardinality(S) <= Cardinality(T)
<1> DEFINE twin == [e \in S |-> CHOOSE x \in T : x.rev = e.rev]
<1>1. \A e \in S : twin[e] \in T /\ twin[e].rev = e.rev
  OBVIOUS
<1>2. twin \in [S -> T]
  BY <1>1
<1> HIDE DEF twin
<1>3. \A e, f \in S : twin[e] = twin[f] => e = f
  BY <1>1
<1>4. twin \in Injection(S, T)
  BY <1>2, <1>3 DEF Injection, IsInjective
<1> QED BY <1>4, FS_Injection

\* A version stays beyond those that are kept, if none that is newer is taken.
LEMMA PositionStays ==
    ASSUME TypeOK, TypeOK', LogSound, LogSound', NEW c \in changes, NEW x \in changes',
           x.rev = c.rev, x.path = c.path, BeyondKept(c),
           \A e \in changes : e.path = c.path /\ e.rev >= c.rev =>
              \E y \in changes' : y.rev = e.rev /\ y.path = e.path
    PROVE  BeyondKept(x)'
<1> DEFINE S == {e \in changes : e.path = c.path /\ e.rev >= c.rev}
           T == {y \in changes' : y.path = x.path /\ y.rev >= x.rev}
<1>1. IsFiniteSet(S) /\ IsFiniteSet(T)
  BY FS_Subset DEF LogSound
<1>2. \A e \in S : \E y \in T : y.rev = e.rev
  OBVIOUS
<1>3. \A e, f \in S : e.rev = f.rev => e = f
  BY DEF LogSound
<1>4. Position(c) = Cardinality(S) /\ Position(x)' = Cardinality(T)
  BY DEF Position
<1> HIDE DEF S, T
<1>5. Cardinality(S) <= Cardinality(T)
  BY <1>1, <1>2, <1>3, MoreRevisions
<1>6. Cardinality(S) \in Nat /\ Cardinality(T) \in Nat /\ KeepVersions \in Nat
  BY <1>1, FS_CardinalityType, StoreAssumption
<1> QED BY <1>4, <1>5, <1>6 DEF BeyondKept

\* An older version of the path is beyond those that are kept, too.
LEMMA OlderIsBeyond ==
    ASSUME TypeOK, LogSound, NEW c \in changes, NEW e \in changes,
           c.path = e.path, c.rev <= e.rev, BeyondKept(e)
    PROVE  BeyondKept(c)
<1> DEFINE S == {x \in changes : x.path = e.path /\ x.rev >= e.rev}
           T == {x \in changes : x.path = c.path /\ x.rev >= c.rev}
<1>1. \A x \in changes : x.rev \in Nat
  BY DEF TypeOK, Change
<1>2. S \subseteq T
  BY <1>1
<1>3. IsFiniteSet(T)
  BY FS_Subset DEF LogSound
<1>4. Position(e) = Cardinality(S) /\ Position(c) = Cardinality(T)
  BY DEF Position
<1> HIDE DEF S, T
<1>5. IsFiniteSet(S) /\ Cardinality(S) <= Cardinality(T)
  BY <1>2, <1>3, FS_Subset
<1>6. Cardinality(S) \in Nat /\ Cardinality(T) \in Nat /\ KeepVersions \in Nat
  BY <1>3, <1>5, FS_CardinalityType, StoreAssumption
<1> QED BY <1>4, <1>5, <1>6 DEF BeyondKept

\* Only a collection takes versions from the log.
LEMMA LogStays ==
    ASSUME TypeOK, [Next]_vars, NEW e \in changes
    PROVE  \/ \E x \in changes' : x.rev = e.rev /\ x.path = e.path
           \/ \E g \in PlanIds : ExecuteGCPlan(g)
<1>1. ASSUME NEW d \in Writers, Commits(d)
      PROVE  e \in changes'
  BY <1>1, CommitAdds
<1>2. ASSUME NEW d \in Writers, RestoreMark(d)
      PROVE  \E x \in changes' : x.rev = e.rev /\ x.path = e.path
  BY <1>2, MarkKeepsVersions
<1>3. ASSUME \/ \E d \in Writers : Answers(d)
             \/ \E d \in Devices : Manage(d)
             \/ \E g \in PlanIds : GCReadWatermark(g)
             \/ GCRankChanges
             \/ GCSavePlan
             \/ GCBuildEnd
             \/ Quiet
      PROVE  e \in changes'
  BY <1>3, AnswersType
     DEF Manage, PairDevice, SetDeviceStatus, AcknowledgeDevice, GCReadWatermark,
         GCRankChanges, GCSavePlan, GCBuildEnd, Quiet
<1> QED BY <1>1, <1>2, <1>3, StepCases

\* The fields of the builder.
LEMMA BuilderFields ==
    ASSUME TypeOK, CollectionSafe, builder.phase = "ranked"
    PROVE  /\ builder.watermark \in Nat /\ builder.watermark <= seq
           /\ \A r \in builder.revs : r \in Nat /\ r <= seq
           /\ builder.paths \in SUBSET Paths
<1>1. builder \in [phase : {"watermark", "ranked"}, plan : PlanIds,
                   watermark : Nat, revs : SUBSET Nat, paths : SUBSET Paths,
                   cutoff : Int, audience : SUBSET Devices]
  BY DEF TypeOK, Builder, Idle
<1> QED BY <1>1 DEF CollectionSafe, BuilderSafe, TakesNoLiveVersion

\* A plan that is pending was so before, is empty, or takes what was to be taken.
LEMMA PendingPlan ==
    ASSUME TypeOK, CollectionSafe, [Next]_vars, NEW g \in PlanIds,
           plans'[g].status = "pending"
    PROVE  \/ plans'[g] = plans[g]
           \/ plans'[g].revs = {}
           \/ /\ builder.phase = "ranked" /\ changes' = changes
              /\ plans'[g].paths = builder.paths
              /\ \A c \in changes : c.rev \in plans'[g].revs <=> WillTake(c)
<1>1. CASE GCSavePlan
  <2>1. /\ builder.phase = "ranked" /\ changes' = changes
        /\ plans' = [plans EXCEPT ![builder.plan] =
              [status |-> "pending", revs |-> builder.revs \cup Revs(HistoryOfDeleted),
               paths |-> builder.paths,
               blobs |-> OnlyIn(builder.revs \cup Revs(HistoryOfDeleted)),
               opCutoff |-> builder.cutoff, audience |-> builder.audience]]
    BY <1>1, Zenon DEF GCSavePlan
  <2>2. \/ plans'[g] = plans[g]
        \/ /\ plans'[g].paths = builder.paths
           /\ plans'[g].revs = builder.revs \cup Revs(HistoryOfDeleted)
    BY <2>1 DEF TypeOK
  <2>3. ASSUME NEW c \in changes
        PROVE  c.rev \in Revs(HistoryOfDeleted)
                  <=> c.path \in builder.paths /\ c.rev <= builder.watermark
    BY DEF Revs, HistoryOfDeleted, CollectionSafe, LogSound
  <2> QED BY <2>1, <2>2, <2>3 DEF WillTake
<1> QED BY <1>1, PlanCases

\* The second query takes the oldest versions, if the watermark is still the
\* one that bounds what goes with a tombstone.
LEMMA RankTakesOldest ==
    ASSUME TypeOK, LogSound, Chronological, GCRankChanges, Watermark = builder.watermark,
           NEW c \in changes, NEW e \in changes, c.path = e.path, c.rev <= e.rev,
           WillTake(e)'
    PROVE  WillTake(c)'
<1> DEFINE cutoff == clock - Retention
           candidates == {x \in changes : Collectable(x, Watermark, cutoff)}
           tops == {x \in candidates : Position(x) = 1 /\ x.content = Deleted}
           revs == Revs(candidates)
           paths == {x.path : x \in tops}
<1>1. /\ builder.phase = "watermark"
      /\ builder' = [builder EXCEPT
              !.phase = "ranked", !.cutoff = cutoff, !.revs = revs,
              !.paths = paths, !.audience = Active]
      /\ UNCHANGED <<clock, changes, devices>>
  BY DEF GCRankChanges
<1>2. /\ builder'.revs = revs /\ builder'.paths = paths
      /\ builder'.watermark = Watermark /\ Watermark \in Nat
  <2>1. builder \in [phase : {"watermark", "ranked"}, plan : PlanIds,
                     watermark : Nat, revs : SUBSET Nat, paths : SUBSET Paths,
                     cutoff : Int, audience : SUBSET Devices]
    BY <1>1 DEF TypeOK, Builder, Idle
  <2> HIDE DEF revs, paths, cutoff
  <2> QED BY <1>1, <2>1
<1>3. /\ clock \in Nat /\ Retention \in Nat
      /\ \A x \in changes : x.rev \in Nat /\ x.created \in Nat
  BY StoreAssumption DEF TypeOK, Change
<1>4. CASE e.rev \in revs
  <2>1. PICK x \in candidates : x.rev = e.rev
    BY <1>4 DEF Revs
  <2>2. e \in candidates
    BY <2>1 DEF LogSound
  <2>3. c.rev <= Watermark /\ c.created < cutoff
    <3>1. e.rev <= Watermark /\ e.created < cutoff /\ c.created <= e.created
      BY <2>2 DEF Collectable, Chronological
    <3>2. cutoff \in Int
      BY <1>3
    <3> HIDE DEF cutoff
    <3> QED BY <1>2, <1>3, <3>1, <3>2
  <2>4. CASE BeyondKept(e)
    <3>1. c \in candidates
      BY <2>3, <2>4, OlderIsBeyond DEF Collectable
    <3>2. c.rev \in revs
      BY <3>1 DEF Revs
    <3> QED BY <1>2, <3>2 DEF WillTake
  <2>5. CASE Position(e) = 1 /\ e.content = Deleted
    <3>1. c.path \in paths
      BY <2>2, <2>5
    <3> QED BY <1>2, <2>3, <3>1 DEF WillTake
  <2> QED BY <2>2, <2>4, <2>5 DEF Collectable
<1>5. CASE e.path \in paths /\ e.rev <= Watermark
  <2>1. c.rev <= Watermark
    BY <1>2, <1>3, <1>5
  <2> QED BY <1>2, <1>5, <2>1 DEF WillTake
<1> QED BY <1>2, <1>4, <1>5 DEF WillTake

\* It leaves the newest versions of what it does not take as deleted.
LEMMA RankLeavesNewest ==
    ASSUME TypeOK, LogSound, GCRankChanges
    PROVE  LeavesNewest(builder.revs, builder.paths)'
<1> DEFINE cutoff == clock - Retention
           candidates == {x \in changes : Collectable(x, Watermark, cutoff)}
           tops == {x \in candidates : Position(x) = 1 /\ x.content = Deleted}
           revs == Revs(candidates)
           paths == {x.path : x \in tops}
<1>1. /\ builder.phase = "watermark"
      /\ builder' = [builder EXCEPT
              !.phase = "ranked", !.cutoff = cutoff, !.revs = revs,
              !.paths = paths, !.audience = Active]
      /\ UNCHANGED <<clock, changes, devices>>
  BY DEF GCRankChanges
<1>2. builder'.revs = revs /\ builder'.paths = paths
  <2>1. builder \in [phase : {"watermark", "ranked"}, plan : PlanIds,
                     watermark : Nat, revs : SUBSET Nat, paths : SUBSET Paths,
                     cutoff : Int, audience : SUBSET Devices]
    BY <1>1 DEF TypeOK, Builder, Idle
  <2> HIDE DEF revs, paths, cutoff
  <2> QED BY <1>1, <2>1
<1>3. ASSUME NEW c \in changes, c.rev \in revs, c.path \notin paths
      PROVE  BeyondKept(c)
  <2>1. PICK x \in candidates : x.rev = c.rev
    BY <1>3 DEF Revs
  <2>2. c \in candidates
    BY <2>1 DEF LogSound
  <2>3. ~(Position(c) = 1 /\ c.content = Deleted)
    BY <1>3, <2>2
  <2> QED BY <2>2, <2>3 DEF Collectable
<1>4. \A c \in changes : BeyondKept(c) => BeyondKept(c)'
  BY <1>1 DEF BeyondKept, Position
<1> HIDE DEF revs, paths, cutoff
<1> QED BY <1>1, <1>2, <1>3, <1>4 DEF LeavesNewest

LEMMA OldestStep ==
    ASSUME TypeOK, TypeOK', CollectionSafe, Chronological, PlansTakeOldest, [Next]_vars,
           GCRankChanges => Watermark = builder.watermark
    PROVE  PlansTakeOldest'
<1>1. /\ LogSound /\ seq \in Nat
      /\ \A c \in changes' : c.rev \in Nat
  BY DEF CollectionSafe, TypeOK, Change
<1>2. ASSUME builder'.phase = "ranked", NEW c \in changes', NEW e \in changes',
             c.path = e.path, c.rev <= e.rev, WillTake(e)'
      PROVE  WillTake(c)'
  <2>1. CASE UNCHANGED builder
    <3>1. e.rev <= seq
      BY <1>1, <1>2, <2>1, BuilderFields DEF WillTake
    <3>2. c.rev <= seq
      BY <1>1, <1>2, <3>1
    <3>3. PICK x \in changes : x.rev = c.rev /\ x.path = c.path
      BY <1>1, <3>2, LogAppends
    <3>4. PICK y \in changes : y.rev = e.rev /\ y.path = e.path
      BY <1>1, <3>1, LogAppends
    <3>5. WillTake(y)
      BY <1>2, <2>1, <3>4 DEF WillTake
    <3>6. WillTake(x)
      BY <1>2, <2>1, <3>3, <3>4, <3>5 DEF PlansTakeOldest
    <3> QED BY <2>1, <3>3, <3>6 DEF WillTake
  <2>2. CASE GCRankChanges
    <3>1. changes' = changes
      BY <2>2 DEF GCRankChanges
    <3> QED BY <1>1, <1>2, <2>2, <3>1, RankTakesOldest
  <2> QED BY <1>2, <2>1, <2>2, BuilderCases
<1>3. ASSUME NEW g \in PlanIds, plans'[g].status = "pending",
             NEW c \in changes', NEW e \in changes',
             c.path = e.path, c.rev <= e.rev, e.rev \in plans'[g].revs
      PROVE  c.rev \in plans'[g].revs
  <2>1. CASE plans'[g] = plans[g]
    <3>1. e.rev <= seq
      BY <1>3, <2>1 DEF CollectionSafe, TakesNoLiveVersion
    <3>2. c.rev <= seq
      BY <1>1, <1>3, <3>1
    <3>3. PICK x \in changes : x.rev = c.rev /\ x.path = c.path
      BY <1>1, <3>2, LogAppends
    <3>4. PICK y \in changes : y.rev = e.rev /\ y.path = e.path
      BY <1>1, <3>1, LogAppends
    <3> QED BY <1>3, <2>1, <3>3, <3>4 DEF PlansTakeOldest, TakesOldest
  <2>2. CASE /\ builder.phase = "ranked" /\ changes' = changes
             /\ \A x \in changes : x.rev \in plans'[g].revs <=> WillTake(x)
    BY <1>3, <2>2 DEF PlansTakeOldest
  <2> QED BY <1>3, <2>1, <2>2, PendingPlan
<1> QED BY <1>2, <1>3 DEF PlansTakeOldest, TakesOldest

\* What a plan leaves stays among the newest, as other plans take the oldest.
LEMMA LeavesStays ==
    ASSUME TypeOK, TypeOK', LogSound, LogSound', [Next]_vars, NEW revs, NEW paths,
           \A r \in revs : r <= seq,
           \A h \in PlanIds : ExecuteGCPlan(h) => TakesOldest(plans[h].revs),
           LeavesNewest(revs, paths)
    PROVE  LeavesNewest(revs, paths)'
<1> SUFFICES ASSUME NEW x \in changes', x.rev \in revs, x.path \notin paths
             PROVE  BeyondKept(x)'
  BY DEF LeavesNewest
<1>1. seq \in Nat /\ x.rev \in Nat /\ x.rev <= seq
  BY DEF TypeOK, Change
<1>2. PICK c \in changes : c.rev = x.rev /\ c.path = x.path
  BY <1>1, LogAppends
<1>3. BeyondKept(c)
  BY <1>2 DEF LeavesNewest
<1>4. ASSUME NEW e \in changes, e.path = c.path, e.rev >= c.rev
      PROVE  \E y \in changes' : y.rev = e.rev /\ y.path = e.path
  <2>1. ASSUME NEW h \in PlanIds, ExecuteGCPlan(h)
        PROVE  e \in changes'
    <3>1. changes' = {y \in changes : y.rev \notin plans[h].revs}
      BY <2>1 DEF ExecuteGCPlan, Survivors
    <3>2. c.rev <= e.rev
      BY <1>4 DEF TypeOK, Change
    <3>3. c.rev \notin plans[h].revs
      BY <1>2, <3>1
    <3>4. e.rev \notin plans[h].revs
      BY <1>4, <2>1, <3>2, <3>3 DEF TakesOldest
    <3> QED BY <3>1, <3>4
  <2> QED BY <2>1, LogStays
<1> QED BY <1>2, <1>3, <1>4, PositionStays

\* A plan that is pending may meet the execution of another only if that one
\* takes the oldest versions.
LEMMA NewestStep ==
    ASSUME TypeOK, TypeOK', CollectionSafe, CollectionSafe', PlansLeaveNewest, [Next]_vars,
           \A g, h \in PlanIds :
              g = h \/ (plans[h].status = "pending" => TakesOldest(plans[h].revs))
    PROVE  PlansLeaveNewest'
<1>1. LogSound /\ LogSound'
  BY DEF CollectionSafe
<1>2. ASSUME builder'.phase = "ranked"
      PROVE  LeavesNewest(builder.revs, builder.paths)'
  <2>1. CASE UNCHANGED builder
    <3>1. PICK revs, paths : revs = builder.revs /\ paths = builder.paths
      OBVIOUS
    <3>2. \A h \in PlanIds : ~ExecuteGCPlan(h)
      BY <1>2, <2>1 DEF ExecuteGCPlan
    <3>3. LeavesNewest(revs, paths) /\ \A r \in revs : r <= seq
      BY <1>2, <2>1, <3>1, BuilderFields DEF PlansLeaveNewest
    <3>4. LeavesNewest(revs, paths)'
      BY <1>1, <3>2, <3>3, LeavesStays
    <3> QED BY <2>1, <3>1, <3>4 DEF LeavesNewest
  <2>2. CASE GCRankChanges
    BY <1>1, <2>2, RankLeavesNewest
  <2> QED BY <1>2, <2>1, <2>2, BuilderCases
<1>3. ASSUME NEW g \in PlanIds, plans'[g].status = "pending"
      PROVE  LeavesNewest(plans[g].revs, plans[g].paths)'
  <2>1. CASE plans'[g] = plans[g]
    <3>1. PICK revs, paths : revs = plans[g].revs /\ paths = plans[g].paths
      OBVIOUS
    <3>2. ASSUME NEW h \in PlanIds, ExecuteGCPlan(h)
          PROVE  TakesOldest(plans[h].revs)
      <4>1. plans[h].status = "pending" /\ plans'[h].status = "executed"
        BY <3>2 DEF ExecuteGCPlan, TypeOK, Plan
      <4> QED BY <1>3, <4>1
    <3>3. LeavesNewest(revs, paths) /\ \A r \in revs : r <= seq
      BY <1>3, <2>1, <3>1 DEF PlansLeaveNewest, CollectionSafe, TakesNoLiveVersion
    <3>4. LeavesNewest(revs, paths)'
      BY <1>1, <3>2, <3>3, LeavesStays
    <3> QED BY <2>1, <3>1, <3>4 DEF LeavesNewest
  <2>2. CASE plans'[g].revs = {}
    BY <2>2 DEF LeavesNewest
  <2>3. CASE /\ builder.phase = "ranked" /\ changes' = changes
             /\ plans'[g].paths = builder.paths
             /\ \A c \in changes : c.rev \in plans'[g].revs <=> WillTake(c)
    <3>1. \A c \in changes : BeyondKept(c) => BeyondKept(c)'
      BY <2>3 DEF BeyondKept, Position
    <3> QED BY <2>3, <3>1 DEF LeavesNewest, WillTake, PlansLeaveNewest
  <2> QED BY <1>3, <2>1, <2>2, <2>3, PendingPlan
<1> QED BY <1>2, <1>3 DEF PlansLeaveNewest

\* A row disappears with all that is left of its path, or its tombstone stays.
LEMMA GoneStep ==
    ASSUME TypeOK, TypeOK', CollectionSafe, GoneIsDeleted, [Next]_vars,
           \A g \in PlanIds : plans[g].status = "pending" => TakesOldest(plans[g].revs)
    PROVE  GoneIsDeleted'
<1> SUFFICES ASSUME NEW c \in changes', files'[c.path].rev = 0,
                    \A e \in changes' : e.path = c.path => e.rev <= c.rev
             PROVE  c.content = Deleted
  BY DEF GoneIsDeleted
<1>1. /\ c.path \in Paths /\ seq \in Nat
      /\ \A e \in changes : e.rev \in Nat /\ e.path \in Paths
      /\ \A e, f \in changes : e.rev = f.rev => e = f
  BY DEF TypeOK, Change, CollectionSafe, LogSound
<1>2. ASSUME NEW d \in Writers, Commits(d)
      PROVE  c.content = Deleted
  <2>1. PICK added \in SUBSET Change :
          /\ changes' = changes \cup added
          /\ \A e \in added : seq < e.rev
          /\ \A p \in Paths :
                \/ files'[p] = files[p] /\ \A e \in added : e.path # p
                \/ \E e \in added :
                      /\ e.path = p
                      /\ files'[p] = [rev |-> e.rev, content |-> e.content]
    BY <1>2, CommitAdds
  <2>2. files'[c.path] = files[c.path] /\ \A e \in added : e.path # c.path
    <3>1. ASSUME NEW e \in added, files'[c.path] = [rev |-> e.rev, content |-> e.content]
          PROVE  FALSE
      <4>1. e.rev = 0 /\ seq < e.rev
        BY <2>1, <3>1
      <4> QED BY <1>1, <4>1
    <3> QED BY <1>1, <2>1, <3>1
  <2> QED BY <2>1, <2>2 DEF GoneIsDeleted
<1>3. ASSUME NEW d \in Writers, RestoreMark(d)
      PROVE  c.content = Deleted
  <2>1. files' = files
    BY <1>3 DEF RestoreMark
  <2>2. PICK x \in changes : c.rev = x.rev /\ c.path = x.path /\ c.content = x.content
    BY <1>3, MarkKeepsVersions
  <2>3. ASSUME NEW e \in changes, e.path = x.path
        PROVE  e.rev <= x.rev
    <3>1. PICK y \in changes' : y.rev = e.rev /\ y.path = e.path
      BY <1>3, MarkKeepsVersions
    <3> QED BY <2>2, <2>3, <3>1
  <2> QED BY <2>1, <2>2, <2>3 DEF GoneIsDeleted
<1>4. ASSUME NEW g \in PlanIds, ExecuteGCPlan(g)
      PROVE  c.content = Deleted
  <2>1. /\ changes' = {e \in changes : e.rev \notin plans[g].revs}
        /\ TakesOldest(plans[g].revs)
        /\ files' = FilesAfter(plans[g])
    BY <1>4 DEF ExecuteGCPlan, Survivors
  <2>2. ASSUME NEW e \in changes, e.path = c.path
        PROVE  e.rev <= c.rev
    <3>1. CASE e.rev \in plans[g].revs
      BY <1>1, <2>1, <2>2, <3>1 DEF TakesOldest
    <3> QED BY <2>1, <2>2, <3>1
  <2>3. CASE files[c.path].rev = 0
    BY <2>1, <2>2, <2>3 DEF GoneIsDeleted
  <2>4. CASE files[c.path].rev # 0
    <3>1. files[c.path].content = Deleted
      BY <1>1, <2>1, <2>4 DEF FilesAfter
    <3>2. PICK e \in changes : /\ e.path = c.path /\ e.rev = files[c.path].rev
                               /\ e.content = files[c.path].content
      BY <1>1, <2>4 DEF CollectionSafe, CurrentVersionRetained
    <3>3. c.rev <= e.rev /\ e.rev <= c.rev
      BY <1>1, <2>1, <2>2, <2>4, <3>2 DEF CollectionSafe, CurrentVersionRetained
    <3>4. c = e
      BY <1>1, <2>1, <3>3
    <3> QED BY <3>1, <3>2, <3>4
  <2> QED BY <2>3, <2>4
<1>5. CASE UNCHANGED <<changes, files>>
  BY <1>5 DEF GoneIsDeleted
<1>6. ASSUME \/ \E d \in Writers : Answers(d)
             \/ \E d \in Devices : Manage(d)
             \/ \E g \in PlanIds : GCReadWatermark(g)
             \/ GCRankChanges
             \/ GCSavePlan
             \/ GCBuildEnd
             \/ Quiet
      PROVE  UNCHANGED <<changes, files>>
  BY <1>6, AnswersType
     DEF Manage, PairDevice, SetDeviceStatus, AcknowledgeDevice, GCReadWatermark,
         GCRankChanges, GCSavePlan, GCBuildEnd, Quiet
<1> QED BY <1>2, <1>3, <1>4, <1>5, <1>6, StepCases

\* An execution takes nothing from the log but the revisions of its plan.
LEMMA ExecutionKeepsNewest ==
    ASSUME TypeOK, CollectionSafe, PlansLeaveNewest, [Next]_vars, NEW g \in PlanIds,
           plans[g].status = "pending", plans'[g].status = "executed",
           NEW c \in changes, c.path \notin plans[g].paths, Position(c) <= KeepVersions
    PROVE  c \in changes'
<1>1. ExecuteGCPlan(g)
  <2>1. ASSUME \/ \E d \in Writers : RestoreMark(d)
               \/ \E d \in Devices : Manage(d)
               \/ GCRankChanges
               \/ GCBuildEnd
               \/ Quiet
        PROVE  UNCHANGED plans
    BY <2>1 DEF RestoreMark, Manage, PairDevice, SetDeviceStatus,
                AcknowledgeDevice, GCRankChanges, GCBuildEnd, Quiet
  <2>2. ASSUME NEW h \in PlanIds, GCReadWatermark(h)
        PROVE  plans'[g].status # "executed"
    BY <2>2 DEF GCReadWatermark, NoPlan, TypeOK
  <2>3. ASSUME NEW h \in PlanIds, ExecuteGCPlan(h)
        PROVE  h = g
    BY <2>3 DEF ExecuteGCPlan, TypeOK
  <2>4. GCSavePlan => plans'[g].status # "executed"
    BY DEF GCSavePlan, TypeOK
  <2> QED BY <2>1, <2>2, <2>3, <2>4, StepCases
<1>2. changes' = {e \in changes : e.rev \notin plans[g].revs}
  BY <1>1 DEF ExecuteGCPlan, Survivors
<1>3. Position(c) \in Nat /\ KeepVersions \in Nat
  <2> DEFINE S == {e \in changes : e.path = c.path /\ e.rev >= c.rev}
  <2>1. IsFiniteSet(S)
    BY FS_Subset DEF CollectionSafe, LogSound
  <2>2. Position(c) = Cardinality(S)
    BY DEF Position
  <2> HIDE DEF S
  <2> QED BY <2>1, <2>2, FS_CardinalityType, StoreAssumption
<1>4. c.rev \notin plans[g].revs
  BY <1>3 DEF PlansLeaveNewest, LeavesNewest, BeyondKept
<1> QED BY <1>2, <1>4

\* A path that is not taken as deleted keeps its newest versions, also when the
\* plan is executed long after it was made (maintenance.go, BuildGCPlan), where
\* there is but one plan.
THEOREM OnePlanKeepsNewest ==
    ASSUME \A g, h \in PlanIds : g = h
    PROVE  Spec => GCKeepsNewest
<1> DEFINE KeepsNewest ==
              \A g \in PlanIds :
                 plans[g].status = "pending" /\ plans'[g].status = "executed" =>
                   \A c \in changes :
                     c.path \notin plans[g].paths /\ Position(c) <= KeepVersions
                       => c \in changes'
<1>1. Init => PlansLeaveNewest
  BY DEF Init, PlansLeaveNewest, NoPlan, Idle
<1>2. TypeOK /\ TypeOK' /\ CollectionSafe /\ CollectionSafe' /\ PlansLeaveNewest
        /\ [Next]_vars => PlansLeaveNewest'
  BY NewestStep
<1>3. TypeOK /\ CollectionSafe /\ PlansLeaveNewest /\ [Next]_vars => [KeepsNewest]_vars
  BY ExecutionKeepsNewest
<1> HIDE DEF KeepsNewest
<1>4. Spec => [][KeepsNewest]_vars
  BY <1>1, <1>2, <1>3, TypeCorrect, CollectionIsSafe, PTL DEF Spec
<1> QED BY <1>4 DEF KeepsNewest, GCKeepsNewest

-----------------------------------------------------------------------------
(* What the comment says of collected tombstones, if the watermark holds.  *)

\* The watermark of the second query is that of the first: what is acknowledged,
\* paired or retired between the two does not move it.
SteadyStep == GCRankChanges => Watermark = builder.watermark

SteadyInv == Chronological /\ PlansTakeOldest /\ PlansLeaveNewest /\ GoneIsDeleted

LEMMA SteadyStepKeeps ==
    ASSUME TypeOK, TypeOK', CollectionSafe, CollectionSafe', SteadyInv,
           [Next]_vars, [SteadyStep]_vars
    PROVE  SteadyInv'
<1>1. /\ Chronological /\ PlansTakeOldest /\ PlansLeaveNewest /\ GoneIsDeleted
      /\ LogSound
  BY DEF SteadyInv, CollectionSafe
<1>2. Chronological'
  BY <1>1, ChronologicalStep
<1>3. GCRankChanges => Watermark = builder.watermark
  <2>1. ASSUME GCRankChanges
        PROVE  ~UNCHANGED vars
    <3> DEFINE revs == Revs({x \in changes : Collectable(x, Watermark, clock - Retention)})
               paths == {x.path : x \in {y \in {x \in changes :
                            Collectable(x, Watermark, clock - Retention)} :
                            Position(y) = 1 /\ y.content = Deleted}}
    <3>1. /\ builder.phase = "watermark"
          /\ builder' = [builder EXCEPT
                !.phase = "ranked", !.cutoff = clock - Retention, !.revs = revs,
                !.paths = paths, !.audience = Active]
      BY <2>1 DEF GCRankChanges
    <3>2. builder \in [phase : {"watermark", "ranked"}, plan : PlanIds,
                       watermark : Nat, revs : SUBSET Nat, paths : SUBSET Paths,
                       cutoff : Int, audience : SUBSET Devices]
      BY <3>1 DEF TypeOK, Builder, Idle
    <3> HIDE DEF revs, paths
    <3>3. builder'.phase = "ranked"
      BY <3>1, <3>2
    <3> QED BY <3>1, <3>3 DEF vars
  <2> QED BY <2>1 DEF SteadyStep
<1>4. PlansTakeOldest'
  BY <1>1, <1>3, OldestStep
<1>5. \A h \in PlanIds : plans[h].status = "pending" => TakesOldest(plans[h].revs)
  BY <1>1 DEF PlansTakeOldest
<1>6. PlansLeaveNewest'
  BY <1>1, <1>5, NewestStep
<1>7. GoneIsDeleted'
  BY <1>1, <1>5, GoneStep
<1> QED BY <1>2, <1>4, <1>6, <1>7 DEF SteadyInv

LEMMA SteadyHolds == Spec /\ [][SteadyStep]_vars => []SteadyInv
<1>1. Init => SteadyInv
  BY DEF Init, SteadyInv, Chronological, PlansTakeOldest, PlansLeaveNewest,
         GoneIsDeleted, NoPlan, Idle
<1>2. TypeOK /\ TypeOK' /\ CollectionSafe /\ CollectionSafe' /\ SteadyInv
        /\ [Next]_vars /\ [SteadyStep]_vars => SteadyInv'
  BY SteadyStepKeeps
<1> QED BY <1>1, <1>2, TypeCorrect, CollectionIsSafe, PTL DEF Spec

\* With any number of plans, made and executed in any order, a path that is not
\* taken as deleted keeps its newest versions, if no plan is made on two
\* different watermarks (maintenance.go, BuildGCPlan and ExecuteGCPlan).
THEOREM SteadyPlansKeepNewest == Spec /\ [][SteadyStep]_vars => GCKeepsNewest
<1> DEFINE KeepsNewest ==
              \A g \in PlanIds :
                 plans[g].status = "pending" /\ plans'[g].status = "executed" =>
                   \A c \in changes :
                     c.path \notin plans[g].paths /\ Position(c) <= KeepVersions
                       => c \in changes'
<1>1. TypeOK /\ CollectionSafe /\ SteadyInv /\ [Next]_vars => [KeepsNewest]_vars
  BY ExecutionKeepsNewest DEF SteadyInv
<1> HIDE DEF KeepsNewest
<1>2. Spec /\ [][SteadyStep]_vars => [][KeepsNewest]_vars
  BY <1>1, SteadyHolds, TypeCorrect, CollectionIsSafe, PTL DEF Spec
<1> QED BY <1>2 DEF KeepsNewest, GCKeepsNewest

\* What maintenance.go says of a tombstone, that every older version of the path
\* goes with it, holds if no plan is made on two different watermarks: then a
\* snapshot never shows a deleted file (ListSnapshot).
THEOREM SteadySnapshotsShowNoDeletedFile ==
    Spec /\ [][SteadyStep]_vars => []SnapshotShowsNoDeletedFile
<1>1. TypeOK /\ CollectionSafe /\ SteadyInv => SnapshotShowsNoDeletedFile
  <2> SUFFICES ASSUME TypeOK, CollectionSafe, SteadyInv,
                      NEW c \in Snapshot(seq), c.content # Deleted
               PROVE  files[c.path].rev = c.rev
    BY DEF SnapshotShowsNoDeletedFile
  <2>1. /\ c \in changes /\ c.path \in Paths /\ c.rev \in Nat
        /\ files[c.path].rev \in Nat
        /\ \A e \in changes : e.path = c.path => e.rev <= c.rev
    BY DEF Snapshot, CollectionSafe, LogSound, TypeOK, Change, Row
  <2>2. files[c.path].rev # 0
    BY <2>1 DEF SteadyInv, GoneIsDeleted
  <2> QED BY <2>1, <2>2 DEF CollectionSafe, CurrentVersionRetained
<1> QED BY <1>1, SteadyHolds, TypeCorrect, CollectionIsSafe, PTL

=============================================================================
