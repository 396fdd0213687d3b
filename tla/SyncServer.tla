----------------------------- MODULE SyncServer -----------------------------
(***************************************************************************)
(* The server as one device's sync engine sees it: the change log, the     *)
(* current row of each path, the results kept for this device's operation  *)
(* ids and the device's acknowledged revision.  Other devices and garbage  *)
(* collection act on it by themselves.  VaultStore models the store with   *)
(* its tables; both keep a versioned map (ServerKeepsMap).            *)
(*                                                                         *)
(* Revisions are the positions of the log.  The log keeps every change: a  *)
(* change below the acknowledged revision is never asked for again, so its *)
(* removal would not be seen; that its row is forgotten is (Collect).      *)
(***************************************************************************)
EXTENDS Integers, Sequences, FiniteSets, FiniteSetsExt, SequencesExt

CONSTANTS
    Paths,          \* paths of the vault's files
    Contents,       \* contents of files, told apart by their SHA-256
    OtherContents,  \* the contents that other devices write
    Absent,         \* no file; the content of a tombstone
    Vaults          \* the sets of paths that may have a file before this device joins

ASSUME ServerAssumption ==
    /\ IsFiniteSet(Paths)
    /\ Absent \notin Contents
    /\ OtherContents \subseteq Contents
    /\ Vaults \subseteq SUBSET Paths

VARIABLES
    log,        \* the changes, in the order of their revisions
    head,       \* the current row of each path
    answers,    \* the results kept for this device's operation ids
    ack         \* last_ack_revision of this device

serverVars == <<log, head, answers, ack>>

\* Operation ids are fresh UUIDs.  Only those in the device's memory and on its
\* disk are ever asked for again, so two, used in turn, stand for them all.
OpIds == {1, 2}

Content == Contents \cup {Absent}
Row == [rev : Nat, content : Content]
NoRow == [rev |-> 0, content |-> Absent]

\* A row of the log; mine tells this device's changes from those of others.
Entry == [path : Paths, content : Content, mine : BOOLEAN]

\* A Change as a client gets it.
Version == [path : Paths, rev : Nat, content : Content]

\* A reply to a mutation: its changes, or the current row it conflicts with.
Reply == [kind : {"ok", "conflict"}, versions : SUBSET Version]
NoReply == [kind |-> "none"]

\* The mutations a device sends.  A put and a delete are one kind of request,
\* told apart by the content.
Item == [path : Paths, base : Nat]
Request == [kind : {"apply"}, path : Paths, base : Nat, content : Content]
             \cup [kind : {"rename"}, from : Paths, path : Paths, base : Nat,
                   content : Contents]
             \cup [kind : {"batch"}, items : SUBSET Item]

RowVersion(p) == [path |-> p, rev |-> head[p].rev, content |-> head[p].content]

\* The version at revision r of the log.
Logged(r) == [path |-> log[r].path, rev |-> r, content |-> log[r].content]

\* The rows once new entries are appended after revision last.
HeadAfter(rows, new, last) ==
    [p \in Paths |->
        IF \E i \in DOMAIN new : new[i].path = p
        THEN LET i == CHOOSE i \in DOMAIN new : new[i].path = p
             IN  [rev |-> last + i, content |-> new[i].content]
        ELSE rows[p]]

\* The vault that the device joins.
ServerInit ==
    /\ \E existing \in Vaults, c \in OtherContents :
          log \in SetToSeqs({[path |-> p, content |-> c, mine |-> FALSE] : p \in existing})
    /\ head = HeadAfter([p \in Paths |-> NoRow], log, 0)
    /\ answers = [i \in OpIds |-> NoReply]
    /\ ack = 0

AppendEntries(new) ==
    /\ log' = log \o new
    /\ head' = HeadAfter(head, new, Len(log))

-----------------------------------------------------------------------------
(* Mutations of this device.                                               *)

\* The row already holds what is asked for, whatever base the request names.
AlreadySo(row, request) ==
    /\ row.content = request.content
    /\ row.rev = 0 => request.base = 0

LiveAt(p, base) == head[p].content # Absent /\ head[p].rev = base

\* The changes a request makes, in every order the server may give them; none
\* when the request finds the path as it wants it.
Effects(request) ==
    CASE request.kind = "apply" ->
           {IF AlreadySo(head[request.path], request) THEN <<>>
            ELSE <<[path |-> request.path, content |-> request.content,
                    mine |-> TRUE]>>}
      [] request.kind = "rename" ->
           {<<[path |-> request.from, content |-> Absent, mine |-> TRUE],
              [path |-> request.path, content |-> head[request.from].content,
               mine |-> TRUE]>>}
      [] request.kind = "batch" ->
           SetToSeqs({[path |-> item.path, content |-> Absent, mine |-> TRUE] :
                        item \in request.items})

\* The optimistic lock: every row is the one the request is based on.
Accepts(request) ==
    CASE request.kind = "apply" ->
           LET row == head[request.path]
           IN  AlreadySo(row, request) \/ row.rev = request.base
      [] request.kind = "rename" ->
           LiveAt(request.from, request.base) /\ head[request.path].content = Absent
      [] request.kind = "batch" ->
           \A item \in request.items : LiveAt(item.path, item.base)

\* The rows a conflict is reported with.  A path that has none is reported as
\* the tombstone of revision 0.
ConflictWith(request) ==
    [kind |-> "conflict",
     versions |-> IF request.kind = "apply" THEN {RowVersion(request.path)} ELSE {}]

\* The reply to an accepted request that appended new.
Accepted(request, new) ==
    [kind |-> "ok",
     versions |-> IF new = <<>> THEN {RowVersion(request.path)}
                  ELSE {[path |-> new[i].path, rev |-> Len(log) + i,
                         content |-> new[i].content] : i \in DOMAIN new}]

\* A request under a fresh operation id: executed and its result kept, or
\* refused.  answered is the reply the device will be given.
Serve(id, request, answered) ==
    /\ IF Accepts(request)
       THEN \E new \in Effects(request) :
              /\ AppendEntries(new)
              /\ answered = Accepted(request, new)
              /\ answers' = [answers EXCEPT ![id] = answered]
       ELSE /\ answered = ConflictWith(request)
            /\ UNCHANGED <<log, head, answers>>
    /\ UNCHANGED ack

-----------------------------------------------------------------------------
(* Acknowledgement, other devices and the collection of tombstones.        *)

Acknowledge(r) ==
    /\ ack' = IF r > ack THEN r ELSE ack
    /\ UNCHANGED <<log, head, answers>>

\* Another device writes, deletes or (in two steps) renames a file.
OtherCommit(p, c) ==
    /\ c # head[p].content
    /\ AppendEntries(<<[path |-> p, content |-> c, mine |-> FALSE]>>)
    /\ UNCHANGED <<answers, ack>>

\* Mutant: a live row is forgotten with its history.
CollectableOnceAcked(row) == row.rev # 0 /\ row.rev <= ack

\* The tombstone, settled on every device.  The others have acknowledged it.
Collectable(row) == row.rev # 0 /\ row.content = Absent /\ row.rev <= ack

\* Garbage collection forgets the row of a deleted path.
Collect(p) ==
    /\ Collectable(head[p])
    /\ head' = [head EXCEPT ![p] = NoRow]
    /\ UNCHANGED <<log, answers, ack>>

\* The current rows are a versioned map, as those of the store are.
Map == INSTANCE VersionedMap WITH issued <- Len(log), Deleted <- Absent

\* The server that the engine is checked against keeps the promise that the
\* store was shown to keep: fresh revisions, only tombstones forgotten.
ServerKeepsMap == [][Map!Next]_<<head, Len(log)>>

=============================================================================
