---------------------------- MODULE VaultScanner ----------------------------
(***************************************************************************)
(* What a run looks at (plugin/src/vault-scanner.ts, globMatches of        *)
(* path.ts, the scanning part of run() in sync-engine.ts): the rules that  *)
(* exclude paths and skip directories, the cache of hashes, the events     *)
(* that queue paths, and what the push makes of a scan.                    *)
(*                                                                         *)
(* SyncEngine has the same run in finer steps and without rules and cache: *)
(* a request with its answer, a page of changes with its installation are  *)
(* one action here, and the plugin does not crash.  Fine here is the scan: *)
(* a file is examined and read at two moments, and the user edits files at *)
(* any moment, with or without an event, keeping the file's time or not.   *)
(* Rules are changed while a run goes by the old ones.                     *)
(*                                                                         *)
(* A path is the sequence of its names.  A pattern is a sequence of sets   *)
(* of names, so that "a", "*" and "*.md" are sets, and the empty set is    *)
(* the segment "**".  Left out: "**" inside a name, the engine's temporary *)
(* files, and paths that differ only in case or normalization.             *)
(***************************************************************************)
EXTENDS Naturals, Sequences, FiniteSets

CONSTANTS
    Files,          \* the paths files may have
    Config,         \* configDir
    Own,            \* the plugin's own directory, the protected path
    Settings,       \* the rules the user may set: patterns and a profile
    ConfigFiles, Appearance, PluginFiles,   \* names a recommended profile keeps
    Vaults,         \* the sets of files there may be at first
    Contents,       \* contents of files, told apart by their hashes
    Absent,         \* the content of a path without a file; a tombstone's
    MaxEvents       \* bound: edits, changes of other devices and of the rules,
                    \* failed runs

ASSUME ScannerAssumption ==
    /\ IsFiniteSet(Files)
    /\ \A p \in Files : Len(p) > 0
    /\ Vaults \subseteq SUBSET Files
    /\ Settings # {}
    /\ Contents # {} /\ Absent \notin Contents
    /\ MaxEvents \in Nat

VARIABLES
    disk,       \* the file at each path: content and stat
    clock,      \* the last time a file was given
    row,        \* the server's version of each path
    rev,        \* the server's last revision
    acked,      \* the revision the device has acknowledged
    rules,      \* data.settings: the rules as they are set
    mem,        \* PersistedData, as far as scans go
    pc,         \* where the run is; "idle" between runs
    run,        \* the run's local variables
    events,     \* bound: how many of them have happened
    gone,       \* history: paths without a file at some moment since the scan began
    veiled,     \* history: paths whose file was edited, or moved amid its reading,
                \* so that its stat tells nothing
    forgotten   \* history: paths whose tombstone went before the device took it

vars == <<disk, clock, row, rev, acked, rules, mem, pc, run, events, gone,
          veiled, forgotten>>
server == <<row, rev, acked>>
history == <<gone, veiled, forgotten>>

-----------------------------------------------------------------------------
(* The rules.                                                              *)

\* globMatches: "**" before other segments is any number of directories, and
\* at the end at least one name.
GlobMatches(path, pattern) ==
    LET from[i \in 1 .. Len(path) + 1, j \in 1 .. Len(pattern) + 1] ==
          CASE j > Len(pattern) -> i > Len(path)
            [] j = Len(pattern) /\ pattern[j] = {} -> i <= Len(path)
            [] j < Len(pattern) /\ pattern[j] = {} ->
                 \E k \in i .. Len(path) + 1 : from[k, j + 1]
            [] OTHER -> /\ i <= Len(path)
                        /\ path[i] \in pattern[j]
                        /\ from[i + 1, j + 1]
    IN  from[1, 1]

\* pathIsWithin.
Within(path, directory) ==
    /\ Len(directory) <= Len(path)
    /\ SubSeq(path, 1, Len(directory)) = directory

InConfig(path) == SubSeq(path, Len(Config) + 1, Len(path))

\* profileExcludes.
ProfileExcludes(profile, path) ==
    LET relative == InConfig(path)
    IN  /\ profile \notin {"full", "custom"}
        /\ Within(path, Config)
        /\ \/ profile = "notes"
           \/ ~ \/ Len(relative) = 1 /\ relative[1] \in ConfigFiles
                \/ Len(relative) > 0 /\ relative[1] \in Appearance
                \/ /\ Len(relative) = 3 /\ relative[1] = "plugins"
                   /\ relative[3] \in PluginFiles

\* profileExcludesDirectory.
ProfileExcludesDirectory(profile, path) ==
    LET relative == InConfig(path)
    IN  /\ profile \notin {"full", "custom"}
        /\ Within(path, Config)
        /\ \/ profile = "notes"
           \/ /\ Len(relative) > 0
              /\ ~(Len(relative) \in {1, 2} /\ relative[1] = "plugins")
              /\ relative[1] \notin Appearance

\* isExcluded.
IsExcluded(s, path) ==
    \/ Within(path, Own)
    \/ \E pattern \in s.patterns : GlobMatches(path, pattern)
    \/ ProfileExcludes(s.profile, path)

\* isDirectoryExcluded: the directory, or a file right in it, is excluded.
IsDirectoryExcluded(s, path) ==
    \/ Within(path, Own)
    \/ \E pattern \in s.patterns :
          GlobMatches(path, pattern) \/ GlobMatches(path \o <<"placeholder">>, pattern)
    \/ ProfileExcludesDirectory(s.profile, path)

\* listAllFiles comes to the path through directories that are not excluded.
IsListed(s, path) ==
    \A n \in 1 .. Len(path) - 1 : ~IsDirectoryExcluded(s, SubSeq(path, 1, n))

Folder(path) == SubSeq(path, 1, Len(path) - 1)

\* The rules applied to the paths there are.
Excluded == [s \in Settings |-> {p \in Files : IsExcluded(s, p)}]
FolderExcluded == [s \in Settings |-> {p \in Files : IsExcluded(s, Folder(p))}]
Listed == [s \in Settings |-> {p \in Files : IsListed(s, p)}]

\* Not excluded, but below a directory that a full scan skips.
Hidden == [s \in Settings |-> Files \ (Excluded[s] \cup Listed[s])]

-----------------------------------------------------------------------------
(* Data.                                                                   *)

Hash == Contents \cup {Absent}
Version == [rev : Nat, hash : Hash]
NoVersion == [rev |-> 0, hash |-> Absent]

\* A file of the disk, a scanned file, an entry of scanCache.  stat stands for
\* size and time.
File == [hash : Hash, stat : Nat]
NoFile == [hash |-> Absent, stat |-> 0]

Move == [from : Files, to : Files]

\* files and cache hold NoVersion and NoFile for a path without entry.
Data == [files : [Files -> Version], cursor : Nat, cache : [Files -> File],
         pending : SUBSET Files, moves : SUBSET Move, needsFull : BOOLEAN,
         filter : Settings]

\*   rules    those of the scanner, made when the run began
\*   full, force   the scan sees every file; it reads every file it sees
\*   noted    queued paths the run acknowledges, unless queued again
\*   scope    the paths whose absence counts as a deletion
\*   found    what the scan found
\*   todo     the paths left in the loop the run is in
\*   moves    the queued renames left
\*   move     the rename just committed
\*   at, stat     the path being read, and its stat
Run == [rules : Settings, full : BOOLEAN, force : BOOLEAN, noted : SUBSET Files,
        scope : SUBSET Files, found : [Files -> File], todo : SUBSET Files,
        at : SUBSET Files, moves : SUBSET Move, move : SUBSET Move, stat : Nat]

IdleRun == [rules |-> CHOOSE s \in Settings : TRUE, full |-> FALSE, force |-> FALSE,
            noted |-> {}, scope |-> {}, found |-> [p \in Files |-> NoFile],
            todo |-> {}, at |-> {}, moves |-> {}, move |-> {}, stat |-> 0]

Exists(p) == disk[p].hash # Absent

\* Somebody changes something, or a run fails.
Spend == events < MaxEvents /\ events' = events + 1

\* A revision for each path.
Nth == CHOOSE f \in [Files -> 1 .. Cardinality(Files)] :
          \A p, q \in Files : f[p] = f[q] => p = q

\* After a sync: what the rules let through is tracked and in the cache.  They
\* may have been changed since.
Init ==
    /\ rules \in Settings
    /\ \E existing \in Vaults, filter \in Settings :
        LET c == CHOOSE c \in Contents : TRUE
            synced == existing \cap (Listed[filter] \ Excluded[filter])
        IN  /\ disk = [p \in Files |-> IF p \in existing
                                       THEN [hash |-> c, stat |-> Nth[p]] ELSE NoFile]
            /\ row = [p \in Files |-> IF p \in synced THEN [rev |-> Nth[p], hash |-> c]
                                      ELSE NoVersion]
            /\ mem = [files |-> row, cursor |-> Cardinality(Files),
                      cache |-> [p \in Files |-> IF p \in synced THEN disk[p] ELSE NoFile],
                      pending |-> {}, moves |-> {}, needsFull |-> FALSE,
                      filter |-> filter]
    /\ rev = Cardinality(Files) /\ acked = rev /\ clock = rev
    /\ pc = "idle" /\ run = IdleRun
    /\ events = 0
    /\ gone = {} /\ veiled = {} /\ forgotten = {}

-----------------------------------------------------------------------------
(* The user, and the events of the vault.                                  *)

\* Mutant: the folder is queued, as for an event of a folder.
QueuedFolder(ps) == mem.pending \cup {Folder(p) : p \in ps \ Excluded[rules]}

\* recordVaultChange for files: what the rules of now exclude is not queued.
Queued(ps) == mem.pending \cup (ps \ Excluded[rules])

\* A queued path is newer than what the run noted.
Unnoted(ps) == [run EXCEPT !.noted = @ \ ps]

\* The event of a change: of the file, of its folder only, or none, as when
\* Obsidian was closed or does not watch the folder.
Noticed(p, event) ==
    CASE event = "file" -> /\ mem' = [mem EXCEPT !.pending = Queued({p})]
                           /\ run' = Unnoted({p})
      [] event = "folder" -> /\ Len(p) > 1
                             /\ p \notin FolderExcluded[rules]
                             /\ mem' = [mem EXCEPT !.needsFull = TRUE]
                             /\ UNCHANGED run
      [] event = "none" -> UNCHANGED <<mem, run>>

\* The file is written, with a new time or with the old one, or removed.
Edit(p, h, event) ==
    /\ Spend
    /\ h # disk[p].hash
    /\ clock' = clock + 1
    /\ \E stat \in IF h = Absent THEN {0}
                   ELSE IF Exists(p) THEN {clock', disk[p].stat} ELSE {clock'} :
        /\ disk' = [disk EXCEPT ![p] = [hash |-> h, stat |-> stat]]
        /\ veiled' = IF stat = disk[p].stat \/ p \in {m.to : m \in run.move}
                     THEN veiled \cup {p} ELSE veiled
    /\ Noticed(p, event)
    /\ gone' = IF h = Absent THEN gone \cup {p} ELSE gone
    /\ UNCHANGED <<server, rules, pc, forgotten>>

\* recordVaultRename: the file keeps its time.
Rename(p, q) ==
    /\ Spend
    /\ Exists(p) /\ ~Exists(q)
    /\ disk' = [disk EXCEPT ![q] = disk[p], ![p] = NoFile]
    /\ mem' = [mem EXCEPT !.pending = Queued({p, q}),
                          !.moves = IF {p, q} \cap Excluded[rules] = {}
                                    THEN @ \cup {[from |-> p, to |-> q]} ELSE @]
    /\ run' = Unnoted({p, q})
    /\ gone' = gone \cup {p}
    /\ veiled' = IF p \in veiled \cup run.at \/ q \in {m.to : m \in run.move}
                 THEN veiled \cup {q} ELSE veiled
    /\ UNCHANGED <<clock, server, rules, pc, forgotten>>

\* The settings: excluded paths, profile.
ChangeRules(s) ==
    /\ Spend
    /\ s # rules
    /\ rules' = s
    /\ UNCHANGED <<disk, clock, server, mem, pc, run, history>>

-----------------------------------------------------------------------------
(* The server and the other devices.                                       *)

Latest(p, h) ==
    /\ row' = [row EXCEPT ![p] = [rev |-> rev + 1, hash |-> h]]
    /\ rev' = rev + 1
    /\ UNCHANGED acked

OtherChange(p, h) ==
    /\ Spend
    /\ h # row[p].hash
    /\ Latest(p, h)
    /\ UNCHANGED <<disk, clock, rules, mem, pc, run, history>>

\* Garbage collection takes a tombstone that every device has acknowledged,
\* also one whose path this device has excluded and skipped.
Collect(p) ==
    /\ row[p].rev \in 1 .. acked
    /\ row[p].hash = Absent
    /\ row' = [row EXCEPT ![p] = NoVersion]
    /\ forgotten' = IF mem.files[p].hash = Absent THEN forgotten
                    ELSE forgotten \cup {p}
    /\ UNCHANGED <<disk, clock, rev, acked, rules, mem, pc, run, events, gone, veiled>>

-----------------------------------------------------------------------------
(* A run: run() with pushLocalChanges and the rest, as far as scans go.    *)

\* What the steps of a run leave alone.
Quiet == UNCHANGED <<rules, events>>
NoRequest == UNCHANGED server
NoFiles == UNCHANGED <<disk, clock>>

EndRun == pc' = "idle" /\ run' = IdleRun

\* applyRemoteChange, for each of ps whose file is not as the server has it, one
\* after the other.
Differing(ps) == {p \in ps : disk[p].hash # row[p].hash}

\* A downloaded file is given the time the other device had for it.
Downloaded(p) == [hash |-> row[p].hash, stat |-> clock + Nth[p]]

Install(ps) ==
    /\ clock' = IF Differing(ps) = {} THEN clock ELSE clock + Cardinality(Files)
    /\ disk' = [p \in Files |->
          IF p \notin Differing(ps) THEN disk[p]
          ELSE IF row[p].hash = Absent THEN NoFile
          ELSE Downloaded(p)]
    /\ gone' = gone \cup {p \in ps : row[p].hash = Absent}

\* The data then: a downloaded file is in the cache, a deleted one is not.
Installed(ps) ==
    [mem EXCEPT !.files = [p \in Files |-> IF p \in ps THEN row[p] ELSE @[p]],
                !.cache = [p \in Files |->
                    IF p \in ps /\ row[p].hash = Absent THEN NoFile
                    ELSE IF p \in Differing(ps) THEN Downloaded(p) ELSE @[p]]]

\* The loops take the paths in their order.
First(ps) == {p \in ps : \A q \in ps : Nth[p] <= Nth[q]}

\* What the run takes from the server: newer than tracked, and not excluded.
Newer(s, since) == {p \in Files \ Excluded[s] :
                       row[p].rev > since /\ row[p].rev > mem.files[p].rev}

\* The scanner is made with the rules of now.  When they are not those of the
\* last run, reconcileSnapshot compares everything they let through.
StartRun ==
    /\ pc = "idle"
    /\ pc' = "renames"
    /\ run' = [IdleRun EXCEPT !.rules = rules, !.full = mem.filter # rules,
                              !.moves = mem.moves]
    /\ IF mem.filter # rules
       THEN /\ Install(Newer(rules, 0))
            /\ mem' = [Installed(Newer(rules, 0)) EXCEPT !.cursor = rev, !.filter = rules]
       ELSE /\ NoFiles
            /\ UNCHANGED <<mem, gone>>
    /\ Quiet /\ NoRequest /\ UNCHANGED <<veiled, forgotten>>

\* The file is still what was renamed.
Renamable(m) ==
    /\ mem.files[m.from].hash # Absent
    /\ ~Exists(m.from)
    /\ disk[m.to].hash = mem.files[m.from].hash

\* The server takes the rename.
Renames(m) ==
    /\ row[m.from] = mem.files[m.from]
    /\ row[m.to].hash = Absent

\* processPendingRenames drops the rename: it is pushed as two changes.
RenameDropped(m) ==
    /\ pc = "renames" /\ m \in run.moves
    /\ ~Renamable(m) \/ ~Renames(m)
    /\ mem' = [mem EXCEPT !.moves = @ \ {m}]
    /\ run' = [run EXCEPT !.moves = @ \ {m}]
    /\ UNCHANGED <<pc, history>> /\ Quiet /\ NoRequest /\ NoFiles

\* The request is made and committed; nothing reads the files before its answer.
RenameCommitted(m) ==
    /\ pc = "renames" /\ m \in run.moves
    /\ Renamable(m) /\ Renames(m)
    /\ row' = [row EXCEPT ![m.from] = [rev |-> rev + 1, hash |-> Absent],
                          ![m.to] = [rev |-> rev + 2, hash |-> row[m.from].hash]]
    /\ rev' = rev + 2
    /\ mem' = [mem EXCEPT !.files[m.from] = row'[m.from], !.files[m.to] = row'[m.to]]
    /\ run' = [run EXCEPT !.moves = @ \ {m}, !.move = {m}]
    /\ pc' = "renamed"
    /\ UNCHANGED <<acked, history>> /\ Quiet /\ NoFiles

\* acceptRenameResult: the cache gets the renamed hash with the stat of now, and
\* what was queued for the two paths meanwhile is dropped.
RenameRecorded(m) ==
    /\ pc = "renamed" /\ m \in run.move
    /\ mem' = [mem EXCEPT
          !.cache[m.from] = NoFile,
          !.cache[m.to] = IF Exists(m.to) THEN [hash |-> mem.files[m.to].hash,
                                                stat |-> disk[m.to].stat] ELSE @,
          !.pending = @ \ {m.from, m.to},
          !.moves = @ \ {m}]
    /\ run' = [run EXCEPT !.move = {}]
    /\ pc' = "renames"
    /\ UNCHANGED history /\ Quiet /\ NoRequest /\ NoFiles

\* Mutant: the daily scan trusts the cache.
ForcedIfPartial(daily, full) == ~full

\* forceHash.
Forced(daily, full) == daily \/ ~full

\* Which files the run scans.  The hour or the day since the last scan of that
\* kind is over, or not.
PlanScan(hourly, daily) ==
    LET full == \/ run.full \/ mem.needsFull \/ hourly \/ daily
                \/ \A p \in Files : mem.cache[p] = NoFile
    IN  /\ pc = "renames" /\ run.moves = {}
        /\ pc' = "scan"
        /\ run' = [run EXCEPT
              !.full = full, !.force = Forced(daily, full), !.noted = mem.pending,
              !.scope = IF full THEN Files ELSE mem.pending,
              !.todo = IF full THEN {p \in Listed[run.rules] : Exists(p)} \ Excluded[run.rules]
                       ELSE mem.pending \ Excluded[run.rules]]
        /\ gone' = {p \in Files : ~Exists(p)}
        /\ UNCHANGED <<mem, veiled, forgotten>> /\ Quiet /\ NoRequest /\ NoFiles

\* Mutant: the size is enough.
ReusableByEntry(p) == ~run.force /\ mem.cache[p] # NoFile

\* The hash of the cache is taken: the size and time are still the same.
Reusable(p) == ~run.force /\ mem.cache[p] # NoFile /\ mem.cache[p].stat = disk[p].stat

\* What is entered then.
Reused(p) == [hash |-> mem.cache[p].hash, stat |-> disk[p].stat]

\* adapter.stat.
ScanStat(p) ==
    /\ pc = "scan" /\ p \in First(run.todo)
    /\ \/ /\ ~Exists(p)
          /\ run' = [run EXCEPT !.todo = @ \ {p}]
          /\ UNCHANGED pc
       \/ /\ Exists(p) /\ Reusable(p)
          /\ run' = [run EXCEPT !.todo = @ \ {p}, !.found[p] = Reused(p)]
          /\ UNCHANGED pc
       \/ /\ Exists(p) /\ ~Reusable(p)
          /\ run' = [run EXCEPT !.todo = @ \ {p}, !.at = {p}, !.stat = disk[p].stat]
          /\ pc' = "read"
    /\ UNCHANGED <<mem, history>> /\ Quiet /\ NoRequest /\ NoFiles

\* The file as it is entered: the stat from before it was read.
Scanned(p) == [hash |-> disk[p].hash, stat |-> run.stat]

\* hashVaultFile; it throws, and the run is over, when the file has gone.
ScanRead(p) ==
    /\ pc = "read" /\ p \in run.at
    /\ IF Exists(p)
       THEN /\ run' = [run EXCEPT !.at = {}, !.stat = 0, !.found[p] = Scanned(p)]
            /\ pc' = "scan"
       ELSE EndRun
    /\ UNCHANGED <<mem, history>> /\ Quiet /\ NoRequest /\ NoFiles

Found == {p \in Files : run.found[p] # NoFile}

\* updateScanCache, before anything is pushed.
UpdateScanCache ==
    /\ pc = "scan" /\ run.todo = {}
    /\ mem' = [mem EXCEPT !.cache = [p \in Files |->
          IF p \in run.scope THEN run.found[p] ELSE @[p]]]
    /\ run' = [run EXCEPT !.todo = Found]
    /\ pc' = "push"
    /\ UNCHANGED history /\ Quiet /\ NoRequest /\ NoFiles

\* The row is as the request wants it, whatever base the request names.
AlreadySo(p, h) ==
    /\ row[p].hash = h
    /\ row[p].rev = 0 => mem.files[p].rev = 0

\* A request about p: it changes nothing, the server takes it, or a newer row
\* is installed instead.
Request(p, h, cache) ==
    \/ /\ AlreadySo(p, h)
       /\ mem' = [mem EXCEPT !.files[p] = row[p], !.cache[p] = cache]
       /\ NoRequest /\ NoFiles /\ UNCHANGED gone
    \/ /\ ~AlreadySo(p, h) /\ row[p].rev = mem.files[p].rev
       /\ Latest(p, h)
       /\ mem' = [mem EXCEPT !.files[p] = row'[p], !.cache[p] = cache]
       /\ NoFiles /\ UNCHANGED gone
    \/ /\ ~AlreadySo(p, h) /\ row[p].rev # mem.files[p].rev
       /\ Install({p})
       /\ mem' = Installed({p})
       /\ NoRequest

Unchanged(p) == mem.files[p].hash = run.found[p].hash

\* pushLocalChanges, one scanned file: it is tracked as such, it has changed
\* again since and is queued, or it is uploaded.
Push(p) ==
    /\ pc = "push" /\ p \in First(run.todo)
    /\ \/ /\ Unchanged(p) \/ disk[p] = NoFile
          /\ run' = [run EXCEPT !.todo = @ \ {p}]
          /\ NoRequest /\ NoFiles /\ UNCHANGED <<mem, gone>>
       \/ /\ ~Unchanged(p) /\ Exists(p) /\ disk[p] # run.found[p]
          /\ mem' = [mem EXCEPT !.pending = @ \cup {p}]
          /\ run' = [run EXCEPT !.todo = @ \ {p}, !.noted = @ \ {p}]
          /\ NoRequest /\ NoFiles /\ UNCHANGED gone
       \/ /\ ~Unchanged(p) /\ Exists(p) /\ disk[p] = run.found[p]
          /\ Request(p, disk[p].hash, run.found[p])
          /\ run' = [run EXCEPT !.todo = @ \ {p}]
    /\ UNCHANGED <<pc, veiled, forgotten>> /\ Quiet

Missing == {p \in Files : mem.files[p].hash # Absent /\ p \notin Found}

\* Mutant: whatever was not found is deleted, excluded or not.
DeletableIfMissing == Missing \cap run.scope

\* deletionCandidates: within the scope, and not excluded.
Deletable == (Missing \cap run.scope) \ Excluded[run.rules]

PushDone ==
    /\ pc = "push" /\ run.todo = {}
    /\ run' = [run EXCEPT !.todo = Deletable]
    /\ pc' = "deletes"
    /\ UNCHANGED <<mem, history>> /\ Quiet /\ NoRequest /\ NoFiles

\* The deletion of a file the scan has not found.  Nobody looks at the disk.
Delete(p) ==
    /\ pc = "deletes" /\ p \in First(run.todo)
    /\ Request(p, Absent, mem.cache[p])
    /\ run' = [run EXCEPT !.todo = @ \ {p}]
    /\ UNCHANGED <<pc, veiled, forgotten>> /\ Quiet

\* pullRemoteChanges, and the end of the run: what it has seen of the queue is
\* acknowledged, and so is the revision.
Pull ==
    /\ pc = "deletes" /\ run.todo = {}
    /\ Install(Newer(run.rules, mem.cursor))
    /\ mem' = [Installed(Newer(run.rules, mem.cursor)) EXCEPT
          !.cursor = rev, !.pending = @ \ run.noted,
          !.needsFull = @ /\ ~run.full]
    /\ acked' = rev
    /\ EndRun
    /\ UNCHANGED <<row, rev, veiled, forgotten>> /\ Quiet

\* Anything else may fail at any moment.  (A rename whose answer is lost is
\* recorded by the next run: SyncEngine has it.)
RunFails ==
    /\ Spend
    /\ pc \notin {"idle", "renamed"}
    /\ EndRun
    /\ UNCHANGED <<mem, rules, history>> /\ NoRequest /\ NoFiles

-----------------------------------------------------------------------------
Environment ==
    \/ \E p \in Files, h \in Hash, event \in {"file", "folder", "none"} : Edit(p, h, event)
    \/ \E p, q \in Files : Rename(p, q)
    \/ \E s \in Settings : ChangeRules(s)
    \/ \E p \in Files, h \in Hash : OtherChange(p, h)
    \/ \E p \in Files : Collect(p)
    \/ RunFails

Engine ==
    \/ StartRun
    \/ \E m \in Move : RenameDropped(m) \/ RenameCommitted(m) \/ RenameRecorded(m)
    \/ \E hourly, daily \in BOOLEAN : PlanScan(hourly, daily)
    \/ \E p \in Files : ScanStat(p) \/ ScanRead(p) \/ Push(p) \/ Delete(p)
    \/ UpdateScanCache \/ PushDone \/ Pull

Next == Environment \/ Engine

Spec == Init /\ [][Next]_vars

\* The timer starts runs, and a run goes on; every day one run reads every file.
FairSpec ==
    /\ Spec
    /\ WF_vars(Engine)
    /\ SF_vars(PlanScan(FALSE, TRUE))

-----------------------------------------------------------------------------
(* Properties.                                                             *)

\* The tables and the data keep their shapes.
TypeOK ==
    /\ disk \in [Files -> File]
    /\ row \in [Files -> Version]
    /\ {clock, rev, acked} \subseteq Nat
    /\ rules \in Settings
    /\ mem \in Data
    /\ pc \in {"idle", "renames", "renamed", "scan", "read", "push", "deletes"}
    /\ run \in Run
    /\ {gone, veiled, forgotten} \subseteq SUBSET Files

\* An entry of the cache that a scan would reuse has the hash of the file, but
\* for files edited with their time kept, or while a rename waited for its
\* answer, or moved between the moments a scan examines and reads them
\* (VaultScanner.scan, acceptRenameResult).
CacheHonest ==
    \A p \in Files \ veiled :
        Exists(p) /\ mem.cache[p].stat = disk[p].stat => mem.cache[p].hash = disk[p].hash

\* A file is deleted for the other devices only if it was not there at some
\* moment since the scan began, whatever was excluded, included, queued or
\* renamed meanwhile, unless the scan passes by its folder though the file is
\* not excluded (isDirectoryExcluded, pushLocalChanges).
DeletionIsReal ==
    [][\A p \in Files : Delete(p) /\ row'[p] # row[p] =>
          p \in gone \cup Hidden[run.rules]]_vars

\* Once nobody changes anything any more, every file that is not excluded is the
\* same here and on the server, also one edited unnoticed, with its time kept,
\* or while it was excluded, but for files in a folder that a scan passes by and
\* for those deleted by another device while they were excluded, whose
\* tombstone is gone.
EditsArrive ==
    <>[](\A p \in Files \ (Excluded[rules] \cup Hidden[rules] \cup forgotten) :
            disk[p].hash = row[p].hash)
=============================================================================
