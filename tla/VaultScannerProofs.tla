------------------------- MODULE VaultScannerProofs -------------------------
(***************************************************************************)
(* Theorems about VaultScanner, for all values of its constants: any       *)
(* finite set of paths, any rules, and any number of edits, changes of the *)
(* rules, changes of other devices and failed runs.                        *)
(***************************************************************************)
EXTENDS VaultScanner, FiniteSetTheorems, TLAPS

-----------------------------------------------------------------------------
(* The order of the paths, and what the rules make of them.                *)

\* There is an order of the paths, so Nth is one: each has a number of its own.
LEMMA Ordered ==
    /\ Cardinality(Files) \in Nat
    /\ Nth \in [Files -> 1 .. Cardinality(Files)]
    /\ \A p, q \in Files : Nth[p] = Nth[q] => p = q
<1> DEFINE n == Cardinality(Files)
<1>1. n \in Nat /\ ExistsBijection(1 .. n, Files)
  BY ScannerAssumption, FS_CardinalityType
<1>2. PICK g \in Bijection(1 .. n, Files) : TRUE
  BY <1>1 DEF ExistsBijection
<1>3. /\ g \in [1 .. n -> Files]
      /\ \A a, b \in 1 .. n : g[a] = g[b] => a = b
      /\ \A p \in Files : \E a \in 1 .. n : g[a] = p
  BY <1>2 DEF Bijection, Injection, Surjection, IsInjective
<1> DEFINE f == [p \in Files |-> CHOOSE a \in 1 .. n : g[a] = p]
<1>4. \A p \in Files : f[p] \in 1 .. n /\ g[f[p]] = p
  BY <1>3
<1>5. f \in [Files -> 1 .. n] /\ \A p, q \in Files : f[p] = f[q] => p = q
  BY <1>4
<1> HIDE DEF f
<1>6. /\ Nth \in [Files -> 1 .. n]
      /\ \A p, q \in Files : Nth[p] = Nth[q] => p = q
  BY <1>5 DEF Nth
<1> QED BY <1>1, <1>6

\* A path is excluded, or listed by a full scan, or hidden.
LEMMA ThreeKinds ==
    ASSUME NEW s \in Settings
    PROVE  /\ {Excluded[s], Listed[s], FolderExcluded[s], Hidden[s]} \subseteq SUBSET Files
           /\ Files \subseteq Excluded[s] \cup Listed[s] \cup Hidden[s]
BY DEF Excluded, Listed, FolderExcluded, Hidden

\* The records that stand for nothing have the types of the others.
LEMMA NothingTyped ==
    /\ NoVersion \in Version /\ NoFile \in File
    /\ Absent \in Hash /\ Contents \subseteq Hash
    /\ IdleRun \in Run
<1>1. /\ NoVersion \in Version /\ NoFile \in File
      /\ Absent \in Hash /\ Contents \subseteq Hash
  BY DEF NoVersion, Version, NoFile, File, Hash
<1>2. (CHOOSE s \in Settings : TRUE) \in Settings
  BY ScannerAssumption
<1>3. IdleRun \in Run
  BY <1>1, <1>2 DEF IdleRun, Run
<1> QED BY <1>1, <1>3

-----------------------------------------------------------------------------
(* Types.                                                                  *)

\* The state after a sync is one.
LEMMA InitTypes ==
    Init => TypeOK
<1> SUFFICES ASSUME Init PROVE TypeOK
  OBVIOUS
<1>1. PICK existing \in Vaults, filter \in Settings :
        LET c == CHOOSE c \in Contents : TRUE
            synced == existing \cap (Listed[filter] \ Excluded[filter])
        IN  /\ disk = [p \in Files |-> IF p \in existing
                                       THEN [hash |-> c, stat |-> Nth[p]] ELSE NoFile]
            /\ row = [p \in Files |-> IF p \in synced THEN [rev |-> Nth[p], hash |-> c]
                                      ELSE NoVersion]
            /\ mem = [files |-> row, cursor |-> Cardinality(Files),
                      cache |-> [p \in Files |-> IF p \in synced THEN disk[p] ELSE NoFile],
                      pending |-> {}, moves |-> {}, needsFull |-> FALSE,
                      filter |-> filter]
  BY DEF Init
<1> DEFINE c == CHOOSE c \in Contents : TRUE
<1>2. c \in Hash
  BY ScannerAssumption DEF Hash
<1>3. \A p \in Files : Nth[p] \in Nat
  BY Ordered
<1> HIDE DEF c
<1>4. disk \in [Files -> File]
  BY <1>1, <1>2, <1>3, NothingTyped DEF File, c
<1>5. row \in [Files -> Version]
  BY <1>1, <1>2, <1>3, NothingTyped DEF Version, c
<1>6. mem \in Data
  BY <1>1, <1>4, <1>5, Ordered, NothingTyped DEF Data
<1>7. {clock, rev, acked} \subseteq Nat
  BY Ordered DEF Init
<1> QED BY <1>4, <1>5, <1>6, <1>7, NothingTyped DEF Init, TypeOK

\* Installing files of the server keeps the types of disk and data.
LEMMA InstallTypes ==
    ASSUME TypeOK, NEW ps \in SUBSET Files, Install(ps)
    PROVE  /\ disk' \in [Files -> File]
           /\ clock' \in Nat
           /\ gone' \subseteq Files
           /\ Installed(ps) \in Data
<1>1. clock' \in Nat /\ \A p \in Files : clock + Nth[p] \in Nat
  BY Ordered DEF Install, TypeOK
<1>2. \A p \in Files : disk[p] \in File /\ row[p].hash \in Hash /\ NoFile \in File
  BY NothingTyped DEF TypeOK, Version
<1>3. \A p \in Files : Downloaded(p) \in File
  BY <1>1, <1>2 DEF File, Downloaded
<1>4. disk' \in [Files -> File]
  BY <1>2, <1>3 DEF Install
<1>5. gone' \subseteq Files
  BY DEF Install, TypeOK
<1>6. /\ [p \in Files |-> IF p \in ps THEN row[p] ELSE mem.files[p]] \in [Files -> Version]
      /\ [p \in Files |-> IF p \in ps /\ row[p].hash = Absent THEN NoFile
                          ELSE IF p \in Differing(ps) THEN Downloaded(p)
                          ELSE mem.cache[p]] \in [Files -> File]
  BY <1>2, <1>3 DEF TypeOK, Data
<1>7. Installed(ps) \in Data
  BY <1>6 DEF Installed, TypeOK, Data
<1> QED BY <1>1, <1>4, <1>5, <1>7

\* The user and the rest of the world.
LEMMA EnvironmentTypes ==
    ASSUME TypeOK, Environment
    PROVE  TypeOK'
<1>1. ASSUME NEW p \in Files, NEW h \in Hash, NEW event \in {"file", "folder", "none"},
             Edit(p, h, event)
      PROVE  TypeOK'
  <2>1. clock' \in Nat
    BY <1>1 DEF Edit, TypeOK
  <2>2. PICK stat \in Nat :
          /\ disk' = [disk EXCEPT ![p] = [hash |-> h, stat |-> stat]]
          /\ veiled' \in {veiled, veiled \cup {p}}
    <3>1. disk[p].stat \in Nat
      BY DEF TypeOK, File
    <3> QED BY <1>1, <2>1, <3>1 DEF Edit
  <2>3. disk' \in [Files -> File] /\ veiled' \subseteq Files
    BY <2>2 DEF TypeOK, File
  <2>4. mem' \in Data /\ run' \in Run
    <3>1. mem.pending \cup ({p} \ Excluded[rules]) \subseteq Files
      BY DEF TypeOK, Data
    <3>2. Unnoted({p}) \in Run
      BY DEF TypeOK, Run, Unnoted
    <3>3. Noticed(p, event)
      BY <1>1 DEF Edit
    <3>4. CASE event = "file"
      BY <3>1, <3>2, <3>3, <3>4 DEF Noticed, Queued, TypeOK, Data
    <3>5. CASE event = "folder"
      BY <3>3, <3>5 DEF Noticed, TypeOK, Data
    <3>6. CASE event = "none"
      BY <3>3, <3>6 DEF Noticed, TypeOK
    <3> QED BY <3>4, <3>5, <3>6
  <2>5. gone' \subseteq Files
    BY <1>1 DEF Edit, TypeOK
  <2> QED BY <1>1, <2>1, <2>3, <2>4, <2>5 DEF Edit, server, TypeOK
<1>2. ASSUME NEW p \in Files, NEW q \in Files, Rename(p, q)
      PROVE  TypeOK'
  <2>1. disk' \in [Files -> File]
    BY <1>2, NothingTyped DEF Rename, TypeOK
  <2>2. Queued({p, q}) \subseteq Files
    BY DEF Queued, TypeOK, Data
  <2>3. [from |-> p, to |-> q] \in Move
    BY DEF Move
  <2>4. mem' \in Data
    BY <1>2, <2>2, <2>3 DEF Rename, TypeOK, Data
  <2>5. run' \in Run
    BY <1>2 DEF Rename, Unnoted, TypeOK, Run
  <2> QED BY <1>2, <2>1, <2>4, <2>5 DEF Rename, server, TypeOK
<1>3. ASSUME NEW s \in Settings, ChangeRules(s)
      PROVE  TypeOK'
  BY <1>3 DEF ChangeRules, server, history, TypeOK
<1>4. ASSUME NEW p \in Files, NEW h \in Hash, OtherChange(p, h)
      PROVE  TypeOK'
  BY <1>4 DEF OtherChange, Latest, history, TypeOK, Version
<1>5. ASSUME NEW p \in Files, Collect(p)
      PROVE  TypeOK'
  BY <1>5, NothingTyped DEF Collect, TypeOK
<1>6. CASE RunFails
  BY <1>6, NothingTyped DEF RunFails, EndRun, history, server, NoRequest, NoFiles, TypeOK
<1> QED BY <1>1, <1>2, <1>3, <1>4, <1>5, <1>6 DEF Environment

\* A request about a path that was found, or is to be deleted.
LEMMA RequestTypes ==
    ASSUME TypeOK, NEW p \in Files, NEW h \in Hash, NEW cache \in File,
           Request(p, h, cache)
    PROVE  /\ disk' \in [Files -> File]
           /\ row' \in [Files -> Version]
           /\ {clock', rev', acked'} \subseteq Nat
           /\ mem' \in Data
           /\ gone' \subseteq Files
<1>1. CASE AlreadySo(p, h) /\ mem' = [mem EXCEPT !.files[p] = row[p], !.cache[p] = cache]
           /\ NoRequest /\ NoFiles /\ UNCHANGED gone
  BY <1>1 DEF NoRequest, NoFiles, server, TypeOK, Data
<1>2. CASE Latest(p, h) /\ mem' = [mem EXCEPT !.files[p] = row'[p], !.cache[p] = cache]
           /\ NoFiles /\ UNCHANGED gone
  <2>1. row' \in [Files -> Version] /\ rev' \in Nat /\ acked' = acked
    BY <1>2 DEF Latest, TypeOK, Version
  <2> QED BY <1>2, <2>1 DEF NoFiles, TypeOK, Data
<1>3. CASE Install({p}) /\ mem' = Installed({p}) /\ NoRequest
  <2>1. {p} \in SUBSET Files
    OBVIOUS
  <2> QED BY <1>3, <2>1, InstallTypes DEF NoRequest, server, TypeOK
<1> QED BY <1>1, <1>2, <1>3 DEF Request

\* Renames.
LEMMA RenameTypes ==
    ASSUME TypeOK, NEW m \in Move,
           RenameDropped(m) \/ RenameCommitted(m) \/ RenameRecorded(m)
    PROVE  TypeOK'
<1> USE DEF Quiet, NoRequest, NoFiles, server, history
<1>1. m.from \in Files /\ m.to \in Files
  BY DEF Move
<1>2. CASE RenameDropped(m)
  BY <1>2 DEF RenameDropped, TypeOK, Data, Run
<1>3. CASE RenameCommitted(m)
  <2>1. rev + 1 \in Nat /\ rev + 2 \in Nat /\ row[m.from].hash \in Hash
    BY <1>1 DEF TypeOK, Version
  <2>2. row' \in [Files -> Version]
    BY <1>1, <1>3, <2>1, NothingTyped DEF RenameCommitted, TypeOK, Version
  <2>3. mem' \in Data
    BY <1>1, <1>3, <2>2 DEF RenameCommitted, TypeOK, Data
  <2>4. run' \in Run
    BY <1>3 DEF RenameCommitted, TypeOK, Run
  <2> QED BY <1>3, <2>1, <2>2, <2>3, <2>4 DEF RenameCommitted, TypeOK
<1>4. CASE RenameRecorded(m)
  <2>1. mem.files[m.to].hash \in Hash /\ disk[m.to].stat \in Nat /\ NoFile \in File
    BY <1>1, NothingTyped DEF TypeOK, Data, Version, File
  <2>2. [hash |-> mem.files[m.to].hash, stat |-> disk[m.to].stat] \in File
    BY <2>1 DEF File
  <2>3. mem' \in Data
    BY <1>1, <1>4, <2>1, <2>2 DEF RenameRecorded, TypeOK, Data
  <2>4. run' \in Run
    BY <1>4 DEF RenameRecorded, TypeOK, Run
  <2> QED BY <1>4, <2>3, <2>4 DEF RenameRecorded, TypeOK
<1> QED BY <1>2, <1>3, <1>4

\* The scan.
LEMMA ScanTypes ==
    ASSUME TypeOK, NEW p \in Files,
           ScanStat(p) \/ ScanRead(p)
    PROVE  TypeOK'
<1> USE DEF Quiet, NoRequest, NoFiles, server, history
<1>1. disk[p] \in File /\ mem.cache[p] \in File
  BY DEF TypeOK, Data
<1>2. CASE ScanStat(p)
  <2>1. Reused(p) \in File /\ disk[p].stat \in Nat
    BY <1>1 DEF Reused, File
  <2>2. [run.found EXCEPT ![p] = Reused(p)] \in [Files -> File]
    BY <2>1 DEF TypeOK, Run
  <2>3. /\ run' \in {[run EXCEPT !.todo = @ \ {p}],
                     [run EXCEPT !.todo = @ \ {p}, !.found[p] = Reused(p)],
                     [run EXCEPT !.todo = @ \ {p}, !.at = {p}, !.stat = disk[p].stat]}
        /\ pc' \in {"scan", "read"}
    BY <1>2 DEF ScanStat
  <2>4. [run EXCEPT !.todo = @ \ {p}] \in Run
    BY DEF TypeOK, Run
  <2>5. [run EXCEPT !.todo = @ \ {p}, !.found[p] = Reused(p)] \in Run
    BY <2>2 DEF TypeOK, Run
  <2>6. [run EXCEPT !.todo = @ \ {p}, !.at = {p}, !.stat = disk[p].stat] \in Run
    BY <2>1 DEF TypeOK, Run
  <2> QED BY <1>2, <2>3, <2>4, <2>5, <2>6 DEF ScanStat, TypeOK
<1>3. CASE ScanRead(p)
  <2>1. Scanned(p) \in File
    BY <1>1 DEF Scanned, File, TypeOK, Run
  <2>2. [run.found EXCEPT ![p] = Scanned(p)] \in [Files -> File]
    BY <2>1 DEF TypeOK, Run
  <2>3. [run EXCEPT !.at = {}, !.stat = 0, !.found[p] = Scanned(p)] \in Run
    BY <2>2 DEF TypeOK, Run
  <2>4. run' \in Run /\ pc' \in {"scan", "idle"}
    BY <1>3, <2>3, NothingTyped DEF ScanRead, EndRun
  <2> QED BY <1>3, <2>4 DEF ScanRead, TypeOK
<1> QED BY <1>2, <1>3

\* The steps of a run about one path that end in a request.
LEMMA PathTypes ==
    ASSUME TypeOK, NEW p \in Files, Push(p) \/ Delete(p)
    PROVE  TypeOK'
<1> USE DEF Quiet, NoRequest, NoFiles, server
<1>1. /\ disk[p] \in File /\ mem.cache[p] \in File /\ run.found[p] \in File
      /\ disk[p].hash \in Hash
  BY DEF TypeOK, Data, Run, File
<1>2. run' = [run EXCEPT !.todo = @ \ {p}] => run' \in Run
  BY DEF TypeOK, Run
<1>3. CASE Push(p)
  <2>1. CASE run' = [run EXCEPT !.todo = @ \ {p}] /\ NoRequest /\ NoFiles
             /\ UNCHANGED <<mem, gone>>
    BY <1>2, <1>3, <2>1 DEF Push, TypeOK
  <2>2. CASE /\ mem' = [mem EXCEPT !.pending = @ \cup {p}]
             /\ run' = [run EXCEPT !.todo = @ \ {p}, !.noted = @ \ {p}]
             /\ NoRequest /\ NoFiles /\ UNCHANGED gone
    BY <1>3, <2>2 DEF Push, TypeOK, Data, Run
  <2>3. CASE Request(p, disk[p].hash, run.found[p]) /\ run' = [run EXCEPT !.todo = @ \ {p}]
    BY <1>1, <1>2, <1>3, <2>3, RequestTypes DEF Push, TypeOK
  <2> QED BY <1>3, <2>1, <2>2, <2>3 DEF Push
<1>4. CASE Delete(p)
  <2>1. Request(p, Absent, mem.cache[p]) /\ run' = [run EXCEPT !.todo = @ \ {p}]
    BY <1>4 DEF Delete
  <2>2. /\ disk' \in [Files -> File] /\ row' \in [Files -> Version]
        /\ {clock', rev', acked'} \subseteq Nat
        /\ mem' \in Data /\ gone' \subseteq Files
    BY <1>1, <2>1, NothingTyped, RequestTypes
  <2> QED BY <1>2, <1>4, <2>1, <2>2 DEF Delete, TypeOK
<1> QED BY <1>3, <1>4

\* The other steps of a run.
LEMMA RunTypes ==
    ASSUME TypeOK,
           \/ StartRun \/ UpdateScanCache \/ PushDone \/ Pull
           \/ \E hourly, daily \in BOOLEAN : PlanScan(hourly, daily)
    PROVE  TypeOK'
<1> USE DEF Quiet, NoRequest, NoFiles, server, history
<1>1. ASSUME NEW s, NEW since
      PROVE  Newer(s, since) \in SUBSET Files
  BY DEF Newer
<1>2. CASE StartRun
  <2>1. run' \in Run
    BY <1>2, NothingTyped DEF StartRun, Run, TypeOK, Data
  <2>2. CASE mem.filter # rules
    <3>1. /\ disk' \in [Files -> File] /\ clock' \in Nat /\ gone' \subseteq Files
          /\ Installed(Newer(rules, 0)) \in Data
      BY <1>1, <1>2, <2>2, InstallTypes DEF StartRun
    <3>2. mem' \in Data
      BY <1>2, <2>2, <3>1 DEF StartRun, TypeOK, Data
    <3> QED BY <1>2, <2>1, <3>1, <3>2 DEF StartRun, TypeOK
  <2>3. CASE mem.filter = rules
    BY <1>2, <2>1, <2>3 DEF StartRun, TypeOK
  <2> QED BY <2>2, <2>3
<1>3. CASE UpdateScanCache
  <2>1. [p \in Files |-> IF p \in run.scope THEN run.found[p] ELSE mem.cache[p]]
          \in [Files -> File]
    BY DEF TypeOK, Data, Run
  <2>2. mem' \in Data
    BY <1>3, <2>1 DEF UpdateScanCache, TypeOK, Data
  <2>3. run' \in Run
    BY <1>3 DEF UpdateScanCache, Found, TypeOK, Run
  <2> QED BY <1>3, <2>2, <2>3 DEF UpdateScanCache, TypeOK
<1>4. CASE PushDone
  BY <1>4 DEF PushDone, Deletable, Missing, TypeOK, Run
<1>5. CASE Pull
  <2>1. /\ disk' \in [Files -> File] /\ clock' \in Nat /\ gone' \subseteq Files
        /\ Installed(Newer(run.rules, mem.cursor)) \in Data
    BY <1>1, <1>5, InstallTypes DEF Pull
  <2>2. mem' \in Data
    BY <1>5, <2>1 DEF Pull, TypeOK, Data, Run
  <2> QED BY <1>5, <2>1, <2>2, NothingTyped DEF Pull, EndRun, TypeOK
<1>6. ASSUME NEW hourly \in BOOLEAN, NEW daily \in BOOLEAN, PlanScan(hourly, daily)
      PROVE  TypeOK'
  <2> DEFINE full == \/ run.full \/ mem.needsFull \/ hourly \/ daily
                     \/ \A p \in Files : mem.cache[p] = NoFile
             scope == IF full THEN Files ELSE mem.pending
             todo == IF full
                     THEN {p \in Listed[run.rules] : Exists(p)} \ Excluded[run.rules]
                     ELSE mem.pending \ Excluded[run.rules]
  <2>1. full \in BOOLEAN /\ Forced(daily, full) \in BOOLEAN
    BY DEF TypeOK, Run, Data, Forced
  <2>2. run.rules \in Settings /\ mem.pending \subseteq Files
    BY DEF TypeOK, Run, Data
  <2>3. scope \subseteq Files /\ todo \subseteq Files
    BY <2>2, ThreeKinds
  <2>4. run' = [run EXCEPT !.full = full, !.force = Forced(daily, full),
                           !.noted = mem.pending, !.scope = scope, !.todo = todo]
    BY <1>6 DEF PlanScan
  <2> HIDE DEF full, scope, todo
  <2>5. run' \in Run
    BY <2>1, <2>2, <2>3, <2>4 DEF TypeOK, Run
  <2> QED BY <1>6, <2>5 DEF PlanScan, TypeOK
<1> QED BY <1>2, <1>3, <1>4, <1>5, <1>6

\* Every step.
LEMMA TypeStep ==
    TypeOK /\ [Next]_vars => TypeOK'
<1> SUFFICES ASSUME TypeOK, [Next]_vars PROVE TypeOK'
  OBVIOUS
<1>1. CASE Engine
  BY <1>1, RenameTypes, ScanTypes, PathTypes, RunTypes DEF Engine
<1>2. CASE UNCHANGED vars
  BY <1>2 DEF vars, TypeOK
<1> QED BY <1>1, <1>2, EnvironmentTypes DEF Next

\* Disk, log, data and run keep their shapes under any rules.
THEOREM TypeCorrect ==
    Spec => []TypeOK
BY InitTypes, TypeStep, PTL DEF Spec

-----------------------------------------------------------------------------
(* The cache.                                                              *)

\* Times tell when a file was written: none is of the future, a file that is
\* there has one, and no two files have the same.
Stamped ==
    /\ \A p \in Files : disk[p].stat <= clock /\ (Exists(p) <=> disk[p].stat > 0)
    /\ run.stat <= clock
    /\ \A p, q \in Files : Exists(p) /\ disk[p].stat = disk[q].stat => p = q

\* Whoever has the stat of the entry has its hash, now and for ever.
Sound(entry) ==
    /\ entry.stat <= clock
    /\ \A p \in Files \ veiled :
          Exists(p) /\ entry.stat = disk[p].stat => entry.hash = disk[p].hash

\* What is in the cache and what the scan has found is sound.
SoundEntries == \A p \in Files : Sound(mem.cache[p]) /\ Sound(run.found[p])

\* The file that was examined is still where it was, or its stat is gone.
Reading ==
    pc = "read" =>
        \A p \in Files \ veiled, q \in run.at :
            Exists(p) /\ disk[p].stat = run.stat => p = q

\* A renamed file whose record is awaited has the hash of its source.
Renaming ==
    pc = "renamed" =>
        \A m \in run.move : Exists(m.to) /\ m.to \notin veiled =>
            disk[m.to].hash = mem.files[m.to].hash

\* The inductive invariant of the cache.
Honesty == Stamped /\ SoundEntries /\ Reading /\ Renaming

\* It says that the cache is honest.
LEMMA HonestyImplies ==
    ASSUME Honesty
    PROVE  CacheHonest
BY DEF Honesty, SoundEntries, Sound, CacheHonest

\* An entry that no file can have, as it has no time.
LEMMA TimelessSound ==
    ASSUME TypeOK, Stamped, NEW h \in Hash
    PROVE  Sound([hash |-> h, stat |-> 0]) /\ Sound(NoFile)
BY DEF TypeOK, Stamped, Sound, File, NoFile

\* After a sync each file has a time of its own, which the cache has.
LEMMA HonestyInit ==
    Init => Honesty
<1> SUFFICES ASSUME Init PROVE Honesty
  OBVIOUS
<1> DEFINE c == CHOOSE c \in Contents : TRUE
<1>1. c \in Contents /\ c # Absent
  BY ScannerAssumption
<1>2. \A p \in Files : Nth[p] \in Nat /\ Nth[p] > 0 /\ Nth[p] <= clock
  BY Ordered DEF Init
<1>3. \A p \in Files : \/ disk[p] = [hash |-> c, stat |-> Nth[p]]
                       \/ disk[p] = NoFile
  BY DEF Init
<1>4. \A p \in Files : mem.cache[p] \in {disk[p], NoFile}
  BY DEF Init
<1> HIDE DEF c
<1>5. Stamped
  <2>1. run.stat = 0 /\ clock \in Nat
    BY Ordered DEF Init, IdleRun
  <2>2. ASSUME NEW p \in Files
        PROVE  /\ disk[p].stat <= clock /\ (Exists(p) <=> disk[p].stat > 0)
               /\ Exists(p) => disk[p].stat = Nth[p]
    <3>1. CASE disk[p] = [hash |-> c, stat |-> Nth[p]]
      <4>1. disk[p].hash = c /\ disk[p].stat = Nth[p]
        BY <3>1
      <4> QED BY <4>1, <1>1, <1>2 DEF Exists
    <3>2. CASE disk[p] = NoFile
      <4>1. disk[p].hash = Absent /\ disk[p].stat = 0
        BY <3>2 DEF NoFile
      <4> QED BY <4>1, <2>1 DEF Exists
    <3> QED BY <3>1, <3>2, <1>3
  <2>4. ASSUME NEW p \in Files, NEW q \in Files, Exists(p), disk[p].stat = disk[q].stat
        PROVE  p = q
    BY <1>2, <2>2, <2>4, Ordered
  <2> QED BY <2>1, <2>2, <2>4 DEF Stamped
<1>6. \A p \in Files : run.found[p] = NoFile
  BY DEF Init, IdleRun
<1>7. Sound(NoFile)
  BY <1>5, InitTypes, TimelessSound, NothingTyped
<1>8. ASSUME NEW p \in Files
      PROVE  Sound(disk[p])
  BY <1>5 DEF Stamped, Sound, Exists
<1>9. SoundEntries
  BY <1>4, <1>6, <1>7, <1>8 DEF SoundEntries
<1> QED BY <1>5, <1>9 DEF Init, Honesty, Reading, Renaming

\* What may become of a file: it is away, or its stat tells nothing, or it was
\* written now, or it was somewhere as it is.
Followed(p) ==
    \/ ~Exists(p)'
    \/ p \in veiled'
    \/ disk'[p].stat > clock
    \/ \E q \in Files \ veiled : Exists(q) /\ disk'[p] = disk[q]

\* Entries stay sound when files can be followed, and the file itself is.
LEMMA SoundOrEntered ==
    ASSUME TypeOK', clock \in Nat, clock <= clock',
           \A p \in Files : Followed(p),
           \A p \in Files : /\ \/ Sound(mem'.cache[p])
                               \/ Stamped' /\ mem'.cache[p] = disk'[p]
                            /\ Sound(run'.found[p])
    PROVE  SoundEntries'
<1>1. ASSUME NEW e \in File, Sound(e), NEW p \in Files \ veiled', Exists(p)',
             e.stat = disk'[p].stat
      PROVE  e.hash = disk'[p].hash
  <2>1. ~(disk'[p].stat > clock)
    BY <1>1 DEF Sound, File
  <2>2. PICK q \in Files \ veiled : Exists(q) /\ disk'[p] = disk[q]
    BY <1>1, <2>1 DEF Followed
  <2> QED BY <1>1, <2>2 DEF Sound
<1>2. \A p \in Files : mem'.cache[p] \in File /\ run'.found[p] \in File
  BY DEF TypeOK, Data, Run
<1>3. \A e \in File : Sound(e) => e.stat <= clock'
  BY DEF Sound, File, TypeOK
<1>4. ASSUME NEW e \in File, Sound(e)
      PROVE  Sound(e)'
  BY <1>1, <1>3, <1>4 DEF Sound
<1>5. ASSUME NEW p \in Files, Stamped', NEW e, e = disk'[p]
      PROVE  Sound(e)'
  BY <1>5 DEF Stamped, Sound, Exists
<1>6. ASSUME NEW p \in Files
      PROVE  Sound(mem.cache[p])' /\ Sound(run.found[p])'
  BY <1>2, <1>4, <1>5 DEF Sound
<1> QED BY <1>6 DEF SoundEntries

\* Entries that were sound are.
LEMMA SoundStep ==
    ASSUME TypeOK', clock \in Nat, clock <= clock',
           \A p \in Files : Followed(p),
           \A p \in Files : Sound(mem'.cache[p]) /\ Sound(run'.found[p])
    PROVE  SoundEntries'
<1>1. \A p \in Files : /\ \/ Sound(mem'.cache[p])
                          \/ Stamped' /\ mem'.cache[p] = disk'[p]
                       /\ Sound(run'.found[p])
  OBVIOUS
<1> QED BY <1>1, SoundOrEntered

\* The files and their times stay: what is entered must be sound already.
LEMMA FilesStay ==
    ASSUME TypeOK, TypeOK', Honesty, UNCHANGED <<disk, clock, veiled>>,
           \A p \in Files : Sound(mem'.cache[p]) /\ Sound(run'.found[p]),
           run'.stat <= clock
    PROVE  Stamped' /\ SoundEntries'
<1>1. \A p \in Files : Followed(p)
  BY DEF Followed, Exists
<1>2. clock \in Nat
  BY DEF TypeOK
<1>3. SoundEntries'
  BY <1>1, <1>2, SoundStep
<1>4. Stamped'
  BY DEF Honesty, Stamped, Exists
<1> QED BY <1>3, <1>4

\* An edited file has a new time, or its stat tells nothing.
LEMMA HonestyEdit ==
    ASSUME TypeOK, TypeOK', Honesty, NEW p \in Files, NEW h \in Hash,
           NEW event \in {"file", "folder", "none"}, Edit(p, h, event)
    PROVE  Honesty'
<1>1. /\ h # disk[p].hash /\ clock' = clock + 1 /\ pc' = pc
      /\ mem'.cache = mem.cache /\ mem'.files = mem.files
      /\ run'.found = run.found /\ run'.at = run.at /\ run'.move = run.move
      /\ run'.stat = run.stat
  <2>1. h # disk[p].hash /\ clock' = clock + 1 /\ pc' = pc /\ Noticed(p, event)
    BY DEF Edit
  <2>2. CASE event = "file"
    <3>1. /\ mem' = [mem EXCEPT !.pending = Queued({p})]
          /\ run' = [run EXCEPT !.noted = @ \ {p}]
      BY <2>1, <2>2 DEF Noticed, Unnoted
    <3> QED BY <2>1, <3>1 DEF TypeOK, Data, Run
  <2>3. CASE event = "folder"
    <3>1. mem' = [mem EXCEPT !.needsFull = TRUE] /\ run' = run
      BY <2>1, <2>3 DEF Noticed
    <3> QED BY <2>1, <3>1 DEF TypeOK, Data, Run
  <2>4. CASE event = "none"
    BY <2>1, <2>4 DEF Noticed
  <2> QED BY <2>2, <2>3, <2>4
<1>2. PICK stat \in IF h = Absent THEN {0}
                    ELSE IF Exists(p) THEN {clock', disk[p].stat} ELSE {clock'} :
        /\ disk' = [disk EXCEPT ![p] = [hash |-> h, stat |-> stat]]
        /\ veiled' = IF stat = disk[p].stat \/ p \in {m.to : m \in run.move}
                     THEN veiled \cup {p} ELSE veiled
  BY DEF Edit
<1>3. \A q \in Files : /\ disk[q].stat \in Nat /\ disk'[q].stat \in Nat
                       /\ disk[q].stat <= clock
                       /\ Exists(q) <=> disk[q].stat > 0
  BY DEF TypeOK, File, Honesty, Stamped
<1>4. clock \in Nat /\ run.stat \in Nat
  BY DEF TypeOK, Run
<1>5. \A q \in Files \ {p} : disk'[q] = disk[q] /\ (Exists(q)' <=> Exists(q))
  BY <1>2 DEF TypeOK, Exists
<1>6. disk'[p].hash = h /\ disk'[p].stat = stat /\ (Exists(p)' <=> h # Absent)
  BY <1>2 DEF TypeOK, Exists
<1>7. /\ h = Absent => stat = 0
      /\ h # Absent => stat > clock \/ (Exists(p) /\ stat = disk[p].stat /\ p \in veiled')
      /\ veiled \subseteq veiled' /\ stat <= clock'
  BY <1>1, <1>2, <1>3, <1>4
<1>8. \A q \in Files : Followed(q)
  BY <1>5, <1>6, <1>7 DEF Followed
<1>9. SoundEntries'
  BY <1>1, <1>4, <1>8, SoundStep DEF Honesty, SoundEntries
<1>10. Stamped'
  <2>1. \A q \in Files : disk'[q].stat <= clock' /\ (Exists(q)' <=> disk'[q].stat > 0)
    BY <1>1, <1>3, <1>4, <1>5, <1>6, <1>7
  <2>2. ASSUME NEW a \in Files, NEW b \in Files, Exists(a)', disk'[a].stat = disk'[b].stat
        PROVE  a = b
    <3>1. \A q \in Files : disk[q].stat = disk[p].stat /\ Exists(p) => q = p
      BY DEF Honesty, Stamped
    <3>2. \A c, d \in Files : Exists(c) /\ disk[c].stat = disk[d].stat => c = d
      BY DEF Honesty, Stamped
    <3>3. Exists(b)'
      BY <2>1, <2>2
    <3> QED BY <1>3, <1>4, <1>5, <1>6, <1>7, <2>2, <3>1, <3>2, <3>3
  <2> QED BY <1>1, <1>4, <2>1, <2>2 DEF Honesty, Stamped
<1>11. Reading'
  BY <1>1, <1>3, <1>4, <1>5, <1>6, <1>7 DEF Honesty, Stamped, Reading
<1>12. Renaming'
  <2> SUFFICES ASSUME pc = "renamed", NEW m \in run.move, Exists(m.to)', m.to \notin veiled'
               PROVE  disk'[m.to].hash = mem.files[m.to].hash
    BY <1>1 DEF Renaming
  <2>1. m.to \in Files /\ m.to # p
    BY <1>2 DEF TypeOK, Run, Move
  <2> QED BY <1>5, <1>7, <2>1 DEF Honesty, Renaming
<1> QED BY <1>9, <1>10, <1>11, <1>12 DEF Honesty

\* A renamed file takes its time along.
LEMMA HonestyRename ==
    ASSUME TypeOK, TypeOK', Honesty, NEW p \in Files, NEW q \in Files, Rename(p, q)
    PROVE  Honesty'
<1>1. /\ Exists(p) /\ ~Exists(q) /\ clock' = clock /\ pc' = pc
      /\ disk' = [disk EXCEPT ![q] = disk[p], ![p] = NoFile]
      /\ mem'.cache = mem.cache /\ mem'.files = mem.files
      /\ run'.found = run.found /\ run'.at = run.at /\ run'.move = run.move
      /\ run'.stat = run.stat
      /\ veiled' = IF p \in veiled \cup run.at \/ q \in {m.to : m \in run.move}
                   THEN veiled \cup {q} ELSE veiled
  BY DEF Rename, Unnoted, TypeOK, Data, Run
<1>2. p # q /\ clock \in Nat
  BY <1>1 DEF TypeOK
<1>3. /\ disk'[q] = disk[p] /\ disk'[p] = NoFile
      /\ \A r \in Files \ {p, q} : disk'[r] = disk[r]
  BY <1>1, <1>2 DEF TypeOK
<1>4. /\ Exists(q)' /\ ~Exists(p)'
      /\ \A r \in Files \ {p, q} : Exists(r)' <=> Exists(r)
  <2>1. NoFile.hash = Absent
    BY DEF NoFile
  <2>2. disk'[q].hash # Absent /\ disk'[p].hash = Absent
    BY <1>1, <1>3, <2>1 DEF Exists
  <2> QED BY <1>3, <2>2 DEF Exists
<1>5. veiled \subseteq veiled' /\ (q \notin veiled' => p \notin veiled \cup run.at)
  BY <1>1
<1>6. \A r \in Files : Followed(r)
  BY <1>1, <1>3, <1>4, <1>5 DEF Followed
<1>7. SoundEntries'
  BY <1>1, <1>2, <1>6, SoundStep DEF Honesty, SoundEntries
<1>8. Stamped'
  <2>1. \A r \in Files : disk[r].stat <= clock /\ (Exists(r) <=> disk[r].stat > 0)
    BY DEF Honesty, Stamped
  <2>2. NoFile.stat = 0
    BY DEF NoFile
  <2>3. \A r \in Files : disk'[r].stat <= clock' /\ (Exists(r)' <=> disk'[r].stat > 0)
    <3> TAKE r \in Files
    <3>1. CASE r = q
      BY <1>1, <1>3, <1>4, <2>1, <3>1
    <3>2. CASE r = p
      <4>1. disk'[r].stat = 0 /\ ~Exists(r)'
        BY <1>3, <1>4, <2>2, <3>2
      <4> QED BY <1>1, <1>2, <4>1
    <3>3. CASE r \notin {p, q}
      BY <1>1, <1>3, <1>4, <2>1, <3>3
    <3> QED BY <3>1, <3>2, <3>3
  <2>4. ASSUME NEW a \in Files, NEW b \in Files, Exists(a)', disk'[a].stat = disk'[b].stat
        PROVE  a = b
    <3>1. \A c, d \in Files : Exists(c) /\ disk[c].stat = disk[d].stat => c = d
      BY DEF Honesty, Stamped
    <3>2. Exists(b)'
      BY <2>3, <2>4
    <3>3. a # p /\ b # p
      BY <1>4, <2>4, <3>2
    <3> QED BY <1>1, <1>3, <1>4, <2>4, <3>1, <3>2, <3>3
  <2> QED BY <1>1, <2>3, <2>4 DEF Honesty, Stamped
<1>9. Reading'
  <2> SUFFICES ASSUME pc = "read", NEW r \in Files \ veiled', NEW t \in run.at,
                      Exists(r)', disk'[r].stat = run.stat
               PROVE  r = t
    BY <1>1 DEF Reading
  <2>1. CASE r = q
    BY <1>1, <1>3, <1>5, <2>1 DEF Honesty, Reading
  <2>2. CASE r # q
    BY <1>3, <1>4, <1>5, <2>2 DEF Honesty, Reading
  <2> QED BY <2>1, <2>2
<1>10. Renaming'
  <2> SUFFICES ASSUME pc = "renamed", NEW m \in run.move, Exists(m.to)', m.to \notin veiled'
               PROVE  disk'[m.to].hash = mem.files[m.to].hash
    BY <1>1 DEF Renaming
  <2>1. m.to \in Files \ {p, q}
    BY <1>1, <1>4 DEF TypeOK, Run, Move
  <2> QED BY <1>3, <1>4, <1>5, <2>1 DEF Honesty, Renaming
<1> QED BY <1>7, <1>8, <1>9, <1>10 DEF Honesty

\* The rest of the environment leaves the files and the entries alone.
LEMMA HonestyEnvironment ==
    ASSUME TypeOK, TypeOK', Honesty, Environment
    PROVE  Honesty'
<1>1. CASE \/ \E s \in Settings : ChangeRules(s)
           \/ \E p \in Files, h \in Hash : OtherChange(p, h)
           \/ \E p \in Files : Collect(p)
  <2>1. UNCHANGED <<disk, clock, veiled, mem, pc, run>>
    BY <1>1 DEF ChangeRules, OtherChange, Collect, history
  <2> QED BY <2>1 DEF Honesty, Stamped, SoundEntries, Sound, Reading, Renaming, Exists
<1>2. CASE RunFails
  <2>1. /\ UNCHANGED <<disk, clock, veiled, mem>> /\ pc' = "idle" /\ run' = IdleRun
    BY <1>2 DEF RunFails, EndRun, history, NoFiles
  <2>2. /\ \A p \in Files : run'.found[p] = NoFile
        /\ run'.stat = 0
    BY <2>1 DEF IdleRun
  <2>3. Sound(NoFile)
    BY NothingTyped, TimelessSound DEF Honesty
  <2>4. 0 <= clock
    BY DEF TypeOK
  <2>5. \A p \in Files : Sound(mem'.cache[p]) /\ Sound(run'.found[p])
    BY <2>1, <2>2, <2>3 DEF Honesty, SoundEntries
  <2>6. Stamped' /\ SoundEntries'
    BY <2>1, <2>2, <2>4, <2>5, FilesStay
  <2> QED BY <2>1, <2>6 DEF Honesty, Reading, Renaming
<1> QED BY <1>1, <1>2, HonestyEdit, HonestyRename DEF Environment

\* An installed file has a time of its own, after all there were.
LEMMA InstallStamped ==
    ASSUME TypeOK, TypeOK', Honesty, NEW ps \in SUBSET Files, Install(ps),
           run'.stat = run.stat \/ run'.stat = 0
    PROVE  /\ Stamped' /\ clock <= clock'
           /\ \A p \in Files : Exists(p)' =>
                 \/ disk'[p].stat > clock
                 \/ Exists(p) /\ disk'[p] = disk[p]
<1> DEFINE new == Differing(ps)
<1>1. /\ clock' = IF new = {} THEN clock ELSE clock + Cardinality(Files)
      /\ disk' = [p \in Files |->
            IF p \notin new THEN disk[p]
            ELSE IF row[p].hash = Absent THEN NoFile
            ELSE [hash |-> row[p].hash, stat |-> clock + Nth[p]]]
  BY DEF Install, Downloaded
<1> HIDE DEF new
<1>2. /\ clock \in Nat /\ Cardinality(Files) \in Nat /\ run.stat \in Nat
      /\ \A p \in Files : /\ Nth[p] \in Nat /\ Nth[p] > 0
                          /\ Nth[p] <= Cardinality(Files)
  BY Ordered DEF TypeOK, Run
<1>3. \A p \in Files : /\ disk[p].stat \in Nat /\ disk[p].stat <= clock
                       /\ Exists(p) <=> disk[p].stat > 0
  BY DEF TypeOK, File, Honesty, Stamped
<1>4. clock <= clock' /\ (new # {} => clock' = clock + Cardinality(Files))
  BY <1>1, <1>2
<1>5. ASSUME NEW p \in Files
      PROVE  \/ p \notin new /\ disk'[p] = disk[p] /\ (Exists(p)' <=> Exists(p))
             \/ p \in new /\ disk'[p].stat = 0 /\ ~Exists(p)'
             \/ p \in new /\ disk'[p].stat = clock + Nth[p] /\ Exists(p)'
  <2>1. CASE p \notin new
    BY <1>1, <2>1 DEF Exists
  <2>2. CASE p \in new /\ row[p].hash = Absent
    <3>1. disk'[p] = NoFile
      BY <1>1, <2>2
    <3> QED BY <2>2, <3>1 DEF NoFile, Exists
  <2>3. CASE p \in new /\ row[p].hash # Absent
    <3>1. disk'[p] = [hash |-> row[p].hash, stat |-> clock + Nth[p]]
      BY <1>1, <2>3
    <3> QED BY <2>3, <3>1 DEF Exists
  <2> QED BY <2>1, <2>2, <2>3
<1>6. ASSUME NEW p \in Files
      PROVE  disk'[p].stat <= clock' /\ (Exists(p)' <=> disk'[p].stat > 0)
  <2>1. CASE p \notin new
    <3>1. disk'[p] = disk[p] /\ (Exists(p)' <=> Exists(p))
      BY <1>5, <2>1
    <3>2. disk'[p].stat = disk[p].stat /\ disk[p].stat \in Nat /\ disk[p].stat <= clock
      BY <1>3, <3>1
    <3>3. disk'[p].stat <= clock'
      BY <1>2, <1>4, <3>2 DEF TypeOK
    <3>4. Exists(p) <=> disk[p].stat > 0
      BY <1>3
    <3> QED BY <3>1, <3>2, <3>3, <3>4
  <2>2. CASE p \in new /\ disk'[p].stat = 0 /\ ~Exists(p)'
    BY <1>2, <1>4, <2>2
  <2>3. CASE p \in new /\ disk'[p].stat = clock + Nth[p] /\ Exists(p)'
    <3>1. clock' = clock + Cardinality(Files)
      BY <1>4, <2>3
    <3> QED BY <1>2, <2>3, <3>1
  <2> QED BY <1>5, <2>1, <2>2, <2>3
<1>7. ASSUME NEW p \in Files, Exists(p)'
      PROVE  \/ disk'[p].stat > clock /\ disk'[p].stat = clock + Nth[p]
             \/ Exists(p) /\ disk'[p] = disk[p]
  <2>1. CASE p \notin new
    BY <1>5, <1>7, <2>1
  <2>2. CASE p \in new
    <3>1. disk'[p].stat = clock + Nth[p]
      BY <1>5, <1>7, <2>2
    <3> QED BY <1>2, <3>1
  <2> QED BY <2>1, <2>2
<1>8. ASSUME NEW p \in Files, NEW q \in Files, Exists(p)', disk'[p].stat = disk'[q].stat
      PROVE  p = q
  <2>1. Exists(q)'
    BY <1>6, <1>8
  <2>2. \A a, b \in Files : Exists(a) /\ disk[a].stat = disk[b].stat => a = b
    BY DEF Honesty, Stamped
  <2>3. Nth[p] = Nth[q] => p = q
    BY Ordered
  <2>4. CASE disk'[p].stat > clock
    <3>1. disk'[q].stat > clock
      BY <1>8, <2>4
    <3>2. ~(disk[p].stat > clock) /\ ~(disk[q].stat > clock)
      BY <1>2, <1>3
    <3>3. disk'[p].stat = clock + Nth[p]
      BY <1>7, <1>8, <2>4, <3>2
    <3>4. disk'[q].stat = clock + Nth[q]
      BY <1>7, <2>1, <3>1, <3>2
    <3>5. Nth[p] = Nth[q]
      <4>1. clock + Nth[p] = clock + Nth[q]
        BY <1>8, <3>3, <3>4
      <4>2. clock \in Nat /\ Nth[p] \in Nat /\ Nth[q] \in Nat
        BY <1>2
      <4> QED BY <4>1, <4>2
    <3> QED BY <2>3, <3>5
  <2>5. CASE ~(disk'[p].stat > clock)
    <3>1. ~(disk'[q].stat > clock)
      BY <1>8, <2>5
    <3>2. /\ Exists(p) /\ disk'[p] = disk[p]
          /\ Exists(q) /\ disk'[q] = disk[q]
      BY <1>7, <1>8, <2>1, <2>5, <3>1
    <3> QED BY <1>8, <2>2, <3>2
  <2> QED BY <2>4, <2>5
<1>9. run'.stat <= clock'
  <2>1. run.stat <= clock /\ clock' \in Nat /\ 0 <= clock
    BY <1>2 DEF Honesty, Stamped, TypeOK
  <2> QED BY <1>2, <1>4, <2>1
<1> QED BY <1>4, <1>6, <1>7, <1>8, <1>9 DEF Stamped

\* What the run installs is in the cache as it is.
LEMMA InstallHonest ==
    ASSUME TypeOK, TypeOK', Honesty, NEW ps \in SUBSET Files, Install(ps),
           mem'.cache = Installed(ps).cache, veiled' = veiled,
           run'.stat = run.stat \/ run'.stat = 0,
           \A p \in Files : run'.found[p] \in {run.found[p], NoFile},
           pc' \notin {"read", "renamed"}
    PROVE  Honesty'
<1>1. /\ Stamped' /\ clock <= clock'
      /\ \A p \in Files : Exists(p)' =>
            \/ disk'[p].stat > clock
            \/ Exists(p) /\ disk'[p] = disk[p]
  BY InstallStamped
<1>2. \A p \in Files : Followed(p)
  BY <1>1 DEF Followed
<1>3. Installed(ps).cache =
        [p \in Files |-> IF p \in ps /\ row[p].hash = Absent THEN NoFile
                        ELSE IF p \in Differing(ps) THEN Downloaded(p) ELSE mem.cache[p]]
  BY DEF Installed, TypeOK, Data
<1>4. Sound(NoFile)
  BY NothingTyped, TimelessSound DEF Honesty, Hash
<1>5. \A p \in Files : Sound(mem.cache[p]) /\ Sound(run.found[p])
  BY DEF Honesty, SoundEntries
<1>6. ASSUME NEW p \in Files
      PROVE  Sound(mem'.cache[p]) \/ mem'.cache[p] = disk'[p]
  <2>1. CASE p \in ps /\ row[p].hash = Absent
    BY <1>3, <1>4, <2>1
  <2>2. CASE row[p].hash # Absent /\ p \in Differing(ps)
    <3>1. mem'.cache[p] = Downloaded(p) /\ disk'[p] = Downloaded(p)
      BY <1>3, <2>2 DEF Install
    <3> QED BY <3>1
  <2>3. CASE ~(p \in ps /\ row[p].hash = Absent) /\ p \notin Differing(ps)
    BY <1>3, <1>5, <2>3
  <2> QED BY <2>1, <2>2, <2>3 DEF Differing
<1>7. \A p \in Files : Sound(run'.found[p])
  BY <1>4, <1>5
<1>8. clock \in Nat
  BY DEF TypeOK
<1>9. SoundEntries'
  <2>1. \A p \in Files : /\ \/ Sound(mem'.cache[p])
                            \/ Stamped' /\ mem'.cache[p] = disk'[p]
                         /\ Sound(run'.found[p])
    BY <1>1, <1>6, <1>7
  <2> QED BY <1>1, <1>2, <1>8, <2>1, SoundOrEntered
<1> QED BY <1>1, <1>9 DEF Honesty, Reading, Renaming

\* A request leaves the files alone, or installs the newer version.
LEMMA RequestHonest ==
    ASSUME TypeOK, TypeOK', Honesty, NEW p \in Files, NEW h \in Hash, NEW cache,
           Sound(cache), Request(p, h, cache), veiled' = veiled,
           run'.found = run.found, run'.stat = run.stat,
           pc' \notin {"read", "renamed"}
    PROVE  Honesty'
<1>1. CASE Install({p}) /\ mem' = Installed({p})
  BY <1>1, InstallHonest
<1>2. CASE NoFiles /\ mem'.cache = [mem.cache EXCEPT ![p] = cache]
  <2>1. \A q \in Files : Sound(mem'.cache[q]) /\ Sound(run'.found[q])
    BY <1>2 DEF Honesty, SoundEntries, TypeOK, Data
  <2>2. Stamped' /\ SoundEntries'
    BY <1>2, <2>1, FilesStay DEF NoFiles, Honesty, Stamped
  <2> QED BY <2>2 DEF Honesty, Reading, Renaming
<1> QED BY <1>1, <1>2 DEF Request, TypeOK, Data

\* Renames: the record of one has the hash of the renamed file.
LEMMA HonestyRenames ==
    ASSUME TypeOK, TypeOK', Honesty, NEW m \in Move,
           RenameDropped(m) \/ RenameCommitted(m) \/ RenameRecorded(m)
    PROVE  Honesty'
<1>1. /\ UNCHANGED <<disk, clock, veiled>>
      /\ run'.found = run.found /\ run'.stat = run.stat
  BY DEF RenameDropped, RenameCommitted, RenameRecorded, NoFiles, history, TypeOK, Run
<1>2. m.from \in Files /\ m.to \in Files
  BY DEF Move
<1>3. CASE RenameDropped(m)
  <2>1. pc' = "renames" /\ mem'.cache = mem.cache
    BY <1>3 DEF RenameDropped, TypeOK, Data
  <2>2. Stamped' /\ SoundEntries'
    BY <1>1, <2>1, FilesStay DEF Honesty, Stamped, SoundEntries
  <2> QED BY <2>1, <2>2 DEF Honesty, Reading, Renaming
<1>4. CASE RenameCommitted(m)
  <2>1. pc' = "renamed" /\ mem'.cache = mem.cache /\ run'.move = {m}
    BY <1>4 DEF RenameCommitted, TypeOK, Data, Run
  <2>2. m.from # m.to
    BY <1>4 DEF RenameCommitted, Renamable, Exists
  <2>3. row'[m.to].hash = disk[m.to].hash
    BY <1>2, <1>4, <2>2 DEF RenameCommitted, Renamable, Renames, TypeOK
  <2>4. mem'.files[m.to] = row'[m.to]
    BY <1>2, <1>4, <2>2 DEF RenameCommitted, TypeOK, Data
  <2>5. Stamped' /\ SoundEntries'
    BY <1>1, <2>1, FilesStay DEF Honesty, Stamped, SoundEntries
  <2> QED BY <1>1, <2>1, <2>3, <2>4, <2>5 DEF Honesty, Reading, Renaming
<1>5. CASE RenameRecorded(m)
  <2> DEFINE entry == [hash |-> mem.files[m.to].hash, stat |-> disk[m.to].stat]
  <2>1. pc = "renamed" /\ pc' = "renames" /\ m \in run.move
    BY <1>5 DEF RenameRecorded
  <2>2. \A p \in Files : mem'.cache[p] \in {mem.cache[p], NoFile}
                                           \cup IF Exists(m.to) THEN {entry} ELSE {}
    BY <1>2, <1>5 DEF RenameRecorded, TypeOK, Data
  <2>3. ASSUME Exists(m.to)
        PROVE  Sound(entry)
    <3>1. entry.stat = disk[m.to].stat /\ entry.hash = mem.files[m.to].hash
      OBVIOUS
    <3>2. disk[m.to].stat <= clock
      BY <1>2 DEF Honesty, Stamped
    <3>3. \A p \in Files : Exists(p) /\ disk[p].stat = disk[m.to].stat => p = m.to
      BY <1>2 DEF Honesty, Stamped
    <3>4. m.to \notin veiled => disk[m.to].hash = mem.files[m.to].hash
      BY <2>1, <2>3 DEF Honesty, Renaming
    <3> HIDE DEF entry
    <3> QED BY <3>1, <3>2, <3>3, <3>4 DEF Sound
  <2>4. Sound(NoFile)
    BY NothingTyped, TimelessSound DEF Honesty, Hash
  <2> HIDE DEF entry
  <2>5. \A p \in Files : Sound(mem'.cache[p]) /\ Sound(run'.found[p])
    BY <1>1, <2>2, <2>3, <2>4 DEF Honesty, SoundEntries
  <2>6. Stamped' /\ SoundEntries'
    BY <1>1, <2>5, FilesStay DEF Honesty, Stamped
  <2> QED BY <2>1, <2>6 DEF Honesty, Reading, Renaming
<1> QED BY <1>3, <1>4, <1>5

\* What a scan enters is sound.
LEMMA HonestyScan ==
    ASSUME TypeOK, TypeOK', Honesty, NEW p \in Files, ScanStat(p) \/ ScanRead(p)
    PROVE  Honesty'
<1>1. /\ UNCHANGED <<disk, clock, veiled, mem>> /\ pc' # "renamed"
  BY DEF ScanStat, ScanRead, EndRun, NoFiles, history
<1>2. Sound(NoFile)
  BY NothingTyped, TimelessSound DEF Honesty, Hash
<1>3. disk[p].stat <= clock /\ clock \in Nat
  BY DEF Honesty, Stamped, TypeOK
<1>4. \A q \in Files : Exists(q) /\ disk[q].stat = disk[p].stat => q = p
  BY DEF Honesty, Stamped
<1>5. CASE ScanStat(p) /\ pc' = "scan" /\ run'.found = run.found
  <2>1. run'.stat = run.stat
    BY <1>5 DEF ScanStat, TypeOK, Run
  <2>2. Stamped' /\ SoundEntries'
    BY <1>1, <1>5, <2>1, FilesStay DEF Honesty, Stamped, SoundEntries
  <2> QED BY <1>5, <2>2 DEF Honesty, Reading, Renaming
<1>6. CASE /\ ScanStat(p) /\ pc' = "scan" /\ Reusable(p)
           /\ run' = [run EXCEPT !.todo = @ \ {p}, !.found[p] = Reused(p)]
  <2>1. Sound(Reused(p))
    BY <1>6 DEF Reusable, Reused, Honesty, SoundEntries, Sound
  <2>2. run'.stat = run.stat /\ \A q \in Files : run'.found[q] \in {run.found[q], Reused(p)}
    BY <1>6 DEF TypeOK, Run
  <2>3. Stamped' /\ SoundEntries'
    BY <1>1, <2>1, <2>2, FilesStay DEF Honesty, Stamped, SoundEntries
  <2> QED BY <1>6, <2>3 DEF Honesty, Reading, Renaming
<1>7. CASE /\ ScanStat(p) /\ pc' = "read"
           /\ run' = [run EXCEPT !.todo = @ \ {p}, !.at = {p}, !.stat = disk[p].stat]
  <2>1. run'.found = run.found /\ run'.at = {p} /\ run'.stat = disk[p].stat
    BY <1>7 DEF TypeOK, Run
  <2>2. Stamped' /\ SoundEntries'
    BY <1>1, <1>3, <2>1, FilesStay DEF Honesty, SoundEntries
  <2>3. Reading'
    BY <1>1, <1>4, <2>1 DEF Reading, Exists
  <2> QED BY <1>1, <2>2, <2>3 DEF Honesty, Renaming
<1>8. CASE ScanRead(p) /\ Exists(p)
  <2>1. /\ pc = "read" /\ p \in run.at /\ pc' = "scan" /\ run'.stat = 0
        /\ \A q \in Files : run'.found[q] \in {run.found[q], Scanned(p)}
    <3>1. run' = [run EXCEPT !.at = {}, !.stat = 0, !.found[p] = Scanned(p)]
      BY <1>8 DEF ScanRead
    <3>2. run'.stat = 0 /\ run'.found = [run.found EXCEPT ![p] = Scanned(p)]
      BY <3>1 DEF TypeOK, Run
    <3>3. pc = "read" /\ p \in run.at /\ pc' = "scan"
      BY <1>8 DEF ScanRead
    <3>4. run.found \in [Files -> File]
      BY DEF TypeOK, Run
    <3> QED BY <3>2, <3>3, <3>4
  <2>2. Sound(Scanned(p))
    <3>1. \A q \in Files \ veiled : Exists(q) /\ disk[q].stat = run.stat => q = p
      BY <2>1 DEF Honesty, Reading
    <3>2. Scanned(p).hash = disk[p].hash /\ Scanned(p).stat = run.stat
      BY DEF Scanned
    <3>3. run.stat <= clock
      BY DEF Honesty, Stamped
    <3> QED BY <3>1, <3>2, <3>3 DEF Sound
  <2>3. Stamped' /\ SoundEntries'
    BY <1>1, <1>3, <2>1, <2>2, FilesStay DEF Honesty, SoundEntries
  <2> QED BY <2>1, <2>3 DEF Honesty, Reading, Renaming
<1>9. CASE ScanRead(p) /\ ~Exists(p)
  <2>1. pc' = "idle" /\ run'.stat = 0 /\ \A q \in Files : run'.found[q] = NoFile
    BY <1>9 DEF ScanRead, EndRun, IdleRun
  <2>2. Stamped' /\ SoundEntries'
    BY <1>1, <1>2, <1>3, <2>1, FilesStay DEF Honesty, SoundEntries
  <2> QED BY <2>1, <2>2 DEF Honesty, Reading, Renaming
<1>10. CASE ScanStat(p)
  BY <1>5, <1>6, <1>7, <1>10 DEF ScanStat, TypeOK, Run
<1> QED BY <1>8, <1>9, <1>10

\* The rest of a run.
LEMMA HonestyRun ==
    ASSUME TypeOK, TypeOK', Honesty,
           \/ StartRun \/ UpdateScanCache \/ PushDone \/ Pull
           \/ \E hourly, daily \in BOOLEAN : PlanScan(hourly, daily)
           \/ \E p \in Files : Push(p) \/ Delete(p)
    PROVE  Honesty'
<1>1. Sound(NoFile)
  BY NothingTyped, TimelessSound DEF Honesty, Hash
<1>2. clock \in Nat /\ 0 <= clock
  BY DEF TypeOK
<1>3. IdleRun.stat = 0 /\ \A p \in Files : IdleRun.found[p] = NoFile
  BY DEF IdleRun
<1>4. CASE StartRun /\ mem.filter # rules
  <2>1. /\ Install(Newer(rules, 0)) /\ Newer(rules, 0) \in SUBSET Files
        /\ mem' = [Installed(Newer(rules, 0)) EXCEPT !.cursor = rev, !.filter = rules]
        /\ veiled' = veiled /\ pc' = "renames"
        /\ run' = [IdleRun EXCEPT !.rules = rules, !.full = mem.filter # rules,
                                  !.moves = mem.moves]
    BY <1>4 DEF StartRun, Newer
  <2>2. mem'.cache = Installed(Newer(rules, 0)).cache
    BY <2>1 DEF Installed, TypeOK, Data
  <2>3. run'.stat = 0 /\ \A p \in Files : run'.found[p] = NoFile
    BY <2>1 DEF IdleRun
  <2> QED BY <2>1, <2>2, <2>3, InstallHonest
<1>5. CASE StartRun /\ mem.filter = rules
  <2>1. /\ UNCHANGED <<disk, clock, veiled, mem>> /\ pc' = "renames"
        /\ run'.stat = 0 /\ \A p \in Files : run'.found[p] = NoFile
    BY <1>5 DEF StartRun, NoFiles, IdleRun
  <2>2. Stamped' /\ SoundEntries'
    BY <1>1, <1>2, <2>1, FilesStay DEF Honesty, SoundEntries
  <2> QED BY <2>1, <2>2 DEF Honesty, Reading, Renaming
<1>6. CASE UpdateScanCache
  <2>1. /\ UNCHANGED <<disk, clock, veiled>> /\ pc' = "push"
        /\ run'.stat = run.stat /\ run'.found = run.found
        /\ \A p \in Files : mem'.cache[p] \in {mem.cache[p], run.found[p]}
    BY <1>6 DEF UpdateScanCache, NoFiles, history, TypeOK, Run, Data
  <2>2. Stamped' /\ SoundEntries'
    BY <2>1, FilesStay DEF Honesty, SoundEntries, Stamped
  <2> QED BY <2>1, <2>2 DEF Honesty, Reading, Renaming
<1>7. CASE PushDone \/ \E hourly, daily \in BOOLEAN : PlanScan(hourly, daily)
  <2>1. /\ UNCHANGED <<disk, clock, veiled, mem>> /\ pc' \in {"scan", "deletes"}
        /\ run'.stat = run.stat /\ run'.found = run.found
    BY <1>7 DEF PushDone, PlanScan, NoFiles, history, TypeOK, Run
  <2>2. Stamped' /\ SoundEntries'
    BY <2>1, FilesStay DEF Honesty, SoundEntries, Stamped
  <2> QED BY <2>1, <2>2 DEF Honesty, Reading, Renaming
<1>8. CASE Pull
  <2>1. /\ Install(Newer(run.rules, mem.cursor))
        /\ Newer(run.rules, mem.cursor) \in SUBSET Files
        /\ veiled' = veiled /\ pc' = "idle" /\ run' = IdleRun
    BY <1>8 DEF Pull, EndRun, Newer
  <2>2. mem'.cache = Installed(Newer(run.rules, mem.cursor)).cache
    BY <1>8 DEF Pull, Installed, TypeOK, Data
  <2> QED BY <1>3, <2>1, <2>2, InstallHonest
<1>9. ASSUME NEW p \in Files, Delete(p)
      PROVE  Honesty'
  <2>1. /\ Request(p, Absent, mem.cache[p]) /\ veiled' = veiled /\ pc' = "deletes"
        /\ run'.stat = run.stat /\ run'.found = run.found
    BY <1>9 DEF Delete, TypeOK, Run
  <2>2. Sound(mem.cache[p]) /\ Absent \in Hash
    BY DEF Honesty, SoundEntries, Hash
  <2> QED BY <2>1, <2>2, RequestHonest
<1>10. ASSUME NEW p \in Files, Push(p)
       PROVE  Honesty'
  <2>1. /\ veiled' = veiled /\ pc' = "push"
        /\ run'.stat = run.stat /\ run'.found = run.found
    BY <1>10 DEF Push, TypeOK, Run
  <2>2. CASE Request(p, disk[p].hash, run.found[p])
    <3>1. Sound(run.found[p]) /\ disk[p].hash \in Hash
      BY DEF Honesty, SoundEntries, TypeOK, File
    <3> QED BY <2>1, <2>2, <3>1, RequestHonest
  <2>3. CASE NoFiles /\ mem'.cache = mem.cache
    <3>1. Stamped' /\ SoundEntries'
      BY <2>1, <2>3, FilesStay DEF Honesty, SoundEntries, Stamped, NoFiles
    <3> QED BY <2>1, <3>1 DEF Honesty, Reading, Renaming
  <2> QED BY <1>10, <2>2, <2>3 DEF Push, TypeOK, Data
<1> QED BY <1>4, <1>5, <1>6, <1>7, <1>8, <1>9, <1>10

\* Every step.
LEMMA HonestyStep ==
    TypeOK /\ Honesty /\ [Next]_vars => Honesty'
<1> SUFFICES ASSUME TypeOK, Honesty, [Next]_vars PROVE Honesty'
  OBVIOUS
<1>1. TypeOK'
  BY TypeStep
<1>2. CASE Engine
  BY <1>1, <1>2, HonestyRenames, HonestyScan, HonestyRun DEF Engine
<1>3. CASE UNCHANGED vars
  <2>1. UNCHANGED <<disk, clock, veiled, mem, pc, run>>
    BY <1>3 DEF vars
  <2> QED BY <2>1 DEF Honesty, Stamped, SoundEntries, Sound, Reading, Renaming, Exists
<1> QED BY <1>1, <1>2, <1>3, HonestyEnvironment DEF Next

\* An entry of the cache that a scan would reuse has the hash of the file, but
\* for files edited with their time kept, or while a rename waited for its
\* answer, or moved between the moments a scan examines and reads them.
THEOREM CacheIsHonest ==
    Spec => []CacheHonest
<1>1. Init => TypeOK /\ Honesty
  BY InitTypes, HonestyInit
<1>2. TypeOK /\ Honesty /\ [Next]_vars => (TypeOK /\ Honesty)'
  BY TypeStep, HonestyStep
<1>3. Honesty => CacheHonest
  BY HonestyImplies
<1> QED BY <1>1, <1>2, <1>3, PTL DEF Spec

-----------------------------------------------------------------------------
(* Deletions.                                                              *)

\* What is left of the scan, and what it has found, is all there was.
Sees(left) ==
    \A p \in run.scope \ (Excluded[run.rules] \cup Hidden[run.rules] \cup gone) :
        p \in left \cup Found

\* The inductive invariant of deletions: absence is known since the scan began,
\* and what the scan may have missed has been absent.
Sought ==
    /\ pc \in {"scan", "read", "push", "deletes"} =>
          \A p \in Files : Exists(p) \/ p \in gone
    /\ pc = "scan" => Sees(run.todo)
    /\ pc = "read" => \A p \in run.at : Sees(run.todo \cup {p})
    /\ pc = "push" => Sees({})
    /\ pc = "deletes" => run.todo \subseteq gone \cup Hidden[run.rules]

\* Absence is only ever added.
LEMMA StillSees ==
    ASSUME NEW left, NEW more, Sees(left), left \subseteq more, gone \subseteq gone',
           run'.scope = run.scope, run'.rules = run.rules, run'.found = run.found
    PROVE  Sees(more)'
BY DEF Sees, Found

\* A step that takes no part in the scan.
LEMMA StillSought ==
    ASSUME Sought, pc' = pc, gone \subseteq gone',
           \A p \in Files : Exists(p)' \/ p \in gone' \/ (~Exists(p) /\ p \notin gone),
           run'.scope = run.scope, run'.rules = run.rules, run'.found = run.found,
           run'.todo = run.todo, run'.at = run.at
    PROVE  Sought'
<1>1. pc = "scan" => Sees(run.todo)'
  BY StillSees DEF Sought
<1>2. pc = "read" => \A p \in run.at : Sees(run.todo \cup {p})'
  BY StillSees DEF Sought
<1>3. pc = "push" => Sees({})'
  BY StillSees DEF Sought
<1> QED BY <1>1, <1>2, <1>3 DEF Sought

\* What is installed is a file, or its absence.
LEMMA InstalledOrGone ==
    ASSUME NEW ps \in SUBSET Files, Install(ps), NEW p \in Files,
           Exists(p) \/ p \in gone
    PROVE  (Exists(p)' \/ p \in gone') /\ gone \subseteq gone'
<1>1. gone' = gone \cup {q \in ps : row[q].hash = Absent}
  BY DEF Install
<1>2. disk'[p] = IF p \notin Differing(ps) THEN disk[p]
                 ELSE IF row[p].hash = Absent THEN NoFile
                 ELSE [hash |-> row[p].hash, stat |-> clock + Nth[p]]
  BY DEF Install, Downloaded
<1>3. CASE p \notin Differing(ps)
  BY <1>1, <1>2, <1>3 DEF Exists
<1>4. CASE p \in Differing(ps) /\ row[p].hash = Absent
  BY <1>1, <1>4 DEF Differing
<1>5. CASE p \in Differing(ps) /\ row[p].hash # Absent
  <2>1. disk'[p].hash = row[p].hash
    BY <1>2, <1>5
  <2> QED BY <1>1, <1>5, <2>1 DEF Exists
<1> QED BY <1>3, <1>4, <1>5

\* So is what a request changes.
LEMMA RequestedOrGone ==
    ASSUME NEW q \in Files, NEW h, NEW cache, Request(q, h, cache), NEW p \in Files,
           Exists(p) \/ p \in gone
    PROVE  (Exists(p)' \/ p \in gone') /\ gone \subseteq gone'
<1>1. CASE Install({q})
  BY <1>1, InstalledOrGone
<1>2. CASE NoFiles /\ UNCHANGED gone
  BY <1>2 DEF NoFiles, Exists
<1> QED BY <1>1, <1>2 DEF Request

\* Files that go while a scan is under way are remembered.
LEMMA SoughtEnvironment ==
    ASSUME TypeOK, TypeOK', Sought, Environment
    PROVE  Sought'
<1>1. ASSUME NEW p \in Files, NEW h \in Hash,
             NEW event \in {"file", "folder", "none"}, Edit(p, h, event)
      PROVE  Sought'
  <2>1. pc' = pc /\ gone' = (IF h = Absent THEN gone \cup {p} ELSE gone) /\ Noticed(p, event)
    BY <1>1 DEF Edit
  <2>2. run' \in {run, [run EXCEPT !.noted = @ \ {p}]}
    BY <2>1 DEF Noticed, Unnoted
  <2>3. \A q \in Files \ {p} : Exists(q)' <=> Exists(q)
    BY <1>1 DEF Edit, TypeOK, Exists
  <2>4. Exists(p)' <=> h # Absent
    BY <1>1 DEF Edit, TypeOK, Exists
  <2> QED BY <2>1, <2>2, <2>3, <2>4, StillSought DEF TypeOK, Run
<1>2. ASSUME NEW p \in Files, NEW q \in Files, Rename(p, q)
      PROVE  Sought'
  <2>1. /\ pc' = pc /\ gone' = gone \cup {p} /\ run' = [run EXCEPT !.noted = @ \ {p, q}]
        /\ disk' = [disk EXCEPT ![q] = disk[p], ![p] = NoFile]
        /\ Exists(p) /\ ~Exists(q)
    BY <1>2 DEF Rename, Unnoted
  <2>2. disk'[q] = disk[p] /\ \A r \in Files \ {p, q} : disk'[r] = disk[r]
    BY <2>1 DEF TypeOK
  <2>3. Exists(q)' /\ \A r \in Files \ {p, q} : Exists(r)' <=> Exists(r)
    BY <2>1, <2>2 DEF Exists
  <2> QED BY <2>1, <2>3, StillSought DEF TypeOK, Run
<1>3. CASE \/ \E s \in Settings : ChangeRules(s)
           \/ \E p \in Files, h \in Hash : OtherChange(p, h)
           \/ \E p \in Files : Collect(p)
  <2>1. UNCHANGED <<disk, pc, run, gone>>
    BY <1>3 DEF ChangeRules, OtherChange, Collect, history
  <2> QED BY <2>1, StillSought DEF Exists
<1>4. CASE RunFails
  BY <1>4 DEF RunFails, EndRun, Sought
<1> QED BY <1>1, <1>2, <1>3, <1>4 DEF Environment

\* The scan comes to every file there is that is not excluded or hidden.
LEMMA SoughtScan ==
    ASSUME TypeOK, TypeOK', Honesty, Sought,
           \/ \E hourly, daily \in BOOLEAN : PlanScan(hourly, daily)
           \/ \E p \in Files : ScanStat(p) \/ ScanRead(p)
           \/ UpdateScanCache
    PROVE  Sought'
<1>1. ASSUME NEW hourly \in BOOLEAN, NEW daily \in BOOLEAN, PlanScan(hourly, daily)
      PROVE  Sought'
  <2> DEFINE full == \/ run.full \/ mem.needsFull \/ hourly \/ daily
                     \/ \A p \in Files : mem.cache[p] = NoFile
             scope == IF full THEN Files ELSE mem.pending
             todo == IF full
                     THEN {p \in Listed[run.rules] : Exists(p)} \ Excluded[run.rules]
                     ELSE mem.pending \ Excluded[run.rules]
  <2>1. /\ disk' = disk /\ pc' = "scan" /\ gone' = {p \in Files : ~Exists(p)}
        /\ run' = [run EXCEPT !.full = full, !.force = Forced(daily, full),
                              !.noted = mem.pending, !.scope = scope, !.todo = todo]
    BY <1>1 DEF PlanScan, NoFiles
  <2> HIDE DEF full
  <2>2. run'.scope = scope /\ run'.todo = todo /\ run'.rules = run.rules
    BY <2>1 DEF TypeOK, Run
  <2>3. run.rules \in Settings /\ mem.pending \subseteq Files
    BY DEF TypeOK, Run, Data
  <2>4. \A p \in Files : Exists(p)' \/ p \in gone'
    BY <2>1 DEF Exists
  <2>5. \A p \in scope \ (Excluded[run.rules] \cup Hidden[run.rules] \cup gone') : p \in todo
    <3> TAKE p \in scope \ (Excluded[run.rules] \cup Hidden[run.rules] \cup gone')
    <3>1. CASE full
      <4>1. p \in Files /\ Exists(p)
        BY <2>1, <3>1
      <4>2. p \in Listed[run.rules]
        BY <2>3, <4>1 DEF Hidden
      <4> QED BY <3>1, <4>1, <4>2
    <3>2. CASE ~full
      BY <3>2
    <3> QED BY <3>1, <3>2
  <2> HIDE DEF scope, todo
  <2>6. Sees(run.todo)'
    BY <2>2, <2>5 DEF Sees
  <2> QED BY <2>1, <2>4, <2>6 DEF Sought
<1>2. ASSUME NEW p \in Files, ScanStat(p)
      PROVE  Sought'
  <2>1. /\ disk' = disk /\ gone' = gone /\ pc = "scan"
        /\ run'.scope = run.scope /\ run'.rules = run.rules
        /\ run'.todo = run.todo \ {p}
    BY <1>2 DEF ScanStat, NoFiles, history, TypeOK, Run
  <2>2. \A q \in Files : Exists(q)' \/ q \in gone'
    BY <2>1 DEF Sought, Exists
  <2>3. Sees(run.todo)
    BY <2>1 DEF Sought
  <2>4. CASE ~Exists(p) /\ pc' = pc
    <3>1. run'.found = run.found /\ p \in gone
      BY <1>2, <2>1, <2>4 DEF ScanStat, TypeOK, Run, Sought
    <3>2. Sees(run.todo)'
      BY <2>1, <2>3, <3>1 DEF Sees, Found
    <3> QED BY <2>1, <2>2, <2>4, <3>2 DEF Sought
  <2>5. CASE Exists(p) /\ Reusable(p) /\ pc' = pc
    <3>1. run'.found = [run.found EXCEPT ![p] = Reused(p)]
      BY <1>2, <2>5 DEF ScanStat, TypeOK, Run
    <3>2. disk[p].stat > 0
      BY <2>5 DEF Honesty, Stamped
    <3>3. Reused(p) # NoFile
      BY <3>2 DEF Reused, NoFile
    <3>4. p \in Found' /\ Found \subseteq Found'
      BY <3>1, <3>3 DEF Found, TypeOK, Run
    <3>5. Sees(run.todo)'
      BY <2>1, <2>3, <3>4 DEF Sees
    <3> QED BY <2>1, <2>2, <2>5, <3>5 DEF Sought
  <2>6. CASE Exists(p) /\ ~Reusable(p) /\ pc' = "read"
    <3>1. run'.found = run.found /\ run'.at = {p}
      BY <1>2, <2>6 DEF ScanStat, TypeOK, Run
    <3>2. Sees(run.todo \cup {p})'
      BY <2>1, <2>3, <3>1 DEF Sees, Found
    <3> QED BY <2>1, <2>2, <2>6, <3>1, <3>2 DEF Sought
  <2> QED BY <1>2, <2>4, <2>5, <2>6 DEF ScanStat
<1>3. ASSUME NEW p \in Files, ScanRead(p)
      PROVE  Sought'
  <2>1. disk' = disk /\ gone' = gone /\ pc = "read" /\ p \in run.at
    BY <1>3 DEF ScanRead, NoFiles, history
  <2>2. CASE Exists(p)
    <3>1. /\ pc' = "scan"
          /\ run' = [run EXCEPT !.at = {}, !.stat = 0, !.found[p] = Scanned(p)]
      BY <1>3, <2>2 DEF ScanRead
    <3>2. /\ run'.scope = run.scope /\ run'.rules = run.rules /\ run'.todo = run.todo
          /\ run'.found = [run.found EXCEPT ![p] = Scanned(p)]
      BY <3>1 DEF TypeOK, Run
    <3>3. Scanned(p) # NoFile
      BY <2>2 DEF Scanned, NoFile, Exists
    <3>4. p \in Found' /\ Found \subseteq Found'
      BY <3>2, <3>3 DEF Found, TypeOK, Run
    <3>5. Sees(run.todo \cup {p})
      BY <2>1 DEF Sought
    <3>6. Sees(run.todo)'
      BY <2>1, <3>2, <3>4, <3>5 DEF Sees
    <3>7. \A q \in Files : Exists(q)' \/ q \in gone'
      BY <2>1 DEF Sought, Exists
    <3> QED BY <3>1, <3>6, <3>7 DEF Sought
  <2>3. CASE ~Exists(p)
    BY <1>3, <2>3 DEF ScanRead, EndRun, Sought
  <2> QED BY <2>2, <2>3
<1>4. CASE UpdateScanCache
  <2>1. /\ disk' = disk /\ gone' = gone /\ pc = "scan" /\ pc' = "push" /\ run.todo = {}
        /\ run'.scope = run.scope /\ run'.rules = run.rules /\ run'.found = run.found
    BY <1>4 DEF UpdateScanCache, NoFiles, history, TypeOK, Run
  <2>2. Sees({})'
    BY <2>1, StillSees DEF Sought
  <2> QED BY <2>1, <2>2 DEF Sought, Exists
<1> QED BY <1>1, <1>2, <1>3, <1>4

\* What the push deletes was sought.
LEMMA SoughtPush ==
    ASSUME TypeOK, TypeOK', Sought,
           PushDone \/ \E p \in Files : Push(p) \/ Delete(p)
    PROVE  Sought'
<1>1. CASE PushDone
  <2>1. /\ disk' = disk /\ gone' = gone /\ pc = "push" /\ pc' = "deletes"
        /\ run'.rules = run.rules /\ run'.todo = Deletable
    BY <1>1 DEF PushDone, NoFiles, history, TypeOK, Run
  <2>2. Sees({})
    BY <2>1 DEF Sought
  <2>3. Deletable \subseteq gone \cup Hidden[run.rules]
    BY <2>2 DEF Deletable, Missing, Sees
  <2> QED BY <2>1, <2>3 DEF Sought, Exists
<1>2. ASSUME NEW p \in Files, Push(p)
      PROVE  Sought'
  <2>1. /\ pc = "push" /\ pc' = "push"
        /\ run'.scope = run.scope /\ run'.rules = run.rules /\ run'.found = run.found
    BY <1>2 DEF Push, TypeOK, Run
  <2>2. \A q \in Files : Exists(q) \/ q \in gone
    BY <2>1 DEF Sought
  <2>3. (\A q \in Files : Exists(q)' \/ q \in gone') /\ gone \subseteq gone'
    <3>1. CASE Request(p, disk[p].hash, run.found[p])
      BY <2>2, <3>1, RequestedOrGone
    <3>2. CASE NoFiles /\ UNCHANGED gone
      BY <2>2, <3>2 DEF NoFiles, Exists
    <3> QED BY <1>2, <3>1, <3>2 DEF Push
  <2>4. Sees({})'
    BY <2>1, <2>3, StillSees DEF Sought
  <2> QED BY <2>1, <2>3, <2>4 DEF Sought
<1>3. ASSUME NEW p \in Files, Delete(p)
      PROVE  Sought'
  <2>1. /\ pc = "deletes" /\ pc' = "deletes" /\ Request(p, Absent, mem.cache[p])
        /\ run'.rules = run.rules /\ run'.todo = run.todo \ {p}
    BY <1>3 DEF Delete, TypeOK, Run
  <2>2. \A q \in Files : Exists(q) \/ q \in gone
    BY <2>1 DEF Sought
  <2>3. (\A q \in Files : Exists(q)' \/ q \in gone') /\ gone \subseteq gone'
    BY <2>1, <2>2, RequestedOrGone
  <2> QED BY <2>1, <2>3 DEF Sought
<1> QED BY <1>1, <1>2, <1>3

\* Every step.
LEMMA SoughtStep ==
    TypeOK /\ Honesty /\ Sought /\ [Next]_vars => Sought'
<1> SUFFICES ASSUME TypeOK, Honesty, Sought, [Next]_vars PROVE Sought'
  OBVIOUS
<1>1. TypeOK'
  BY TypeStep
<1>2. CASE \/ StartRun \/ Pull
           \/ \E m \in Move : RenameDropped(m) \/ RenameCommitted(m) \/ RenameRecorded(m)
  <2>1. pc' \in {"idle", "renames", "renamed"}
    BY <1>2 DEF StartRun, Pull, EndRun, RenameDropped, RenameCommitted, RenameRecorded
  <2> QED BY <2>1 DEF Sought
<1>3. CASE Engine
  BY <1>1, <1>2, <1>3, SoughtScan, SoughtPush DEF Engine
<1>4. CASE UNCHANGED vars
  BY <1>4, StillSought DEF vars, Exists
<1> QED BY <1>1, <1>3, <1>4, SoughtEnvironment DEF Next

\* A file is deleted for the other devices only if it was not there at some
\* moment since the scan began, whatever was excluded, included, queued or
\* renamed meanwhile, unless the scan passes by its folder.
THEOREM DeletionsAreReal ==
    Spec => DeletionIsReal
<1> DEFINE Inv == TypeOK /\ Honesty /\ Sought
<1>1. Init => Inv
  BY InitTypes, HonestyInit DEF Init, Sought
<1>2. Inv /\ [Next]_vars => Inv'
  BY TypeStep, HonestyStep, SoughtStep
<1>3. Inv => [\A p \in Files : Delete(p) /\ row'[p] # row[p] =>
                p \in gone \cup Hidden[run.rules]]_vars
  BY DEF Delete, First, Sought
<1> QED BY <1>1, <1>2, <1>3, PTL DEF Spec, DeletionIsReal
=============================================================================
