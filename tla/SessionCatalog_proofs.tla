------------------------ MODULE SessionCatalog_proofs ------------------------
(* A transcript's summary is of one file, whole from its start, and who      *)
(* awaits a refresh sees what was written before, for any number of lines,   *)
(* files, callers and restarts.                                              *)
(*                                                                           *)
(* A scan reads its file in steps of their own, and its file may be deleted  *)
(* between two of them: what keeps it from reading on in a new file under    *)
(* the same id is that the session starts over only once the refresh after   *)
(* the deletion has returned, which is a scan after the one in flight.       *)
EXTENDS SessionCatalog, FiniteSetTheorems, TLAPS

Files == [gen : 0 .. MaxFiles, size : Nat]
AnyEntry == [gen : 0 .. MaxFiles, size : Nat, head : 0 .. MaxFiles, offset : Nat, seen : SUBSET (Nat \X Nat)]
Stages == {"none", "discover", "check", "read", "hash", "publish", "over"}
LinesOf(gen, n) == { <<gen, i>> : i \in 1 .. n }
LinesAfter(gen, n, upTo) == { <<gen, i>> : i \in n + 1 .. upTo }

\* An entry that is complete tells the file it is of by its head.
Kept(e) == e.seen = LinesOf(e.head, e.offset) /\ (e.head = 0 => e = NoEntry)

CatalogShape ==
    /\ disk \in Files /\ (disk # NoFile => disk.gen # 0) /\ written \in Nat
    /\ entry \in AnyEntry /\ cache \in AnyEntry
    /\ scan \in [stage : Stages, file : Files, result : AnyEntry]

\* What a scan has read so far is of the file it found.
ScanIsWhole ==
    /\ scan.stage \in {"read", "hash"} => scan.result.seen = LinesOf(scan.file.gen, scan.result.offset)
    /\ scan.stage = "publish" => Kept(scan.result)

\* That file is the one on disk, or was deleted since and none is there yet.
ScanOfFile ==
    scan.stage \in {"check", "read", "hash"} =>
        /\ scan.file.gen # 0
        /\ \/ disk.gen = scan.file.gen
           \/ disk = NoFile /\ deleting # "no" /\ Truncate \notin inFlight

\* The deletion's refresh is awaited, in the scan in flight or the next, from
\* when it is asked until it has returned.
DeletionAwaits ==
    /\ deleting # "waiting" => Truncate \notin inFlight \cup queued
    /\ Truncate \in inFlight => Truncate \notin queued

CatalogInv == CatalogShape /\ Kept(entry) /\ Kept(cache) /\ ScanIsWhole /\ ScanOfFile /\ DeletionAwaits

LEMMA BoundIsNumber == MaxFiles \in Nat
BY CatalogAssumption

USE BoundIsNumber

LEMMA NoEntryKept == NoEntry \in AnyEntry /\ Kept(NoEntry)
<1>1. LinesOf(0, 0) = {}
  BY DEF LinesOf
<1> QED  BY <1>1 DEF NoEntry, AnyEntry, Kept

LEMMA WholeLines == ASSUME NEW file \in Files PROVE Lines(file) \in Nat
BY DEF Lines, Files

LEMMA LinesCounted ==
  ASSUME NEW gen \in Nat, NEW n \in Nat, NEW upTo \in Nat
  PROVE Cardinality(LinesAfter(gen, n, upTo)) = IF upTo > n THEN upTo - n ELSE 0
<1> DEFINE fresh == LinesAfter(gen, n, upTo)
           f == [i \in n + 1 .. upTo |-> <<gen, i>>]
<1>1. f \in Bijection(n + 1 .. upTo, fresh)
  BY DEF Bijection, Injection, Surjection, IsInjective, LinesAfter
<1>2. ExistsBijection(n + 1 .. upTo, fresh)
  BY <1>1 DEF ExistsBijection
<1>3. IsFiniteSet(n + 1 .. upTo) /\ Cardinality(n + 1 .. upTo) = IF n + 1 > upTo THEN 0 ELSE upTo - (n + 1) + 1
  BY FS_Interval
<1>4. Cardinality(fresh) = Cardinality(n + 1 .. upTo)
  BY <1>2, <1>3, FS_Bijection
<1> QED  BY <1>3, <1>4

\* Reading on from line n counts the lines it reads, and reaches the last.
LEMMA ReadingOn ==
  ASSUME NEW gen \in Nat, NEW n \in Nat, NEW upTo \in Nat
  PROVE /\ Cardinality(LinesAfter(gen, n, upTo)) \in Nat
        /\ n + Cardinality(LinesAfter(gen, n, upTo)) >= upTo
        /\ LinesOf(gen, n) \cup LinesAfter(gen, n, upTo) = LinesOf(gen, n + Cardinality(LinesAfter(gen, n, upTo)))
<1> DEFINE fresh == LinesAfter(gen, n, upTo)
<1>1. CASE n + 1 > upTo
  <2>1. Cardinality(fresh) = 0 /\ n + 1 .. upTo = {} /\ n + 0 = n /\ n >= upTo
    BY <1>1, LinesCounted
  <2>2. fresh = {}
    BY <2>1 DEF LinesAfter
  <2> QED  BY <2>1, <2>2
<1>2. CASE n + 1 <= upTo
  <2>1. Cardinality(fresh) = upTo - n /\ n + (upTo - n) = upTo /\ upTo - n \in Nat
    BY <1>2, LinesCounted
  <2>2. 1 .. upTo = (1 .. n) \cup (n + 1 .. upTo)
    BY <1>2
  <2>3. LinesOf(gen, n) \cup fresh = LinesOf(gen, upTo)
    BY <2>2, Zenon DEF LinesOf, LinesAfter
  <2> QED  BY <2>1, <2>3
<1> QED  BY <1>1, <1>2

-----------------------------------------------------------------------------

LEMMA CatalogStarts == CatalogInit => CatalogInv
BY NoEntryKept, CatalogAssumption
   DEF CatalogInit, CatalogInv, CatalogShape, ScanIsWhole, ScanOfFile, DeletionAwaits, Files, Stages, NoFile, NoScan, Start, Truncate

LEMMA WritesKeep == ASSUME CatalogInv, AppendHalf \/ Delete PROVE CatalogInv'
<1>1. CASE AppendHalf
  <2>1. disk' \in Files /\ disk'.gen # 0 /\ written' \in Nat
    BY <1>1 DEF AppendHalf, CatalogInv, CatalogShape, Files, NoFile
  <2>2. ScanOfFile'
    BY <1>1 DEF AppendHalf, CatalogInv, CatalogShape, ScanOfFile, Files, NoFile
  <2> QED
    BY <1>1, <2>1, <2>2 DEF AppendHalf, CatalogInv, CatalogShape, Kept, ScanIsWhole, DeletionAwaits
<1>2. CASE Delete
  BY <1>2 DEF Delete, CatalogInv, CatalogShape, Kept, ScanIsWhole, ScanOfFile, DeletionAwaits, Files, NoFile
<1> QED  BY <1>1, <1>2

\* A call of refresh starts a scan or waits for the next one.
LEMMA RefreshKeeps ==
  ASSUME CatalogInv, NEW c, Refresh(c), UNCHANGED <<disk, written, entry, cache>>,
         \/ c # Truncate /\ deleting' = deleting
         \/ c = Truncate /\ deleting = "deleted" /\ deleting' = "waiting"
  PROVE CatalogInv'
<1>1. CASE scan.stage = "none"
  <2>1. scan' = [scan EXCEPT !.stage = "discover"] /\ inFlight' = inFlight \cup {c} /\ queued' = queued
    BY <1>1 DEF Refresh, JoinScan
  <2>2. scan' \in [stage : Stages, file : Files, result : AnyEntry] /\ scan'.stage = "discover"
    BY <2>1 DEF CatalogInv, CatalogShape, Stages
  <2>3. DeletionAwaits'
    BY <2>1 DEF CatalogInv, DeletionAwaits
  <2> QED  BY <2>2, <2>3 DEF CatalogInv, CatalogShape, Kept, ScanIsWhole, ScanOfFile
<1>2. CASE scan.stage # "none"
  <2>1. scan' = scan /\ inFlight' = inFlight /\ queued' = queued \cup {c}
    BY <1>2 DEF Refresh, JoinScan
  <2>2. DeletionAwaits'
    BY <2>1 DEF CatalogInv, DeletionAwaits
  <2> QED  BY <2>1, <2>2 DEF CatalogInv, CatalogShape, Kept, ScanIsWhole, ScanOfFile
<1> QED  BY <1>1, <1>2

LEMMA QueueKeeps == ASSUME CatalogInv, QueueRuns PROVE CatalogInv'
<1>1. scan' \in [stage : Stages, file : Files, result : AnyEntry] /\ scan'.stage = "discover"
  BY NoEntryKept DEF QueueRuns, NoScan, NoFile, Stages, Files
<1> QED
  BY <1>1 DEF QueueRuns, diskVars, CatalogInv, CatalogShape, Kept, ScanIsWhole, ScanOfFile, DeletionAwaits

\* A step of the scan only changes the scan.
LEMMA ScanKeeps ==
  ASSUME CatalogInv, ScanOnly, scan' \in [stage : Stages, file : Files, result : AnyEntry], ScanIsWhole', ScanOfFile'
  PROVE CatalogInv'
BY DEF ScanOnly, diskVars, CatalogInv, CatalogShape, Kept, DeletionAwaits

LEMMA DiscoverKeeps == ASSUME CatalogInv, Discover PROVE CatalogInv'
<1>1. scan' = [NoScan EXCEPT !.stage = IF disk = NoFile THEN "publish" ELSE "check", !.file = disk] /\ ScanOnly
  BY DEF Discover, Scanning
<1>2. scan' \in [stage : Stages, file : Files, result : AnyEntry] /\ scan'.result = NoEntry /\ scan'.file = disk
      /\ scan'.stage = IF disk = NoFile THEN "publish" ELSE "check"
  BY <1>1, NoEntryKept DEF NoScan, CatalogInv, CatalogShape, Stages
<1>3. ScanIsWhole' /\ ScanOfFile'
  BY <1>1, <1>2, NoEntryKept DEF ScanOnly, diskVars, CatalogInv, CatalogShape, ScanIsWhole, ScanOfFile, Kept
<1> QED  BY <1>1, <1>2, <1>3, ScanKeeps

LEMMA SummarizeKeeps == ASSUME CatalogInv, Summarize PROVE CatalogInv'
<1> DEFINE file == scan.file
           new == [gen |-> file.gen, size |-> file.size, head |-> 0,
                   offset |-> IF Grown(file) THEN entry.offset ELSE 0, seen |-> IF Grown(file) THEN entry.seen ELSE {}]
<1>1. /\ scan.stage = "check" /\ ScanOnly
      /\ scan' = [scan EXCEPT !.stage = "publish", !.result = entry] \/ scan' = [scan EXCEPT !.stage = "read", !.result = new]
  BY DEF Summarize, Scanning
<1>2. new \in AnyEntry /\ new.seen = LinesOf(file.gen, new.offset)
  <2>1. CASE Grown(file)
    <3>1. entry.head = file.gen /\ entry.seen = LinesOf(entry.head, entry.offset)
      BY <1>1, <2>1 DEF Grown, CatalogInv, CatalogShape, ScanOfFile, Kept, NoFile
    <3> QED  BY <2>1, <3>1 DEF CatalogInv, CatalogShape, AnyEntry, Files
  <2>2. CASE ~Grown(file)
    <3>1. LinesOf(file.gen, 0) = {}
      BY DEF LinesOf
    <3> QED  BY <2>2, <3>1 DEF CatalogInv, CatalogShape, AnyEntry, Files
  <2> QED  BY <2>1, <2>2
<1> HIDE DEF new
<1>3. scan' \in [stage : Stages, file : Files, result : AnyEntry] /\ scan'.file = scan.file
      /\ \/ scan'.stage = "publish" /\ scan'.result = entry
         \/ scan'.stage = "read" /\ scan'.result = new
  BY <1>1, <1>2 DEF CatalogInv, CatalogShape, Stages
<1>4. ScanIsWhole' /\ ScanOfFile'
  BY <1>1, <1>2, <1>3 DEF ScanOnly, diskVars, CatalogInv, ScanIsWhole, ScanOfFile, Kept
<1> QED  BY <1>1, <1>3, <1>4, ScanKeeps

LEMMA ReadKeeps == ASSUME CatalogInv, ReadRecords PROVE CatalogInv'
<1> DEFINE upTo == IF disk.size < scan.file.size THEN Lines(disk) ELSE Lines(scan.file)
           fresh == LinesAfter(disk.gen, scan.result.offset, upTo)
           seen == scan.result.seen \cup fresh
           offset == scan.result.offset + Cardinality(fresh)
<1>1. scan.stage = "read" /\ ScanOnly
  BY DEF ReadRecords, Scanning
<1>2. CASE disk = NoFile
  <2>1. scan' = [scan EXCEPT !.stage = "publish", !.result = NoEntry]
    BY <1>2 DEF ReadRecords, Scanning
  <2>2. scan' \in [stage : Stages, file : Files, result : AnyEntry] /\ scan'.stage = "publish" /\ scan'.result = NoEntry
    BY <2>1, NoEntryKept DEF CatalogInv, CatalogShape, Stages
  <2> QED  BY <1>1, <2>2, NoEntryKept, ScanKeeps DEF ScanIsWhole, ScanOfFile, Kept
<1>3. CASE disk # NoFile
  <2>1. scan' = [scan EXCEPT !.stage = "hash", !.result.seen = seen, !.result.offset = offset]
    BY <1>3 DEF ReadRecords, Scanning, LinesAfter
  <2>2. disk.gen = scan.file.gen /\ disk.gen \in Nat /\ scan.result.offset \in Nat
        /\ scan.result.seen = LinesOf(disk.gen, scan.result.offset)
    BY <1>1, <1>3 DEF CatalogInv, CatalogShape, ScanOfFile, ScanIsWhole, Files, AnyEntry
  <2>3. upTo \in Nat
    BY WholeLines DEF CatalogInv, CatalogShape
  <2> HIDE DEF upTo
  <2>4. offset \in Nat /\ seen = LinesOf(disk.gen, offset)
    <3>1. /\ Cardinality(fresh) \in Nat
          /\ LinesOf(disk.gen, scan.result.offset) \cup fresh = LinesOf(disk.gen, scan.result.offset + Cardinality(fresh))
      BY <2>2, <2>3, ReadingOn
    <3> HIDE DEF fresh
    <3>2. offset \in Nat
      BY <2>2, <3>1
    <3> QED  BY <2>2, <3>1, <3>2, Zenon
  <2> HIDE DEF seen, offset
  <2>5. seen \in SUBSET (Nat \X Nat)
    BY <2>2, <2>4 DEF LinesOf
  <2>6. scan' \in [stage : Stages, file : Files, result : AnyEntry] /\ scan'.stage = "hash"
        /\ scan'.result.seen = seen /\ scan'.result.offset = offset /\ scan'.file = scan.file
    BY <2>1, <2>4, <2>5 DEF CatalogInv, CatalogShape, Stages, AnyEntry
  <2>7. ScanIsWhole' /\ ScanOfFile'
    BY <1>1, <2>2, <2>4, <2>6 DEF ScanOnly, diskVars, CatalogInv, ScanIsWhole, ScanOfFile
  <2> QED  BY <1>1, <2>6, <2>7, ScanKeeps
<1> QED  BY <1>2, <1>3

LEMMA HashKeeps == ASSUME CatalogInv, HashHead PROVE CatalogInv'
<1> DEFINE result == IF disk = NoFile THEN NoEntry ELSE [scan.result EXCEPT !.head = disk.gen]
<1>1. scan.stage = "hash" /\ ScanOnly /\ scan' = [scan EXCEPT !.stage = "publish", !.result = result]
  BY DEF HashHead, Scanning
<1>2. result \in AnyEntry /\ Kept(result)
  <2>1. CASE disk = NoFile
    BY <2>1, NoEntryKept
  <2>2. CASE disk # NoFile
    <3>1. disk.gen = scan.file.gen /\ disk.gen # 0 /\ scan.result.seen = LinesOf(disk.gen, scan.result.offset)
      BY <1>1, <2>2 DEF CatalogInv, CatalogShape, ScanOfFile, ScanIsWhole
    <3>2. result \in AnyEntry /\ result.head = disk.gen /\ result.seen = scan.result.seen /\ result.offset = scan.result.offset
      BY <2>2 DEF CatalogInv, CatalogShape, AnyEntry, Files
    <3> QED  BY <3>1, <3>2 DEF Kept
  <2> QED  BY <2>1, <2>2
<1> HIDE DEF result
<1>3. scan' \in [stage : Stages, file : Files, result : AnyEntry] /\ scan'.stage = "publish" /\ scan'.result = result
  BY <1>1, <1>2 DEF CatalogInv, CatalogShape, Stages
<1> QED  BY <1>1, <1>2, <1>3, ScanKeeps DEF ScanIsWhole, ScanOfFile, Kept

LEMMA PublishKeeps == ASSUME CatalogInv, NEW fails \in BOOLEAN, Publish(fails) PROVE CatalogInv'
<1>1. scan' \in [stage : Stages, file : Files, result : AnyEntry] /\ scan'.stage \in {"none", "over"}
  BY NoEntryKept DEF Publish, NoScan, NoFile, Stages, Files
<1>2. entry' \in AnyEntry /\ Kept(entry)'
  BY DEF Publish, CatalogInv, CatalogShape, ScanIsWhole, Kept
<1>3. DeletionAwaits'
  BY DEF Publish, CatalogInv, DeletionAwaits
<1> QED
  BY <1>1, <1>2, <1>3 DEF Publish, CatalogInv, CatalogShape, ScanIsWhole, ScanOfFile, Kept

LEMMA RestartKeeps == ASSUME CatalogInv, Restart PROVE CatalogInv'
<1>1. scan' \in [stage : Stages, file : Files, result : AnyEntry] /\ scan'.stage = "discover"
  BY NoEntryKept DEF Restart, NoScan, NoFile, Stages, Files
<1> QED
  BY <1>1 DEF Restart, CatalogInv, CatalogShape, ScanIsWhole, ScanOfFile, DeletionAwaits, Kept, Start, Truncate

LEMMA CatalogStepKeeps == ASSUME CatalogInv, [CatalogNext]_catalogVars PROVE CatalogInv'
<1>1. ASSUME NEW c \in Callers, CallRefresh(c) PROVE CatalogInv'
  BY <1>1, RefreshKeeps, CatalogAssumption DEF CallRefresh, diskVars, Truncate
<1>2. ASSUME RefreshDeleted PROVE CatalogInv'
  BY <1>2, RefreshKeeps DEF RefreshDeleted
<1>3. ASSUME WatchFires PROVE CatalogInv'
  BY <1>3, RefreshKeeps DEF WatchFires, diskVars, Watch, Truncate
<1>4. ASSUME WriteCache PROVE CatalogInv'
  BY <1>4 DEF WriteCache, diskVars, CatalogInv, CatalogShape, ScanIsWhole, ScanOfFile, DeletionAwaits, Kept
<1>5. ASSUME UNCHANGED catalogVars PROVE CatalogInv'
  BY <1>5 DEF catalogVars, CatalogInv, CatalogShape, ScanIsWhole, ScanOfFile, DeletionAwaits, Kept
<1> QED
  BY <1>1, <1>2, <1>3, <1>4, <1>5, WritesKeep, QueueKeeps, DiscoverKeeps, SummarizeKeeps, ReadKeeps, HashKeeps,
     PublishKeeps, RestartKeeps DEF CatalogNext

\* A transcript's summary is of one file from its start, and the cache's is
\* (NativeSessionCatalog.scan, summarize, readTranscriptRecords), whatever is
\* written, deleted and written anew while scans run, callers wait, scans fail
\* and the daemon restarts.
THEOREM SummariesAreWhole == CatalogSpec => []SummaryIsWhole
<1>1. CatalogInv => SummaryIsWhole
  BY DEF CatalogInv, CatalogShape, Kept, LinesOf, AnyEntry, SummaryIsWhole
<1>2. CatalogInv /\ [CatalogNext]_catalogVars => CatalogInv'
  BY CatalogStepKeeps
<1> QED  BY CatalogStarts, <1>1, <1>2, PTL DEF CatalogSpec

-----------------------------------------------------------------------------
(* What a caller of refresh sees *)

Awaiting == inFlight \ {Watch}

\* A file is the one a caller saw, grown since, or one written later.
After(need, file) ==
    IF file.gen = need.file.gen THEN file.size >= need.file.size ELSE file.gen > need.written

\* A summary has the whole lines of a file of its size.
Covered(e) == e.offset >= e.size \div 2

DiskIsLast == disk.gen \in {0, written} /\ (disk.gen = 0 => disk = NoFile)

NeedsOfDisk ==
    /\ needs \in [Everyone -> [file : Files, written : Nat]]
    /\ \A c \in Awaiting \cup (queued \ {Watch}) :
          /\ needs[c].file.gen \in {0, needs[c].written} /\ needs[c].written <= written
          /\ needs[c].file.gen = 0 => needs[c].file.size = 0
          /\ disk.gen = 0 \/ After(needs[c], disk)

\* A scan finds its file after all its callers have asked.
ScanAfter ==
    scan.stage \in {"check", "read", "hash"} =>
        /\ disk.gen = scan.file.gen => disk.size >= scan.file.size
        /\ \A c \in Awaiting : After(needs[c], scan.file)

ScanCovers ==
    /\ scan.stage \in {"read", "hash"} => scan.result.gen = scan.file.gen /\ scan.result.size = scan.file.size
    /\ scan.stage \in {"hash", "publish"} => Covered(scan.result)
    /\ Covered(entry) /\ Covered(cache)

PublishSees == scan.stage = "publish" => \A c \in Awaiting : Shows(needs[c], scan.result)

\* A caller waits for one scan, in flight or after it.
CallersOnce ==
    /\ inFlight \cap queued \subseteq {Watch} /\ inFlight \cup queued \subseteq Everyone
    /\ scan.stage = "none" => inFlight = {} /\ queued = {}
    /\ scan.stage = "over" => inFlight = {}

RefreshInv ==
    CatalogInv /\ DiskIsLast /\ NeedsOfDisk /\ ScanAfter /\ ScanCovers /\ PublishSees /\ CallersOnce

\* What a step may do to the callers of the scan in flight: they go on as it is published.
KeepsOrShows ==
    \A c \in inFlight \ {Watch} :
        scan.stage = "publish" /\ restarts' = restarts /\ c \notin inFlight' => Shows(needs[c], entry')

LEMMA MoreLines == ASSUME NEW m \in Nat, NEW n \in Nat, m >= n PROVE m \div 2 >= n \div 2 /\ n \div 2 \in Nat
OBVIOUS

LEMMA RefreshStarts == CatalogInit => RefreshInv
<1> SUFFICES ASSUME CatalogInit PROVE RefreshInv
  OBVIOUS
<1>1. CatalogInv
  BY CatalogStarts
<1>2. /\ needs = [[c \in Everyone |-> NoNeed] EXCEPT ![Start] = [file |-> disk, written |-> written]]
      /\ inFlight = {Start} /\ queued = {} /\ written = disk.gen /\ disk \in Files /\ scan.stage = "discover"
      /\ disk \in {NoFile, [gen |-> 1, size |-> 2]} /\ entry = NoEntry /\ cache = NoEntry /\ written \in Nat
  BY <1>1 DEF CatalogInit, NoScan, CatalogInv, CatalogShape
<1>3. DiskIsLast /\ ScanAfter /\ ScanCovers /\ PublishSees /\ CallersOnce
  BY <1>2 DEF DiskIsLast, NoFile, ScanAfter, ScanCovers, NoEntry, Covered, PublishSees, CallersOnce, Everyone, Waiting
<1>4. NeedsOfDisk
  <2>1. NoNeed \in [file : Files, written : Nat] /\ [file |-> disk, written |-> written] \in [file : Files, written : Nat]
    BY <1>2 DEF NoNeed, NoFile, Files
  <2>2. Start \in Everyone
    BY DEF Everyone, Waiting
  <2>3. needs \in [Everyone -> [file : Files, written : Nat]] /\ needs[Start] = [file |-> disk, written |-> written]
    BY <1>2, <2>1, <2>2
  <2> QED  BY <1>2, <2>3 DEF NeedsOfDisk, Awaiting, After, NoFile
<1> QED  BY <1>1, <1>3, <1>4 DEF RefreshInv

LEMMA WritesShow == ASSUME RefreshInv, AppendHalf \/ Delete PROVE RefreshInv' /\ KeepsOrShows
<1> USE DEF RefreshInv
<1>1. CatalogInv'
  BY WritesKeep
<1>2. /\ UNCHANGED <<entry, cache, scan, queued, inFlight, needs>>
      /\ disk \in Files /\ written \in Nat /\ written' >= written
      /\ \/ disk' = NoFile /\ written' = written
         \/ disk # NoFile /\ disk'.gen = disk.gen /\ disk'.size = disk.size + 1 /\ written' = disk.gen /\ disk' \in Files
         \/ disk = NoFile /\ deleting = "no" /\ disk'.gen = written + 1 /\ written' = written + 1 /\ disk' \in Files
  BY DEF AppendHalf, Delete, CatalogInv, CatalogShape, Files, DiskIsLast
<1>3. DiskIsLast' /\ ScanCovers' /\ CallersOnce'
  BY <1>2 DEF DiskIsLast, NoFile, Files, ScanCovers, Covered, CallersOnce
<1>4. NeedsOfDisk'
  <2> SUFFICES ASSUME NEW c \in Awaiting \cup (queued \ {Watch})
               PROVE needs[c].written <= written' /\ (disk'.gen = 0 \/ After(needs[c], disk'))
    BY <1>2 DEF NeedsOfDisk, Awaiting, After
  <2>1. /\ needs[c].file.gen \in {0, needs[c].written} /\ needs[c].written <= written
        /\ needs[c].written \in Nat /\ needs[c].file.size \in Nat /\ (disk.gen = 0 \/ After(needs[c], disk))
    BY DEF NeedsOfDisk, CallersOnce, Awaiting, Files
  <2> QED  BY <1>2, <2>1 DEF After, NoFile, Files, DiskIsLast
<1>5. ScanAfter'
  BY <1>2 DEF ScanAfter, ScanOfFile, CatalogInv, CatalogShape, Awaiting, After, NoFile, Files
<1>6. PublishSees'
  <2> SUFFICES ASSUME scan.stage = "publish", NEW c \in Awaiting PROVE Shows(needs[c], scan.result)'
    BY <1>2 DEF PublishSees, Awaiting
  <2>1. Shows(needs[c], scan.result)
    BY DEF PublishSees
  <2>2. needs[c].file.gen \in {0, needs[c].written} /\ needs[c].written <= written /\ needs[c].written \in Nat
    BY DEF NeedsOfDisk, CallersOnce, Awaiting
  <2> QED  BY <1>2, <2>1, <2>2 DEF Shows, Lines, NoFile, Files
<1> QED  BY <1>1, <1>2, <1>3, <1>4, <1>5, <1>6 DEF KeepsOrShows

\* A call of refresh, by one that does not wait already or by the watch.
LEMMA RefreshShows ==
  ASSUME RefreshInv, CatalogInv', NEW c \in Everyone, Refresh(c), c # Watch => c \notin inFlight \cup queued,
         UNCHANGED <<disk, written, entry, cache>>
  PROVE RefreshInv' /\ KeepsOrShows
<1> USE DEF RefreshInv
<1> DEFINE need == [file |-> disk, written |-> written]
<1>1. needs' = [needs EXCEPT ![c] = need] /\ need \in [file : Files, written : Nat]
  BY DEF Refresh, CatalogInv, CatalogShape
<1>2. needs' \in [Everyone -> [file : Files, written : Nat]] /\ needs'[c] = need
      /\ \A d \in Everyone \ {c} : needs'[d] = needs[d]
  BY <1>1 DEF NeedsOfDisk
<1>3. \/ /\ scan.stage = "none" /\ inFlight = {} /\ queued = {} /\ inFlight' = {c} /\ queued' = {}
         /\ scan'.stage = "discover" /\ scan'.result = scan.result /\ scan'.file = scan.file
      \/ scan.stage # "none" /\ scan' = scan /\ inFlight' = inFlight /\ queued' = queued \cup {c}
  BY DEF Refresh, JoinScan, CallersOnce, CatalogInv, CatalogShape
<1>4. CallersOnce'
  BY <1>3 DEF CallersOnce
<1>5. DiskIsLast' /\ ScanCovers'
  BY <1>3 DEF DiskIsLast, ScanCovers, Covered
<1>6. NeedsOfDisk'
  BY <1>2, <1>3 DEF NeedsOfDisk, DiskIsLast, Awaiting, After, NoFile, CallersOnce, CatalogInv, CatalogShape, Files
<1>7. ScanAfter'
  BY <1>2, <1>3 DEF ScanAfter, Awaiting, CallersOnce, After
<1>8. PublishSees'
  BY <1>2, <1>3 DEF PublishSees, Awaiting, CallersOnce, Shows, Lines
<1> QED  BY <1>3, <1>4, <1>5, <1>6, <1>7, <1>8 DEF KeepsOrShows

LEMMA QueueShows == ASSUME RefreshInv, QueueRuns PROVE RefreshInv' /\ KeepsOrShows
<1> USE DEF RefreshInv
<1>1. CatalogInv' /\ scan'.stage = "discover" /\ scan.stage = "over"
  BY QueueKeeps DEF QueueRuns, NoScan
<1>2. UNCHANGED <<disk, written, entry, cache, needs>> /\ inFlight = {} /\ inFlight' = queued /\ queued' = {}
  BY DEF QueueRuns, diskVars
<1>3. NeedsOfDisk'
  BY <1>2 DEF NeedsOfDisk, Awaiting, After
<1> QED
  BY <1>1, <1>2, <1>3 DEF DiskIsLast, ScanAfter, ScanCovers, Covered, PublishSees, CallersOnce, KeepsOrShows

\* A step of the scan only changes the scan.
LEMMA ScanShows ==
  ASSUME RefreshInv, CatalogInv', ScanOnly, scan.stage # "publish",
         scan'.stage \in {"check", "read", "hash", "publish"},
         ScanAfter', ScanCovers', PublishSees'
  PROVE RefreshInv' /\ KeepsOrShows
BY DEF ScanOnly, diskVars, RefreshInv, DiskIsLast, NeedsOfDisk, Awaiting, After, CallersOnce, KeepsOrShows

\* Whoever waits sees that a file it saw is gone.
LEMMA GoneShows ==
  ASSUME RefreshInv, disk = NoFile, NEW c \in Awaiting PROVE Shows(needs[c], NoEntry)
BY DEF RefreshInv, NeedsOfDisk, CallersOnce, Awaiting, Shows, Lines, NoEntry, NoFile, Files

LEMMA DiscoverShows == ASSUME RefreshInv, Discover PROVE RefreshInv' /\ KeepsOrShows
<1> USE DEF RefreshInv
<1>1. CatalogInv' /\ scan.stage = "discover" /\ ScanOnly
  BY DiscoverKeeps DEF Discover, Scanning
<1>2. scan'.result = NoEntry /\ scan'.file = disk /\ scan'.stage = IF disk = NoFile THEN "publish" ELSE "check"
  BY DEF Discover, Scanning, NoScan
<1>3. ScanAfter'
  BY <1>1, <1>2 DEF ScanOnly, diskVars, ScanAfter, NeedsOfDisk, DiskIsLast, Awaiting, After, CatalogInv, CatalogShape, Files
<1>4. ScanCovers'
  BY <1>1, <1>2 DEF ScanOnly, ScanCovers, Covered, NoEntry
<1>5. PublishSees'
  BY <1>1, <1>2, GoneShows DEF ScanOnly, diskVars, PublishSees, Awaiting, Shows
<1> QED  BY <1>1, <1>2, <1>3, <1>4, <1>5, ScanShows

\* A summary of the file a scan found is of all its callers saw.
LEMMA FileShows ==
  ASSUME RefreshInv, NEW c \in Awaiting, After(needs[c], scan.file), scan.file.gen # 0,
         NEW e \in AnyEntry, e.gen = scan.file.gen, e.size = scan.file.size, Covered(e)
  PROVE Shows(needs[c], e)
<1>1. needs[c].file.size \in Nat /\ e.size \in Nat /\ needs[c].written \in Nat
  BY DEF RefreshInv, NeedsOfDisk, CallersOnce, Awaiting, Files, AnyEntry
<1>2. CASE e.gen = needs[c].file.gen
  <2>1. e.size >= needs[c].file.size
    BY <1>2 DEF After
  <2>2. e.size \div 2 >= needs[c].file.size \div 2 /\ e.size \div 2 \in Nat /\ needs[c].file.size \div 2 \in Nat
    BY <1>1, <2>1, MoreLines
  <2> QED  BY <1>2, <2>2 DEF Shows, Covered, Lines, AnyEntry
<1>3. CASE e.gen # needs[c].file.gen
  BY <1>3 DEF Shows, After
<1> QED  BY <1>2, <1>3

LEMMA SummarizeShows == ASSUME RefreshInv, Summarize PROVE RefreshInv' /\ KeepsOrShows
<1> USE DEF RefreshInv
<1> DEFINE file == scan.file
           new == [gen |-> file.gen, size |-> file.size, head |-> 0,
                   offset |-> IF Grown(file) THEN entry.offset ELSE 0, seen |-> IF Grown(file) THEN entry.seen ELSE {}]
           same == entry # NoEntry /\ entry.gen = file.gen /\ entry.size = file.size
<1>1. CatalogInv' /\ scan.stage = "check" /\ ScanOnly /\ file.gen # 0 /\ entry \in AnyEntry
  BY SummarizeKeeps DEF Summarize, Scanning, CatalogInv, CatalogShape, ScanOfFile
<1>2. scan' = IF same THEN [scan EXCEPT !.stage = "publish", !.result = entry] ELSE [scan EXCEPT !.stage = "read", !.result = new]
  BY DEF Summarize, Scanning
<1>3. new.gen = file.gen /\ new.size = file.size
  OBVIOUS
<1> HIDE DEF new
<1>4. /\ scan'.file = file
      /\ \/ scan'.stage = "publish" /\ scan'.result = entry /\ same
         \/ scan'.stage = "read" /\ scan'.result = new
  BY <1>2 DEF CatalogInv, CatalogShape
<1>5. ScanAfter' /\ ScanCovers'
  BY <1>1, <1>3, <1>4 DEF ScanOnly, diskVars, ScanAfter, ScanCovers, Covered, Awaiting, After
<1>6. PublishSees'
  BY <1>1, <1>4, FileShows DEF ScanOnly, diskVars, PublishSees, ScanAfter, ScanCovers, Awaiting, Shows
<1> QED  BY <1>1, <1>4, <1>5, <1>6, ScanShows

LEMMA ReadShows == ASSUME RefreshInv, ReadRecords PROVE RefreshInv' /\ KeepsOrShows
<1> USE DEF RefreshInv
<1> DEFINE upTo == IF disk.size < scan.file.size THEN Lines(disk) ELSE Lines(scan.file)
           fresh == LinesAfter(disk.gen, scan.result.offset, upTo)
           offset == scan.result.offset + Cardinality(fresh)
<1>1. CatalogInv' /\ scan.stage = "read" /\ ScanOnly
  BY ReadKeeps DEF ReadRecords, Scanning
<1>2. CASE disk = NoFile
  <2>1. scan' = [scan EXCEPT !.stage = "publish", !.result = NoEntry]
    BY <1>2 DEF ReadRecords, Scanning
  <2>2. scan'.stage = "publish" /\ scan'.result = NoEntry
    BY <2>1 DEF CatalogInv, CatalogShape
  <2>3. ScanAfter' /\ ScanCovers' /\ PublishSees'
    BY <1>1, <1>2, <2>2, GoneShows
       DEF ScanOnly, diskVars, ScanAfter, ScanCovers, Covered, NoEntry, PublishSees, Awaiting, Shows
  <2> QED  BY <1>1, <2>2, <2>3, ScanShows
<1>3. CASE disk # NoFile
  <2>1. scan' = [scan EXCEPT !.stage = "hash", !.result.seen = @ \cup fresh, !.result.offset = offset]
    BY <1>3 DEF ReadRecords, Scanning, LinesAfter
  <2>2. disk.gen = scan.file.gen /\ disk.size >= scan.file.size /\ disk.gen \in Nat /\ scan.result.offset \in Nat
        /\ disk.size \in Nat /\ scan.file.size \in Nat
    BY <1>1, <1>3 DEF CatalogInv, CatalogShape, ScanOfFile, ScanAfter, Files, AnyEntry
  <2>3. upTo = Lines(scan.file) /\ Lines(scan.file) \in Nat
    BY <2>2, WholeLines DEF CatalogInv, CatalogShape
  <2> HIDE DEF upTo
  <2>4. offset \in Nat /\ offset >= Lines(scan.file)
    <3>1. Cardinality(fresh) \in Nat /\ scan.result.offset + Cardinality(fresh) >= upTo
      BY <2>2, <2>3, ReadingOn
    <3> HIDE DEF fresh
    <3> QED  BY <2>2, <2>3, <3>1
  <2> HIDE DEF offset, fresh
  <2>5. /\ scan'.stage = "hash" /\ scan'.file = scan.file /\ scan'.result.offset = offset
        /\ scan'.result.gen = scan.result.gen /\ scan'.result.size = scan.result.size
    BY <2>1 DEF CatalogInv, CatalogShape, AnyEntry
  <2>6. ScanAfter' /\ ScanCovers' /\ PublishSees'
    BY <1>1, <2>4, <2>5 DEF ScanOnly, diskVars, ScanAfter, ScanCovers, Covered, Lines, PublishSees, Awaiting, After
  <2> QED  BY <1>1, <2>5, <2>6, ScanShows
<1> QED  BY <1>2, <1>3

LEMMA HashShows == ASSUME RefreshInv, HashHead PROVE RefreshInv' /\ KeepsOrShows
<1> USE DEF RefreshInv
<1> DEFINE result == IF disk = NoFile THEN NoEntry ELSE [scan.result EXCEPT !.head = disk.gen]
<1>1. CatalogInv' /\ scan.stage = "hash" /\ ScanOnly /\ scan' = [scan EXCEPT !.stage = "publish", !.result = result]
  BY HashKeeps DEF HashHead, Scanning
<1>2. scan'.stage = "publish" /\ scan'.result = result /\ result \in AnyEntry
  BY <1>1 DEF CatalogInv, CatalogShape
<1>3. Covered(result) /\ \A c \in Awaiting : Shows(needs[c], result)
  <2>1. CASE disk = NoFile
    BY <2>1, GoneShows DEF Covered, NoEntry
  <2>2. CASE disk # NoFile
    <3>1. result.gen = scan.file.gen /\ result.size = scan.file.size /\ result.offset = scan.result.offset /\ scan.file.gen # 0
      BY <1>1, <2>2 DEF ScanCovers, CatalogInv, CatalogShape, AnyEntry, ScanOfFile
    <3>2. Covered(result)
      BY <1>1, <3>1 DEF ScanCovers, Covered
    <3> HIDE DEF result
    <3> QED  BY <1>1, <1>2, <3>1, <3>2, FileShows DEF ScanAfter
  <2> QED  BY <2>1, <2>2
<1> HIDE DEF result
<1>4. ScanAfter' /\ ScanCovers' /\ PublishSees'
  BY <1>1, <1>2, <1>3 DEF ScanOnly, diskVars, ScanAfter, ScanCovers, Covered, PublishSees, Awaiting, Shows
<1> QED  BY <1>1, <1>2, <1>4, ScanShows

\* The callers of the scan go on as its summary is the catalog's.
LEMMA PublishShows == ASSUME RefreshInv, NEW fails \in BOOLEAN, Publish(fails) PROVE RefreshInv' /\ KeepsOrShows
<1> USE DEF RefreshInv
<1>1. CatalogInv' /\ UNCHANGED <<disk, written, cache, queued>> /\ inFlight' = {}
      /\ scan'.stage \in {"none", "over"} /\ (scan'.stage = "none" => queued = {})
      /\ needs' = [c \in Everyone |-> IF c \in inFlight THEN NoNeed ELSE needs[c]]
      /\ \/ scan.stage # "publish" /\ entry' = entry
         \/ scan.stage = "publish" /\ entry' = scan.result
  BY PublishKeeps DEF Publish, NoScan
<1>2. NoNeed \in [file : Files, written : Nat]
  BY DEF NoNeed, NoFile, Files
<1>3. NeedsOfDisk'
  BY <1>1, <1>2 DEF NeedsOfDisk, Awaiting, After, CallersOnce
<1>4. DiskIsLast' /\ ScanAfter' /\ ScanCovers' /\ PublishSees' /\ CallersOnce'
  BY <1>1 DEF DiskIsLast, ScanAfter, ScanCovers, Covered, PublishSees, CallersOnce
<1>5. KeepsOrShows
  BY <1>1 DEF PublishSees, Awaiting, Shows, KeepsOrShows
<1> QED  BY <1>1, <1>3, <1>4, <1>5

LEMMA RestartShows == ASSUME RefreshInv, restarts \in Nat, Restart PROVE RefreshInv' /\ KeepsOrShows
<1> USE DEF RefreshInv
<1> DEFINE need == [file |-> disk, written |-> written]
<1>1. /\ CatalogInv' /\ UNCHANGED <<disk, written, cache>> /\ entry' = cache
      /\ queued' = {} /\ inFlight' = {Start} /\ scan'.stage = "discover"
      /\ needs' = [[c \in Everyone |-> NoNeed] EXCEPT ![Start] = need]
  BY RestartKeeps DEF Restart, NoScan
<1>2. NoNeed \in [file : Files, written : Nat] /\ need \in [file : Files, written : Nat] /\ Start \in Everyone
  BY DEF NoNeed, NoFile, Files, CatalogInv, CatalogShape, Everyone, Waiting
<1>3. needs' \in [Everyone -> [file : Files, written : Nat]] /\ needs'[Start] = need
  BY <1>1, <1>2
<1>4. NeedsOfDisk'
  BY <1>1, <1>3 DEF NeedsOfDisk, DiskIsLast, Awaiting, After, NoFile, CatalogInv, CatalogShape, Files
<1>5. DiskIsLast' /\ ScanAfter' /\ ScanCovers' /\ PublishSees' /\ CallersOnce'
  BY <1>1, <1>2 DEF DiskIsLast, ScanAfter, ScanCovers, Covered, PublishSees, CallersOnce
<1>6. KeepsOrShows
  BY DEF Restart, KeepsOrShows
<1> QED  BY <1>1, <1>4, <1>5, <1>6

LEMMA RefreshStepShows ==
  ASSUME RefreshInv, restarts \in Nat, [CatalogNext]_catalogVars
  PROVE RefreshInv' /\ restarts' \in Nat /\ [KeepsOrShows]_catalogVars
<1>0. CatalogInv'
  BY CatalogStepKeeps DEF RefreshInv
<1>1. restarts' \in Nat
  BY DEF CatalogNext, catalogVars, diskVars, ScanOnly, AppendHalf, Delete, RefreshDeleted, WatchFires, QueueRuns, Discover,
         Summarize, ReadRecords, HashHead, WriteCache, Restart, CallRefresh, Publish
<1>2. ASSUME NEW c \in Callers, CallRefresh(c) PROVE RefreshInv' /\ KeepsOrShows
  BY <1>0, <1>2, RefreshShows DEF CallRefresh, diskVars, Everyone, Waiting
<1>3. ASSUME RefreshDeleted PROVE RefreshInv' /\ KeepsOrShows
  <2>1. Truncate \notin inFlight \cup queued
    BY <1>3 DEF RefreshDeleted, RefreshInv, CatalogInv, DeletionAwaits
  <2> QED  BY <1>0, <1>3, <2>1, RefreshShows DEF RefreshDeleted, Everyone, Waiting
<1>4. ASSUME WatchFires PROVE RefreshInv' /\ KeepsOrShows
  BY <1>0, <1>4, RefreshShows DEF WatchFires, diskVars, Everyone
<1>5. ASSUME WriteCache PROVE RefreshInv' /\ KeepsOrShows
  BY <1>0, <1>5 DEF WriteCache, diskVars, RefreshInv, DiskIsLast, NeedsOfDisk, Awaiting, After, ScanAfter, ScanCovers, Covered,
                    PublishSees, Shows, CallersOnce, KeepsOrShows
<1>6. ASSUME UNCHANGED catalogVars PROVE RefreshInv'
  BY <1>0, <1>6 DEF catalogVars, RefreshInv, DiskIsLast, NeedsOfDisk, Awaiting, After, ScanAfter, ScanCovers, Covered,
                    PublishSees, Shows, CallersOnce
<1> QED
  BY <1>1, <1>2, <1>3, <1>4, <1>5, <1>6, WritesShow, QueueShows, DiscoverShows, SummarizeShows, ReadShows, HashShows,
     PublishShows, RestartShows DEF CatalogNext

\* Who awaits a refresh sees what was written, or deleted, before it asked
\* (NativeSessionCatalog.refresh, refreshQueued, scan), for any number of
\* callers that join scans, and however files grow, go and come meanwhile.
THEOREM RefreshesSee == CatalogSpec => RefreshSees
<1>1. CatalogInit => RefreshInv /\ restarts \in Nat
  BY RefreshStarts DEF CatalogInit
<1>2. RefreshInv /\ restarts \in Nat /\ [CatalogNext]_catalogVars
        => RefreshInv' /\ (restarts \in Nat)'
           /\ [\A c \in inFlight \ {Watch} :
                  scan.stage = "publish" /\ restarts' = restarts /\ c \notin inFlight' => Shows(needs[c], entry')]_catalogVars
  BY RefreshStepShows DEF KeepsOrShows
<1> QED  BY <1>1, <1>2, PTL DEF CatalogSpec, RefreshSees
=============================================================================
