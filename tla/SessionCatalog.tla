---------------------------- MODULE SessionCatalog ----------------------------
(* NativeSessionCatalog (native/catalog.ts): the summary of a transcript that *)
(* grows, is deleted and is written anew, kept up to date by scans that read  *)
(* what was added since the last one, by a cache over restarts, and by watches.*)
(*                                                                            *)
(* One transcript of a watched project.  A line is two units of size, one once*)
(* it is half written; its summary is the set of lines it was reduced from.   *)
(* A file's mtime and size are told by which file it is (gen) and its size.   *)
EXTENDS Naturals, FiniteSets

CONSTANTS
    Callers,      \* who calls refresh: requests, the end of turns
    MaxLines,     \* lines of a transcript
    MaxFiles,     \* times it is written anew
    MaxRestarts,  \* times the daemon restarts
    MaxCalls      \* calls of refresh

ASSUME CatalogAssumption ==
    /\ {MaxLines, MaxFiles} \subseteq Nat \ {0} /\ {MaxRestarts, MaxCalls} \subseteq Nat
    /\ \A c \in {"start", "watch", "truncate"} : c \notin Callers

VARIABLES
    disk,       \* the file: which one (0: there is none) and its size
    written,    \* files written so far
    deleting,   \* ClaudeThreads.truncate or discard, and the refresh it awaits
    entry,      \* the catalog's entry
    cache,      \* the entry in the cache file
    cacheTimer,
    scan,       \* the scan in flight, or none
    queued,     \* callers of refreshQueued, the scan after it
    inFlight,   \* callers of refreshInFlight
    needs,      \* per caller that waits, the file as it was when it asked
    changed,    \* the watch's debounce timer runs
    restarts,
    called

catalogVars == <<disk, written, deleting, entry, cache, cacheTimer, scan, queued, inFlight,
                 needs, changed, restarts, called>>
diskVars == <<disk, written, deleting, restarts>>

NoFile == [gen |-> 0, size |-> 0]
NoEntry == [gen |-> 0, size |-> 0, head |-> 0, offset |-> 0, seen |-> {}]
NoNeed == [file |-> NoFile, written |-> 0]
NoScan == [stage |-> "none", file |-> NoFile, result |-> NoEntry]
Start == "start"
Watch == "watch"
Truncate == "truncate"
Waiting == Callers \cup {Start, Truncate}   \* nobody awaits the watch's refresh
Everyone == Waiting \cup {Watch}
Lines(file) == file.size \div 2

\* ClaudeThreads.start awaits a refresh before it serves.
CatalogInit ==
    /\ disk \in {NoFile, [gen |-> 1, size |-> 2]} /\ written = disk.gen /\ deleting = "no"
    /\ entry = NoEntry /\ cache = NoEntry /\ cacheTimer = FALSE
    /\ scan = [NoScan EXCEPT !.stage = "discover"] /\ queued = {} /\ inFlight = {Start} /\ changed = FALSE
    /\ needs = [[c \in Everyone |-> NoNeed] EXCEPT ![Start] = [file |-> disk, written |-> written]]
    /\ restarts = 0 /\ called = 0

Entries == [gen : 0 .. MaxFiles, size : 0 .. 2 * MaxLines, head : 0 .. MaxFiles, offset : 0 .. MaxLines,
            seen : SUBSET ((1 .. MaxFiles) \X (1 .. MaxLines))]
CatalogTypeOK ==
    /\ disk \in [gen : 0 .. MaxFiles, size : 0 .. 2 * MaxLines] /\ written \in 0 .. MaxFiles
    /\ deleting \in {"no", "deleted", "waiting"} /\ entry \in Entries /\ cache \in Entries
    /\ cacheTimer \in BOOLEAN /\ changed \in BOOLEAN
    /\ scan.stage \in {"none", "discover", "check", "read", "hash", "publish", "over"} /\ scan.result \in Entries
    /\ queued \subseteq Everyone /\ inFlight \subseteq Everyone /\ queued \cap inFlight \subseteq {Watch}
    /\ restarts \in 0 .. MaxRestarts /\ called \in 0 .. MaxCalls

-----------------------------------------------------------------------------
(* Claude, and CCodex's deletions *)

\* A line is written in two halves; the session starts its transcript with one.
AppendHalf ==
    /\ IF disk = NoFile
       THEN deleting = "no" /\ written < MaxFiles /\ disk' = [gen |-> written + 1, size |-> 1]
       ELSE disk.size < 2 * MaxLines /\ disk' = [disk EXCEPT !.size = @ + 1]
    /\ written' = disk'.gen /\ changed' = TRUE
    /\ UNCHANGED <<deleting, entry, cache, cacheTimer, scan, queued, inFlight, needs, restarts, called>>

\* Everything is rolled back: the file goes, and the session starts over once
\* the refresh after it has returned.
Delete ==
    /\ disk # NoFile /\ deleting = "no" /\ deleting' = "deleted" /\ disk' = NoFile /\ changed' = TRUE
    /\ UNCHANGED <<written, entry, cache, cacheTimer, scan, queued, inFlight, needs, restarts, called>>

-----------------------------------------------------------------------------
(* refresh *)

\* Mutant: a caller shares the scan in flight.
ShareScan(c) ==
    /\ inFlight' = inFlight \cup {c} /\ queued' = queued
    /\ scan' = IF scan.stage = "none" THEN [scan EXCEPT !.stage = "discover"] ELSE scan

\* A scan in flight may have begun before what the caller wrote: one follows.
JoinScan(c) ==
    IF scan.stage = "none"
    THEN inFlight' = inFlight \cup {c} /\ scan' = [scan EXCEPT !.stage = "discover"] /\ UNCHANGED queued
    ELSE queued' = queued \cup {c} /\ UNCHANGED <<inFlight, scan>>

Refresh(c) ==
    JoinScan(c) /\ needs' = [needs EXCEPT ![c] = [file |-> disk, written |-> written]]

CallRefresh(c) ==
    /\ c \in Callers /\ c \notin inFlight \cup queued /\ called < MaxCalls /\ called' = called + 1 /\ Refresh(c)
    /\ UNCHANGED <<diskVars, entry, cache, cacheTimer, changed>>

RefreshDeleted ==
    /\ deleting = "deleted" /\ deleting' = "waiting" /\ Refresh(Truncate)
    /\ UNCHANGED <<disk, written, restarts, entry, cache, cacheTimer, changed, called>>

\* The watch's timer, some time after the last change.
WatchFires ==
    /\ changed /\ changed' = FALSE /\ Refresh(Watch)
    /\ UNCHANGED <<diskVars, entry, cache, cacheTimer, called>>

\* Mutant: the queued refresh is not cleared as it starts.
QueueStays ==
    /\ queued # {} /\ scan.stage = "over" /\ inFlight = {}
    /\ inFlight' = queued /\ queued' = queued /\ scan' = [NoScan EXCEPT !.stage = "discover"]
    /\ UNCHANGED <<diskVars, entry, cache, cacheTimer, needs, changed, called>>

\* The scan in flight is over: its callers go on before those queued, who have
\* a scan of their own, or one more if a caller has started one meanwhile.
QueueRuns ==
    /\ queued # {} /\ scan.stage = "over" /\ inFlight = {}
    /\ inFlight' = queued /\ queued' = {} /\ scan' = [NoScan EXCEPT !.stage = "discover"]
    /\ UNCHANGED <<diskVars, entry, cache, cacheTimer, needs, changed, called>>

-----------------------------------------------------------------------------
(* scan: each step is an await of its own *)

Scanning(from, to) == scan.stage = from /\ scan' = to
ScanOnly == UNCHANGED <<diskVars, entry, cache, cacheTimer, queued, inFlight, needs, changed, called>>

Discover ==
    /\ Scanning("discover", [NoScan EXCEPT !.stage = IF disk = NoFile THEN "publish" ELSE "check", !.file = disk])
    /\ ScanOnly

\* Mutant: a file that is no shorter is taken for the one that was there.
LongerOnly(file) == entry # NoEntry /\ file.size >= 2 * entry.offset

Grown(file) == entry # NoEntry /\ file.size >= 2 * entry.offset /\ disk.gen = entry.head

\* As it was at the last scan; or longer, with the head it had; or another.
Summarize ==
    /\ LET file == scan.file
           same == entry # NoEntry /\ entry.gen = file.gen /\ entry.size = file.size
           new == [gen |-> file.gen, size |-> file.size, head |-> 0,
                   offset |-> IF Grown(file) THEN entry.offset ELSE 0, seen |-> IF Grown(file) THEN entry.seen ELSE {}]
       IN Scanning("check", IF same THEN [scan EXCEPT !.stage = "publish", !.result = entry]
                            ELSE [scan EXCEPT !.stage = "read", !.result = new])
    /\ ScanOnly

\* What is whole in the file by now, up to the size it had; half a line waits.
ReadRecords ==
    /\ LET upTo == IF disk.size < scan.file.size THEN Lines(disk) ELSE Lines(scan.file)
           fresh == { <<disk.gen, i>> : i \in scan.result.offset + 1 .. upTo }
       IN Scanning("read", IF disk = NoFile THEN [scan EXCEPT !.stage = "publish", !.result = NoEntry]
                           ELSE [scan EXCEPT !.stage = "hash", !.result.seen = @ \cup fresh,
                                             !.result.offset = @ + Cardinality(fresh)])
    /\ ScanOnly

HashHead ==
    /\ Scanning("hash", [scan EXCEPT !.stage = "publish",
                                     !.result = IF disk = NoFile THEN NoEntry ELSE [@ EXCEPT !.head = disk.gen]])
    /\ ScanOnly

\* The catalog takes what was scanned, or keeps what it had as the scan fails.
Publish(fails) ==
    /\ IF fails THEN scan.stage \in {"discover", "check", "read", "hash"} ELSE scan.stage = "publish"
    /\ IF fails THEN UNCHANGED <<entry, cacheTimer>>
       ELSE /\ entry' = scan.result
            /\ cacheTimer' = (cacheTimer \/ <<entry.gen, entry.size, entry.offset>>
                                # <<scan.result.gen, scan.result.size, scan.result.offset>>)
    /\ scan' = [NoScan EXCEPT !.stage = IF queued = {} THEN "none" ELSE "over"]
    /\ inFlight' = {} /\ needs' = [c \in Everyone |-> IF c \in inFlight THEN NoNeed ELSE needs[c]]
    /\ deleting' = IF Truncate \in inFlight THEN "no" ELSE deleting
    /\ UNCHANGED <<disk, written, restarts, cache, queued, changed, called>>

\* Bound: what is cached after the last restart is read by nobody.
WriteCache ==
    /\ cacheTimer /\ restarts < MaxRestarts /\ cacheTimer' = FALSE /\ cache' = entry
    /\ UNCHANGED <<diskVars, entry, scan, queued, inFlight, needs, changed, called>>

\* The daemon is restarted, and scans before it serves; its cache may be older
\* than the file it is about.
Restart ==
    /\ restarts < MaxRestarts /\ restarts' = restarts + 1
    /\ entry' = cache /\ cacheTimer' = FALSE /\ deleting' = "no"
    /\ queued' = {} /\ inFlight' = {Start} /\ scan' = [NoScan EXCEPT !.stage = "discover"]
    /\ needs' = [[c \in Everyone |-> NoNeed] EXCEPT ![Start] = [file |-> disk, written |-> written]] /\ changed' = FALSE
    /\ UNCHANGED <<disk, written, cache, called>>

CatalogNext ==
    \/ AppendHalf \/ Delete \/ RefreshDeleted \/ WatchFires \/ QueueRuns
    \/ Discover \/ Summarize \/ ReadRecords \/ HashHead \/ WriteCache \/ Restart
    \/ \E c \in Callers : CallRefresh(c)
    \/ \E fails \in BOOLEAN : Publish(fails)

CatalogSpec == CatalogInit /\ [][CatalogNext]_catalogVars

-----------------------------------------------------------------------------
\* The summary is of one file, from its start: no line twice or left out, and
\* none of a file that was there before, however scans overlap what is written.
SummaryIsWhole ==
    \A e \in {entry, cache} :
        \E gen \in 0 .. MaxFiles : e.seen = { <<gen, i>> : i \in 1 .. e.offset }

\* A summary that shows the file a caller saw has its whole lines; else that
\* file is gone, and the summary is of none or of a later one.
Shows(need, e) ==
    IF e.gen = need.file.gen THEN e.offset >= Lines(need.file)
    ELSE IF e.gen = 0 THEN disk.gen # need.file.gen ELSE e.gen > need.written

\* Who awaits refresh sees what was written, or deleted, before it asked.
RefreshSees ==
    [][\A c \in inFlight \ {Watch} :
          scan.stage = "publish" /\ restarts' = restarts /\ c \notin inFlight' => Shows(needs[c], entry')]_catalogVars

=============================================================================
