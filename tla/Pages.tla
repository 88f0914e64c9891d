-------------------------------- MODULE Pages --------------------------------
(* Paged reads of a Claude transcript (pages.ts) over the history its graph  *)
(* of records selects (history.ts), as Claude writes on, compacts, and goes  *)
(* on from where the user rolled back to (threads.ts).                       *)
(*                                                                           *)
(* A transcript is a sequence of records, one line each; a record's uuid is  *)
(* its position, and a chunk is a number of lines.  A prompt starts a turn   *)
(* and each API message is one record: steers, tool results and answers      *)
(* Claude goes on after are left out.                                        *)
EXTENDS Naturals, Sequences, FiniteSets, SequencesExt

CONSTANTS
    MaxRecords,   \* records written
    MaxReads,     \* requests served
    KeptTurns,    \* KEPT_TURNS
    RecentWindows,\* RECENT_WINDOWS
    Limit         \* turns on a page

ASSUME PagesAssumption ==
    MaxRecords \in Nat /\ MaxReads \in Nat /\ KeptTurns \in Nat \ {0} /\ Limit \in Nat \ {0}

VARIABLES
    file,     \* the transcript: records, oldest first
    leaf,     \* the record a rollback left as the history's last, or 0
    pagers,   \* per leaf, its TranscriptPages (those of leaf 0 outlive rollbacks)
    asking,   \* the request answered last, or none
    answer,   \* what was answered
    reads

pagesVars == <<file, leaf, pagers, asking, answer, reads>>

LastOf(s) == s[Len(s)]
Whole == [lo |-> 1, hi |-> Len(file)]
EmptyWindow(end) == [lo |-> end + 1, hi |-> end]
Has(w, i) == w.lo <= i /\ i <= w.hi

-----------------------------------------------------------------------------
(* selectHistory *)

\* The latest record that is nobody's parent and part of the conversation.
LatestLeaf(w) ==
    LET ends == { i \in w.lo .. w.hi : file[i].kind # "boundary" /\ \A j \in w.lo .. w.hi : file[j].parent # i }
    IN IF ends = {} THEN 0 ELSE CHOOSE i \in ends : \A j \in ends : j <= i

\* From the leaf back by the parents, past a compaction too.  (The code keeps
\* to records before the compaction from there on: here parents always are.)
RECURSIVE Walk(_, _)
Walk(w, s) ==
    IF s.at = 0 THEN s
    ELSE LET up == IF file[s.at].kind = "boundary" THEN file[s.at].logical ELSE file[s.at].parent
         IN Walk(w, [at |-> IF Has(w, up) THEN up ELSE 0, path |-> <<s.at>> \o s.path, missing |-> up])

\* A path's turns, each the records from its prompt on.
PathTurns(path) ==
    LET starts == SelectSeq([k \in DOMAIN path |-> k], LAMBDA k : file[path[k]].kind = "prompt")
    IN [k \in DOMAIN starts |-> SubSeq(path, starts[k], IF k = Len(starts) THEN Len(path) ELSE starts[k + 1] - 1)]

Selected(w, end, s) ==
    [turns |-> PathTurns(s.path), leaf |-> end, truncated |-> s.missing # 0 /\ ~Has(w, s.missing)]

\* A window's history.
ProjectFrom(w, end) == Selected(w, end, Walk(w, [at |-> end, path |-> <<>>, missing |-> 0]))
Project(w, at) == ProjectFrom(w, IF at # 0 THEN at ELSE LatestLeaf(w))

\* The turn's last record for a rollback: a compaction that ends it is not its.
TurnBoundary(turn) ==
    LET cuts == { k \in 2 .. Len(turn) : file[turn[k]].kind = "boundary"
                                         /\ \A j \in k .. Len(turn) : file[turn[j]].kind # "reply" }
    IN IF cuts = {} THEN LastOf(turn)
       ELSE turn[(CHOOSE k \in cuts : \A j \in cuts : j <= k) - 1]

-----------------------------------------------------------------------------
(* TranscriptPages *)

NewPager == [live |-> EmptyWindow(0), cache |-> <<>>, places |-> <<>>, size |-> 0, recent |-> <<>>]
Larger(a, b) == IF a < b THEN b ELSE a
From(seq, k) == SubSeq(seq, k, Len(seq))

\* Mutant: a page's turns are enough, with no turn more to know of the next page.
EnoughForPage(q, turns) ==
    IF q.want = "newest" THEN Len(turns) >= Limit
    ELSE \E k \in DOMAIN turns : Head(turns[k]) = q.turn /\ (q.want = "around" => k > q.n)

\* Whether the turns read are enough for the request.
Enough(q, turns) ==
    CASE q.want = "newest" -> Len(turns) >= q.n
      [] q.want = "around" -> \E k \in DOMAIN turns : Head(turns[k]) = q.turn /\ k > q.n
      [] q.want = "since" -> \E k \in DOMAIN turns : Head(turns[k]) = q.turn

\* fill: back until the turns are enough, or history starts in the window.
RECURSIVE Fill(_, _, _, _), FillOn(_, _, _, _, _)
Fill(w, at, q, chunk) == FillOn(w, at, q, chunk, Project(w, at))
FillOn(w, at, q, chunk, p) ==
    LET older == w.lo > 1 /\ (p.truncated \/ p.leaf = 0)
        turns == SubSeq(p.turns, IF older THEN 2 ELSE 1, Len(p.turns))
        ready == w.lo <= w.hi /\ (at = 0 \/ Has(w, at))
    IN  IF ready /\ (~older \/ Enough(q, turns))
        THEN [w |-> w, turns |-> turns, older |-> older, all |-> p.turns]
        ELSE Fill([w EXCEPT !.lo = IF w.lo > chunk THEN w.lo - chunk ELSE 1], at, q, 2 * chunk)

\* index: where the turns read lie, for the requests that go on from them.
Places(r, continues) ==
    LET all == r.all
        known == { k \in DOMAIN all : ~(r.older /\ k = 1) }
        Place(k) ==
            [end |-> IF k < Len(all) THEN Larger(Head(all[k + 1]) - 1, LastOf(all[k]))
                     ELSE IF continues THEN r.w.hi ELSE 0,
             last |-> LastOf(all[k]), boundary |-> TurnBoundary(all[k]),
             previous |-> IF k = 1 THEN 0 ELSE TurnBoundary(all[k - 1])]
    IN [t \in { Head(all[k]) : k \in known } |-> Place(CHOOSE k \in known : Head(all[k]) = t)]

Recent(pager) == IF pager.size = Len(file) THEN pager.recent ELSE <<>>
Remember(recent, window) ==
    LET all == <<window>> \o SelectSeq(recent, LAMBDA other : other # window)
    IN SubSeq(all, 1, IF Len(all) < RecentWindows THEN Len(all) ELSE RecentWindows)

Indexed(new, places) ==
    [t \in DOMAIN new \cup DOMAIN places |-> IF t \in DOMAIN new THEN new[t] ELSE places[t]]

Read(pager, turns, older) == [pager |-> pager, turns |-> turns, older |-> older]

\* The live window as it was filled, cut once it is more than twice what is kept.
Renewed(pager, q, kept, fresh, r) ==
    LET cut == Len(r.all) - kept
        trims == Len(r.turns) > 2 * kept /\ cut > 0 /\ Enough(q, From(r.turns, Len(r.turns) - kept + 1))
        window == [turns |-> r.turns, older |-> r.older]
    IN Read([live |-> IF trims THEN [r.w EXCEPT !.lo = Head(r.all[cut])] ELSE r.w,
             cache |-> IF trims THEN (IF fresh THEN <<>> ELSE pager.cache) ELSE <<r.w, window>>,
             places |-> Indexed(Places(r, FALSE), IF fresh THEN <<>> ELSE pager.places),
             size |-> Len(file), recent |-> Remember(Recent(pager), window)],
            r.turns, r.older)

\* liveWindow: the newest part of the file, which follows Claude's writes.
LiveWindow(pager, q, keep) ==
    LET fresh == pager.live.hi = 0 \/ Len(file) < pager.live.hi
        live == IF fresh THEN EmptyWindow(Len(file)) ELSE [pager.live EXCEPT !.hi = Len(file)]
    IN  IF ~fresh /\ pager.cache # <<>> /\ pager.cache[1] = live
           /\ (~pager.cache[2].older \/ Enough(q, pager.cache[2].turns))
        THEN Read([pager EXCEPT !.size = Len(file), !.recent = Remember(Recent(pager), pager.cache[2])],
                  pager.cache[2].turns, pager.cache[2].older)
        ELSE Renewed(pager, q, Larger(keep, KeptTurns), fresh, Fill(live, leaf, q, 1))

Want(want, turn, n) == [want |-> want, turn |-> turn, n |-> n]
Newest(pager, n) == LiveWindow(pager, Want("newest", 0, n), n)
Since(pager, turn) == LiveWindow(pager, Want("since", turn, 0), 1)

Reached(pager, n, r) ==
    Read([pager EXCEPT !.places = Indexed(Places(r, TRUE), @), !.size = Len(file),
                       !.recent = Remember(IF n = 0 THEN Recent(pager) ELSE pager.recent,
                                           [turns |-> r.turns, older |-> r.older])],
         r.turns, r.older)

\* around: a window of its own, back from the turn's end, for a turn that is
\* not the newest; one known lately for its items alone.
AroundKnown(pager, turn, n) ==
    LET place == pager.places[turn]
        known == SelectSeq(Recent(pager), LAMBDA window : \E k \in DOMAIN window.turns : Head(window.turns[k]) = turn)
    IN  CASE place.end = 0 -> LiveWindow(pager, Want("around", turn, n), 1)
          [] place.end # 0 /\ n = 0 /\ known # <<>> ->
                Read([pager EXCEPT !.size = Len(file), !.recent = Recent(pager)], Head(known).turns, Head(known).older)
          [] OTHER -> Reached(pager, n, Fill(EmptyWindow(place.end), place.last, Want("around", turn, n), 1))

Around(pager, turn, n) ==
    AroundKnown(IF turn \in DOMAIN pager.places THEN pager ELSE Since(pager, turn).pager, turn, n)

BoundaryIn(read, turn, inclusive) ==
    LET place == read.pager.places[turn]
    IN [read EXCEPT !.turns = <<IF inclusive THEN place.boundary ELSE place.previous>>]

Boundary(pager, turn, inclusive) ==
    BoundaryIn(IF turn \in DOMAIN pager.places THEN Read(pager, <<>>, FALSE) ELSE Around(pager, turn, 0),
               turn, inclusive)

-----------------------------------------------------------------------------
(* Requests (threads.ts, turnPagination.ts) *)

\* A page of a list of turns, from the cursor's turn on.
Paginate(turns, q) ==
    LET n == Len(turns)
        at == IF q.turn = 0 THEN n ELSE CHOOSE k \in 1 .. n : Head(turns[k]) = q.turn
        keyed == IF q.down THEN Reverse(SubSeq(turns, 1, IF q.turn = 0 \/ q.with THEN at ELSE at - 1))
                 ELSE From(turns, IF q.with THEN at ELSE at + 1)
    IN [data |-> SubSeq(keyed, 1, IF Len(keyed) < Limit THEN Len(keyed) ELSE Limit), more |-> Len(keyed) > Limit]

\* turnsPage, itemsPage and boundaryBefore: the window each reads.
Serve(pager, q) ==
    CASE q.of = "turns" /\ (q.turn = 0 \/ q.running) -> Newest(pager, Limit + 1)
      [] q.of = "turns" /\ q.turn # 0 /\ ~q.running /\ q.down -> Around(pager, q.turn, Limit + 1)
      [] q.of = "turns" /\ q.turn # 0 /\ ~q.running /\ ~q.down -> Since(pager, q.turn)
      [] q.of = "items" /\ q.running -> Newest(pager, 1)
      [] q.of = "items" /\ ~q.running -> Around(pager, q.turn, 0)
      [] q.of = "boundary" -> Boundary(pager, q.turn, q.with)

TurnOf(turns, id) == turns[CHOOSE k \in DOMAIN turns : Head(turns[k]) = id]

Reply(turns, q) ==
    CASE q.of = "turns" -> Paginate(turns, q)
      [] q.of = "items" -> TurnOf(turns, q.turn)
      [] q.of = "boundary" -> turns[1]

History == Project(Whole, leaf).turns

\* What clients ask of a history; the running turn is the newest one.
Questions(turns) ==
    LET ids == { Head(turns[k]) : k \in DOMAIN turns }
        may == IF turns = <<>> THEN {} ELSE { Head(LastOf(turns)) }
        Question(of, turn, with, down, running) ==
            [of |-> of, turn |-> turn, with |-> with, down |-> down, running |-> running]
        Asked(of, withs, downs) ==
            { Question(of, t, with, down, FALSE) : t \in ids, with \in withs, down \in downs }
            \cup { Question(of, t, with, down, TRUE) : t \in may, with \in withs, down \in downs }
    IN  Asked("turns", BOOLEAN, BOOLEAN) \cup Asked("items", {FALSE}, {FALSE})
        \cup { q \in Asked("boundary", BOOLEAN, {FALSE}) : ~q.running }
        \cup {Question("turns", 0, FALSE, TRUE, FALSE)}

Request ==
    /\ file # <<>> /\ reads < MaxReads
    /\ \E q \in Questions(History) :
       \E read \in {Serve(pagers[leaf], q)} :
          /\ pagers' = [pagers EXCEPT ![leaf] = read.pager]
          /\ answer' = Reply(read.turns, q) /\ asking' = q
    /\ reads' = reads + 1 /\ UNCHANGED <<file, leaf>>

-----------------------------------------------------------------------------
(* Claude *)

NoRequest == [of |-> "none"]
Tip == IF leaf # 0 THEN leaf ELSE Project(Whole, 0).leaf
Write(record) ==
    /\ reads < MaxReads /\ Len(file) < MaxRecords /\ file' = Append(file, record)
    /\ asking' = NoRequest /\ answer' = <<>> /\ UNCHANGED <<pagers, reads>>
Compacting == file # <<>> /\ LastOf(file).kind = "boundary"
Record(kind, parent, logical) == [kind |-> kind, parent |-> parent, logical |-> logical]

WritePrompt ==
    /\ ~Compacting /\ Write(Record("prompt", Tip, 0)) /\ leaf' = 0

\* More of the answer, once there is a prompt.
WriteReply ==
    /\ ~Compacting /\ leaf = 0 /\ file # <<>> /\ Write(Record("reply", Tip, 0)) /\ UNCHANGED leaf

\* Claude compacts: a boundary after the history's end, then the summary.
\* (What it keeps as it was is not in the transcript, and links nothing.)
WriteBoundary ==
    /\ ~Compacting /\ leaf = 0 /\ file # <<>>
    /\ Write(Record("boundary", 0, Tip)) /\ UNCHANGED leaf

WriteSummary ==
    /\ Compacting /\ Write(Record("summary", Len(file), 0)) /\ UNCHANGED leaf

\* thread/rollback, thread/revert: the history ends at a turn's last record.
RollBack(k) ==
    /\ reads < MaxReads /\ ~Compacting /\ k \in 1 .. Len(History) - 1 /\ leaf' = TurnBoundary(History[k])
    /\ asking' = NoRequest /\ answer' = <<>> /\ UNCHANGED <<file, pagers, reads>>

\* All is rolled back, or the chat deleted: its transcript and pages go.
DropPages ==
    /\ reads < MaxReads /\ file # <<>> /\ file' = <<>> /\ leaf' = 0
    /\ pagers' = [l \in 0 .. MaxRecords |-> NewPager]
    /\ asking' = NoRequest /\ answer' = <<>> /\ UNCHANGED reads

PagesInit ==
    /\ file = <<>> /\ leaf = 0 /\ pagers = [l \in 0 .. MaxRecords |-> NewPager]
    /\ asking = NoRequest /\ answer = <<>> /\ reads = 0

PagesTypeOK ==
    LET Windows == [lo : 1 .. MaxRecords + 1, hi : 0 .. MaxRecords] IN
    /\ file \in Seq([kind : {"prompt", "reply", "boundary", "summary"}, parent : 0 .. MaxRecords, logical : 0 .. MaxRecords])
    /\ leaf \in 0 .. Len(file) /\ reads \in 0 .. MaxReads
    /\ asking.of \in {"none", "turns", "items", "boundary"}
    /\ \A l \in 0 .. MaxRecords :
          /\ pagers[l].live \in Windows /\ pagers[l].size \in 0 .. MaxRecords /\ Len(pagers[l].cache) <= 2
          /\ Len(pagers[l].recent) <= RecentWindows /\ DOMAIN pagers[l].places \subseteq 1 .. MaxRecords

PagesNext ==
    \/ WritePrompt \/ WriteReply \/ WriteBoundary \/ WriteSummary \/ DropPages \/ Request
    \/ \E k \in 1 .. MaxRecords : RollBack(k)

-----------------------------------------------------------------------------
\* What a turn says, but for the marks of compactions.
Said(turn) == SelectSeq(turn, LAMBDA i : file[i].kind \in {"prompt", "reply"})

Expected(q) ==
    LET turns == History IN
    IF q.of = "boundary"
    THEN LET k == CHOOSE k \in DOMAIN turns : Head(turns[k]) = q.turn
         IN IF q.with THEN TurnBoundary(turns[k]) ELSE IF k = 1 THEN 0 ELSE TurnBoundary(turns[k - 1])
    ELSE Reply(turns, q)

PageRight ==
    LET page == Expected(asking) IN
    /\ answer.more = page.more /\ Len(answer.data) = Len(page.data)
    /\ \A k \in DOMAIN page.data : Said(answer.data[k]) = Said(page.data[k])

BeforeRunning(q) == q.running /\ q.down /\ ~q.with

\* A page, and a turn's items, are those of the whole transcript as it is now.
PagesAreHistory ==
    /\ asking.of = "turns" /\ ~BeforeRunning(asking) => PageRight
    /\ asking.of = "items" => Said(answer) = Said(Expected(asking))

\* A rollback or a fork ends at the turn's last record.
AnchorsAreLast == asking.of = "boundary" => answer = Expected(asking)

=============================================================================
