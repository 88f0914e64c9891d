------------------------------ MODULE Lineages ------------------------------
(***************************************************************************)
(* Chats that switch provider: src/src/gateway/lineage.ts (Lineages) over  *)
(* src/src/meta.ts (Meta).                                                 *)
(*                                                                         *)
(* Each provider keeps its own native threads.  A lineage is a chat's list *)
(* of segments, each a native thread and the last turn of it that counts;  *)
(* a fork's lineage lists its source's older segments too.  A request is a *)
(* call: it takes the segments when it comes in, and goes on after each    *)
(* await with what it took.                                                *)
(***************************************************************************)
EXTENDS Naturals, FiniteSets, Sequences, SequencesExt

CONSTANTS
  Threads,  \* ids of native threads; a chat's id is one of them
  Calls,    \* requests that can be under way at once
  MaxTurn,  \* bound: turns said in all
  MaxRun,   \* bound: runs of the gateway, one after another
  Allow     \* what may happen beyond the careful use the refinement needs, see Hazards

Hazards ==
  {"Overlap",       \* a chat gets a request while another of its own is under way
   "SharedEdits",   \* a thread that another lineage lists is rolled back or deleted natively
   "TwinDrops",     \* two chats that share a segment are deleted or rolled back at once
   "Collisions",    \* Claude cleans up a fork's own thread while another chat has the id the fork is then listed under
   "LostRows",      \* Claude cleans up a fork's own thread before its older ones, or what is before a thread forks list
   "LateFailures",  \* a switch fails after its lineage was set
   "TornCrashes",   \* the gateway ends while a rollback, or a deletion, is half done
   "EmptyChats"}    \* a Claude chat is forked before its first turn, or a stock one without a turn left is switched

ASSUME AllowAssumption == Allow \subseteq Hazards
ASSUME BoundsAssumption == MaxTurn \in Nat /\ MaxRun \in Nat \ {0}

VARIABLES
  provider,     \* the provider of each thread id in use so far
  native,       \* the turns of each thread its provider has
  lineages,     \* meta.json: public id -> segments, oldest first
  newBackends,  \* backends created by switches since the gateway started
  calls,        \* requests under way
  turns,        \* turns said so far: each is its number
  noops,        \* history: turns of compactions that had nothing to compact
  cleaned,      \* history: threads whose transcript Claude's own cleanup removed
  run           \* history: the gateway's runs so far

vars == <<provider, native, lineages, newBackends, calls, turns, noops, cleaned, run>>

Providers == {"codex", "claude"}
Other(p) == IF p = "codex" THEN "claude" ELSE "codex"
Turns == 1 .. MaxTurn
None == 0  \* no turn

\* Segment: lastTurnId is null (None) for the current, the last, segment.
Segment(thread, last) == [thread |-> thread, last |-> last]
Segments == [thread: Threads, last: Turns \cup {None}]

\* f with the value at key.
Put(f, key, value) == [k \in DOMAIN f \cup {key} |-> IF k = key THEN value ELSE f[k]]

(* A call under way: `segs` the segments it took; `at` the segment it forks or keeps to, `count` the turns of that
   segment it keeps; `made` the thread it created; `want` the turns of the chat it asked for. *)
Idle == [step |-> "idle"]
CallRecord == [
  what: {"switch", "fork", "revert", "delete"}, chat: Threads, segs: Seq(Segments), step: {"asked", "ready", "set"},
  at: Nat, count: Nat, drop: BOOLEAN, made: SUBSET Threads, want: Nat]

TypeOK ==
  /\ DOMAIN provider \subseteq Threads /\ \A t \in DOMAIN provider : provider[t] \in Providers
  /\ DOMAIN native \subseteq DOMAIN provider /\ \A t \in DOMAIN native : native[t] \in Seq(1 .. turns)
  /\ DOMAIN lineages \subseteq DOMAIN provider
  /\ \A chat \in DOMAIN lineages :
       lineages[chat] \in Seq(Segments) \ {<< >>} /\ Last(lineages[chat]).last = None
  /\ newBackends \subseteq DOMAIN provider
  /\ DOMAIN calls = Calls /\ \A x \in Calls : calls[x] = Idle \/ calls[x] \in CallRecord
  /\ turns \in 0 .. MaxTurn /\ noops \subseteq 1 .. turns /\ cleaned \subseteq DOMAIN provider
  /\ run \in 1 .. MaxRun

Init ==
  /\ provider = << >> /\ native = << >> /\ lineages = << >> /\ newBackends = {}
  /\ calls = [x \in Calls |-> Idle]
  /\ turns = 0 /\ noops = {} /\ cleaned = {} /\ run = 1

-----------------------------------------------------------------------------
(* Meta: the index of the lineages *)

Lists(segs, thread) == \E i \in DOMAIN segs : segs[i].thread = thread

\* reindex(): threads that are only a part of lineages, and current backends, which read as their chat.
IsHidden(thread) ==
  \/ thread \in newBackends
  \/ thread \notin DOMAIN lineages /\ \E chat \in DOMAIN lineages : Lists(lineages[chat], thread)
Rewritten(thread) == \E chat \in DOMAIN lineages \ {thread} : Last(lineages[chat]).thread = thread

IsBackend(thread) == IsHidden(thread) \/ Rewritten(thread)

SegmentsOf(chat) == IF chat \in DOMAIN lineages THEN lineages[chat] ELSE <<Segment(chat, None)>>
Current(chat) == Last(SegmentsOf(chat)).thread

\* Mutant: threads are taken for no one else's.
SharedByNone(chat, thread) == FALSE

\* Another lineage lists the thread.
Shared(chat, thread) == \E other \in DOMAIN lineages \ {chat} : Lists(lineages[other], thread)

-----------------------------------------------------------------------------
(* History: each segment's turns up to its last one, stitched *)

Cut(segment) ==
  IF segment.thread \notin DOMAIN native THEN << >>
  ELSE LET all == native[segment.thread]
           ends == {k \in DOMAIN all : all[k] = segment.last}
       IN IF ends = {} THEN all ELSE SubSeq(all, 1, CHOOSE k \in ends : TRUE)

\* A history without some turns.
Without(history, out) ==
  LET upTo[k \in 0 .. Len(history)] ==
        IF k = 0 THEN << >> ELSE IF history[k] \in out THEN upTo[k - 1] ELSE Append(upTo[k - 1], history[k])
  IN IF out = {} THEN history ELSE upTo[Len(history)]

\* What a compaction that had nothing to compact says is not shown.
Said(history) == Without(history, noops)

Part(segment) == Said(Cut(segment))
Stitched(segs) ==
  LET upTo[i \in 0 .. Len(segs)] == IF i = 0 THEN << >> ELSE upTo[i - 1] \o Part(segs[i])
  IN upTo[Len(segs)]

\* A Claude segment after a switch starts with a marker turn, made up from its id.
HasMarker(segs, i) == i > 1 /\ provider[segs[i].thread] = "claude"

\* Turns of the chat up to the k-th of the i-th segment.
SaidUpTo(segs, i, k) == Len(Stitched(SubSeq(segs, 1, i - 1))) + Len(Said(SubSeq(Cut(segs[i]), 1, k)))

-----------------------------------------------------------------------------
(* Requests *)

Listed(chat) == (chat \in DOMAIN native \/ chat \in DOMAIN lineages) /\ ~IsBackend(chat)

Busy == {x \in Calls : calls[x] # Idle}
CallsOf(chat) == {x \in Busy : calls[x].chat = chat}

Doing(x, what, step) == calls[x] # Idle /\ calls[x].what = what /\ calls[x].step = step

\* Threads of requests half done, listed for a moment: forks, and backends about to be discarded.
Passing(x) ==
  calls[x].made \cup
    (IF Doing(x, "revert", "set") THEN {calls[x].segs[i].thread : i \in calls[x].at + 1 .. Len(calls[x].segs)} ELSE {})

\* A request on a chat comes in: an id that is a backend's is refused, and one that passes is opened by nobody.
Open(chat) ==
  /\ Listed(chat) /\ Current(chat) \in DOMAIN native
  /\ CallsOf(chat) = {} \/ "Overlap" \in Allow
  /\ \A x \in Busy : chat \notin Passing(x)

\* The turns of every segment can be read.
Readable(chat) == \A i \in DOMAIN SegmentsOf(chat) : SegmentsOf(chat)[i].thread \in DOMAIN native

\* Another chat with a thread of this one is being deleted or rolled back.
TwinDrops(chat) ==
  \E x \in Busy : calls[x].what \in {"revert", "delete"} /\ calls[x].chat # chat
    /\ \E i \in DOMAIN SegmentsOf(chat) : Lists(calls[x].segs, SegmentsOf(chat)[i].thread)

Take(x, what, chat, segs) ==
  /\ calls[x] = Idle
  /\ calls' = [calls EXCEPT ![x] = [what |-> what, chat |-> chat, segs |-> segs, step |-> "asked",
                                   at |-> 0, count |-> 0, drop |-> FALSE, made |-> {}, want |-> 0]]

\* The same for a fork or a rollback to the first `count` turns of segment `at`.
TakeUpTo(x, what, chat, at, count, drop) ==
  /\ calls[x] = Idle
  /\ calls' = [calls EXCEPT ![x] = [what |-> what, chat |-> chat, segs |-> SegmentsOf(chat), step |-> "asked",
                                   at |-> at, count |-> count, drop |-> drop, made |-> {},
                                   want |-> SaidUpTo(SegmentsOf(chat), at, count)]]

Ends(x) == calls' = [calls EXCEPT ![x] = Idle]

\* Something is said in a thread.
Say(thread, turn) == native' = [native EXCEPT ![thread] = Append(@, turn)]
NextTurn == turns + 1
Speak == turns < MaxTurn /\ turns' = NextTurn

Fresh(thread) == thread \in Threads \ DOMAIN provider

\* A chat is listed, and its provider settled, by its first message: until then it is its provider's nowhere on disk.
Begin(chat, p) ==
  /\ Fresh(chat) /\ Speak
  /\ provider' = Put(provider, chat, p)
  /\ native' = Put(native, chat, <<NextTurn>>)
  /\ UNCHANGED <<lineages, newBackends, calls, noops, cleaned, run>>

\* turn/start on the chat's provider.
StartTurn(chat) ==
  /\ Open(chat) /\ Speak
  /\ Say(Current(chat), NextTurn)
  /\ UNCHANGED <<provider, lineages, newBackends, calls, noops, cleaned, run>>

-----------------------------------------------------------------------------
(* switchProvider() and toCodex() *)

\* turn/start with a model of the other provider, or with none after thread/settings/update chose one.  A Claude chat is
\* compacted first, in a turn of its own; a compaction that had nothing to compact (`noop`) leaves the history.
AskSwitch(x, chat, noop) ==
  /\ Open(chat)
  /\ IF provider[Current(chat)] = "claude"
     THEN /\ Speak /\ Say(Current(chat), NextTurn)
          /\ noop => native[Current(chat)] # << >>
          /\ noops' = IF noop THEN noops \cup {NextTurn} ELSE noops
          /\ Take(x, "switch", chat, Append(Front(SegmentsOf(chat)),
               Segment(Current(chat), IF noop THEN Last(native[Current(chat)]) ELSE NextTurn)))
     ELSE /\ ~noop
          /\ "EmptyChats" \in Allow \/ native[Current(chat)] # << >>
          /\ Take(x, "switch", chat, SegmentsOf(chat))
          /\ UNCHANGED <<turns, native, noops>>
  /\ UNCHANGED <<provider, lineages, newBackends, cleaned, run>>

\* The source's last turn: read after the summary of a stock chat, the compaction of a Claude one.
LastTurn(x) ==
  LET source == Last(calls[x].segs)
  IN IF provider[source.thread] = "claude" THEN source.last
     ELSE IF native[source.thread] = << >> THEN None ELSE Last(native[source.thread])

\* The new backend is created and the summary injected in it.
CreateBackend(x, backend) ==
  /\ Doing(x, "switch", "asked") /\ Fresh(backend)
  /\ LET source == Last(calls[x].segs).thread
     IN /\ source \in DOMAIN native
        /\ provider' = Put(provider, backend, Other(provider[source]))
        /\ calls' = [calls EXCEPT ![x].step = "ready", ![x].made = {backend},
                                 ![x].segs = Append(Front(@), Segment(source, LastTurn(x)))]
  /\ native' = Put(native, backend, << >>)
  /\ newBackends' = newBackends \cup {backend}
  /\ UNCHANGED <<lineages, turns, noops, cleaned, run>>

\* setLineage(): the chat goes on in the new backend.
SetLineage(x) ==
  /\ Doing(x, "switch", "ready")
  /\ \E backend \in calls[x].made :
       lineages' = Put(lineages, calls[x].chat, Append(calls[x].segs, Segment(backend, None)))
  /\ calls' = [calls EXCEPT ![x].step = "set"]
  /\ UNCHANGED <<provider, native, newBackends, turns, noops, cleaned, run>>

\* The user's turn starts there.
StartSwitched(x) ==
  /\ Doing(x, "switch", "set") /\ Speak
  /\ calls[x].made \subseteq DOMAIN native
  /\ \E backend \in calls[x].made : Say(backend, NextTurn)
  /\ Ends(x)
  /\ UNCHANGED <<provider, lineages, newBackends, noops, cleaned, run>>

\* The new Claude backend of a switch that failed is discarded, a stock one stays where it is.
FailSwitch(x) ==
  /\ \/ Doing(x, "switch", "asked") \/ Doing(x, "switch", "ready")
     \/ ("LateFailures" \in Allow /\ Doing(x, "switch", "set"))
  /\ native' = Restrict(native, DOMAIN native \ {t \in calls[x].made : provider[t] = "claude"})
  /\ Ends(x)
  /\ UNCHANGED <<provider, lineages, newBackends, turns, noops, cleaned, run>>

-----------------------------------------------------------------------------
(* fork() *)

AskWholeFork(x, chat) ==
  /\ Open(chat) /\ Readable(chat)
  /\ LET segs == SegmentsOf(chat)
     IN TakeUpTo(x, "fork", chat, Len(segs), Len(native[Current(chat)]), FALSE)
  /\ UNCHANGED <<provider, native, lineages, newBackends, turns, noops, cleaned, run>>

\* A fork up to, or before, the k-th turn of the i-th segment, its marker when k is 0.  Before a segment is at the end of
\* the one before it; so is the marker of a segment without turns.
AskFork(x, chat, i, k, before) ==
  /\ Open(chat) /\ Readable(chat)
  /\ LET segs == SegmentsOf(chat)
         beforeSegment == i > 1 /\ ((before /\ k <= 1) \/ (k = 0 /\ Cut(segs[i]) = << >>))
     IN /\ i \in DOMAIN segs /\ k \in 0 .. Len(Cut(segs[i])) /\ (k = 0 => HasMarker(segs, i))
        /\ "EmptyChats" \notin Allow => ~(before /\ i = 1 /\ k = 1 /\ provider[segs[1].thread] = "claude")
        /\ IF beforeSegment THEN TakeUpTo(x, "fork", chat, i - 1, Len(Cut(segs[i - 1])), FALSE)
           ELSE TakeUpTo(x, "fork", chat, i, IF before THEN k - 1 ELSE k, FALSE)
  /\ UNCHANGED <<provider, native, lineages, newBackends, turns, noops, cleaned, run>>

\* The segment's provider copies its turns.  Claude's takes no boundary, as before the first turn of a chat, for a fork of all.
CopyThread(x, fork) ==
  /\ Doing(x, "fork", "asked") /\ Fresh(fork)
  /\ LET source == calls[x].segs[calls[x].at].thread
         all == provider[source] = "claude" /\ calls[x].at = 1 /\ calls[x].count = 0
     IN /\ source \in DOMAIN native
        /\ provider' = Put(provider, fork, provider[source])
        /\ native' = Put(native, fork, IF all THEN native[source] ELSE SubSeq(native[source], 1, calls[x].count))
  /\ calls' = [calls EXCEPT ![x].step = "ready", ![x].made = {fork}]
  /\ UNCHANGED <<lineages, newBackends, turns, noops, cleaned, run>>

\* Mutant: the fork goes on in its source's own thread.
ListSource(x) ==
  /\ Doing(x, "fork", "ready")
  /\ \E fork \in calls[x].made :
       lineages' = IF calls[x].at = 1 THEN lineages ELSE Put(lineages, fork, Append(
         SubSeq(calls[x].segs, 1, calls[x].at - 1), Segment(calls[x].segs[calls[x].at].thread, None)))
  /\ Ends(x)
  /\ UNCHANGED <<provider, native, newBackends, turns, noops, cleaned, run>>

\* Mutant: the fork is its last segment alone.
ListLast(x) ==
  /\ Doing(x, "fork", "ready") /\ Ends(x)
  /\ UNCHANGED <<provider, native, lineages, newBackends, turns, noops, cleaned, run>>

\* The fork's lineage lists the older segments of its source.
ListFork(x) ==
  /\ Doing(x, "fork", "ready")
  /\ \E fork \in calls[x].made :
       lineages' = IF calls[x].at = 1 THEN lineages
                   ELSE Put(lineages, fork, Append(SubSeq(calls[x].segs, 1, calls[x].at - 1), Segment(fork, None)))
  /\ Ends(x)
  /\ UNCHANGED <<provider, native, newBackends, turns, noops, cleaned, run>>

-----------------------------------------------------------------------------
(* revert() *)

\* A rollback to before the k-th turn of the i-th segment, or its marker: a later segment goes as a whole.
AskRevert(x, chat, i, k) ==
  /\ Open(chat) /\ Readable(chat)
  /\ LET segs == SegmentsOf(chat)
         drop == i > 1 /\ k <= 1
         keep == IF drop THEN i - 1 ELSE i
     IN /\ i \in DOMAIN segs /\ k \in 0 .. Len(Cut(segs[i])) /\ (k = 0 => HasMarker(segs, i))
        /\ TakeUpTo(x, "revert", chat, keep, IF drop THEN Len(Cut(segs[keep])) ELSE k - 1, drop)
        /\ "TwinDrops" \notin Allow => ~TwinDrops(chat)
        /\ "SharedEdits" \notin Allow => drop \/ ~Shared(chat, segs[i].thread)
  /\ UNCHANGED <<provider, native, lineages, newBackends, turns, noops, cleaned, run>>

\* Mutant: a rollback drops the row's segment too.
NoRowDropped(x) == FALSE

\* The segment that carries the chat's row would go: refused (a fork past the switch it was forked from).
RowDropped(x) ==
  LET call == calls[x]
  IN \E i \in call.at + 1 .. Len(call.segs), row \in DOMAIN SegmentsOf(call.chat) :
       SegmentsOf(call.chat)[row].thread = call.chat /\ call.segs[i] = SegmentsOf(call.chat)[row]

\* The segment's provider rolls its thread back.
RevertThread(x) ==
  /\ Doing(x, "revert", "asked") /\ ~calls[x].drop /\ ~RowDropped(x)
  /\ LET thread == calls[x].segs[calls[x].at].thread
     IN /\ thread \in DOMAIN native
        /\ native' = [native EXCEPT ![thread] = SubSeq(@, 1, calls[x].count)]
  /\ calls' = [calls EXCEPT ![x].step = "ready"]
  /\ UNCHANGED <<provider, lineages, newBackends, turns, noops, cleaned, run>>

\* Mutant: the segment that is current again keeps its last turn.
KeptAsWas(x) == SubSeq(calls[x].segs, 1, calls[x].at)

Kept(x) ==
  LET call == calls[x]
  IN Append(SubSeq(call.segs, 1, call.at - 1), Segment(call.segs[call.at].thread, None))

\* A call goes on to the segment after `at`, and ends after the last.
GoesOn(x, at) ==
  IF at = Len(calls[x].segs) THEN Ends(x) ELSE calls' = [calls EXCEPT ![x].step = "set", ![x].at = at]

\* A chat back to its own single thread has no lineage, unless forks list the thread.
RevertLineage(x) ==
  /\ \/ Doing(x, "revert", "ready")
     \/ (Doing(x, "revert", "asked") /\ calls[x].drop /\ ~RowDropped(x))
  /\ LET chat == calls[x].chat
     IN lineages' =
          IF Len(calls[x].segs) = 1 THEN lineages
          ELSE IF Len(Kept(x)) = 1 /\ Kept(x)[1].thread = chat /\ ~Shared(chat, chat)
               THEN Restrict(lineages, DOMAIN lineages \ {chat})
          ELSE Put(lineages, chat, Kept(x))
  /\ GoesOn(x, calls[x].at)
  /\ UNCHANGED <<provider, native, newBackends, turns, noops, cleaned, run>>

\* A dropped backend goes too, unless a lineage lists it.
Discard(x) ==
  /\ Doing(x, "revert", "set")
  /\ LET thread == calls[x].segs[calls[x].at + 1].thread
         held == \E chat \in DOMAIN lineages : Lists(lineages[chat], thread)
     IN native' = IF held THEN native ELSE Restrict(native, DOMAIN native \ {thread})
  /\ GoesOn(x, calls[x].at + 1)
  /\ UNCHANGED <<provider, lineages, newBackends, turns, noops, cleaned, run>>

-----------------------------------------------------------------------------
(* thread/delete *)

AskDelete(x, chat) ==
  /\ Open(chat)
  /\ "TwinDrops" \notin Allow => ~TwinDrops(chat)
  /\ "SharedEdits" \notin Allow => Len(SegmentsOf(chat)) > 1 \/ ~Shared(chat, chat)
  /\ Take(x, "delete", chat, SegmentsOf(chat))
  /\ UNCHANGED <<provider, native, lineages, newBackends, turns, noops, cleaned, run>>

\* A chat of one segment is deleted by its provider alone.
DeleteOnly(x) ==
  /\ Doing(x, "delete", "asked") /\ Len(calls[x].segs) = 1
  /\ native' = Restrict(native, DOMAIN native \ {calls[x].segs[1].thread})
  /\ Ends(x)
  /\ UNCHANGED <<provider, lineages, newBackends, turns, noops, cleaned, run>>

\* Each segment's provider deletes its thread, unless another lineage lists it.
DeleteSegment(x) ==
  /\ Doing(x, "delete", "asked") /\ Len(calls[x].segs) > 1 /\ calls[x].at < Len(calls[x].segs)
  /\ LET thread == calls[x].segs[calls[x].at + 1].thread
     IN native' = IF Shared(calls[x].chat, thread) THEN native ELSE Restrict(native, DOMAIN native \ {thread})
  /\ calls' = [calls EXCEPT ![x].at = @ + 1]
  /\ UNCHANGED <<provider, lineages, newBackends, turns, noops, cleaned, run>>

DeleteLineage(x) ==
  /\ Doing(x, "delete", "asked") /\ Len(calls[x].segs) > 1 /\ calls[x].at = Len(calls[x].segs)
  /\ lineages' = Restrict(lineages, DOMAIN lineages \ {calls[x].chat})
  /\ Ends(x)
  /\ UNCHANGED <<provider, native, newBackends, turns, noops, cleaned, run>>

\* A provider refuses, or the request has a turn that is not there: nothing has changed.
Refuse(x) ==
  /\ Doing(x, "fork", "asked") \/ Doing(x, "revert", "asked")
  /\ Ends(x)
  /\ UNCHANGED <<provider, native, lineages, newBackends, turns, noops, cleaned, run>>

-----------------------------------------------------------------------------
(* Cleanup and restarts *)

\* Claude removes the transcript of a finished segment (cleanupPeriodDays).
CleanUp(thread) ==
  /\ thread \in DOMAIN native /\ provider[thread] = "claude"
  /\ \E chat \in DOMAIN lineages : Lists(lineages[chat], thread)
  /\ \A chat \in DOMAIN lineages : Last(lineages[chat]).thread # thread
  /\ \A x \in Busy : ~Lists(calls[x].segs, thread)
  /\ "Collisions" \notin Allow /\ thread \in DOMAIN lineages =>
       \A i \in DOMAIN lineages[thread] :
         lineages[thread][i].thread # thread => ~Shared(thread, lineages[thread][i].thread)
  /\ "LostRows" \notin Allow =>
       /\ thread \in DOMAIN lineages => lineages[thread][1].thread = thread
       /\ \A chat \in DOMAIN lineages :
            Lists(lineages[chat], thread) /\ Last(lineages[chat]).thread = chat => ~Shared(chat, chat)
  /\ native' = Restrict(native, DOMAIN native \ {thread})
  /\ cleaned' = cleaned \cup {thread}
  /\ UNCHANGED <<provider, lineages, newBackends, calls, turns, noops, run>>

\* prune()'s filter: the current segment, and the finished ones whose backend is there.  Stock's threads are not looked up.
Existing(segs) ==
  LET exists(i) == provider[segs[i].thread] = "codex" \/ segs[i].thread \in DOMAIN native
      upTo[i \in 0 .. Len(segs)] ==
        IF i = 0 THEN << >>
        ELSE IF i = Len(segs) \/ exists(i) THEN Append(upTo[i - 1], segs[i]) ELSE upTo[i - 1]
  IN upTo[Len(segs)]

\* A chat is listed under its oldest segment kept when its own went.
ListedUnder(chat, kept) == IF Lists(kept, chat) THEN chat ELSE kept[1].thread

\* prune() of one lineage.
PruneOne(pruned, chat) ==
  LET kept == Existing(lineages[chat])
      id == ListedUnder(chat, kept)
      rest == Restrict(pruned, DOMAIN pruned \ {chat})
  IN IF kept = lineages[chat] THEN pruned
     ELSE IF Len(kept) > 1 \/ kept[1].thread # id THEN Put(rest, id, kept)
     ELSE rest

\* prune(): one lineage after another, in the order they are stored.
Pruned(order) ==
  LET upTo[i \in 0 .. Len(order)] == IF i = 0 THEN lineages ELSE PruneOne(upTo[i - 1], order[i])
  IN upTo[Len(order)]

Halfway(x) ==
  \/ calls[x].what = "revert" /\ calls[x].step # "asked"
  \/ calls[x].what = "delete" /\ calls[x].at > 0

\* The gateway ends, and starts: what it kept in memory is gone, and the lineages are pruned one after another.
Restart ==
  /\ "TornCrashes" \in Allow \/ \A x \in Busy : ~Halfway(x)
  /\ \E order \in SetToSeqs(DOMAIN lineages) : lineages' = Pruned(order)
  /\ run < MaxRun /\ run' = run + 1
  /\ newBackends' = {}
  /\ calls' = [x \in Calls |-> Idle]
  /\ UNCHANGED <<provider, native, turns, noops, cleaned>>

-----------------------------------------------------------------------------

Users ==
  \E chat \in Threads :
    \/ \E p \in Providers : Begin(chat, p)
    \/ StartTurn(chat)
    \/ \E x \in Calls :
         \/ \E noop \in BOOLEAN : AskSwitch(x, chat, noop)
         \/ AskWholeFork(x, chat)
         \/ \E i \in DOMAIN SegmentsOf(chat), k \in 0 .. MaxTurn :
              AskRevert(x, chat, i, k) \/ \E before \in BOOLEAN : AskFork(x, chat, i, k, before)
         \/ AskDelete(x, chat)

Gateway ==
  \E x \in Calls :
    \/ \E t \in Threads : CreateBackend(x, t) \/ CopyThread(x, t)
    \/ SetLineage(x) \/ StartSwitched(x) \/ FailSwitch(x)
    \/ ListFork(x)
    \/ RevertThread(x) \/ RevertLineage(x) \/ Discard(x)
    \/ DeleteOnly(x) \/ DeleteSegment(x) \/ DeleteLineage(x)
    \/ Refuse(x)

Next == Users \/ Gateway \/ (\E thread \in Threads : CleanUp(thread)) \/ Restart

Spec == Init /\ [][Next]_vars

-----------------------------------------------------------------------------
(* Properties *)

\* "The public id is one of the segments" (meta.ts): every lineage lists its own row, which row() takes for granted.
RowListed == \A chat \in DOMAIN lineages : Lists(lineages[chat], chat)

\* No two chats go on in one backend, and none in a backend that is a chat of its own: a backend id reads as one chat.
OneChatEach ==
  \A chat, other \in DOMAIN lineages :
    chat # other => Last(lineages[chat]).thread \notin {other, Last(lineages[other]).thread}

\* A segment's thread is where its provider had it, a finished one with the segment's last turn, until Claude cleans it
\* up: what a fork shares with its source outlives the source's rollbacks and deletion, and a switch that fails
\* discards no backend that a chat goes on in (a chat's own rollbacks and deletion are let finish; a lineage of one
\* segment, kept for the forks that share it, outlives its chat).
SegmentsHold ==
  \A chat \in {c \in DOMAIN lineages : Len(lineages[c]) > 1 /\ \A x \in CallsOf(c) : ~Halfway(x)} :
    \A i \in DOMAIN lineages[chat] :
      LET segment == lineages[chat][i]
      IN \/ segment.thread \in cleaned
         \/ segment.thread \in DOMAIN native /\ segment.last \in Range(native[segment.thread]) \cup {None}

\* "The chat stays on Claude." (the catch in switchProvider): a switch from Claude that failed leaves the chat there.
StaysOnClaude ==
  [][\A x \in Calls : FailSwitch(x) /\ provider[calls[x].segs[1].thread] = "claude" /\ Len(calls[x].segs) = 1
       => provider[Current(calls[x].chat)] = "claude"]_vars

\* "Drops finished segments whose backend is gone": the start's pruning takes no segment whose backend is there out of
\* its chat.
PruneKeepsChats ==
  [][Restart => \A chat \in DOMAIN lineages : \E listed \in Threads : \A i \in DOMAIN lineages[chat] :
       lineages[chat][i].thread \in DOMAIN native => Lists(SegmentsOf(listed)', lineages[chat][i].thread)]_vars

-----------------------------------------------------------------------------
(* What a user sees: each chat's history, and the requests under way *)

\* Between a rollback of a thread and the lineage's, the chat is taken as rolled back.
SeenSegments(chat) ==
  LET rolled == {x \in CallsOf(chat) : Doing(x, "revert", "ready")}
  IN IF rolled = {} THEN SegmentsOf(chat) ELSE Kept(CHOOSE x \in rolled : TRUE)

Seen(chat) ==
  /\ ~IsBackend(chat)
  /\ \E i \in DOMAIN SegmentsOf(chat) : SegmentsOf(chat)[i].thread \in DOMAIN native
  /\ \A x \in Busy : chat \notin Passing(x) /\ ~(x \in CallsOf(chat) /\ calls[x].what = "delete" /\ Halfway(x))

SeenChats == [chat \in {c \in Threads : Seen(c)} |-> Stitched(SeenSegments(chat))]
SeenAsked == {<<calls[x].what, calls[x].chat, calls[x].want>> : x \in {y \in Busy : calls[y].what # "switch"}}

Promised == INSTANCE Chats WITH Ids <- Threads, Turns <- Turns, chats <- SeenChats, asked <- SeenAsked

\* Each chat keeps one history, which only its own requests change, and as they ask.
KeepsPromise == Promised!Spec
=============================================================================
