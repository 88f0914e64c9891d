-------------------------- MODULE Lineages_proofs --------------------------
(***************************************************************************)
(* Chats that switch provider keep apart (Lineages), for any threads,      *)
(* requests, turns and runs of the gateway.                                *)
(***************************************************************************)
EXTENDS Lineages, FiniteSetTheorems, WellFoundedInduction, TLAPS

Unlisted(thread) == \A chat \in DOMAIN lineages : ~Lists(lineages[chat], thread)
UpTo(segs, n, thread) == \E i \in 1 .. n : segs[i].thread = thread

\* What lineages list was created, and each lists its own row and goes on in its last segment.
LineageOK(chat, segs) ==
  /\ segs \in Seq(Segments) /\ segs # << >> /\ segs[Len(segs)].last = None
  /\ \A i \in DOMAIN segs : segs[i].thread \in DOMAIN provider
  /\ Lists(segs, chat)

ListsOK ==
  /\ DOMAIN lineages \subseteq DOMAIN provider /\ IsFiniteSet(DOMAIN lineages)
  /\ \A chat \in DOMAIN lineages : LineageOK(chat, lineages[chat])

ThreadsOK ==
  /\ DOMAIN provider \subseteq Threads /\ \A t \in DOMAIN provider : provider[t] \in Providers
  /\ DOMAIN native \subseteq DOMAIN provider /\ \A t \in DOMAIN native : native[t] \in Seq(1 .. turns)
  /\ newBackends \subseteq DOMAIN provider /\ cleaned \subseteq DOMAIN provider
  /\ turns \in 0 .. MaxTurn /\ noops \subseteq 1 .. turns /\ run \in 1 .. MaxRun

\* A request, whatever turns it asked for.
Requests(want) == [
  what: {"switch", "fork", "revert", "delete"}, chat: Threads, segs: Seq(Segments), step: {"asked", "ready", "set"},
  at: Nat, count: Nat, drop: BOOLEAN, made: SUBSET Threads, want: {want}]

CallTyped(call) ==
  /\ call \in Requests(call.want) /\ call.segs # << >>
  /\ call.chat \in DOMAIN provider /\ call.made \subseteq DOMAIN provider
  /\ \A i \in DOMAIN call.segs : call.segs[i].thread \in DOMAIN provider

\* A thread that a request creates is nobody's until its lineage lists it.
MadeNew(call) ==
  /\ call.step = "asked" \/ call.what \in {"revert", "delete"} => call.made = {}
  /\ call.step = "ready" =>
       \A t \in call.made :
         /\ t \in DOMAIN native /\ t \notin DOMAIN lineages /\ Unlisted(t)
         /\ t # call.chat /\ ~Lists(call.segs, t)

\* Two segments' lists, but for the last turn of the last one.
SameButLast(segs, own) ==
  /\ Len(segs) = Len(own) /\ segs[Len(segs)].thread = own[Len(own)].thread
  /\ \A i \in 1 .. Len(segs) - 1 : segs[i] = own[i]

\* The segments a request took are still its chat's, until it has set others.
AsTaken(call) ==
  LET own == SegmentsOf(call.chat)
  IN /\ call.what = "switch" => (call.step # "set" => SameButLast(call.segs, own))
     /\ call.what = "fork" => call.step # "set" /\ call.segs = own /\ call.at \in DOMAIN call.segs
     /\ call.what = "delete" => call.step = "asked" /\ call.segs = own /\ call.at <= Len(call.segs)
     /\ call.what = "revert" /\ call.step = "set" => call.at < Len(call.segs)
     /\ call.what = "revert" /\ call.step # "set" => call.segs = own /\ call.at \in DOMAIN call.segs
     /\ call.what = "revert" /\ call.step = "ready" => ~call.drop /\ UpTo(call.segs, call.at, call.chat)

\* A chat that gets a request is in nobody else's lineage, unless it has one itself.
ChatFree(call) == call.chat \notin DOMAIN lineages => Unlisted(call.chat)

\* A thread is rolled back for one chat alone, and so keeps the turns that others count.
RollsBack(call) == call.what = "revert" /\ call.step # "set" /\ ~call.drop
RolledAlone(call) == RollsBack(call) => ~Shared(call.chat, call.segs[call.at].thread)
Counted(call) ==
  LET thread == call.segs[call.at].thread
  IN call.step = "asked" /\ (call.what = "fork" \/ RollsBack(call)) /\ thread \in DOMAIN native =>
       call.count <= Len(native[thread])

CallOK(call) ==
  CallTyped(call) /\ MadeNew(call) /\ AsTaken(call) /\ ChatFree(call) /\ RolledAlone(call) /\ Counted(call)

\* Requests under way are of different chats, and none knows of what another creates.
Apart(call, other) ==
  /\ call.chat # other.chat
  /\ call.step = "ready" =>
       \A t \in call.made : t # other.chat /\ ~Lists(other.segs, t) /\ t \notin other.made

CallsOK ==
  /\ DOMAIN calls = Calls /\ \A x \in Busy : CallOK(calls[x])
  /\ \A x, y \in Busy : x # y => Apart(calls[x], calls[y])

ListedInv == ThreadsOK /\ ListsOK /\ CallsOK

-----------------------------------------------------------------------------
(* What a step does to the requests *)

Others(x) == {calls[y] : y \in Busy \ {x}}

LEMMA CallNotIdle == ASSUME NEW call, CallTyped(call) PROVE call # Idle /\ call.step # "idle"
BY DEF CallTyped, Requests, Idle

\* One request changes and the others stand as they did.
LEMMA CallsStep ==
  ASSUME CallsOK, NEW x \in Calls, NEW call, calls' = [calls EXCEPT ![x] = call],
         \A other \in Others(x) : CallOK(other)',
         call = Idle \/ (CallOK(call)' /\ \A other \in Others(x) : Apart(call, other) /\ Apart(other, call))
  PROVE CallsOK'
<1>1. /\ DOMAIN calls' = Calls /\ calls'[x] = call /\ \A y \in Calls \ {x} : calls'[y] = calls[y]
  BY DEF CallsOK
<1>2. \A y \in Busy' : y \in Calls /\ (y # x => y \in Busy /\ calls'[y] = calls[y] /\ calls[y] \in Others(x))
  BY <1>1 DEF Busy, Others
<1>3. x \in Busy' => call # Idle
  BY <1>1 DEF Busy
<1>4. ASSUME NEW y \in Busy' PROVE CallOK(calls[y])'
  <2>1. CASE y = x
    BY <1>1, <1>3, <1>4, <2>1
  <2>2. CASE y # x
    BY <1>2, <1>4, <2>2
  <2> QED  BY <2>1, <2>2
<1>5. ASSUME NEW y \in Busy', NEW z \in Busy', y # z PROVE Apart(calls'[y], calls'[z])
  <2>1. CASE y = x
    BY <1>1, <1>2, <1>3, <1>5, <2>1
  <2>2. CASE z = x
    BY <1>1, <1>2, <1>3, <1>5, <2>2
  <2>3. CASE y # x /\ z # x
    BY <1>2, <1>5, <2>3 DEF CallsOK
  <2> QED  BY <2>1, <2>2, <2>3
<1> QED  BY <1>1, <1>4, <1>5 DEF CallsOK

LEMMA CallsStay ==
  ASSUME CallsOK, UNCHANGED calls, \A x \in Busy : \A call : call = calls[x] => CallOK(call)'
  PROVE CallsOK'
<1>1. Busy' = Busy
  BY DEF Busy
<1>2. ASSUME NEW x \in Busy PROVE CallOK(calls[x])'
  OBVIOUS
<1> QED  BY <1>1, <1>2 DEF CallsOK

\* A request that goes on with the chat, threads and creations it had is as far from the others as it was.
LEMMA StaysApart ==
  ASSUME NEW call, NEW next, NEW other, Apart(call, other), Apart(other, call),
         next.chat = call.chat, next.made \subseteq call.made,
         \A t : Lists(next.segs, t) => Lists(call.segs, t),
         next.step = "ready" => call.step = "ready" \/ next.made = {}
  PROVE Apart(next, other) /\ Apart(other, next)
BY DEF Apart

\* Lineages stay, and the threads of a request's chat lose no turns.
LEMMA CallKept ==
  ASSUME NEW call, CallOK(call), ThreadsOK, ThreadsOK', lineages' = lineages, DOMAIN provider \subseteq DOMAIN provider',
         \A t \in call.made : call.step = "ready" /\ t \in DOMAIN native => t \in DOMAIN native',
         \A t : Lists(SegmentsOf(call.chat), t) /\ t \in DOMAIN native' =>
                  t \in DOMAIN native /\ Len(native[t]) <= Len(native'[t])
  PROVE CallOK(call)'
<1>1. CallTyped(call)'
  BY DEF CallOK, CallTyped
<1>2. MadeNew(call)'
  BY DEF CallOK, MadeNew, Unlisted
<1>3. AsTaken(call)' /\ ChatFree(call)' /\ RolledAlone(call)'
  BY DEF CallOK, AsTaken, SegmentsOf, ChatFree, Unlisted, RolledAlone, Shared
<1>4. Counted(call)'
  <2> DEFINE t == call.segs[call.at].thread
  <2> SUFFICES ASSUME call.step = "asked", call.what = "fork" \/ RollsBack(call), t \in DOMAIN native'
               PROVE call.count <= Len(native'[t])
    BY DEF Counted
  <2>1. call.at \in DOMAIN call.segs /\ call.segs = SegmentsOf(call.chat)
    BY DEF CallOK, AsTaken, RollsBack
  <2>2. t \in DOMAIN native /\ Len(native[t]) <= Len(native'[t])
    BY <2>1 DEF Lists
  <2>3. call.count <= Len(native[t]) /\ call.count \in Nat
    BY <2>2 DEF CallOK, Counted, CallTyped, Requests
  <2>4. Len(native[t]) \in Nat /\ Len(native'[t]) \in Nat
    BY <2>2 DEF ThreadsOK
  <2> QED  BY <2>2, <2>3, <2>4
<1> QED  BY <1>1, <1>2, <1>3, <1>4 DEF CallOK

\* What a request lists under an id of its own is of its chat's lineage, or was created by it.
Framed(x, key) ==
  LET call == calls[x]
  IN /\ key = call.chat \/ (call.step = "ready" /\ key \in call.made)
     /\ \A c : c # key => (c \in DOMAIN lineages' <=> c \in DOMAIN lineages)
     /\ \A c \in DOMAIN lineages : c # key => lineages'[c] = lineages[c]
     /\ key \in DOMAIN lineages' =>
          \A t : Lists(lineages'[key], t) =>
            \/ t = call.chat
            \/ call.step = "ready" /\ t \in call.made
            \/ call.chat \in DOMAIN lineages /\ Lists(lineages[call.chat], t)

LEMMA CallFramed ==
  ASSUME ListedInv, NEW x \in Busy, NEW other \in Others(x), provider' = provider, native' = native,
         NEW key, Framed(x, key)
  PROVE CallOK(other)'
<1> USE DEF Framed
<1> DEFINE mine == calls[x]
<1>1. CallOK(mine) /\ CallOK(other) /\ Apart(mine, other) /\ Apart(other, mine)
  BY DEF ListedInv, CallsOK, Others
<1> HIDE DEF mine
<1>2. /\ mine.chat # other.chat /\ key # other.chat
      /\ other.step = "ready" => key \notin other.made /\ mine.chat \notin other.made
  BY <1>1 DEF Apart, mine
<1>3. SegmentsOf(other.chat)' = SegmentsOf(other.chat)
  BY <1>2 DEF SegmentsOf
<1>4. CallTyped(other)'
  BY <1>1 DEF CallOK, CallTyped
<1>5. ASSUME NEW t, Unlisted(t), t # mine.chat, mine.step = "ready" => t \notin mine.made PROVE Unlisted(t)'
  BY <1>5 DEF Unlisted, mine
<1>6. MadeNew(other)'
  <2> SUFFICES ASSUME other.step = "ready", NEW t \in other.made
               PROVE t \in DOMAIN native' /\ t \notin DOMAIN lineages' /\ Unlisted(t)' /\ t # other.chat /\ ~Lists(other.segs, t)
    BY <1>1 DEF CallOK, MadeNew
  <2>1. t \in DOMAIN native /\ t \notin DOMAIN lineages /\ Unlisted(t) /\ t # other.chat /\ ~Lists(other.segs, t)
    BY <1>1 DEF CallOK, MadeNew
  <2>2. t # mine.chat /\ (mine.step = "ready" => t \notin mine.made)
    BY <1>1 DEF Apart
  <2> QED  BY <1>2, <1>5, <2>1, <2>2
<1>7. AsTaken(other)'
  BY <1>1, <1>3 DEF CallOK, AsTaken
<1>8. ChatFree(other)'
  BY <1>1, <1>2, <1>5 DEF CallOK, ChatFree, Apart
<1>9. RolledAlone(other)'
  <2> DEFINE t == other.segs[other.at].thread
  <2> SUFFICES ASSUME RollsBack(other), Shared(other.chat, t)' PROVE FALSE
    BY DEF RolledAlone
  <2>1. Lists(other.segs, t) /\ other.segs = SegmentsOf(other.chat)
    BY <1>1 DEF CallOK, AsTaken, RollsBack, Lists
  <2>2. ~Shared(other.chat, t)
    BY <1>1 DEF CallOK, RolledAlone
  <2>3. key \in DOMAIN lineages' /\ Lists(lineages'[key], t)
    BY <2>2 DEF Shared
  <2>4. CASE mine.step = "ready" /\ t \in mine.made
    BY <1>1, <2>1, <2>4 DEF Apart
  <2>5. CASE mine.chat \in DOMAIN lineages /\ Lists(lineages[mine.chat], t)
    BY <1>2, <2>2, <2>5 DEF Shared
  <2>6. CASE t = mine.chat /\ mine.chat \notin DOMAIN lineages
    <3>1. Unlisted(mine.chat)
      BY <1>1, <2>6 DEF CallOK, ChatFree
    <3>2. CASE other.chat \in DOMAIN lineages
      BY <2>1, <2>6, <3>1, <3>2 DEF Unlisted, SegmentsOf
    <3>3. CASE other.chat \notin DOMAIN lineages
      BY <1>2, <2>1, <2>6, <3>3 DEF SegmentsOf, Lists, Segment
    <3> QED  BY <3>2, <3>3
  <2>7. CASE t = mine.chat /\ mine.chat \in DOMAIN lineages
    <3>1. Lists(lineages[mine.chat], mine.chat)
      BY <2>7 DEF ListedInv, ListsOK, LineageOK
    <3> QED  BY <2>5, <2>7, <3>1
  <2> QED  BY <2>3, <2>4, <2>5, <2>6, <2>7 DEF mine
<1>10. Counted(other)'
  BY <1>1 DEF CallOK, Counted
<1> QED  BY <1>4, <1>6, <1>7, <1>8, <1>9, <1>10 DEF CallOK

\* No segment of a request is rolled back for another one's chat.
LEMMA RolledByOne ==
  ASSUME ListedInv, NEW x \in Busy, NEW other \in Others(x), RollsBack(calls[x]),
         NEW t, t = calls[x].segs[calls[x].at].thread, Lists(SegmentsOf(other.chat), t)
  PROVE FALSE
<1> DEFINE mine == calls[x]
<1>1. CallOK(mine) /\ CallOK(other) /\ mine.chat # other.chat
  BY DEF ListedInv, CallsOK, Others, Apart
<1> HIDE DEF mine
<1>2. ~Shared(mine.chat, t) /\ mine.segs = SegmentsOf(mine.chat) /\ Lists(mine.segs, t)
  BY <1>1 DEF CallOK, RolledAlone, AsTaken, RollsBack, Lists, mine
<1>3. other.chat \notin DOMAIN lineages
  BY <1>1, <1>2 DEF Shared, SegmentsOf
<1>4. t = other.chat /\ Unlisted(t)
  BY <1>1, <1>3 DEF SegmentsOf, Lists, Segment, CallOK, ChatFree
<1>5. mine.chat \notin DOMAIN lineages
  BY <1>2, <1>4 DEF SegmentsOf, Unlisted
<1> QED  BY <1>1, <1>2, <1>4, <1>5 DEF SegmentsOf, Lists, Segment

-----------------------------------------------------------------------------
(* Requests come in *)

LEMMA OwnSegments ==
  ASSUME ThreadsOK, ListsOK, NEW chat \in DOMAIN provider
  PROVE /\ SegmentsOf(chat) \in Seq(Segments) /\ SegmentsOf(chat) # << >>
        /\ Len(SegmentsOf(chat)) \in Nat \ {0} /\ DOMAIN SegmentsOf(chat) = 1 .. Len(SegmentsOf(chat))
        /\ \A i \in DOMAIN SegmentsOf(chat) : SegmentsOf(chat)[i].thread \in DOMAIN provider
        /\ SegmentsOf(chat)[Len(SegmentsOf(chat))].last = None
        /\ Lists(SegmentsOf(chat), chat)
<1>1. CASE chat \in DOMAIN lineages
  BY <1>1 DEF ListsOK, LineageOK, SegmentsOf
<1>2. CASE chat \notin DOMAIN lineages
  <2>1. Segment(chat, None) \in Segments /\ Segment(chat, None).thread = chat /\ Segment(chat, None).last = None
    BY DEF ThreadsOK, Segment, Segments
  <2>2. SegmentsOf(chat) = <<Segment(chat, None)>>
    BY <1>2 DEF SegmentsOf
  <2> QED  BY <2>1, <2>2 DEF Lists
<1> QED  BY <1>1, <1>2

LEMMA OpenKnown ==
  ASSUME ThreadsOK, ListsOK, NEW chat, Open(chat)
  PROVE /\ chat \in DOMAIN provider /\ chat \in Threads
        /\ Current(chat) \in DOMAIN native
        /\ chat \notin DOMAIN lineages => Unlisted(chat)
<1>1. chat \in DOMAIN provider
  BY DEF Open, Listed, ThreadsOK, ListsOK
<1> QED  BY <1>1 DEF Open, Listed, IsBackend, IsHidden, Unlisted, ThreadsOK

LEMMA CutShorter ==
  ASSUME ThreadsOK, NEW segment
  PROVE /\ Len(Cut(segment)) \in Nat
        /\ segment.thread \in DOMAIN native => Len(Cut(segment)) <= Len(native[segment.thread])
<1>1. CASE segment.thread \notin DOMAIN native
  <2>1. Cut(segment) = << >>
    BY <1>1 DEF Cut
  <2> QED  BY <1>1, <2>1
<1>2. CASE segment.thread \in DOMAIN native
  <2> DEFINE all == native[segment.thread]
             ends == {k \in DOMAIN all : all[k] = segment.last}
  <2>1. all \in Seq(1 .. turns) /\ Len(all) \in Nat /\ DOMAIN all = 1 .. Len(all)
    BY <1>2 DEF ThreadsOK
  <2>2. Cut(segment) = IF ends = {} THEN all ELSE SubSeq(all, 1, CHOOSE k \in ends : TRUE)
    BY <1>2 DEF Cut
  <2>3. CASE ends = {}
    BY <2>1, <2>2, <2>3
  <2>4. CASE ends # {}
    <3>1. PICK k \in ends : k = CHOOSE m \in ends : TRUE
      BY <2>4
    <3>2. k \in 1 .. Len(all) /\ Cut(segment) = SubSeq(all, 1, k)
      BY <2>1, <2>2, <2>4, <3>1
    <3> HIDE DEF all
    <3>3. Len(SubSeq(all, 1, k)) = k
      BY <2>1, <3>2
    <3> QED  BY <2>1, <3>2, <3>3 DEF all
  <2> QED  BY <2>3, <2>4
<1> QED  BY <1>1, <1>2

\* A request that comes in has nothing to do with those under way.
LEMMA AskedApart ==
  ASSUME ListedInv, "Overlap" \notin Allow, NEW x \in Calls, NEW call, calls[x] = Idle, Open(call.chat),
         call.made = {}, call.step = "asked", \A t : Lists(call.segs, t) => Lists(SegmentsOf(call.chat), t),
         NEW other \in Others(x)
  PROVE Apart(call, other) /\ Apart(other, call)
<1>1. PICK y \in Busy : y # x /\ other = calls[y]
  BY DEF Others
<1>2. CallOK(other)
  BY <1>1 DEF ListedInv, CallsOK
<1>3. call.chat # other.chat
  BY <1>1 DEF Open, CallsOf
<1>4. \A t \in other.made : t # call.chat
  BY <1>1 DEF Open, Passing
<1>5. ASSUME other.step = "ready", NEW t \in other.made PROVE ~Lists(call.segs, t)
  <2>1. Unlisted(t)
    BY <1>2, <1>5 DEF CallOK, MadeNew
  <2> QED  BY <1>4, <1>5, <2>1 DEF SegmentsOf, Unlisted, Lists, Segment
<1> QED  BY <1>3, <1>4, <1>5 DEF Apart

\* A request takes its chat's segments.
LEMMA TakenOK ==
  ASSUME ListedInv, NEW call, call \in Requests(call.want), Open(call.chat), call.made = {}, call.step = "asked",
         call.segs = SegmentsOf(call.chat),
         call.what \in {"fork", "revert"} => call.at \in DOMAIN call.segs,
         call.what = "delete" => call.at = 0,
         RolledAlone(call), Counted(call)
  PROVE CallOK(call)
<1>1. /\ call.chat \in DOMAIN provider
      /\ call.chat \notin DOMAIN lineages => Unlisted(call.chat)
  BY OpenKnown DEF ListedInv
<1>2. /\ call.segs \in Seq(Segments) /\ call.segs # << >> /\ Len(call.segs) \in Nat \ {0}
      /\ \A i \in DOMAIN call.segs : call.segs[i].thread \in DOMAIN provider
  BY <1>1, OwnSegments DEF ListedInv
<1>3. CallTyped(call)
  BY <1>1, <1>2 DEF CallTyped
<1>4. MadeNew(call)
  BY DEF MadeNew
<1>5. AsTaken(call)
  BY <1>2 DEF AsTaken, SameButLast
<1>6. ChatFree(call)
  BY <1>1 DEF ChatFree
<1> QED  BY <1>3, <1>4, <1>5, <1>6 DEF CallOK

LEMMA AskKeeps ==
  ASSUME ListedInv, "Overlap" \notin Allow, NEW x \in Calls, NEW call, CallOK(call), calls[x] = Idle,
         calls' = [calls EXCEPT ![x] = call], Open(call.chat), call.made = {}, call.step = "asked",
         \A t : Lists(call.segs, t) => Lists(SegmentsOf(call.chat), t),
         UNCHANGED <<provider, native, lineages, newBackends, turns, noops, cleaned, run>>
  PROVE ListedInv'
<1>1. ThreadsOK' /\ ListsOK'
  BY DEF ListedInv, ThreadsOK, ListsOK, LineageOK
<1>2. ASSUME NEW c, CallOK(c) PROVE CallOK(c)'
  BY <1>2 DEF CallOK, CallTyped, MadeNew, Unlisted, AsTaken, SegmentsOf, ChatFree, RolledAlone, Shared, Counted
<1>3. \A other \in Others(x) : CallOK(other)'
  BY <1>2 DEF Others, ListedInv, CallsOK
<1>4. CallsOK'
  BY <1>2, <1>3, AskedApart, CallsStep DEF ListedInv
<1> QED  BY <1>1, <1>4 DEF ListedInv

LEMMA AskDeleteKeeps ==
  ASSUME ListedInv, "Overlap" \notin Allow, NEW x \in Calls, NEW chat \in Threads, AskDelete(x, chat)
  PROVE ListedInv'
<1> DEFINE call == [what |-> "delete", chat |-> chat, segs |-> SegmentsOf(chat), step |-> "asked",
                    at |-> 0, count |-> 0, drop |-> FALSE, made |-> {}, want |-> 0]
<1>1. calls[x] = Idle /\ calls' = [calls EXCEPT ![x] = call] /\ Open(chat)
  BY DEF AskDelete, Take
<1>2. SegmentsOf(chat) \in Seq(Segments)
  BY <1>1, OpenKnown, OwnSegments DEF ListedInv
<1>3. call \in Requests(call.want)
  BY <1>2 DEF Requests
<1>4. RolledAlone(call) /\ Counted(call)
  BY DEF RolledAlone, Counted, RollsBack
<1>5. CallOK(call)
  BY <1>1, <1>3, <1>4, TakenOK
<1> QED  BY <1>1, <1>5, AskKeeps DEF AskDelete

\* A fork, or a rollback, to the first turns of a segment.
LEMMA TakeUpToKeeps ==
  ASSUME ListedInv, "Overlap" \notin Allow, NEW x \in Calls, NEW chat, Open(chat),
         NEW what \in {"fork", "revert"}, NEW at \in DOMAIN SegmentsOf(chat), NEW count \in Nat, NEW drop \in BOOLEAN,
         TakeUpTo(x, what, chat, at, count, drop),
         LET thread == SegmentsOf(chat)[at].thread
         IN /\ what = "fork" \/ ~drop => (thread \in DOMAIN native => count <= Len(native[thread]))
            /\ what = "revert" /\ ~drop => ~Shared(chat, thread),
         UNCHANGED <<provider, native, lineages, newBackends, turns, noops, cleaned, run>>
  PROVE ListedInv'
<1> DEFINE want == SaidUpTo(SegmentsOf(chat), at, count)
           call == [what |-> what, chat |-> chat, segs |-> SegmentsOf(chat), step |-> "asked",
                    at |-> at, count |-> count, drop |-> drop, made |-> {}, want |-> want]
<1>1. calls[x] = Idle /\ calls' = [calls EXCEPT ![x] = call]
  BY DEF TakeUpTo
<1> HIDE DEF want
<1>2. /\ chat \in Threads /\ SegmentsOf(chat) \in Seq(Segments)
      /\ DOMAIN SegmentsOf(chat) = 1 .. Len(SegmentsOf(chat)) /\ Len(SegmentsOf(chat)) \in Nat
  BY OpenKnown, OwnSegments DEF ListedInv
<1>3. call \in Requests(call.want)
  BY <1>2 DEF Requests
<1>4. RolledAlone(call) /\ Counted(call)
  BY DEF RolledAlone, Counted, RollsBack
<1>5. CallOK(call)
  BY <1>3, <1>4, TakenOK
<1> QED  BY <1>1, <1>5, AskKeeps

LEMMA AskWholeForkKeeps ==
  ASSUME ListedInv, "Overlap" \notin Allow, NEW x \in Calls, NEW chat \in Threads, AskWholeFork(x, chat)
  PROVE ListedInv'
<1> DEFINE segs == SegmentsOf(chat)
           count == Len(native[Current(chat)])
           at == Len(segs)
<1>1. Open(chat) /\ TakeUpTo(x, "fork", chat, at, count, FALSE)
  BY DEF AskWholeFork
<1>2. /\ segs \in Seq(Segments) /\ at \in DOMAIN segs /\ Current(chat) = segs[at].thread
      /\ Current(chat) \in DOMAIN native
  BY <1>1, OpenKnown, OwnSegments DEF ListedInv, Current, Last
<1>3. count \in Nat
  BY <1>2 DEF ListedInv, ThreadsOK
<1> HIDE DEF at
<1>4. count = Len(native[segs[at].thread])
  BY <1>2
<1> HIDE DEF count
<1>5. segs[at].thread \in DOMAIN native => count <= Len(native[segs[at].thread])
  BY <1>3, <1>4
<1>6. UNCHANGED <<provider, native, lineages, newBackends, turns, noops, cleaned, run>>
  BY DEF AskWholeFork
<1>7. FALSE \in BOOLEAN /\ "fork" \in {"fork", "revert"}
  OBVIOUS
<1> QED  BY <1>1, <1>2, <1>3, <1>5, <1>6, <1>7, TakeUpToKeeps

LEMMA AskForkKeeps ==
  ASSUME ListedInv, "Overlap" \notin Allow, NEW x \in Calls, NEW chat \in Threads,
         NEW i \in DOMAIN SegmentsOf(chat), NEW k \in 0 .. MaxTurn, NEW before \in BOOLEAN, AskFork(x, chat, i, k, before)
  PROVE ListedInv'
<1> DEFINE segs == SegmentsOf(chat)
           beforeSegment == i > 1 /\ ((before /\ k <= 1) \/ (k = 0 /\ Cut(segs[i]) = << >>))
<1>1. /\ Open(chat) /\ k \in 0 .. Len(Cut(segs[i])) /\ (k = 0 => i > 1)
      /\ IF beforeSegment THEN TakeUpTo(x, "fork", chat, i - 1, Len(Cut(segs[i - 1])), FALSE)
         ELSE TakeUpTo(x, "fork", chat, i, IF before THEN k - 1 ELSE k, FALSE)
  BY DEF AskFork, HasMarker
<1>2. DOMAIN segs = 1 .. Len(segs) /\ Len(segs) \in Nat
  BY <1>1, OpenKnown, OwnSegments DEF ListedInv
<1> HIDE DEF segs
<1>3. \A j \in DOMAIN segs :
        /\ Len(Cut(segs[j])) \in Nat
        /\ segs[j].thread \in DOMAIN native =>
             Len(Cut(segs[j])) <= Len(native[segs[j].thread]) /\ Len(native[segs[j].thread]) \in Nat
  BY CutShorter DEF ListedInv, ThreadsOK
<1>4. CASE beforeSegment
  <2>1. i - 1 \in DOMAIN segs
    BY <1>2, <1>4 DEF segs
  <2> QED  BY <1>1, <1>3, <1>4, <2>1, TakeUpToKeeps DEF AskFork, segs
<1>5. CASE ~beforeSegment
  <2> DEFINE count == IF before THEN k - 1 ELSE k
  <2>1. count \in Nat /\ count <= Len(Cut(segs[i]))
    BY <1>1, <1>2, <1>3, <1>5 DEF segs
  <2> HIDE DEF count
  <2>2. segs[i].thread \in DOMAIN native => count <= Len(native[segs[i].thread])
    BY <1>3, <2>1 DEF segs
  <2>3. TakeUpTo(x, "fork", chat, i, count, FALSE)
    BY <1>1, <1>5 DEF count
  <2> QED  BY <1>1, <2>1, <2>2, <2>3, TakeUpToKeeps DEF AskFork, segs
<1> QED  BY <1>4, <1>5

LEMMA AskRevertKeeps ==
  ASSUME ListedInv, "Overlap" \notin Allow, "SharedEdits" \notin Allow, NEW x \in Calls, NEW chat \in Threads,
         NEW i \in DOMAIN SegmentsOf(chat), NEW k \in 0 .. MaxTurn, AskRevert(x, chat, i, k)
  PROVE ListedInv'
<1> DEFINE segs == SegmentsOf(chat)
           drop == i > 1 /\ k <= 1
           keep == IF drop THEN i - 1 ELSE i
           count == IF drop THEN Len(Cut(segs[keep])) ELSE k - 1
<1>1. /\ Open(chat) /\ k \in 0 .. Len(Cut(segs[i])) /\ (k = 0 => i > 1)
      /\ TakeUpTo(x, "revert", chat, keep, count, drop)
      /\ drop \/ ~Shared(chat, segs[i].thread)
  BY DEF AskRevert, HasMarker
<1>2. DOMAIN segs = 1 .. Len(segs) /\ Len(segs) \in Nat
  BY <1>1, OpenKnown, OwnSegments DEF ListedInv
<1>3. \A j \in DOMAIN segs :
        /\ Len(Cut(segs[j])) \in Nat
        /\ segs[j].thread \in DOMAIN native =>
             Len(Cut(segs[j])) <= Len(native[segs[j].thread]) /\ Len(native[segs[j].thread]) \in Nat
  BY CutShorter DEF ListedInv, ThreadsOK
<1>4. keep \in DOMAIN segs /\ drop \in BOOLEAN
  BY <1>2
<1> HIDE DEF segs
<1>5. count \in Nat
  <2>1. CASE drop
    BY <1>3, <1>4, <2>1
  <2>2. CASE ~drop
    BY <1>1, <1>2, <1>3, <2>2 DEF segs
  <2> QED  BY <2>1, <2>2
<1>6. ~drop => keep = i /\ (segs[i].thread \in DOMAIN native => count <= Len(native[segs[i].thread]))
  BY <1>1, <1>2, <1>3 DEF segs
<1> HIDE DEF drop, keep, count
<1> QED  BY <1>1, <1>4, <1>5, <1>6, TakeUpToKeeps DEF AskRevert, segs

-----------------------------------------------------------------------------
(* What lineages list *)

LEMMA Wider == ASSUME NEW m \in Nat, NEW n \in Nat, m <= n, NEW s \in Seq(1 .. m) PROVE s \in Seq(1 .. n)
<1>1. 1 .. m \subseteq 1 .. n
  OBVIOUS
<1> QED  BY <1>1

LEMMA ListsStay == ASSUME ListsOK, lineages' = lineages, DOMAIN provider \subseteq DOMAIN provider' PROVE ListsOK'
BY DEF ListsOK, LineageOK

LEMMA ListsPut ==
  ASSUME ListsOK, provider' = provider, NEW key \in DOMAIN provider, NEW segs, LineageOK(key, segs),
         lineages' = Put(lineages, key, segs)
  PROVE ListsOK'
<1>1. /\ DOMAIN lineages' = DOMAIN lineages \cup {key} /\ lineages'[key] = segs
      /\ \A c \in DOMAIN lineages \ {key} : lineages'[c] = lineages[c]
  BY DEF Put
<1>2. IsFiniteSet(DOMAIN lineages')
  BY <1>1, FS_AddElement DEF ListsOK
<1>3. ASSUME NEW c \in DOMAIN lineages', NEW s, s = lineages'[c] PROVE LineageOK(c, s)'
  <2>1. LineageOK(c, s)
    BY <1>1, <1>3 DEF ListsOK
  <2> QED  BY <2>1 DEF LineageOK
<1>4. DOMAIN lineages' \subseteq DOMAIN provider'
  BY <1>1 DEF ListsOK
<1> QED  BY <1>2, <1>3, <1>4 DEF ListsOK

LEMMA ListsDrop ==
  ASSUME ListsOK, provider' = provider, NEW key, lineages' = Restrict(lineages, DOMAIN lineages \ {key})
  PROVE ListsOK'
<1>1. DOMAIN lineages' = DOMAIN lineages \ {key} /\ \A c \in DOMAIN lineages \ {key} : lineages'[c] = lineages[c]
  BY DEF Restrict
<1>2. IsFiniteSet(DOMAIN lineages')
  BY <1>1, FS_RemoveElement DEF ListsOK
<1> QED  BY <1>1, <1>2 DEF ListsOK, LineageOK

\* A list of segments that goes on in another last one.
GoingOn(segs, n, last) == Append(SubSeq(segs, 1, n), last)

Within(n, segs) == n \in 0 .. Len(segs)
GoneOn(list, segs, n, last) ==
  /\ list \in Seq(Segments) /\ list # << >> /\ Len(list) = n + 1 /\ list[n + 1] = last
  /\ \A i \in 1 .. n : list[i] = segs[i]
  /\ \A t : Lists(list, t) <=> t = last.thread \/ UpTo(segs, n, t)
  /\ DOMAIN list = 1 .. n + 1

LEMMA ListGoesOn ==
  ASSUME NEW segs \in Seq(Segments), NEW n, Within(n, segs), NEW last \in Segments
  PROVE GoneOn(GoingOn(segs, n, last), segs, n, last)
<1> USE DEF Within
<1> DEFINE t == last.thread
<1>0. PICK list : list = GoingOn(segs, n, last)
  OBVIOUS
<1> DEFINE kept == SubSeq(segs, 1, n)
<1>1. kept \in Seq(Segments) /\ Len(kept) = n /\ \A i \in 1 .. n : kept[i] = segs[i]
  OBVIOUS
<1> HIDE DEF kept
<1>2. list = Append(kept, last) /\ n \in Nat
  BY <1>0 DEF kept, GoingOn
<1>3. list \in Seq(Segments) /\ Len(list) = n + 1 /\ list[n + 1] = last /\ \A i \in 1 .. n : list[i] = kept[i]
  BY <1>1, <1>2
<1>4. DOMAIN list = 1 .. n + 1
  BY <1>2, <1>3
<1>5. list # << >>
  <2>1. Len(list) # 0
    BY <1>2, <1>3
  <2> QED  BY <2>1
<1>6. 1 .. n + 1 = (1 .. n) \cup {n + 1}
  BY <1>2
<1>7. ASSUME NEW u PROVE Lists(list, u) <=> u = t \/ UpTo(segs, n, u)
  BY <1>1, <1>3, <1>4, <1>6 DEF Lists, UpTo
<1> QED  BY <1>0, <1>1, <1>3, <1>4, <1>5, <1>7 DEF GoneOn

LEMMA FrontIs ==
  ASSUME NEW segs \in Seq(Segments), segs # << >>
  PROVE Front(segs) = SubSeq(segs, 1, Len(segs) - 1) /\ Len(segs) \in Nat \ {0} /\ Len(segs) - 1 \in 0 .. Len(segs)
BY DEF Front

-----------------------------------------------------------------------------
(* Requests go on: steps of the providers *)

\* Whose threads are those of a request's chat, and which it created, as a step of another request finds them after.
Spared(other) ==
  /\ \A t \in other.made : other.step = "ready" /\ t \in DOMAIN native => t \in DOMAIN native'
  /\ \A t : Lists(SegmentsOf(other.chat), t) /\ t \in DOMAIN native' =>
              t \in DOMAIN native /\ Len(native[t]) <= Len(native'[t])

\* A request that goes on with what it had.
GoesWith(call, next) ==
  /\ next.chat = call.chat /\ next.made \subseteq call.made
  /\ \A t : Lists(next.segs, t) => Lists(call.segs, t)
  /\ next.step = "ready" => call.step = "ready" \/ next.made = {}

LEMMA NativeStep ==
  ASSUME ListedInv, ThreadsOK', lineages' = lineages, DOMAIN provider \subseteq DOMAIN provider',
         NEW x \in Busy, NEW next, calls' = [calls EXCEPT ![x] = next],
         \A other \in Others(x) : Spared(other),
         next = Idle \/ (CallOK(next)' /\ GoesWith(calls[x], next))
  PROVE ListedInv'
<1>1. x \in Calls /\ ListsOK'
  BY ListsStay DEF Busy, ListedInv
<1>2. ASSUME NEW other \in Others(x) PROVE CallOK(other)' /\ Apart(calls[x], other) /\ Apart(other, calls[x])
  <2>1. CallOK(other) /\ Apart(calls[x], other) /\ Apart(other, calls[x])
    BY DEF ListedInv, CallsOK, Others
  <2>2. CallOK(other)'
    BY <2>1, CallKept DEF Spared, ListedInv
  <2> QED  BY <2>1, <2>2
<1>3. ASSUME next # Idle, NEW other \in Others(x) PROVE Apart(next, other) /\ Apart(other, next)
  BY <1>2, <1>3, StaysApart DEF GoesWith
<1>4. CallsOK'
  BY <1>1, <1>2, <1>3, CallsStep DEF ListedInv
<1> QED  BY <1>1, <1>4 DEF ListedInv

LEMMA NativeStays ==
  ASSUME ListedInv, ThreadsOK', lineages' = lineages, DOMAIN provider \subseteq DOMAIN provider', UNCHANGED calls,
         \A x \in Busy : Spared(calls[x])
  PROVE ListedInv'
<1>1. ASSUME NEW x \in Busy, NEW call, call = calls[x] PROVE CallOK(call)'
  BY <1>1, CallKept DEF ListedInv, CallsOK, Spared
<1> QED  BY <1>1, CallsStay, ListsStay DEF ListedInv

LEMMA ThreadsLess ==
  ASSUME ThreadsOK, NEW gone, native' = Restrict(native, DOMAIN native \ gone),
         UNCHANGED <<provider, turns, noops, cleaned, run>>, newBackends' = newBackends
  PROVE /\ ThreadsOK'
        /\ DOMAIN native' = DOMAIN native \ gone /\ \A t \in DOMAIN native' : native'[t] = native[t]
BY DEF ThreadsOK, Restrict

\* Threads go that are no other request's own.
LEMMA LessSpares ==
  ASSUME ListedInv, NEW x \in Busy, NEW gone,
         DOMAIN native' = DOMAIN native \ gone, \A t \in DOMAIN native' : native'[t] = native[t],
         \A t \in gone : Lists(calls[x].segs, t) \/ t \in calls[x].made,
         NEW other \in Others(x)
  PROVE Spared(other)
<1>1. Apart(other, calls[x])
  BY DEF ListedInv, CallsOK, Others
<1>2. ASSUME NEW t \in DOMAIN native' PROVE t \in DOMAIN native /\ Len(native[t]) <= Len(native'[t])
  <2>1. native[t] \in Seq(1 .. turns) /\ native'[t] = native[t]
    BY <1>2 DEF ListedInv, ThreadsOK
  <2>2. Len(native[t]) \in Nat
    BY <2>1
  <2> QED  BY <2>1, <2>2
<1> QED  BY <1>1, <1>2 DEF Spared, Apart

LEMMA SameSpares ==
  ASSUME ThreadsOK, native' = native, NEW other
  PROVE Spared(other)
<1>1. \A t \in DOMAIN native : Len(native[t]) \in Nat
  BY DEF ThreadsOK
<1> QED  BY <1>1 DEF Spared

\* Something is said in a thread.
LEMMA SaySpares ==
  ASSUME ThreadsOK, NEW thread \in DOMAIN native, Say(thread, NextTurn), Speak, NEW other
  PROVE Spared(other)
<1>1. native' = [native EXCEPT ![thread] = Append(@, NextTurn)] /\ DOMAIN native' = DOMAIN native
  BY DEF Say
<1>2. ASSUME NEW t \in DOMAIN native PROVE Len(native[t]) <= Len(native'[t])
  <2>1. native[t] \in Seq(1 .. turns) /\ Len(native[t]) \in Nat
    BY DEF ThreadsOK
  <2>2. CASE t = thread
    <3>1. native'[t] = Append(native[t], NextTurn)
      BY <1>1, <2>2
    <3>2. Len(Append(native[t], NextTurn)) = Len(native[t]) + 1
      BY <2>1
    <3> QED  BY <2>1, <3>1, <3>2
  <2>3. CASE t # thread
    BY <1>1, <2>1, <2>3
  <2> QED  BY <2>2, <2>3
<1> QED  BY <1>1, <1>2 DEF Spared

LEMMA SayTyped ==
  ASSUME ThreadsOK, NEW thread \in DOMAIN native, Say(thread, NextTurn), Speak,
         noops' = noops \/ noops' = noops \cup {NextTurn}, UNCHANGED <<provider, newBackends, cleaned, run>>
  PROVE ThreadsOK'
<1>1. turns \in Nat /\ turns' = turns + 1 /\ turns' \in 0 .. MaxTurn /\ NextTurn = turns'
  BY BoundsAssumption DEF ThreadsOK, Speak, NextTurn
<1>2. DOMAIN native' = DOMAIN native
  BY DEF Say
<1>3. ASSUME NEW t \in DOMAIN native PROVE native'[t] \in Seq(1 .. turns')
  <2>1. native[t] \in Seq(1 .. turns')
    BY <1>1, Wider DEF ThreadsOK
  <2>2. NextTurn \in 1 .. turns'
    BY <1>1
  <2>3. Append(native[t], NextTurn) \in Seq(1 .. turns')
    BY <2>1, <2>2
  <2> QED  BY <2>1, <2>3 DEF Say
<1>4. noops' \subseteq 1 .. turns'
  <2>1. 1 .. turns \subseteq 1 .. turns' /\ turns' \in 1 .. turns'
    BY <1>1
  <2> QED  BY <1>1, <2>1 DEF ThreadsOK
<1> QED  BY <1>1, <1>2, <1>3, <1>4 DEF ThreadsOK

\* A thread is created, a backend or not.
Backs(thread) == newBackends' = newBackends \/ newBackends' = newBackends \cup {thread}

LEMMA NewTyped ==
  ASSUME ThreadsOK, NEW thread \in Threads, NEW p \in Providers, NEW history \in Seq(1 .. turns'),
         provider' = Put(provider, thread, p), native' = Put(native, thread, history),
         turns' \in 0 .. MaxTurn, turns <= turns',
         Backs(thread), UNCHANGED <<noops, cleaned, run>>
  PROVE ThreadsOK'
<1>1. turns \in Nat /\ turns' \in Nat
  BY BoundsAssumption DEF ThreadsOK
<1>2. /\ DOMAIN native' = DOMAIN native \cup {thread} /\ native'[thread] = history
      /\ \A t \in DOMAIN native \ {thread} : native'[t] = native[t]
  BY DEF Put
<1>3. /\ DOMAIN provider' = DOMAIN provider \cup {thread} /\ provider'[thread] = p
      /\ \A t \in DOMAIN provider \ {thread} : provider'[t] = provider[t]
  BY DEF Put
<1>4. ASSUME NEW t \in DOMAIN native' PROVE native'[t] \in Seq(1 .. turns')
  <2>1. CASE t = thread
    BY <1>2, <2>1
  <2>2. CASE t # thread
    <3>1. native[t] \in Seq(1 .. turns)
      BY <1>2, <1>4, <2>2 DEF ThreadsOK
    <3>2. native[t] \in Seq(1 .. turns')
      BY <1>1, <3>1, Wider
    <3> QED  BY <1>2, <1>4, <2>2, <3>2
  <2> QED  BY <2>1, <2>2
<1>5. noops' \subseteq 1 .. turns'
  <2>1. 1 .. turns \subseteq 1 .. turns'
    BY <1>1
  <2> QED  BY <2>1 DEF ThreadsOK
<1> QED  BY <1>2, <1>3, <1>4, <1>5 DEF ThreadsOK, Backs

LEMMA NewSpares ==
  ASSUME ListedInv, NEW thread, thread \notin DOMAIN provider, NEW history, native' = Put(native, thread, history),
         NEW other, CallOK(other)
  PROVE Spared(other)
<1>1. DOMAIN native' = DOMAIN native \cup {thread} /\ \A t \in DOMAIN native \ {thread} : native'[t] = native[t]
  BY DEF Put
<1>2. \A t \in DOMAIN native : t # thread /\ Len(native[t]) \in Nat
  BY DEF ListedInv, ThreadsOK
<1>3. \A t : Lists(SegmentsOf(other.chat), t) => t # thread
  BY OwnSegments DEF CallOK, CallTyped, ListedInv, Lists
<1> QED  BY <1>1, <1>2, <1>3 DEF Spared

LEMMA BeginKeeps ==
  ASSUME ListedInv, NEW chat \in Threads, NEW p \in Providers, Begin(chat, p)
  PROVE ListedInv'
<1>1. /\ chat \notin DOMAIN provider /\ provider' = Put(provider, chat, p) /\ native' = Put(native, chat, <<NextTurn>>)
      /\ UNCHANGED <<lineages, newBackends, calls, noops, cleaned, run>>
  BY DEF Begin, Fresh
<1>2. turns \in Nat /\ turns' = turns + 1 /\ turns' \in 0 .. MaxTurn /\ NextTurn = turns' /\ turns <= turns'
  BY BoundsAssumption DEF ListedInv, ThreadsOK, Begin, Speak, NextTurn
<1>3. <<NextTurn>> \in Seq(1 .. turns')
  BY <1>2
<1>4. ThreadsOK'
  <2> DEFINE history == <<NextTurn>>
  <2>1. history \in Seq(1 .. turns') /\ native' = Put(native, chat, history)
    BY <1>1, <1>3
  <2> HIDE DEF history
  <2> QED  BY <1>1, <1>2, <2>1, NewTyped DEF ListedInv, Backs
<1>5. \A x \in Busy : Spared(calls[x])
  BY <1>1, NewSpares DEF ListedInv, CallsOK
<1>6. DOMAIN provider \subseteq DOMAIN provider'
  BY <1>1 DEF Put
<1> QED  BY <1>1, <1>4, <1>5, <1>6, NativeStays

LEMMA StartTurnKeeps == ASSUME ListedInv, NEW chat \in Threads, StartTurn(chat) PROVE ListedInv'
<1>1. Current(chat) \in DOMAIN native /\ Say(Current(chat), NextTurn) /\ Speak
  BY OpenKnown DEF StartTurn, ListedInv
<1>2. ThreadsOK'
  BY <1>1, SayTyped DEF StartTurn, ListedInv
<1>3. \A x \in Busy : Spared(calls[x])
  BY <1>1, SaySpares DEF ListedInv
<1> QED  BY <1>2, <1>3, NativeStays DEF StartTurn

LEMMA DoingBusy == ASSUME NEW x \in Calls, NEW what, NEW step, Doing(x, what, step) PROVE x \in Busy
BY DEF Doing, Busy

LEMMA StartSwitchedKeeps == ASSUME ListedInv, NEW x \in Calls, StartSwitched(x) PROVE ListedInv'
<1>1. PICK backend \in calls[x].made : Say(backend, NextTurn)
  BY DEF StartSwitched
<1>2. backend \in DOMAIN native /\ Speak /\ x \in Busy /\ calls' = [calls EXCEPT ![x] = Idle]
  BY DoingBusy DEF StartSwitched, Ends
<1>3. ThreadsOK'
  BY <1>1, <1>2, SayTyped DEF StartSwitched, ListedInv
<1>4. \A other \in Others(x) : Spared(other)
  BY <1>1, <1>2, SaySpares DEF ListedInv
<1> QED  BY <1>2, <1>3, <1>4, NativeStep DEF StartSwitched

LEMMA FailSwitchKeeps == ASSUME ListedInv, NEW x \in Calls, FailSwitch(x) PROVE ListedInv'
<1> DEFINE gone == {t \in calls[x].made : provider[t] = "claude"}
<1>1. native' = Restrict(native, DOMAIN native \ gone) /\ gone \subseteq calls[x].made
  BY DEF FailSwitch
<1> HIDE DEF gone
<1>2. x \in Busy /\ calls' = [calls EXCEPT ![x] = Idle] /\ UNCHANGED <<provider, lineages, newBackends, turns, noops, cleaned, run>>
  BY DoingBusy DEF FailSwitch, Ends
<1>3. ThreadsOK' /\ DOMAIN native' = DOMAIN native \ gone /\ \A t \in DOMAIN native' : native'[t] = native[t]
  BY <1>1, <1>2, ThreadsLess DEF ListedInv
<1>4. \A other \in Others(x) : Spared(other)
  BY <1>1, <1>2, <1>3, LessSpares
<1> QED  BY <1>2, <1>3, <1>4, NativeStep

LEMMA RefuseKeeps == ASSUME ListedInv, NEW x \in Calls, Refuse(x) PROVE ListedInv'
<1>1. /\ x \in Busy /\ calls' = [calls EXCEPT ![x] = Idle]
      /\ UNCHANGED <<provider, native, lineages, newBackends, turns, noops, cleaned, run>>
  BY DoingBusy DEF Refuse, Ends
<1>2. ThreadsOK'
  BY <1>1 DEF ListedInv, ThreadsOK
<1>3. \A other \in Others(x) : Spared(other)
  BY <1>1, SameSpares DEF ListedInv
<1> QED  BY <1>1, <1>2, <1>3, NativeStep

LEMMA CleanUpKeeps == ASSUME ListedInv, NEW thread \in Threads, CleanUp(thread) PROVE ListedInv'
<1>1. /\ native' = Restrict(native, DOMAIN native \ {thread}) /\ cleaned' = cleaned \cup {thread} /\ thread \in DOMAIN native
      /\ UNCHANGED <<provider, lineages, newBackends, calls, turns, noops, run>> /\ ~Unlisted(thread)
  BY DEF CleanUp, Unlisted
<1>2. ThreadsOK' /\ DOMAIN native' = DOMAIN native \ {thread} /\ \A t \in DOMAIN native' : native'[t] = native[t]
  BY <1>1 DEF ListedInv, ThreadsOK, Restrict
<1>3. ASSUME NEW x \in Busy PROVE Spared(calls[x])
  <2>1. \A t \in calls[x].made : calls[x].step = "ready" => t # thread
    BY <1>1 DEF ListedInv, CallsOK, CallOK, MadeNew
  <2>2. \A t \in DOMAIN native : Len(native[t]) \in Nat
    BY DEF ListedInv, ThreadsOK
  <2> QED  BY <1>2, <2>1, <2>2 DEF Spared
<1> QED  BY <1>1, <1>2, <1>3, NativeStays

LEMMA OfCall ==
  ASSUME ListedInv, NEW x \in Busy
  PROVE /\ CallOK(calls[x]) /\ x \in Calls /\ calls[x] \in Requests(calls[x].want)
        /\ calls[x].segs \in Seq(Segments) /\ DOMAIN calls[x].segs = 1 .. Len(calls[x].segs)
        /\ Len(calls[x].segs) \in Nat \ {0} /\ calls[x].at \in Nat /\ calls[x].count \in Nat
<1>1. CallOK(calls[x]) /\ x \in Calls
  BY DEF ListedInv, CallsOK, Busy
<1>2. calls[x] \in Requests(calls[x].want) /\ calls[x].segs \in Seq(Segments) /\ calls[x].segs # << >>
  BY <1>1 DEF CallOK, CallTyped, Requests
<1>3. calls[x].at \in Nat /\ calls[x].count \in Nat
  BY <1>2 DEF Requests
<1> QED  BY <1>1, <1>2, <1>3

\* A thread of the request's own, or none, goes.
LEMMA ThreadGoes ==
  ASSUME ListedInv, NEW x \in Busy, NEW thread, Lists(calls[x].segs, thread),
         native' = native \/ native' = Restrict(native, DOMAIN native \ {thread}),
         UNCHANGED <<provider, turns, noops, cleaned, run>>, newBackends' = newBackends
  PROVE ThreadsOK' /\ \A other \in Others(x) : Spared(other)
<1>1. CASE native' = native
  <2>1. ThreadsOK'
    BY <1>1 DEF ListedInv, ThreadsOK
  <2> QED  BY <1>1, <2>1, SameSpares DEF ListedInv
<1>2. CASE native' = Restrict(native, DOMAIN native \ {thread})
  <2>1. ThreadsOK' /\ DOMAIN native' = DOMAIN native \ {thread} /\ \A t \in DOMAIN native' : native'[t] = native[t]
    BY <1>2, ThreadsLess DEF ListedInv
  <2> QED  BY <2>1, LessSpares
<1> QED  BY <1>1, <1>2

LEMMA DeleteOnlyKeeps == ASSUME ListedInv, NEW x \in Calls, DeleteOnly(x) PROVE ListedInv'
<1> DEFINE thread == calls[x].segs[1].thread
<1>1. /\ x \in Busy /\ calls' = [calls EXCEPT ![x] = Idle] /\ native' = Restrict(native, DOMAIN native \ {thread})
      /\ UNCHANGED <<provider, lineages, newBackends, turns, noops, cleaned, run>>
  BY DoingBusy DEF DeleteOnly, Ends
<1>2. Lists(calls[x].segs, thread)
  BY <1>1, OfCall DEF Lists
<1> HIDE DEF thread
<1>3. ThreadsOK' /\ \A other \in Others(x) : Spared(other)
  BY <1>1, <1>2, ThreadGoes
<1> QED  BY <1>1, <1>3, NativeStep

LEMMA DeletedOn ==
  ASSUME NEW call, CallOK(call), call.what = "delete", call.at < Len(call.segs), NEW next, next = [call EXCEPT !.at = @ + 1],
         UNCHANGED <<provider, lineages>>
  PROVE CallOK(next)' /\ GoesWith(call, next)
<1>1. /\ call \in Requests(call.want) /\ call.at \in Nat /\ call.step = "asked"
      /\ DOMAIN call.segs = 1 .. Len(call.segs) /\ Len(call.segs) \in Nat
  BY DEF CallOK, CallTyped, Requests, AsTaken
<1>2. /\ next \in Requests(next.want) /\ next.at = call.at + 1 /\ next.want = call.want
      /\ next.what = "delete" /\ next.step = "asked" /\ next.segs = call.segs /\ next.chat = call.chat
      /\ next.made = call.made
  BY <1>1 DEF Requests
<1>3. CallTyped(next)'
  BY <1>2 DEF CallOK, CallTyped
<1>4. MadeNew(next)'
  BY <1>2 DEF CallOK, MadeNew
<1>5. SegmentsOf(call.chat)' = SegmentsOf(call.chat)
  BY DEF SegmentsOf
<1>6. AsTaken(next)'
  BY <1>1, <1>2, <1>5 DEF CallOK, AsTaken
<1>7. ChatFree(next)'
  BY <1>2 DEF CallOK, ChatFree, Unlisted
<1>8. RolledAlone(next)' /\ Counted(next)'
  BY <1>2 DEF RolledAlone, Counted, RollsBack
<1> QED  BY <1>2, <1>3, <1>4, <1>6, <1>7, <1>8 DEF CallOK, GoesWith

\* A rollback goes on to discard the backends it dropped.
Discarding(call, at) == [call EXCEPT !.step = "set", !.at = at]

LEMMA DroppedOn ==
  ASSUME NEW call, CallOK(call), call.what = "revert", NEW at \in Nat, at < Len(call.segs),
         NEW next, next = Discarding(call, at), provider' = provider,
         call.chat \notin DOMAIN lineages' => Unlisted(call.chat)'
  PROVE CallOK(next)' /\ GoesWith(call, next)
<1>1. call \in Requests(call.want)
  BY DEF CallOK, CallTyped
<1>2. /\ next.at = at /\ next.want = call.want /\ next.what = "revert" /\ next.step = "set" /\ next.segs = call.segs
      /\ next.chat = call.chat /\ next.made = call.made
  BY <1>1 DEF Requests, Discarding
<1>3. next \in Requests(next.want)
  BY <1>1, <1>2 DEF Requests, Discarding
<1>4. CallTyped(next)'
  BY <1>2, <1>3 DEF CallOK, CallTyped
<1>5. MadeNew(next)'
  BY <1>2 DEF CallOK, MadeNew
<1>6. AsTaken(next)'
  BY <1>2 DEF AsTaken
<1>7. ChatFree(next)'
  BY <1>2 DEF ChatFree
<1>8. RolledAlone(next)' /\ Counted(next)'
  BY <1>2 DEF RolledAlone, Counted, RollsBack
<1> QED  BY <1>2, <1>4, <1>5, <1>6, <1>7, <1>8 DEF CallOK, GoesWith

LEMMA DeleteSegmentKeeps == ASSUME ListedInv, NEW x \in Calls, DeleteSegment(x) PROVE ListedInv'
<1>1. PICK call : call = calls[x]
  OBVIOUS
<1>2. PICK next : next = [call EXCEPT !.at = @ + 1]
  OBVIOUS
<1>3. PICK thread : thread = call.segs[call.at + 1].thread
  OBVIOUS
<1>4. /\ x \in Busy /\ calls' = [calls EXCEPT ![x] = next] /\ call.what = "delete" /\ call.at < Len(call.segs)
      /\ native' = native \/ native' = Restrict(native, DOMAIN native \ {thread})
      /\ UNCHANGED <<provider, lineages, newBackends, turns, noops, cleaned, run>>
  BY <1>1, <1>2, <1>3, DoingBusy DEF DeleteSegment, Doing
<1>5. CallOK(call) /\ Lists(call.segs, thread)
  BY <1>1, <1>3, <1>4, OfCall DEF Lists
<1>6. ThreadsOK' /\ \A other \in Others(x) : Spared(other)
  BY <1>1, <1>4, <1>5, ThreadGoes
<1>7. CallOK(next)' /\ GoesWith(call, next)
  BY <1>2, <1>4, <1>5, DeletedOn
<1> QED  BY <1>1, <1>4, <1>6, <1>7, NativeStep

LEMMA DiscardKeeps == ASSUME ListedInv, NEW x \in Calls, Discard(x) PROVE ListedInv'
<1>1. PICK call : call = calls[x]
  OBVIOUS
<1>2. PICK at : at = call.at + 1
  OBVIOUS
<1>3. PICK next : next = Discarding(call, at)
  OBVIOUS
<1>4. PICK thread : thread = call.segs[at].thread
  OBVIOUS
<1>5. /\ x \in Busy /\ call.what = "revert" /\ call.step = "set"
      /\ native' = native \/ native' = Restrict(native, DOMAIN native \ {thread})
      /\ UNCHANGED <<provider, lineages, newBackends, turns, noops, cleaned, run>>
  BY <1>1, <1>2, <1>4, DoingBusy DEF Discard, Doing
<1>6. calls' = IF at = Len(call.segs) THEN [calls EXCEPT ![x] = Idle] ELSE [calls EXCEPT ![x] = next]
  BY <1>1, <1>2, <1>3 DEF Discard, GoesOn, Ends, Discarding
<1>7. CallOK(call) /\ Lists(call.segs, thread) /\ at \in Nat /\ at <= Len(call.segs) /\ Len(call.segs) \in Nat
  <2>1. CallOK(call) /\ call.at \in Nat /\ DOMAIN call.segs = 1 .. Len(call.segs) /\ Len(call.segs) \in Nat
    BY <1>1, <1>5, OfCall
  <2>2. call.at < Len(call.segs)
    BY <1>5, <2>1 DEF CallOK, AsTaken
  <2> QED  BY <1>2, <1>4, <2>1, <2>2 DEF Lists
<1>8. ThreadsOK' /\ \A other \in Others(x) : Spared(other)
  BY <1>1, <1>5, <1>7, ThreadGoes
<1>9. CASE at = Len(call.segs)
  BY <1>5, <1>6, <1>8, <1>9, NativeStep
<1>10. CASE at # Len(call.segs)
  <2>1. call.chat \notin DOMAIN lineages' => Unlisted(call.chat)'
    BY <1>5, <1>7 DEF CallOK, ChatFree, Unlisted
  <2>2. CallOK(next)' /\ GoesWith(call, next)
    BY <1>3, <1>5, <1>7, <1>10, <2>1, DroppedOn
  <2> QED  BY <1>1, <1>5, <1>6, <1>8, <1>10, <2>2, NativeStep
<1> QED  BY <1>9, <1>10

\* A rollback that is not refused keeps the chat's row.
LEMMA RowKept ==
  ASSUME ListedInv, NEW x \in Busy, NEW call, call = calls[x], call.what = "revert", call.step = "asked", ~RowDropped(x)
  PROVE UpTo(call.segs, call.at, call.chat)
<1>1. CallOK(call) /\ call.at \in Nat /\ DOMAIN call.segs = 1 .. Len(call.segs) /\ Len(call.segs) \in Nat
  BY OfCall
<1>2. call.segs = SegmentsOf(call.chat) /\ call.at \in DOMAIN call.segs
  BY <1>1 DEF CallOK, AsTaken
<1>3. PICK row \in DOMAIN call.segs : call.segs[row].thread = call.chat
  <2>1. Lists(SegmentsOf(call.chat), call.chat)
    BY <1>1, OwnSegments DEF ListedInv, CallOK, CallTyped
  <2> QED  BY <1>2, <2>1 DEF Lists
<1>4. row \notin call.at + 1 .. Len(call.segs)
  BY <1>2, <1>3 DEF RowDropped
<1>5. row \in 1 .. call.at
  BY <1>1, <1>4
<1> QED  BY <1>3, <1>5 DEF UpTo

LEMMA FirstTurns ==
  ASSUME NEW S, NEW s \in Seq(S), NEW n \in Nat, n <= Len(s)
  PROVE SubSeq(s, 1, n) \in Seq(S)
OBVIOUS

LEMMA RevertThreadKeeps == ASSUME ListedInv, NEW x \in Calls, RevertThread(x) PROVE ListedInv'
<1>1. PICK call : call = calls[x]
  OBVIOUS
<1>2. PICK next : next = [call EXCEPT !.step = "ready"]
  OBVIOUS
<1>3. PICK thread : thread = call.segs[call.at].thread
  OBVIOUS
<1>4. PICK count : count = call.count
  OBVIOUS
<1>5. /\ x \in Busy /\ call.what = "revert" /\ call.step = "asked" /\ ~call.drop /\ ~RowDropped(x)
      /\ thread \in DOMAIN native /\ native' = [native EXCEPT ![thread] = SubSeq(@, 1, count)]
      /\ calls' = [calls EXCEPT ![x] = next]
      /\ UNCHANGED <<provider, lineages, newBackends, turns, noops, cleaned, run>>
  BY <1>1, <1>2, <1>3, <1>4, DoingBusy DEF RevertThread, Doing
<1>6. CallOK(call) /\ RollsBack(call) /\ UpTo(call.segs, call.at, call.chat)
  BY <1>1, <1>5, OfCall, RowKept DEF RollsBack
<1>7. count \in Nat /\ count <= Len(native[thread])
  BY <1>3, <1>4, <1>5, <1>6 DEF CallOK, Counted, CallTyped, Requests
<1>8. ThreadsOK'
  <2>1. native[thread] \in Seq(1 .. turns)
    BY <1>5 DEF ListedInv, ThreadsOK
  <2>2. SubSeq(native[thread], 1, count) \in Seq(1 .. turns)
    BY <1>7, <2>1, FirstTurns
  <2>3. \A t \in DOMAIN native : native'[t] \in Seq(1 .. turns)
    BY <1>5, <2>2 DEF ListedInv, ThreadsOK
  <2> QED  BY <1>5, <2>3 DEF ListedInv, ThreadsOK
<1>9. ASSUME NEW other \in Others(x) PROVE Spared(other)
  <2>1. ~Lists(SegmentsOf(other.chat), thread)
    BY <1>1, <1>3, <1>5, <1>6, RolledByOne
  <2>2. \A t \in DOMAIN native : Len(native[t]) \in Nat
    BY DEF ListedInv, ThreadsOK
  <2> QED  BY <1>5, <2>1, <2>2 DEF Spared
<1>10. /\ next.at = call.at /\ next.want = call.want /\ next.what = "revert" /\ next.step = "ready" /\ next.segs = call.segs
       /\ next.chat = call.chat /\ next.made = call.made /\ next.drop = call.drop
       /\ next \in Requests(next.want)
  BY <1>2, <1>5, <1>6 DEF Requests, CallOK, CallTyped
<1>11. call.made = {}
  BY <1>5, <1>6 DEF CallOK, MadeNew
<1>12. CallOK(next)'
  <2>1. CallTyped(next)'
    BY <1>5, <1>6, <1>10 DEF CallOK, CallTyped
  <2>2. MadeNew(next)'
    BY <1>10, <1>11 DEF MadeNew
  <2>3. SegmentsOf(call.chat)' = SegmentsOf(call.chat)
    BY <1>5 DEF SegmentsOf
  <2>4. AsTaken(next)'
    BY <1>5, <1>6, <1>10, <2>3 DEF CallOK, AsTaken
  <2>5. ChatFree(next)'
    BY <1>5, <1>6, <1>10 DEF CallOK, ChatFree, Unlisted
  <2>6. RolledAlone(next)' /\ Counted(next)'
    BY <1>5, <1>6, <1>10 DEF CallOK, RolledAlone, Counted, RollsBack, Shared
  <2> QED  BY <2>1, <2>2, <2>4, <2>5, <2>6 DEF CallOK
<1>13. GoesWith(call, next)
  BY <1>10, <1>11 DEF GoesWith
<1> QED  BY <1>1, <1>5, <1>8, <1>9, <1>12, <1>13, NativeStep

\* A switch or a fork creates a thread.
LEMMA CreatedKeeps ==
  ASSUME ListedInv, NEW x \in Busy, NEW call, call = calls[x], call.step = "asked",
         NEW thread \in Threads, thread \notin DOMAIN provider,
         NEW p \in Providers, provider' = Put(provider, thread, p),
         NEW history \in Seq(1 .. turns), native' = Put(native, thread, history),
         Backs(thread),
         UNCHANGED <<lineages, turns, noops, cleaned, run>>,
         NEW next, calls' = [calls EXCEPT ![x] = next], next \in Requests(next.want), next.segs # << >>,
         next.what \in {"switch", "fork"}, next.chat = call.chat, next.step = "ready", next.made = {thread},
         AsTaken(next), \A t : Lists(next.segs, t) => Lists(call.segs, t)
  PROVE ListedInv'
<1>1. CallOK(call) /\ x \in Calls
  BY OfCall
<1>2. /\ DOMAIN provider' = DOMAIN provider \cup {thread}
      /\ \A t \in DOMAIN provider : t # thread /\ provider'[t] = provider[t]
  BY DEF Put
<1>3. ThreadsOK'
  <2>1. turns \in 0 .. MaxTurn /\ turns <= turns /\ history \in Seq(1 .. turns') /\ turns' \in 0 .. MaxTurn /\ turns <= turns'
    BY BoundsAssumption DEF ListedInv, ThreadsOK
  <2> QED  BY <2>1, NewTyped DEF ListedInv
<1>4. ListsOK'
  BY <1>2, ListsStay DEF ListedInv
<1>5. ASSUME NEW other \in Others(x)
      PROVE CallOK(other)' /\ Apart(next, other) /\ Apart(other, next)
  <2>1. CallOK(other) /\ Apart(call, other) /\ Apart(other, call)
    BY DEF ListedInv, CallsOK, Others
  <2>2. Spared(other)
    BY <2>1, NewSpares
  <2>3. CallOK(other)'
    BY <1>2, <1>3, <2>1, <2>2, CallKept DEF Spared, ListedInv
  <2>4. other.chat # thread /\ ~Lists(other.segs, thread) /\ thread \notin other.made
    BY <1>2, <2>1 DEF CallOK, CallTyped, Lists
  <2> QED  BY <2>1, <2>3, <2>4 DEF Apart
<1>6. CallOK(next)'
  <2>1. call.chat \in DOMAIN provider /\ \A i \in DOMAIN next.segs : next.segs[i].thread \in DOMAIN provider
    BY <1>1 DEF CallOK, CallTyped, Lists
  <2>2. CallTyped(next)'
    BY <1>2, <2>1 DEF CallTyped
  <2>3. thread \in DOMAIN native' /\ thread \notin DOMAIN lineages' /\ Unlisted(thread)'
    <3>1. Unlisted(thread) /\ thread \notin DOMAIN lineages
      BY DEF Unlisted, ListedInv, ListsOK, LineageOK, Lists
    <3> QED  BY <3>1 DEF Put, Unlisted
  <2>4. thread # next.chat /\ ~Lists(next.segs, thread)
    BY <2>1 DEF Lists
  <2>5. MadeNew(next)'
    BY <2>3, <2>4 DEF MadeNew
  <2>6. AsTaken(next)'
    BY DEF AsTaken, SegmentsOf
  <2>7. ChatFree(next)'
    BY <1>1 DEF CallOK, ChatFree, Unlisted
  <2>8. RolledAlone(next)' /\ Counted(next)'
    BY DEF RolledAlone, Counted, RollsBack
  <2> QED  BY <2>2, <2>5, <2>6, <2>7, <2>8 DEF CallOK
<1>7. CallsOK'
  BY <1>1, <1>5, <1>6, CallsStep DEF ListedInv
<1> QED  BY <1>3, <1>4, <1>7 DEF ListedInv

\* The last segment's last turn is another one.
Ended(segs, thread, turn) == Append(Front(segs), Segment(thread, turn))

EndsIn(segs, thread) == segs \in Seq(Segments) /\ segs # << >> /\ thread = segs[Len(segs)].thread
EndedOf(next, segs) ==
  /\ next \in Seq(Segments) /\ next # << >> /\ Len(next) = Len(segs) /\ DOMAIN next = DOMAIN segs
  /\ next[Len(segs)].thread = segs[Len(segs)].thread
  /\ \A i \in 1 .. Len(segs) - 1 : next[i] = segs[i]
  /\ \A t : Lists(next, t) => Lists(segs, t)

LEMMA OtherLast ==
  ASSUME NEW segs, NEW thread, EndsIn(segs, thread), NEW turn \in Turns \cup {None}
  PROVE EndedOf(Ended(segs, thread, turn), segs)
<1> USE DEF EndsIn
<1>0. PICK next : next = Ended(segs, thread, turn)
  OBVIOUS
<1>1. PICK n : n = Len(segs) - 1
  OBVIOUS
<1>2. /\ n \in 0 .. Len(segs) /\ Len(segs) \in Nat \ {0} /\ n + 1 = Len(segs) /\ Front(segs) = SubSeq(segs, 1, n)
      /\ DOMAIN segs = 1 .. n + 1
  BY <1>1, FrontIs
<1>3. thread = segs[n + 1].thread /\ segs[n + 1] \in Segments
  BY <1>2
<1>4. PICK last : last = Segment(thread, turn)
  OBVIOUS
<1>5. last \in Segments /\ last.thread = thread
  BY <1>3, <1>4 DEF Segment, Segments
<1>6. next = GoingOn(segs, n, last)
  BY <1>0, <1>2, <1>4 DEF GoingOn, Ended
<1>7. /\ next \in Seq(Segments) /\ next # << >> /\ Len(next) = n + 1 /\ next[n + 1] = last
      /\ \A i \in 1 .. n : next[i] = segs[i]
      /\ \A u : Lists(next, u) <=> u = thread \/ UpTo(segs, n, u)
      /\ DOMAIN next = 1 .. n + 1
  <2>1. Within(n, segs)
    BY <1>2 DEF Within
  <2>2. GoneOn(next, segs, n, last)
    BY <1>5, <1>6, <2>1, ListGoesOn
  <2> QED  BY <1>5, <2>2 DEF GoneOn
<1>8. \A t : Lists(next, t) => Lists(segs, t)
  <2>1. 1 .. n \subseteq DOMAIN segs /\ n + 1 \in DOMAIN segs
    BY <1>2
  <2> QED  BY <1>3, <1>7, <2>1 DEF Lists, UpTo
<1> QED  BY <1>0, <1>1, <1>2, <1>3, <1>5, <1>7, <1>8 DEF EndedOf

LEMMA LastTurnTyped ==
  ASSUME ListedInv, NEW x \in Busy, Last(calls[x].segs).thread \in DOMAIN native
  PROVE LastTurn(x) \in Turns \cup {None}
<1>1. PICK source : source = Last(calls[x].segs)
  OBVIOUS
<1>2. source \in Segments
  BY <1>1, OfCall DEF Last
<1>3. CASE provider[source.thread] = "claude"
  BY <1>1, <1>2, <1>3 DEF LastTurn, Segments
<1>4. CASE provider[source.thread] # "claude" /\ native[source.thread] = << >>
  BY <1>1, <1>4 DEF LastTurn
<1>5. CASE provider[source.thread] # "claude" /\ native[source.thread] # << >>
  <2>1. native[source.thread] \in Seq(1 .. turns) /\ turns \in 0 .. MaxTurn
    BY <1>1 DEF ListedInv, ThreadsOK
  <2>2. Last(native[source.thread]) \in 1 .. turns
    BY <1>5, <2>1 DEF Last
  <2>3. Last(native[source.thread]) \in Turns
    BY <2>1, <2>2, BoundsAssumption DEF Turns
  <2> QED  BY <1>1, <1>5, <2>3 DEF LastTurn
<1> QED  BY <1>3, <1>4, <1>5

LEMMA CreateBackendKeeps ==
  ASSUME ListedInv, NEW x \in Calls, NEW backend \in Threads, CreateBackend(x, backend)
  PROVE ListedInv'
<1>1. PICK call : call = calls[x]
  OBVIOUS
<1>2. PICK turn : turn = LastTurn(x)
  OBVIOUS
<1>3. PICK source : source = Last(call.segs).thread
  OBVIOUS
<1>4. PICK segs : segs = Ended(call.segs, source, turn)
  OBVIOUS
<1>5. PICK next : next = [call EXCEPT !.step = "ready", !.made = {backend}, !.segs = segs]
  OBVIOUS
<1>6. /\ x \in Busy /\ call.what = "switch" /\ call.step = "asked" /\ backend \notin DOMAIN provider
      /\ source \in DOMAIN native /\ provider' = Put(provider, backend, Other(provider[source]))
      /\ calls' = [calls EXCEPT ![x] = next]
      /\ native' = Put(native, backend, << >>) /\ newBackends' = newBackends \cup {backend}
      /\ UNCHANGED <<lineages, turns, noops, cleaned, run>>
  BY <1>1, <1>2, <1>3, <1>4, <1>5, DoingBusy DEF CreateBackend, Doing, Fresh, Ended
<1>7. CallOK(call) /\ call.segs \in Seq(Segments) /\ call.segs # << >> /\ source = call.segs[Len(call.segs)].thread
  BY <1>1, <1>3, <1>6, OfCall DEF Last, CallOK, CallTyped
<1>8. turn \in Turns \cup {None}
  BY <1>1, <1>2, <1>3, <1>6, LastTurnTyped
<1>9. /\ segs \in Seq(Segments) /\ segs # << >> /\ Len(segs) = Len(call.segs)
      /\ segs[Len(call.segs)].thread = call.segs[Len(call.segs)].thread
      /\ \A i \in 1 .. Len(call.segs) - 1 : segs[i] = call.segs[i]
      /\ \A t : Lists(segs, t) => Lists(call.segs, t)
  <2>1. PICK was : was = call.segs
    OBVIOUS
  <2>2. EndsIn(was, source)
    BY <1>7, <2>1 DEF EndsIn
  <2>3. EndedOf(segs, was)
    BY <1>4, <1>8, <2>1, <2>2, OtherLast
  <2> QED  BY <2>1, <2>3 DEF EndedOf
<1>10. /\ next.what = "switch" /\ next.chat = call.chat /\ next.step = "ready" /\ next.made = {backend} /\ next.segs = segs
       /\ next.want = call.want /\ next \in Requests(next.want)
  BY <1>5, <1>6, <1>7, <1>9 DEF Requests, CallOK, CallTyped
<1>11. AsTaken(next)
  BY <1>6, <1>7, <1>9, <1>10 DEF CallOK, AsTaken, SameButLast
<1>12. Other(provider[source]) \in Providers
  BY DEF Other, Providers
<1>13. PICK history : history \in Seq(1 .. turns) /\ history = << >>
  <2>1. << >> \in Seq(1 .. turns)
    OBVIOUS
  <2> QED  BY <2>1
<1>14. PICK p : p = Other(provider[source])
  OBVIOUS
<1>15. next.what \in {"switch", "fork"}
  BY <1>10
<1>16. provider' = Put(provider, backend, p) /\ native' = Put(native, backend, history) /\ p \in Providers
  BY <1>6, <1>12, <1>13, <1>14
<1>17. Backs(backend)
  BY <1>6 DEF Backs
<1>18. calls' = [calls EXCEPT ![x] = next] /\ UNCHANGED <<lineages, turns, noops, cleaned, run>> /\ x \in Busy
       /\ call.step = "asked" /\ backend \notin DOMAIN provider
  BY <1>6
<1>19. /\ next \in Requests(next.want) /\ next.segs # << >> /\ next.chat = call.chat /\ next.step = "ready"
       /\ next.made = {backend} /\ \A t : Lists(next.segs, t) => Lists(call.segs, t)
  BY <1>9, <1>10
<1> QED  BY <1>1, <1>11, <1>13, <1>15, <1>16, <1>17, <1>18, <1>19, CreatedKeeps

LEMMA CopyThreadKeeps ==
  ASSUME ListedInv, NEW x \in Calls, NEW fork \in Threads, CopyThread(x, fork)
  PROVE ListedInv'
<1>1. PICK call : call = calls[x]
  OBVIOUS
<1>2. PICK source : source = call.segs[call.at].thread
  OBVIOUS
<1>3. PICK next : next = [call EXCEPT !.step = "ready", !.made = {fork}]
  OBVIOUS
<1>4. PICK history : history = IF provider[source] = "claude" /\ call.at = 1 /\ call.count = 0
                              THEN native[source] ELSE SubSeq(native[source], 1, call.count)
  OBVIOUS
<1>5. /\ x \in Busy /\ call.what = "fork" /\ call.step = "asked" /\ fork \notin DOMAIN provider
      /\ source \in DOMAIN native /\ provider' = Put(provider, fork, provider[source])
      /\ native' = Put(native, fork, history)
      /\ calls' = [calls EXCEPT ![x] = next]
      /\ UNCHANGED <<lineages, newBackends, turns, noops, cleaned, run>>
  BY <1>1, <1>2, <1>3, <1>4, DoingBusy DEF CopyThread, Doing, Fresh
<1>6. CallOK(call)
  BY <1>1, <1>5, OfCall
<1>7. history \in Seq(1 .. turns)
  <2>1. native[source] \in Seq(1 .. turns)
    BY <1>5 DEF ListedInv, ThreadsOK
  <2>2. call.count \in Nat /\ call.count <= Len(native[source])
    BY <1>2, <1>5, <1>6 DEF CallOK, Counted, CallTyped, Requests
  <2>3. SubSeq(native[source], 1, call.count) \in Seq(1 .. turns)
    BY <2>1, <2>2, FirstTurns
  <2> QED  BY <1>4, <2>1, <2>3
<1>8. /\ next.what = "fork" /\ next.chat = call.chat /\ next.step = "ready" /\ next.made = {fork} /\ next.segs = call.segs
      /\ next.want = call.want /\ next.at = call.at /\ next \in Requests(next.want)
  BY <1>3, <1>5, <1>6 DEF Requests, CallOK, CallTyped
<1>9. AsTaken(next) /\ next.segs # << >>
  BY <1>5, <1>6, <1>8 DEF CallOK, AsTaken, CallTyped
<1>10. provider[source] \in Providers
  BY <1>5 DEF ListedInv, ThreadsOK
<1>11. PICK p : p = provider[source]
  OBVIOUS
<1>12. next.what \in {"switch", "fork"} /\ Backs(fork)
  BY <1>5, <1>8 DEF Backs
<1> QED  BY <1>1, <1>5, <1>7, <1>8, <1>9, <1>10, <1>11, <1>12, CreatedKeeps

LEMMA AskSwitchKeeps ==
  ASSUME ListedInv, "Overlap" \notin Allow, NEW x \in Calls, NEW chat \in Threads, NEW noop \in BOOLEAN,
         AskSwitch(x, chat, noop)
  PROVE ListedInv'
<1>1. PICK own : own = SegmentsOf(chat)
  OBVIOUS
<1>2. PICK current : current = Current(chat)
  OBVIOUS
<1>3. Open(chat) /\ current \in DOMAIN native /\ EndsIn(own, current) /\ chat \in DOMAIN provider
  BY <1>1, <1>2, OpenKnown, OwnSegments DEF AskSwitch, ListedInv, EndsIn, Current, Last
<1>4. CASE provider[current] = "claude"
  <2>1. PICK turn : turn = IF noop THEN Last(native[current]) ELSE NextTurn
    OBVIOUS
  <2>2. PICK segs : segs = Ended(own, current, turn)
    OBVIOUS
  <2>3. PICK call : call = [what |-> "switch", chat |-> chat, segs |-> segs, step |-> "asked",
                            at |-> 0, count |-> 0, drop |-> FALSE, made |-> {}, want |-> 0]
    OBVIOUS
  <2>4. /\ Speak /\ Say(current, NextTurn) /\ (noop => native[current] # << >>)
        /\ noops' = noops \/ noops' = noops \cup {NextTurn}
        /\ calls[x] = Idle /\ calls' = [calls EXCEPT ![x] = call]
        /\ UNCHANGED <<provider, lineages, newBackends, cleaned, run>>
    BY <1>1, <1>2, <1>4, <2>1, <2>2, <2>3 DEF AskSwitch, Take, Ended
  <2>5. turn \in Turns \cup {None}
    <3>1. turns \in 0 .. MaxTurn /\ native[current] \in Seq(1 .. turns)
      BY <1>3 DEF ListedInv, ThreadsOK
    <3>2. NextTurn \in 1 .. MaxTurn /\ 1 .. turns \subseteq 1 .. MaxTurn
      BY <2>4, <3>1, BoundsAssumption DEF Speak, NextTurn
    <3>3. noop => Last(native[current]) \in 1 .. turns
      BY <2>4, <3>1 DEF Last
    <3> QED  BY <2>1, <3>2, <3>3 DEF Turns
  <2>6. EndedOf(segs, own)
    BY <1>3, <2>2, <2>5, OtherLast
  <2>7. /\ call.what = "switch" /\ call.chat = chat /\ call.segs = segs /\ call.step = "asked" /\ call.made = {}
        /\ call \in Requests(call.want)
    BY <2>3, <2>6 DEF Requests, EndedOf
  <2>8. CallOK(call)
    <3>1. \A i \in DOMAIN own : own[i].thread \in DOMAIN provider
      BY <1>1, <1>3, OwnSegments DEF ListedInv
    <3>2. \A i \in DOMAIN segs : segs[i].thread \in DOMAIN provider
      BY <2>6, <3>1 DEF EndedOf, Lists
    <3>3. CallTyped(call)
      BY <1>3, <2>6, <2>7, <3>2 DEF CallTyped, EndedOf
    <3>4. MadeNew(call)
      BY <2>7 DEF MadeNew
    <3>5. AsTaken(call)
      BY <1>1, <2>6, <2>7 DEF AsTaken, SameButLast, EndedOf
    <3>6. ChatFree(call)
      BY <1>3, <2>7, OpenKnown DEF ChatFree, ListedInv
    <3>7. RolledAlone(call) /\ Counted(call)
      BY <2>7 DEF RolledAlone, Counted, RollsBack
    <3> QED  BY <3>3, <3>4, <3>5, <3>6, <3>7 DEF CallOK
  <2>9. ThreadsOK' /\ ListsOK'
    BY <1>3, <2>4, SayTyped, ListsStay DEF ListedInv
  <2>10. ASSUME NEW c, CallOK(c) PROVE CallOK(c)'
    <3>1. Spared(c)
      BY <1>3, <2>4, SaySpares DEF ListedInv
    <3> QED  BY <2>4, <2>9, <2>10, <3>1, CallKept DEF Spared, ListedInv
  <2>11. \A other \in Others(x) : CallOK(other)'
    BY <2>10 DEF Others, ListedInv, CallsOK
  <2>12. \A t : Lists(call.segs, t) => Lists(SegmentsOf(call.chat), t)
    BY <1>1, <2>6, <2>7 DEF EndedOf
  <2>13. \A other \in Others(x) : Apart(call, other) /\ Apart(other, call)
    BY <1>3, <2>4, <2>7, <2>12, AskedApart
  <2>14. CallsOK'
    BY <2>4, <2>8, <2>10, <2>11, <2>13, CallsStep DEF ListedInv
  <2> QED  BY <2>9, <2>14 DEF ListedInv
<1>5. CASE provider[current] # "claude"
  <2>1. PICK call : call = [what |-> "switch", chat |-> chat, segs |-> own, step |-> "asked",
                            at |-> 0, count |-> 0, drop |-> FALSE, made |-> {}, want |-> 0]
    OBVIOUS
  <2>2. /\ calls[x] = Idle /\ calls' = [calls EXCEPT ![x] = call]
        /\ UNCHANGED <<provider, native, lineages, newBackends, turns, noops, cleaned, run>>
    BY <1>1, <1>2, <1>5, <2>1 DEF AskSwitch, Take
  <2>3. /\ call.what = "switch" /\ call.chat = chat /\ call.segs = SegmentsOf(call.chat) /\ call.step = "asked"
        /\ call.made = {} /\ call \in Requests(call.want)
    BY <1>1, <1>3, <2>1 DEF Requests, EndsIn
  <2>4. RolledAlone(call) /\ Counted(call)
    BY <2>3 DEF RolledAlone, Counted, RollsBack
  <2>5. CallOK(call)
    BY <1>3, <2>3, <2>4, TakenOK
  <2> QED  BY <1>3, <2>2, <2>3, <2>5, AskKeeps
<1> QED  BY <1>4, <1>5

-----------------------------------------------------------------------------
(* Requests go on: what they list *)

LEMMA ListedStep ==
  ASSUME ListedInv, ListsOK', NEW x \in Busy, NEW key, Framed(x, key),
         UNCHANGED <<provider, native, newBackends, turns, noops, cleaned, run>>,
         NEW next, calls' = [calls EXCEPT ![x] = next], next = Idle \/ (CallOK(next)' /\ GoesWith(calls[x], next))
  PROVE ListedInv'
<1>1. x \in Calls
  BY DEF Busy
<1>2. ThreadsOK'
  BY DEF ListedInv, ThreadsOK
<1>3. ASSUME NEW other \in Others(x) PROVE CallOK(other)' /\ Apart(calls[x], other) /\ Apart(other, calls[x])
  <2>1. Apart(calls[x], other) /\ Apart(other, calls[x])
    BY DEF ListedInv, CallsOK, Others
  <2>2. CallOK(other)'
    BY CallFramed
  <2> QED  BY <2>1, <2>2
<1>4. ASSUME next # Idle, NEW other \in Others(x) PROVE Apart(next, other) /\ Apart(other, next)
  BY <1>3, <1>4, StaysApart DEF GoesWith
<1>5. CallsOK'
  BY <1>1, <1>3, <1>4, CallsStep DEF ListedInv
<1> QED  BY <1>2, <1>5 DEF ListedInv

\* What a chat goes on in is what it had, or is created for it.
LEMMA PutFramed ==
  ASSUME ListedInv, NEW x \in Busy, NEW call, call = calls[x], NEW key, NEW list, lineages' = Put(lineages, key, list),
         key = call.chat \/ (call.step = "ready" /\ key \in call.made),
         \A t : Lists(list, t) =>
           \/ call.step = "ready" /\ t \in call.made
           \/ Lists(SegmentsOf(call.chat), t)
  PROVE Framed(x, key)
<1>1. /\ DOMAIN lineages' = DOMAIN lineages \cup {key} /\ lineages'[key] = list
      /\ \A c \in DOMAIN lineages \ {key} : lineages'[c] = lineages[c]
  BY DEF Put
<1>2. \A t : Lists(SegmentsOf(call.chat), t) =>
         t = call.chat \/ (call.chat \in DOMAIN lineages /\ Lists(lineages[call.chat], t))
  BY DEF SegmentsOf, Segment, Lists
<1> QED  BY <1>1, <1>2 DEF Framed

LEMMA DropFramed ==
  ASSUME NEW x \in Busy, NEW key, key = calls[x].chat, lineages' = Restrict(lineages, DOMAIN lineages \ {key})
  PROVE Framed(x, key)
<1>1. DOMAIN lineages' = DOMAIN lineages \ {key} /\ \A c \in DOMAIN lineages \ {key} : lineages'[c] = lineages[c]
  BY DEF Restrict
<1> QED  BY <1>1 DEF Framed

LEMMA SetLineageKeeps == ASSUME ListedInv, NEW x \in Calls, SetLineage(x) PROVE ListedInv'
<1>1. PICK call : call = calls[x]
  OBVIOUS
<1>2. PICK backend \in call.made : lineages' = Put(lineages, call.chat, Append(call.segs, Segment(backend, None)))
  BY <1>1 DEF SetLineage
<1>3. PICK list : list = Append(call.segs, Segment(backend, None))
  OBVIOUS
<1>4. PICK next : next = [call EXCEPT !.step = "set"]
  OBVIOUS
<1>5. PICK chat : chat = call.chat
  OBVIOUS
<1>6. /\ x \in Busy /\ call.what = "switch" /\ call.step = "ready" /\ lineages' = Put(lineages, chat, list)
      /\ calls' = [calls EXCEPT ![x] = next]
      /\ UNCHANGED <<provider, native, newBackends, turns, noops, cleaned, run>>
  BY <1>1, <1>2, <1>3, <1>4, <1>5, DoingBusy DEF SetLineage, Doing
<1>7. PICK segs : segs = call.segs
  OBVIOUS
<1>8. PICK own : own = SegmentsOf(chat)
  OBVIOUS
<1>9. /\ CallOK(call) /\ segs \in Seq(Segments) /\ Len(segs) \in Nat \ {0} /\ chat \in DOMAIN provider
      /\ DOMAIN segs = 1 .. Len(segs) /\ SameButLast(segs, own)
  BY <1>1, <1>5, <1>6, <1>7, <1>8, OfCall DEF CallOK, CallTyped, AsTaken
<1>10. own \in Seq(Segments) /\ DOMAIN own = 1 .. Len(own) /\ Lists(own, chat)
  BY <1>8, <1>9, OwnSegments DEF ListedInv
<1>11. \A t : Lists(segs, t) <=> Lists(own, t)
  <2>1. 1 .. Len(segs) = (1 .. Len(segs) - 1) \cup {Len(segs)}
    BY <1>9
  <2>2. DOMAIN own = DOMAIN segs
    BY <1>9, <1>10 DEF SameButLast
  <2> QED  BY <1>9, <1>10, <2>1, <2>2 DEF Lists, SameButLast
<1>12. /\ list \in Seq(Segments) /\ Len(list) = Len(segs) + 1 /\ DOMAIN list = 1 .. Len(segs) + 1
       /\ list[Len(segs) + 1] = Segment(backend, None) /\ \A i \in 1 .. Len(segs) : list[i] = segs[i]
  <2>1. PICK last : last = Segment(backend, None)
    OBVIOUS
  <2>2. last \in Segments
    BY <1>9, <2>1 DEF CallOK, CallTyped, Segment, Segments, Requests
  <2>3. list = Append(segs, last)
    BY <1>3, <1>7, <2>1
  <2> QED  BY <1>9, <2>1, <2>2, <2>3
<1>13. \A t : Lists(list, t) <=> t = backend \/ Lists(segs, t)
  <2>1. 1 .. Len(segs) + 1 = (1 .. Len(segs)) \cup {Len(segs) + 1}
    BY <1>9
  <2> QED  BY <1>9, <1>12, <2>1 DEF Lists, Segment
<1>14. LineageOK(chat, list)
  <2>1. \A i \in DOMAIN segs : segs[i].thread \in DOMAIN provider
    BY <1>7, <1>9 DEF CallOK, CallTyped
  <2>2. backend \in DOMAIN provider
    BY <1>9 DEF CallOK, CallTyped
  <2>3. \A i \in DOMAIN list : list[i].thread \in DOMAIN provider
    BY <1>13, <2>1, <2>2 DEF Lists
  <2>4. list # << >> /\ list[Len(list)].last = None
    BY <1>9, <1>12 DEF Segment
  <2>5. Lists(list, chat)
    BY <1>10, <1>11, <1>13
  <2> QED  BY <1>12, <2>3, <2>4, <2>5 DEF LineageOK
<1>15. ListsOK'
  BY <1>6, <1>9, <1>14, ListsPut DEF ListedInv
<1>16. Framed(x, chat)
  BY <1>1, <1>5, <1>6, <1>8, <1>11, <1>13, PutFramed
<1>17. /\ next.what = "switch" /\ next.chat = chat /\ next.step = "set" /\ next.made = call.made /\ next.segs = segs
       /\ next.want = call.want /\ next \in Requests(next.want)
  BY <1>4, <1>5, <1>6, <1>7, <1>9 DEF Requests, CallOK, CallTyped
<1>18. CallOK(next)'
  <2>1. CallTyped(next)'
    BY <1>5, <1>6, <1>7, <1>9, <1>17 DEF CallOK, CallTyped
  <2>2. MadeNew(next)' /\ AsTaken(next)' /\ RolledAlone(next)' /\ Counted(next)'
    BY <1>17 DEF MadeNew, AsTaken, RolledAlone, Counted, RollsBack
  <2>3. ChatFree(next)'
    BY <1>6, <1>17 DEF ChatFree, Put
  <2> QED  BY <2>1, <2>2, <2>3 DEF CallOK
<1>19. GoesWith(calls[x], next)
  BY <1>1, <1>5, <1>7, <1>17 DEF GoesWith
<1> QED  BY <1>6, <1>15, <1>16, <1>18, <1>19, ListedStep

LEMMA DeleteLineageKeeps == ASSUME ListedInv, NEW x \in Calls, DeleteLineage(x) PROVE ListedInv'
<1>1. PICK chat : chat = calls[x].chat
  OBVIOUS
<1>2. /\ x \in Busy /\ lineages' = Restrict(lineages, DOMAIN lineages \ {chat})
      /\ calls' = [calls EXCEPT ![x] = Idle]
      /\ UNCHANGED <<provider, native, newBackends, turns, noops, cleaned, run>>
  BY <1>1, DoingBusy DEF DeleteLineage, Ends
<1>3. ListsOK'
  BY <1>2, ListsDrop DEF ListedInv
<1>4. Framed(x, chat)
  BY <1>1, <1>2, DropFramed
<1> QED  BY <1>2, <1>3, <1>4, ListedStep

\* A list that goes on from a request's segments is of its chat.
OfChat(list, call, n, thread) ==
  /\ \A t : Lists(list, t) <=> t = thread \/ UpTo(call.segs, n, t)
  /\ \A t : Lists(list, t) => LineageOK(t, list)
  /\ \A t : UpTo(call.segs, n, t) => Lists(SegmentsOf(call.chat), t)

LEMMA GoingOnFrom ==
  ASSUME ListedInv, NEW x \in Busy, NEW call, call = calls[x], call.segs = SegmentsOf(call.chat),
         NEW n, Within(n, call.segs), NEW thread \in DOMAIN provider
  PROVE OfChat(GoingOn(call.segs, n, Segment(thread, None)), call, n, thread)
<1>1. PICK segs : segs = call.segs
  OBVIOUS
<1>2. CallOK(call) /\ segs \in Seq(Segments) /\ DOMAIN segs = 1 .. Len(segs) /\ Len(segs) \in Nat \ {0}
  BY <1>1, OfCall
<1>3. PICK last : last = Segment(thread, None)
  OBVIOUS
<1>4. last \in Segments /\ last.thread = thread /\ last.last = None
  BY <1>3 DEF ListedInv, ThreadsOK, Segment, Segments
<1>5. PICK list : list = GoingOn(segs, n, last)
  OBVIOUS
<1>6. GoneOn(list, segs, n, last)
  BY <1>1, <1>2, <1>4, <1>5, ListGoesOn
<1>7. n \in 0 .. Len(segs) /\ n \in Nat
  BY <1>1, <1>2 DEF Within
<1>8. \A t : UpTo(segs, n, t) => Lists(segs, t) /\ t \in DOMAIN provider
  <2>1. \A i \in DOMAIN segs : segs[i].thread \in DOMAIN provider
    BY <1>1, <1>2 DEF CallOK, CallTyped
  <2>2. 1 .. n \subseteq DOMAIN segs
    BY <1>2, <1>7
  <2> QED  BY <2>1, <2>2 DEF UpTo, Lists
<1>9. \A i \in DOMAIN list : list[i].thread \in DOMAIN provider
  BY <1>4, <1>6, <1>8 DEF Lists, GoneOn
<1>10. list[Len(list)].last = None
  BY <1>4, <1>6 DEF GoneOn
<1>11. \A t : Lists(list, t) => LineageOK(t, list)
  BY <1>6, <1>9, <1>10 DEF LineageOK, GoneOn
<1> QED  BY <1>1, <1>3, <1>4, <1>5, <1>6, <1>8, <1>11 DEF OfChat, GoneOn

LEMMA ListForkKeeps == ASSUME ListedInv, NEW x \in Calls, ListFork(x) PROVE ListedInv'
<1>1. PICK call : call = calls[x]
  OBVIOUS
<1>2. /\ x \in Busy /\ call.what = "fork" /\ call.step = "ready" /\ calls' = [calls EXCEPT ![x] = Idle]
      /\ UNCHANGED <<provider, native, newBackends, turns, noops, cleaned, run>>
  BY <1>1, DoingBusy DEF ListFork, Doing, Ends
<1>3. PICK fork \in call.made : lineages' =
        IF call.at = 1 THEN lineages
        ELSE Put(lineages, fork, GoingOn(call.segs, call.at - 1, Segment(fork, None)))
  BY <1>1 DEF ListFork, GoingOn
<1>4. CASE call.at = 1
  <2>1. lineages' = lineages
    BY <1>3, <1>4
  <2>2. ThreadsOK'
    BY <1>2 DEF ListedInv, ThreadsOK
  <2>3. \A other \in Others(x) : Spared(other)
    BY <1>2, SameSpares DEF ListedInv
  <2> QED  BY <1>2, <2>1, <2>2, <2>3, NativeStep
<1>5. CASE call.at # 1
  <2>1. PICK n : n = call.at - 1
    OBVIOUS
  <2>2. PICK list : list = GoingOn(call.segs, n, Segment(fork, None))
    OBVIOUS
  <2>3. lineages' = Put(lineages, fork, list)
    BY <1>3, <1>5, <2>1, <2>2
  <2>4. CallOK(call) /\ call.segs = SegmentsOf(call.chat) /\ n \in 0 .. Len(call.segs) /\ fork \in DOMAIN provider
    <3>1. CallOK(call) /\ DOMAIN call.segs = 1 .. Len(call.segs) /\ Len(call.segs) \in Nat
      BY <1>1, <1>2, OfCall
    <3>2. call.at \in DOMAIN call.segs /\ call.segs = SegmentsOf(call.chat) /\ fork \in DOMAIN provider
      BY <1>2, <3>1 DEF CallOK, AsTaken, CallTyped
    <3> QED  BY <2>1, <3>1, <3>2
  <2>5. /\ LineageOK(fork, list) /\ \A t : Lists(list, t) <=> t = fork \/ UpTo(call.segs, n, t)
        /\ \A t : UpTo(call.segs, n, t) => Lists(SegmentsOf(call.chat), t)
    <3>1. Within(n, call.segs)
      BY <2>4 DEF Within
    <3>2. OfChat(list, call, n, fork)
      BY <1>1, <1>2, <2>2, <2>4, <3>1, GoingOnFrom
    <3> QED  BY <3>2 DEF OfChat
  <2>6. ListsOK'
    BY <1>2, <2>3, <2>4, <2>5, ListsPut DEF ListedInv
  <2>7. Framed(x, fork)
    BY <1>1, <1>2, <2>3, <2>5, PutFramed
  <2> QED  BY <1>2, <2>6, <2>7, ListedStep
<1> QED  BY <1>4, <1>5

LEMMA RevertLineageKeeps == ASSUME ListedInv, NEW x \in Calls, RevertLineage(x) PROVE ListedInv'
<1>1. PICK call : call = calls[x]
  OBVIOUS
<1>2. PICK chat : chat = call.chat
  OBVIOUS
<1>3. PICK thread : thread = call.segs[call.at].thread
  OBVIOUS
<1>4. PICK n : n = call.at - 1
  OBVIOUS
<1>5. PICK list : list = GoingOn(call.segs, n, Segment(thread, None))
  OBVIOUS
<1>6. PICK next : next = Discarding(call, call.at)
  OBVIOUS
<1>7. list = Kept(x)
  BY <1>1, <1>3, <1>4, <1>5 DEF Kept, GoingOn
<1>8. /\ x \in Busy /\ call.what = "revert"
      /\ call.step = "ready" \/ (call.step = "asked" /\ call.drop /\ ~RowDropped(x))
      /\ UNCHANGED <<provider, native, newBackends, turns, noops, cleaned, run>>
  BY <1>1, DoingBusy DEF RevertLineage, Doing
<1>9. calls' = IF call.at = Len(call.segs) THEN [calls EXCEPT ![x] = Idle] ELSE [calls EXCEPT ![x] = next]
  BY <1>1, <1>6 DEF RevertLineage, GoesOn, Ends, Discarding
<1>10. lineages' =
         IF Len(call.segs) = 1 THEN lineages
         ELSE IF Len(list) = 1 /\ list[1].thread = chat /\ ~Shared(chat, chat)
              THEN Restrict(lineages, DOMAIN lineages \ {chat})
         ELSE Put(lineages, chat, list)
  BY <1>1, <1>2, <1>7 DEF RevertLineage
<1>11. /\ CallOK(call) /\ DOMAIN call.segs = 1 .. Len(call.segs) /\ Len(call.segs) \in Nat \ {0}
       /\ call.segs = SegmentsOf(chat) /\ call.at \in 1 .. Len(call.segs) /\ n \in 0 .. Len(call.segs) /\ n + 1 = call.at
       /\ thread \in DOMAIN provider /\ chat \in DOMAIN provider
  <2>1. CallOK(call) /\ DOMAIN call.segs = 1 .. Len(call.segs) /\ Len(call.segs) \in Nat \ {0}
    BY <1>1, <1>8, OfCall
  <2>2. call.segs = SegmentsOf(chat) /\ call.at \in DOMAIN call.segs
    BY <1>2, <1>8, <2>1 DEF CallOK, AsTaken
  <2> QED  BY <1>2, <1>3, <1>4, <2>1, <2>2 DEF CallOK, CallTyped
<1>12. UpTo(call.segs, call.at, chat)
  BY <1>1, <1>2, <1>8, <1>11, RowKept DEF CallOK, AsTaken
<1>13. /\ Lists(list, chat) => LineageOK(chat, list)
       /\ \A t : Lists(list, t) <=> t = thread \/ UpTo(call.segs, n, t)
       /\ \A t : UpTo(call.segs, n, t) => Lists(SegmentsOf(chat), t)
  <2>1. Within(n, call.segs)
    BY <1>11 DEF Within
  <2>2. OfChat(list, call, n, thread)
    BY <1>1, <1>2, <1>5, <1>8, <1>11, <2>1, GoingOnFrom
  <2> QED  BY <1>2, <2>2 DEF OfChat
<1>14. Lists(list, chat) /\ Lists(SegmentsOf(chat), thread)
  <2>1. 1 .. call.at = (1 .. n) \cup {call.at}
    BY <1>11
  <2>2. chat = thread \/ UpTo(call.segs, n, chat)
    BY <1>3, <1>12, <2>1 DEF UpTo
  <2> QED  BY <1>3, <1>11, <1>13, <2>2 DEF Lists
<1>15. ListsOK' /\ (Framed(x, chat) \/ lineages' = lineages)
  <2>1. CASE lineages' = lineages
    BY <1>8, <2>1, ListsStay DEF ListedInv
  <2>2. CASE lineages' = Restrict(lineages, DOMAIN lineages \ {chat})
    BY <1>1, <1>2, <1>8, <2>2, ListsDrop, DropFramed DEF ListedInv
  <2>3. CASE lineages' = Put(lineages, chat, list)
    <3>1. ListsOK'
      BY <1>8, <1>11, <1>13, <1>14, <2>3, ListsPut DEF ListedInv
    <3>2. \A t : Lists(list, t) => Lists(SegmentsOf(call.chat), t)
      BY <1>2, <1>13, <1>14
    <3>3. Framed(x, chat)
      BY <1>1, <1>2, <1>8, <2>3, <3>2, PutFramed
    <3> QED  BY <3>1, <3>3
  <2> QED  BY <1>10, <2>1, <2>2, <2>3
<1>16. CASE call.at = Len(call.segs)
  <2>1. calls' = [calls EXCEPT ![x] = Idle]
    BY <1>9, <1>16
  <2>2. CASE lineages' = lineages
    <3>1. ThreadsOK'
      BY <1>8 DEF ListedInv, ThreadsOK
    <3>2. \A other \in Others(x) : Spared(other)
      BY <1>8, SameSpares DEF ListedInv
    <3> QED  BY <1>8, <2>1, <2>2, <3>1, <3>2, NativeStep
  <2>3. CASE Framed(x, chat)
    BY <1>8, <1>15, <2>1, <2>3, ListedStep
  <2> QED  BY <1>15, <2>2, <2>3
<1>17. CASE call.at # Len(call.segs)
  <2>1. calls' = [calls EXCEPT ![x] = next] /\ call.at < Len(call.segs) /\ call.at \in Nat /\ Len(call.segs) # 1
    BY <1>9, <1>11, <1>17
  <2>2. chat \notin DOMAIN lineages' => Unlisted(chat)'
    <3>1. SUFFICES ASSUME chat \notin DOMAIN lineages' PROVE Unlisted(chat)'
      OBVIOUS
    <3>2. lineages' # Put(lineages, chat, list)
      BY <3>1 DEF Put
    <3>3. ~Shared(chat, chat) /\ lineages' = Restrict(lineages, DOMAIN lineages \ {chat})
      BY <1>10, <2>1, <3>2
    <3> QED  BY <3>3 DEF Shared, Unlisted, Restrict
  <2>3. CallOK(next)' /\ GoesWith(calls[x], next)
    BY <1>1, <1>2, <1>6, <1>8, <1>11, <2>1, <2>2, DroppedOn
  <2>4. Framed(x, chat)
    <3>1. CASE lineages' = lineages
      <4>1. chat \in DOMAIN lineages
        BY <1>2, <1>11, <2>1 DEF SegmentsOf
      <4> QED  BY <1>1, <1>2, <3>1, <4>1 DEF Framed
    <3> QED  BY <1>15, <3>1
  <2> QED  BY <1>8, <1>15, <2>1, <2>3, <2>4, ListedStep
<1> QED  BY <1>16, <1>17

-----------------------------------------------------------------------------
(* What prune() keeps *)

\* A set of numbers has a least one.
LEMMA LeastNumber ==
  ASSUME NEW T \in SUBSET Nat, T # {}
  PROVE \E n \in T : \A m \in T : n <= m
<1> DEFINE R == OpToRel(<, Nat)
<1>1. IsWellFoundedOn(R, Nat)
  BY NatLessThanWellFounded
<1>2. R = {p \in Nat \X Nat : p[1] < p[2]}
  BY DEF OpToRel
<1> HIDE DEF R
<1>3. T \subseteq Nat
  OBVIOUS
<1>4. PICK x \in T : \A y \in T : ~ (<<y, x>> \in R)
  BY <1>1, <1>3, WFMin
<1>5. ASSUME NEW y \in T PROVE x <= y
  <2>1. x \in Nat /\ y \in Nat
    BY <1>3
  <2>2. <<y, x>> \in Nat \X Nat /\ <<y, x>>[1] = y /\ <<y, x>>[2] = x
    BY <2>1
  <2>3. ~ (y < x)
    BY <1>2, <1>4, <2>2
  <2> QED  BY <2>1, <2>3
<1> QED  BY <1>5

\* Induction over the numbers, for a set of them.
LEMMA Climbing ==
  ASSUME NEW G \in SUBSET Nat, 0 \in G, \A n \in G : n + 1 \in G
  PROVE G = Nat
<1> DEFINE T == Nat \ G
<1> SUFFICES ASSUME T # {} PROVE FALSE
  OBVIOUS
<1>1. PICK n \in T : \A m \in T : n <= m
  <2>1. T \in SUBSET Nat
    OBVIOUS
  <2> HIDE DEF T
  <2> QED  BY <2>1, LeastNumber
<1>2. n # 0 /\ n - 1 \in Nat
  BY <1>1
<1>3. n - 1 \in G
  BY <1>1, <1>2
<1> QED  BY <1>1, <1>2, <1>3

\* A segment that a pruned lineage keeps.
Stays(segs, i) == i = Len(segs) \/ provider[segs[i].thread] = "codex" \/ segs[i].thread \in DOMAIN native

\* The filter's first steps.
Filtered(before, segs, i) == IF Stays(segs, i) THEN Append(before, segs[i]) ELSE before
Filters(segs, n, kept) == kept = [i \in 0 .. n |-> IF i = 0 THEN << >> ELSE Filtered(kept[i - 1], segs, i)]

LEMMA FilterExists == ASSUME NEW segs \in Seq(Segments) PROVE \E kept : Filters(segs, Len(segs), kept)
<1> DEFINE G == {n \in Nat : \E kept : Filters(segs, n, kept)}
<1>1. 0 \in G
  <2>1. Filters(segs, 0, [i \in 0 .. 0 |-> << >>])
    BY DEF Filters
  <2> QED  BY <2>1
<1>2. ASSUME NEW n \in G PROVE n + 1 \in G
  <2>1. n \in Nat
    OBVIOUS
  <2>2. PICK f : Filters(segs, n, f)
    OBVIOUS
  <2> DEFINE g == [i \in 0 .. n + 1 |-> IF i = n + 1 THEN Filtered(f[n], segs, i) ELSE f[i]]
  <2>3. \A i \in 0 .. n : f[i] = IF i = 0 THEN << >> ELSE Filtered(f[i - 1], segs, i)
    BY <2>2 DEF Filters
  <2>4. ASSUME NEW i \in 0 .. n + 1 PROVE g[i] = IF i = 0 THEN << >> ELSE Filtered(g[i - 1], segs, i)
    <3>1. CASE i = n + 1
      <4>1. i # 0 /\ i - 1 = n /\ n \in 0 .. n + 1 /\ n # n + 1 /\ i \in 0 .. n + 1
        BY <2>1, <3>1
      <4>2. g[n] = f[n] /\ g[i] = Filtered(f[n], segs, i)
        BY <3>1, <4>1
      <4> HIDE DEF g
      <4> QED  BY <4>1, <4>2
    <3>2. CASE i # n + 1
      <4>1. i \in 0 .. n /\ g[i] = f[i]
        BY <2>1, <3>2
      <4>2. i # 0 => i - 1 \in 0 .. n + 1 /\ i - 1 # n + 1
        BY <2>1, <3>2
      <4>3. i # 0 => g[i - 1] = f[i - 1]
        BY <4>2
      <4> HIDE DEF g
      <4> QED  BY <2>3, <4>1, <4>3
    <3> QED  BY <3>1, <3>2
  <2>5. g = [i \in 0 .. n + 1 |-> g[i]]
    OBVIOUS
  <2> HIDE DEF g
  <2>6. Filters(segs, n + 1, g)
    BY <2>4, <2>5 DEF Filters
  <2> QED  BY <2>1, <2>6
<1>3. G = Nat
  <2>1. G \in SUBSET Nat
    OBVIOUS
  <2> HIDE DEF G
  <2> QED  BY <1>1, <1>2, <2>1, Climbing
<1>4. \A n \in Nat : \E kept : Filters(segs, n, kept)
  BY <1>3
<1>5. Len(segs) \in Nat
  OBVIOUS
<1> QED  BY <1>4, <1>5

\* What is kept stays in order, the last segment, and all whose backend is there.
InOrder(kept, segs, n) ==
  /\ kept \in Seq(Segments)
  /\ \A i, j \in 1 .. Len(kept) : i <= j =>
       \E a \in 1 .. n : \E b \in 1 .. n : /\ kept[i] = segs[a] /\ kept[j] = segs[b]
                                           /\ a <= b /\ (i < j => a < b) /\ Stays(segs, a)
  /\ \A a \in 1 .. n : Stays(segs, a) => \E i \in 1 .. Len(kept) : kept[i] = segs[a]

LEMMA AppendInOrder ==
  ASSUME NEW segs \in Seq(Segments), NEW n \in Nat, n + 1 <= Len(segs), Stays(segs, n + 1),
         NEW kept, InOrder(kept, segs, n), NEW next, next = Append(kept, segs[n + 1])
  PROVE InOrder(next, segs, n + 1) /\ next # << >> /\ next[Len(next)] = segs[n + 1]
<1>1. n + 1 \in 1 .. n + 1 /\ n + 1 \in 1 .. Len(segs) /\ 1 .. n \subseteq 1 .. n + 1
  OBVIOUS
<1>2. kept \in Seq(Segments) /\ Len(kept) \in Nat /\ segs[n + 1] \in Segments
  BY <1>1 DEF InOrder
<1>3. PICK m : m = Len(kept) + 1
  OBVIOUS
<1>4. /\ next \in Seq(Segments) /\ Len(next) = m /\ next[m] = segs[n + 1] /\ m \in Nat \ {0}
      /\ \A i \in 1 .. Len(kept) : next[i] = kept[i]
  BY <1>2, <1>3
<1>5. next # << >> /\ next[Len(next)] = segs[n + 1]
  BY <1>4
<1>6. 1 .. m = (1 .. Len(kept)) \cup {m} /\ m \notin 1 .. Len(kept)
  BY <1>2, <1>3
<1>7. ASSUME NEW i \in 1 .. m, NEW j \in 1 .. m, i <= j
      PROVE \E a \in 1 .. n + 1 : \E b \in 1 .. n + 1 :
              next[i] = segs[a] /\ next[j] = segs[b] /\ a <= b /\ (i < j => a < b) /\ Stays(segs, a)
  <2>1. CASE j # m
    <3>1. i \in 1 .. Len(kept) /\ j \in 1 .. Len(kept)
      BY <1>2, <1>3, <1>7, <2>1
    <3>2. PICK a \in 1 .. n, b \in 1 .. n :
            kept[i] = segs[a] /\ kept[j] = segs[b] /\ a <= b /\ (i < j => a < b) /\ Stays(segs, a)
      BY <1>7, <3>1 DEF InOrder
    <3> QED  BY <1>1, <1>4, <3>1, <3>2
  <2>2. CASE j = m /\ i # m
    <3>1. i \in 1 .. Len(kept) /\ i <= i
      BY <1>2, <1>3, <2>2
    <3>2. PICK a \in 1 .. n, b \in 1 .. n : kept[i] = segs[a] /\ Stays(segs, a)
      BY <3>1 DEF InOrder
    <3>3. a < n + 1 /\ a <= n + 1 /\ a \in 1 .. n + 1
      OBVIOUS
    <3> QED  BY <1>1, <1>4, <2>2, <3>1, <3>2, <3>3
  <2>3. CASE j = m /\ i = m
    <3>1. ~ (i < j) /\ n + 1 <= n + 1
      BY <1>4, <2>3
    <3> QED  BY <1>1, <1>4, <2>3, <3>1
  <2> QED  BY <2>1, <2>2, <2>3
<1>8. ASSUME NEW a \in 1 .. n + 1, Stays(segs, a) PROVE \E i \in 1 .. m : next[i] = segs[a]
  <2>1. CASE a = n + 1
    BY <1>4, <1>6, <2>1
  <2>2. CASE a # n + 1
    <3>1. a \in 1 .. n
      BY <2>2
    <3>2. PICK i \in 1 .. Len(kept) : kept[i] = segs[a]
      BY <1>8, <3>1 DEF InOrder
    <3> QED  BY <1>4, <1>6, <3>2
  <2> QED  BY <2>1, <2>2
<1>9. InOrder(next, segs, n + 1)
  <2> DEFINE u == n + 1
  <2>1. next \in Seq(Segments) /\ m = Len(next)
    BY <1>4
  <2>2. \A i, j \in 1 .. m : i <= j =>
          \E a \in 1 .. u : \E b \in 1 .. u : /\ next[i] = segs[a] /\ next[j] = segs[b]
                                              /\ a <= b /\ (i < j => a < b) /\ Stays(segs, a)
    BY <1>7
  <2>3. \A a \in 1 .. u : Stays(segs, a) => \E i \in 1 .. m : next[i] = segs[a]
    BY <1>8
  <2> HIDE DEF u
  <2>4. InOrder(next, segs, u)
    BY <2>1, <2>2, <2>3, Zenon DEF InOrder
  <2> QED  BY <2>4 DEF u
<1> QED  BY <1>5, <1>9

LEMMA SkipInOrder ==
  ASSUME NEW segs, NEW n \in Nat, ~Stays(segs, n + 1), NEW kept, InOrder(kept, segs, n)
  PROVE InOrder(kept, segs, n + 1)
<1>1. 1 .. n + 1 = (1 .. n) \cup {n + 1}
  OBVIOUS
<1> QED  BY <1>1 DEF InOrder

LEMMA EmptyInOrder == ASSUME NEW segs PROVE InOrder(<< >>, segs, 0)
<1>1. << >> \in Seq(Segments) /\ Len(<< >>) = 0
  OBVIOUS
<1>2. \A i : i \notin 1 .. 0
  OBVIOUS
<1> QED  BY <1>1, <1>2 DEF InOrder

LEMMA ExistingInOrder ==
  ASSUME NEW segs \in Seq(Segments), segs # << >>
  PROVE /\ InOrder(Existing(segs), segs, Len(segs))
        /\ Existing(segs) # << >> /\ Existing(segs)[Len(Existing(segs))] = segs[Len(segs)]
<1>1. PICK m : m = Len(segs)
  OBVIOUS
<1>2. PICK f : f = CHOOSE kept : Filters(segs, m, kept)
  OBVIOUS
<1>3. Filters(segs, m, f)
  BY <1>1, <1>2, FilterExists, Zenon
<1>4. Existing(segs) = f[m]
  BY <1>1, <1>2 DEF Existing, Filters, Filtered, Stays
<1>5. m \in Nat \ {0}
  BY <1>1
<1>6. f[0] = << >>
  BY <1>3, <1>5 DEF Filters
<1>7. ASSUME NEW i \in 1 .. m PROVE f[i] = Filtered(f[i - 1], segs, i)
  <2>1. i \in 0 .. m /\ i # 0
    BY <1>5
  <2> QED  BY <1>3, <2>1 DEF Filters
<1> DEFINE G == {n \in Nat : n <= m => InOrder(f[n], segs, n)}
<1>8. 0 \in G
  BY <1>6, EmptyInOrder
<1>9. ASSUME NEW n \in G PROVE n + 1 \in G
  <2> SUFFICES ASSUME n + 1 <= m PROVE InOrder(f[n + 1], segs, n + 1)
    OBVIOUS
  <2>1. n \in Nat /\ InOrder(f[n], segs, n) /\ n + 1 \in 1 .. m /\ n + 1 - 1 = n
    BY <1>5
  <2>2. f[n + 1] = Filtered(f[n], segs, n + 1)
    BY <1>7, <2>1
  <2>3. CASE Stays(segs, n + 1)
    <3>1. f[n + 1] = Append(f[n], segs[n + 1])
      BY <2>2, <2>3 DEF Filtered
    <3> QED  BY <1>1, <2>1, <2>3, <3>1, AppendInOrder
  <2>4. CASE ~Stays(segs, n + 1)
    <3>1. f[n + 1] = f[n]
      BY <2>2, <2>4 DEF Filtered
    <3> QED  BY <2>1, <2>4, <3>1, SkipInOrder
  <2> QED  BY <2>3, <2>4
<1>10. G = Nat
  <2>1. G \in SUBSET Nat
    OBVIOUS
  <2> HIDE DEF G
  <2> QED  BY <1>8, <1>9, <2>1, Climbing
<1>11. \A n \in Nat : n <= m => InOrder(f[n], segs, n)
  BY <1>10
<1> HIDE DEF G
<1>12. PICK n : n = m - 1
  OBVIOUS
<1>13. n \in Nat /\ n + 1 = m /\ n + 1 - 1 = n /\ n + 1 \in 1 .. m /\ n <= m
  BY <1>5, <1>12
<1>14. Stays(segs, m)
  BY <1>1 DEF Stays
<1>15. f[m] = Append(f[n], segs[m])
  <2>1. f[m] = Filtered(f[n], segs, m)
    BY <1>7, <1>13
  <2> QED  BY <1>14, <2>1 DEF Filtered
<1>16. PICK kept : kept = f[n]
  OBVIOUS
<1>17. PICK next : next = Append(kept, segs[n + 1])
  OBVIOUS
<1>18. InOrder(kept, segs, n)
  BY <1>11, <1>13, <1>16
<1>19. n + 1 <= Len(segs) /\ Stays(segs, n + 1)
  BY <1>1, <1>13, <1>14
<1>20. InOrder(next, segs, n + 1) /\ next # << >> /\ next[Len(next)] = segs[n + 1]
  BY <1>13, <1>17, <1>18, <1>19, AppendInOrder
<1> QED  BY <1>1, <1>4, <1>13, <1>15, <1>16, <1>17, <1>20

\* One lineage after another is pruned.
Prunes(order, n, pruned) == pruned = [i \in 0 .. n |-> IF i = 0 THEN lineages ELSE PruneOne(pruned[i - 1], order[i])]

LEMMA PruningExists == ASSUME NEW order, NEW m \in Nat PROVE \E pruned : Prunes(order, m, pruned)
<1> DEFINE G == {n \in Nat : \E pruned : Prunes(order, n, pruned)}
<1>1. 0 \in G
  <2>1. Prunes(order, 0, [i \in 0 .. 0 |-> lineages])
    BY DEF Prunes
  <2> QED  BY <2>1
<1>2. ASSUME NEW n \in G PROVE n + 1 \in G
  <2>1. n \in Nat
    OBVIOUS
  <2>2. PICK f : Prunes(order, n, f)
    OBVIOUS
  <2> DEFINE g == [i \in 0 .. n + 1 |-> IF i = n + 1 THEN PruneOne(f[n], order[i]) ELSE f[i]]
  <2>3. \A i \in 0 .. n : f[i] = IF i = 0 THEN lineages ELSE PruneOne(f[i - 1], order[i])
    BY <2>2 DEF Prunes
  <2>4. ASSUME NEW i \in 0 .. n + 1 PROVE g[i] = IF i = 0 THEN lineages ELSE PruneOne(g[i - 1], order[i])
    <3>1. CASE i = n + 1
      <4>1. i # 0 /\ i - 1 = n /\ n \in 0 .. n + 1 /\ n # n + 1 /\ i \in 0 .. n + 1
        BY <2>1, <3>1
      <4>2. g[n] = f[n] /\ g[i] = PruneOne(f[n], order[i])
        BY <3>1, <4>1
      <4> HIDE DEF g
      <4> QED  BY <4>1, <4>2
    <3>2. CASE i # n + 1
      <4>1. i \in 0 .. n /\ g[i] = f[i]
        BY <2>1, <3>2
      <4>2. i # 0 => i - 1 \in 0 .. n + 1 /\ i - 1 # n + 1
        BY <2>1, <3>2
      <4>3. i # 0 => g[i - 1] = f[i - 1]
        BY <4>2
      <4> HIDE DEF g
      <4> QED  BY <2>3, <4>1, <4>3
    <3> QED  BY <3>1, <3>2
  <2>5. g = [i \in 0 .. n + 1 |-> g[i]]
    OBVIOUS
  <2> HIDE DEF g
  <2>6. Prunes(order, n + 1, g)
    BY <2>4, <2>5 DEF Prunes
  <2> QED  BY <2>1, <2>6
<1>3. G = Nat
  <2>1. G \in SUBSET Nat
    OBVIOUS
  <2> HIDE DEF G
  <2> QED  BY <1>1, <1>2, <2>1, Climbing
<1>4. \A n \in Nat : \E pruned : Prunes(order, n, pruned)
  BY <1>3
<1> QED  BY <1>4

\* What is listed once some lineages were pruned: those, and the others as they were.
PrunedAs(id, segs, chat) ==
  LET kept == Existing(lineages[chat])
  IN /\ segs = kept /\ id = ListedUnder(chat, kept)
     /\ kept = lineages[chat] \/ Len(kept) > 1 \/ kept[1].thread # id
CameFrom(id, segs, chat, done) ==
  IF chat \in done THEN PrunedAs(id, segs, chat) ELSE id = chat /\ segs = lineages[chat]
PrunedFrom(pruned, done) ==
  /\ IsFiniteSet(DOMAIN pruned)
  /\ \A id \in DOMAIN pruned : \E chat \in DOMAIN lineages : CameFrom(id, pruned[id], chat, done)

LEMMA PruneOneFrom ==
  ASSUME ListsOK, NEW done, NEW chat \in DOMAIN lineages, chat \notin done, NEW pruned, PrunedFrom(pruned, done)
  PROVE PrunedFrom(PruneOne(pruned, chat), done \cup {chat})
<1> DEFINE kept == Existing(lineages[chat])
           id == ListedUnder(chat, kept)
           rest == Restrict(pruned, DOMAIN pruned \ {chat})
           more == done \cup {chat}
<1>1. PruneOne(pruned, chat) =
        IF kept = lineages[chat] THEN pruned ELSE IF Len(kept) > 1 \/ kept[1].thread # id THEN Put(rest, id, kept) ELSE rest
  BY DEF PruneOne
<1>2. ASSUME NEW c, c # chat, NEW i, NEW s PROVE CameFrom(i, s, c, done) <=> CameFrom(i, s, c, more)
  BY <1>2 DEF CameFrom
<1> HIDE DEF kept, id
<1>3. CASE kept = lineages[chat]
  <2>1. Lists(kept, chat)
    BY <1>3 DEF ListsOK, LineageOK
  <2>2. PrunedAs(chat, lineages[chat], chat)
    BY <1>3, <2>1 DEF PrunedAs, kept, ListedUnder
  <2>3. \A i, s : CameFrom(i, s, chat, done) => CameFrom(i, s, chat, more)
    BY <2>2 DEF CameFrom
  <2>4. PrunedFrom(pruned, more)
    <3> SUFFICES ASSUME NEW i \in DOMAIN pruned PROVE \E c \in DOMAIN lineages : CameFrom(i, pruned[i], c, more)
      BY DEF PrunedFrom
    <3>1. PICK c \in DOMAIN lineages : CameFrom(i, pruned[i], c, done)
      BY DEF PrunedFrom
    <3> QED  BY <1>2, <2>3, <3>1
  <2> QED  BY <1>1, <1>3, <2>4
<1>4. /\ DOMAIN rest = DOMAIN pruned \ {chat} /\ \A i \in DOMAIN rest : rest[i] = pruned[i]
      /\ IsFiniteSet(DOMAIN rest)
  BY FS_RemoveElement DEF Restrict, PrunedFrom
<1> HIDE DEF rest
<1>5. ASSUME NEW i \in DOMAIN rest PROVE \E c \in DOMAIN lineages : CameFrom(i, rest[i], c, more)
  <2>1. PICK c \in DOMAIN lineages : CameFrom(i, pruned[i], c, done)
    BY <1>4 DEF PrunedFrom
  <2>2. c # chat
    BY <1>4, <2>1 DEF CameFrom
  <2> QED  BY <1>2, <1>4, <2>1, <2>2
<1>6. CASE kept # lineages[chat] /\ ~(Len(kept) > 1 \/ kept[1].thread # id)
  BY <1>1, <1>4, <1>5, <1>6 DEF PrunedFrom
<1>7. CASE kept # lineages[chat] /\ (Len(kept) > 1 \/ kept[1].thread # id)
  <2> DEFINE next == Put(rest, id, kept)
  <2>1. /\ DOMAIN next = DOMAIN rest \cup {id} /\ next[id] = kept
        /\ \A i \in DOMAIN rest \ {id} : next[i] = rest[i]
    BY DEF Put
  <2>2. IsFiniteSet(DOMAIN next)
    BY <1>4, <2>1, FS_AddElement
  <2> HIDE DEF next
  <2>3. CameFrom(id, kept, chat, more)
    BY <1>7 DEF CameFrom, PrunedAs, kept, id
  <2>4. ASSUME NEW i \in DOMAIN next PROVE \E c \in DOMAIN lineages : CameFrom(i, next[i], c, more)
    <3>1. CASE i = id
      BY <2>1, <2>3, <3>1
    <3>2. CASE i # id
      BY <1>5, <2>1, <2>4, <3>2
    <3> QED  BY <3>1, <3>2
  <2>5. PrunedFrom(next, more)
    BY <2>2, <2>4 DEF PrunedFrom
  <2> QED  BY <1>1, <1>7, <2>5 DEF next
<1> QED  BY <1>3, <1>6, <1>7

LEMMA PrunedIsFrom ==
  ASSUME ListsOK, NEW order \in SetToSeqs(DOMAIN lineages)
  PROVE \E done \in SUBSET DOMAIN lineages : PrunedFrom(Pruned(order), done)
<1>1. PICK m : m = Cardinality(DOMAIN lineages)
  OBVIOUS
<1>2. /\ m \in Nat /\ order \in [1 .. m -> DOMAIN lineages]
      /\ \A i, j \in 1 .. m : i # j => order[i] # order[j]
  BY <1>1, FS_CardinalityType DEF SetToSeqs, ListsOK
<1>3. Len(order) = m
  BY <1>2
<1>4. PICK f : f = CHOOSE pruned : Prunes(order, m, pruned)
  OBVIOUS
<1>5. Prunes(order, m, f)
  BY <1>2, <1>4, PruningExists, Zenon
<1>6. Pruned(order) = f[m]
  BY <1>3, <1>4 DEF Pruned, Prunes
<1>7. f[0] = lineages
  BY <1>2, <1>5 DEF Prunes
<1>8. ASSUME NEW i \in 1 .. m PROVE f[i] = PruneOne(f[i - 1], order[i])
  <2>1. i \in 0 .. m /\ i # 0
    BY <1>2
  <2> QED  BY <1>5, <2>1 DEF Prunes
<1> DEFINE Done(n) == {order[j] : j \in 1 .. n}
           G == {n \in Nat : n <= m => PrunedFrom(f[n], Done(n))}
<1>9. 0 \in G
  <2>1. Done(0) = {}
    OBVIOUS
  <2>2. PrunedFrom(lineages, {})
    BY DEF PrunedFrom, CameFrom, ListsOK
  <2> QED  BY <1>7, <2>1, <2>2
<1>10. ASSUME NEW n \in G PROVE n + 1 \in G
  <2> SUFFICES ASSUME n + 1 <= m PROVE PrunedFrom(f[n + 1], Done(n + 1))
    OBVIOUS
  <2>1. n \in Nat /\ PrunedFrom(f[n], Done(n)) /\ n + 1 \in 1 .. m /\ n + 1 - 1 = n /\ 1 .. n \subseteq 1 .. m /\ n + 1 \notin 1 .. n
    BY <1>2
  <2>2. f[n + 1] = PruneOne(f[n], order[n + 1])
    BY <1>8, <2>1
  <2>3. order[n + 1] \in DOMAIN lineages /\ order[n + 1] \notin Done(n)
    BY <1>2, <2>1
  <2>4. Done(n + 1) = Done(n) \cup {order[n + 1]}
    <3>1. 1 .. n + 1 = (1 .. n) \cup {n + 1}
      BY <2>1
    <3> QED  BY <3>1
  <2> HIDE DEF Done
  <2>5. PICK done : done = Done(n)
    OBVIOUS
  <2>6. PICK pruned : pruned = f[n]
    OBVIOUS
  <2>7. PICK chat : chat = order[n + 1]
    OBVIOUS
  <2>8. PrunedFrom(PruneOne(pruned, chat), done \cup {chat})
    BY <2>1, <2>3, <2>5, <2>6, <2>7, PruneOneFrom
  <2> QED  BY <2>2, <2>4, <2>5, <2>6, <2>7, <2>8
<1>11. G = Nat
  <2>1. G \in SUBSET Nat
    OBVIOUS
  <2> HIDE DEF G
  <2> QED  BY <1>9, <1>10, <2>1, Climbing
<1>12. PrunedFrom(f[m], Done(m))
  <2>1. \A n \in Nat : n <= m => PrunedFrom(f[n], Done(n))
    BY <1>11
  <2>2. m \in Nat /\ m <= m
    BY <1>2
  <2> HIDE DEF Done
  <2> QED  BY <2>1, <2>2
<1>13. Done(m) \in SUBSET DOMAIN lineages
  BY <1>2
<1> QED  BY <1>6, <1>12, <1>13

\* A pruned lineage is its chat's own still, under the id it is listed under.
LEMMA PrunedOK ==
  ASSUME ListsOK, NEW chat \in DOMAIN lineages, NEW done, NEW id, NEW segs, CameFrom(id, segs, chat, done)
  PROVE LineageOK(id, segs) /\ id \in DOMAIN provider
<1>1. LineageOK(chat, lineages[chat])
  BY DEF ListsOK
<1>2. CASE chat \notin done
  BY <1>1, <1>2 DEF CameFrom, ListsOK
<1>3. CASE chat \in done
  <2>1. PICK own : own = lineages[chat]
    OBVIOUS
  <2>2. segs = Existing(own) /\ id = ListedUnder(chat, segs)
    BY <1>3, <2>1 DEF CameFrom, PrunedAs
  <2>3. own \in Seq(Segments) /\ own # << >> /\ \A i \in DOMAIN own : own[i].thread \in DOMAIN provider
    BY <1>1, <2>1 DEF LineageOK
  <2>4. InOrder(segs, own, Len(own)) /\ segs # << >> /\ segs[Len(segs)] = own[Len(own)]
    BY <2>2, <2>3, ExistingInOrder
  <2>5. segs \in Seq(Segments) /\ segs[Len(segs)].last = None
    BY <1>1, <2>1, <2>4 DEF InOrder, LineageOK
  <2>6. DOMAIN segs = 1 .. Len(segs) /\ Len(segs) \in Nat \ {0} /\ DOMAIN own = 1 .. Len(own)
    BY <2>3, <2>4, <2>5
  <2>7. ASSUME NEW i \in DOMAIN segs PROVE segs[i].thread \in DOMAIN provider
    <3>1. i <= i
      BY <2>6
    <3>2. PICK a \in 1 .. Len(own) : segs[i] = own[a]
      BY <2>4, <2>6, <3>1 DEF InOrder
    <3> QED  BY <2>3, <2>6, <3>2
  <2>8. Lists(segs, id)
    BY <2>2, <2>6 DEF ListedUnder, Lists
  <2>9. id \in DOMAIN provider
    BY <2>7, <2>8 DEF Lists
  <2> QED  BY <2>4, <2>5, <2>7, <2>8, <2>9 DEF LineageOK
<1> QED  BY <1>2, <1>3

LEMMA RestartKeeps == ASSUME ListedInv, Restart PROVE ListedInv'
<1>1. PICK order \in SetToSeqs(DOMAIN lineages) : lineages' = Pruned(order)
  BY DEF Restart
<1>2. PICK done \in SUBSET DOMAIN lineages : PrunedFrom(lineages', done)
  BY <1>1, PrunedIsFrom DEF ListedInv
<1>3. ASSUME NEW id \in DOMAIN lineages', NEW segs, segs = lineages'[id] PROVE LineageOK(id, segs)' /\ id \in DOMAIN provider'
  <2>1. PICK chat \in DOMAIN lineages : CameFrom(id, segs, chat, done)
    BY <1>2, <1>3 DEF PrunedFrom
  <2>2. LineageOK(id, segs) /\ id \in DOMAIN provider
    BY <2>1, PrunedOK DEF ListedInv
  <2>3. provider' = provider
    BY DEF Restart
  <2> QED  BY <2>2, <2>3 DEF LineageOK
<1>4. ListsOK'
  BY <1>2, <1>3 DEF ListsOK, PrunedFrom
<1>5. ThreadsOK'
  <2>1. run \in Nat /\ MaxRun \in Nat /\ run < MaxRun
    BY BoundsAssumption DEF ListedInv, ThreadsOK, Restart
  <2>2. run' \in 1 .. MaxRun
    BY <2>1 DEF ListedInv, ThreadsOK, Restart
  <2> QED  BY <2>2 DEF ListedInv, ThreadsOK, Restart
<1>6. Busy' = {} /\ DOMAIN calls' = Calls
  BY DEF Restart, Busy
<1>7. CallsOK'
  BY <1>6 DEF CallsOK
<1> QED  BY <1>4, <1>5, <1>7 DEF ListedInv

LEMMA ListedStarts == ASSUME Init PROVE ListedInv
<1>1. IsFiniteSet({})
  BY FS_EmptySet
<1>2. DOMAIN << >> = {}
  OBVIOUS
<1>3. ListsOK
  BY <1>1, <1>2 DEF Init, ListsOK
<1>4. ThreadsOK
  BY <1>2, BoundsAssumption DEF Init, ThreadsOK
<1>5. Busy = {} /\ DOMAIN calls = Calls
  BY DEF Init, Busy
<1> QED  BY <1>3, <1>4, <1>5 DEF ListedInv, CallsOK

LEMMA ListedStepKeeps ==
  ASSUME "Overlap" \notin Allow, "SharedEdits" \notin Allow, ListedInv, [Next]_vars
  PROVE ListedInv'
<1>1. CASE Users
  <2>1. PICK chat \in Threads :
          \/ \E p \in Providers : Begin(chat, p)
          \/ StartTurn(chat)
          \/ \E x \in Calls :
               \/ \E noop \in BOOLEAN : AskSwitch(x, chat, noop)
               \/ AskWholeFork(x, chat)
               \/ \E i \in DOMAIN SegmentsOf(chat), k \in 0 .. MaxTurn :
                    AskRevert(x, chat, i, k) \/ \E before \in BOOLEAN : AskFork(x, chat, i, k, before)
               \/ AskDelete(x, chat)
    BY <1>1 DEF Users
  <2> QED  BY <2>1, BeginKeeps, StartTurnKeeps, AskSwitchKeeps, AskWholeForkKeeps, AskRevertKeeps, AskForkKeeps,
              AskDeleteKeeps
<1>2. CASE Gateway
  <2>1. PICK x \in Calls :
          \/ \E t \in Threads : CreateBackend(x, t) \/ CopyThread(x, t)
          \/ SetLineage(x) \/ StartSwitched(x) \/ FailSwitch(x)
          \/ ListFork(x)
          \/ RevertThread(x) \/ RevertLineage(x) \/ Discard(x)
          \/ DeleteOnly(x) \/ DeleteSegment(x) \/ DeleteLineage(x)
          \/ Refuse(x)
    BY <1>2 DEF Gateway
  <2> QED  BY <2>1, CreateBackendKeeps, CopyThreadKeeps, SetLineageKeeps, StartSwitchedKeeps, FailSwitchKeeps,
              ListForkKeeps, RevertThreadKeeps, RevertLineageKeeps, DiscardKeeps, DeleteOnlyKeeps, DeleteSegmentKeeps,
              DeleteLineageKeeps, RefuseKeeps
<1>3. CASE \E thread \in Threads : CleanUp(thread)
  BY <1>3, CleanUpKeeps
<1>4. CASE Restart
  BY <1>4, RestartKeeps
<1>5. CASE UNCHANGED vars
  <2>1. UNCHANGED <<provider, native, lineages, newBackends, calls, turns, noops, cleaned, run>>
    BY <1>5 DEF vars
  <2>2. ThreadsOK' /\ ListsOK'
    BY <2>1 DEF ListedInv, ThreadsOK, ListsOK, LineageOK
  <2>3. \A x \in Busy : Spared(calls[x])
    BY <2>1, SameSpares DEF ListedInv
  <2> QED  BY <2>1, <2>2, <2>3, NativeStays
<1> QED  BY <1>1, <1>2, <1>3, <1>4, <1>5 DEF Next

\* As long as a chat's requests wait for one another, and no thread that another lineage lists is rolled back or deleted
\* natively, whatever else may happen: what requests create is nobody's until it is listed, and a request goes on with
\* its chat's own segments, so every lineage lists the row it is a chat under (row() in lineage.ts takes it for granted).
THEOREM ChatsKeepTheirRow ==
  ASSUME "Overlap" \notin Allow, "SharedEdits" \notin Allow
  PROVE Spec => []RowListed
<1>1. Init => ListedInv
  BY ListedStarts
<1>2. ListedInv /\ [Next]_vars => ListedInv'
  BY ListedStepKeeps
<1>3. ListedInv => RowListed
  BY DEF ListedInv, ListsOK, LineageOK, RowListed
<1> QED  BY <1>1, <1>2, <1>3, PTL DEF Spec

-----------------------------------------------------------------------------
(* No two chats go on in one thread *)

\* A chat's own segments: its row and those after it.
Owns(segs, chat, thread) ==
  \E i \in DOMAIN segs : \E j \in DOMAIN segs : i <= j /\ segs[i].thread = chat /\ segs[j].thread = thread
OwnApart ==
  \A c \in DOMAIN lineages : \A d \in DOMAIN lineages : \A t :
    Owns(lineages[c], c, t) /\ Owns(lineages[d], d, t) => c = d

\* A chat whose own thread is gone shares no segment: the next start may list it under any that it kept.
Deletes(call) == call # Idle /\ call.what = "delete" /\ call.at > 0
Deleting(chat) == \E x \in Calls : Deletes(calls[x]) /\ calls[x].chat = chat
Lost(chat) == provider[chat] = "claude" /\ chat \notin DOMAIN native /\ ~Deleting(chat)
Alone(chat) == \A t : Lists(lineages[chat], t) /\ t # chat => ~Shared(chat, t)
LostAlone == \A chat \in DOMAIN lineages : Lost(chat) => Alone(chat)

\* A chat that is being forked is there.
Forks(call) == call # Idle /\ call.what = "fork"
ForksLive == \A x \in Calls : Forks(calls[x]) /\ calls[x].chat \in DOMAIN lineages => calls[x].chat \in DOMAIN native

ApartInv == OwnApart /\ LostAlone /\ ForksLive

\* Lineages stay, and a chat's own thread goes only when the chat does, or shares nothing.
LEMMA ApartStays ==
  ASSUME ListsOK, ApartInv, lineages' = lineages, \A t \in DOMAIN provider : provider'[t] = provider[t], ForksLive',
         \A c \in DOMAIN lineages : Deleting(c) => Deleting(c)' \/ Alone(c),
         \A c \in DOMAIN lineages : c \in DOMAIN native => c \in DOMAIN native' \/ Deleting(c)' \/ Alone(c)
  PROVE ApartInv'
<1>1. OwnApart'
  BY DEF ApartInv, OwnApart
<1>2. ASSUME NEW c \in DOMAIN lineages, Lost(c)' PROVE Alone(c)
  <2>1. c \in DOMAIN provider
    BY DEF ListsOK
  <2>2. CASE c \in DOMAIN native
    BY <1>2, <2>2 DEF Lost
  <2>3. CASE c \notin DOMAIN native
    BY <1>2, <2>1, <2>3 DEF Lost, ApartInv, LostAlone
  <2> QED  BY <2>2, <2>3
<1>3. LostAlone'
  BY <1>2 DEF LostAlone, Alone, Shared
<1> QED  BY <1>1, <1>3 DEF ApartInv

\* One request changes: it still deletes its chat when it did, or the chat shares nothing; and what it forks is there.
GoesOnDeleting(call, next) == Deletes(call) => Deletes(next) /\ next.chat = call.chat
SharesNothing(call) == call.chat \in DOMAIN lineages => Alone(call.chat)

LEMMA ApartGoesOn ==
  ASSUME ListedInv, ApartInv, lineages' = lineages, \A t \in DOMAIN provider : provider'[t] = provider[t],
         NEW x \in Calls, NEW next, calls' = [calls EXCEPT ![x] = next],
         GoesOnDeleting(calls[x], next) \/ SharesNothing(calls[x]),
         Forks(next) => (next.chat \in DOMAIN lineages => next.chat \in DOMAIN native'),
         \A c \in DOMAIN lineages : c \in DOMAIN native =>
           \/ c \in DOMAIN native'
           \/ calls[x] # Idle /\ calls[x].chat = c /\ (SharesNothing(calls[x]) \/ (next.chat = c /\ Deletes(next)))
  PROVE ApartInv'
<1>1. calls'[x] = next /\ \A y \in Calls \ {x} : calls'[y] = calls[y]
  BY DEF ListedInv, CallsOK
<1>2. ASSUME NEW c \in DOMAIN lineages, Deleting(c) PROVE Deleting(c)' \/ Alone(c)
  BY <1>1, <1>2 DEF Deleting, GoesOnDeleting, SharesNothing
<1>3. ASSUME NEW c \in DOMAIN lineages, c \in DOMAIN native PROVE c \in DOMAIN native' \/ Deleting(c)' \/ Alone(c)
  BY <1>1, <1>3 DEF Deleting, SharesNothing
<1>4. ASSUME NEW y \in Calls, Forks(calls'[y]), calls'[y].chat \in DOMAIN lineages PROVE calls'[y].chat \in DOMAIN native'
  <2>1. CASE y = x
    BY <1>1, <1>4, <2>1
  <2>2. CASE y # x
    <3>1. calls'[y] = calls[y] /\ calls[y].chat \in DOMAIN native
      BY <1>1, <1>4, <2>2 DEF ApartInv, ForksLive
    <3>2. calls[x] # Idle => calls[x].chat # calls[y].chat
      <4>1. y \in Busy
        BY <1>4, <3>1 DEF Forks, Busy
      <4> QED  BY <2>2, <4>1 DEF ListedInv, CallsOK, Busy, Apart
    <3> QED  BY <1>4, <3>1, <3>2
  <2> QED  BY <2>1, <2>2
<1>5. ForksLive'
  BY <1>4 DEF ForksLive
<1>6. ListsOK
  BY DEF ListedInv
<1> QED  BY <1>2, <1>3, <1>5, <1>6, ApartStays

\* No request changes, and no chat's own thread goes, unless the chat shares nothing and none forks it.
LEMMA ApartSame ==
  ASSUME ListedInv, ApartInv, lineages' = lineages, calls' = calls, \A t \in DOMAIN provider : provider'[t] = provider[t],
         \A c \in DOMAIN lineages : c \in DOMAIN native =>
           c \in DOMAIN native' \/ (Alone(c) /\ \A x \in Busy : calls[x].chat = c => ~Forks(calls[x]))
  PROVE ApartInv'
<1>1. \A c : Deleting(c) => Deleting(c)'
  BY DEF Deleting
<1>2. ForksLive'
  BY DEF ApartInv, ForksLive, Forks, Busy
<1>3. ListsOK
  BY DEF ListedInv
<1> QED  BY <1>1, <1>2, <1>3, ApartStays

-----------------------------------------------------------------------------
(* Steps that leave the lineages *)

LEMMA BeginApart == ASSUME ListedInv, ApartInv, NEW chat \in Threads, NEW p \in Providers, Begin(chat, p) PROVE ApartInv'
<1>1. /\ chat \notin DOMAIN provider /\ provider' = Put(provider, chat, p) /\ lineages' = lineages /\ calls' = calls
      /\ DOMAIN native \subseteq DOMAIN native'
  BY DEF Begin, Fresh, Put
<1> QED  BY <1>1, ApartSame DEF Put

\* What is said leaves all threads there.
LEMMA SaidThere == ASSUME NEW thread, NEW turn, Say(thread, turn) PROVE DOMAIN native' = DOMAIN native
BY DEF Say

LEMMA StartTurnApart == ASSUME ListedInv, ApartInv, NEW chat \in Threads, StartTurn(chat) PROVE ApartInv'
<1>1. DOMAIN native' = DOMAIN native /\ lineages' = lineages /\ calls' = calls /\ provider' = provider
  BY SaidThere DEF StartTurn
<1> QED  BY <1>1, ApartSame

\* A request comes in.
LEMMA AskedQuiet ==
  ASSUME ListedInv, ApartInv, lineages' = lineages, provider' = provider, DOMAIN native' = DOMAIN native,
         NEW x \in Calls, calls[x] = Idle, NEW next, calls' = [calls EXCEPT ![x] = next],
         Forks(next) => (next.chat \in DOMAIN lineages => next.chat \in DOMAIN native)
  PROVE ApartInv'
<1>1. GoesOnDeleting(calls[x], next)
  BY DEF GoesOnDeleting, Deletes
<1> QED  BY <1>1, ApartGoesOn

LEMMA AskSwitchApart ==
  ASSUME ListedInv, ApartInv, NEW x \in Calls, NEW chat \in Threads, NEW noop \in BOOLEAN, AskSwitch(x, chat, noop)
  PROVE ApartInv'
<1>1. lineages' = lineages /\ provider' = provider /\ DOMAIN native' = DOMAIN native
  BY SaidThere DEF AskSwitch
<1>2. \E segs : Take(x, "switch", chat, segs)
  BY DEF AskSwitch
<1>3. PICK segs : Take(x, "switch", chat, segs)
  BY <1>2
<1>4. PICK next : next = [what |-> "switch", chat |-> chat, segs |-> segs, step |-> "asked",
                          at |-> 0, count |-> 0, drop |-> FALSE, made |-> {}, want |-> 0]
  OBVIOUS
<1>5. calls[x] = Idle /\ calls' = [calls EXCEPT ![x] = next] /\ ~Forks(next)
  BY <1>3, <1>4 DEF Take, Forks
<1> QED  BY <1>1, <1>5, AskedQuiet

LEMMA AskDeleteApart == ASSUME ListedInv, ApartInv, NEW x \in Calls, NEW chat \in Threads, AskDelete(x, chat) PROVE ApartInv'
<1>1. PICK next : next = [what |-> "delete", chat |-> chat, segs |-> SegmentsOf(chat), step |-> "asked",
                          at |-> 0, count |-> 0, drop |-> FALSE, made |-> {}, want |-> 0]
  OBVIOUS
<1>2. calls[x] = Idle /\ calls' = [calls EXCEPT ![x] = next] /\ ~Forks(next)
  BY <1>1 DEF AskDelete, Take, Forks
<1>3. lineages' = lineages /\ provider' = provider /\ native' = native
  BY DEF AskDelete
<1> QED  BY <1>2, <1>3, AskedQuiet

\* A chat that can be read has its own thread.
LEMMA TakeUpToApart ==
  ASSUME ListedInv, ApartInv, NEW x \in Calls, NEW what, NEW chat, Readable(chat),
         NEW at, NEW count, NEW drop, TakeUpTo(x, what, chat, at, count, drop),
         UNCHANGED <<provider, native, lineages, newBackends, turns, noops, cleaned, run>>
  PROVE ApartInv'
<1>1. PICK next : next = [what |-> what, chat |-> chat, segs |-> SegmentsOf(chat), step |-> "asked",
                          at |-> at, count |-> count, drop |-> drop, made |-> {}, want |-> SaidUpTo(SegmentsOf(chat), at, count)]
  OBVIOUS
<1>2. calls[x] = Idle /\ calls' = [calls EXCEPT ![x] = next] /\ next.chat = chat
  BY <1>1 DEF TakeUpTo
<1>3. ASSUME chat \in DOMAIN lineages PROVE chat \in DOMAIN native
  <2>1. SegmentsOf(chat) = lineages[chat] /\ Lists(lineages[chat], chat)
    BY <1>3 DEF SegmentsOf, ListedInv, ListsOK, LineageOK
  <2> QED  BY <2>1 DEF Readable, Lists
<1> QED  BY <1>2, <1>3, AskedQuiet

LEMMA AskForkApart ==
  ASSUME ListedInv, ApartInv, NEW x \in Calls, NEW chat \in Threads,
         \/ AskWholeFork(x, chat)
         \/ \E i, k : AskRevert(x, chat, i, k) \/ \E before : AskFork(x, chat, i, k, before)
  PROVE ApartInv'
<1>1. Readable(chat) /\ UNCHANGED <<provider, native, lineages, newBackends, turns, noops, cleaned, run>>
  BY DEF AskWholeFork, AskRevert, AskFork
<1>2. \E what, at, count, drop : TakeUpTo(x, what, chat, at, count, drop)
  BY DEF AskWholeFork, AskRevert, AskFork
<1> QED  BY <1>1, <1>2, TakeUpToApart

\* What a request has under way goes on, or ends, and takes none of the chats' own threads.
LEMMA GoesOnQuiet ==
  ASSUME ListedInv, ApartInv, lineages' = lineages, \A t \in DOMAIN provider : provider'[t] = provider[t],
         NEW x \in Calls, NEW next, calls' = [calls EXCEPT ![x] = next], ~Deletes(calls[x]), ~Forks(next),
         \A c \in DOMAIN lineages : c \in DOMAIN native => c \in DOMAIN native'
  PROVE ApartInv'
<1>1. GoesOnDeleting(calls[x], next)
  BY DEF GoesOnDeleting
<1> QED  BY <1>1, ApartGoesOn

LEMMA CreateBackendApart ==
  ASSUME ListedInv, ApartInv, NEW x \in Calls, NEW backend \in Threads, CreateBackend(x, backend)
  PROVE ApartInv'
<1>1. PICK call : call = calls[x]
  OBVIOUS
<1>2. PICK segs : segs = Append(Front(call.segs), Segment(Last(call.segs).thread, LastTurn(x)))
  OBVIOUS
<1>3. PICK next : next = [call EXCEPT !.step = "ready", !.made = {backend}, !.segs = segs]
  OBVIOUS
<1>4. calls' = [calls EXCEPT ![x] = next]
  BY <1>1, <1>2, <1>3 DEF CreateBackend
<1>5. call # Idle /\ call.what = "switch" /\ next.what = "switch"
  <2>1. call # Idle /\ call.what = "switch" /\ x \in Busy
    BY <1>1, DoingBusy DEF CreateBackend, Doing
  <2>2. call \in Requests(call.want)
    BY <1>1, <2>1, OfCall
  <2> QED  BY <1>3, <2>1, <2>2 DEF Requests
<1>6. ~Deletes(call) /\ ~Forks(next)
  BY <1>5 DEF Deletes, Forks
<1>7. \A t \in DOMAIN provider : provider'[t] = provider[t]
  BY DEF CreateBackend, Fresh, Put
<1>8. DOMAIN native \subseteq DOMAIN native' /\ lineages' = lineages
  BY DEF CreateBackend, Put
<1> QED  BY <1>1, <1>4, <1>6, <1>7, <1>8, GoesOnQuiet

LEMMA CopyThreadApart ==
  ASSUME ListedInv, ApartInv, NEW x \in Calls, NEW fork \in Threads, CopyThread(x, fork)
  PROVE ApartInv'
<1>1. PICK call : call = calls[x]
  OBVIOUS
<1>2. PICK next : next = [call EXCEPT !.step = "ready", !.made = {fork}]
  OBVIOUS
<1>3. calls' = [calls EXCEPT ![x] = next]
  BY <1>1, <1>2 DEF CopyThread
<1>4. call # Idle /\ call.what = "fork" /\ next.what = "fork" /\ next.chat = call.chat
  <2>1. call # Idle /\ call.what = "fork" /\ x \in Busy
    BY <1>1, DoingBusy DEF CopyThread, Doing
  <2>2. call \in Requests(call.want)
    BY <1>1, <2>1, OfCall
  <2> QED  BY <1>2, <2>1, <2>2 DEF Requests
<1>5. \A t \in DOMAIN provider : provider'[t] = provider[t]
  BY DEF CopyThread, Fresh, Put
<1>6. DOMAIN native \subseteq DOMAIN native' /\ lineages' = lineages
  BY DEF CopyThread, Put
<1>7. GoesOnDeleting(call, next)
  BY <1>4 DEF GoesOnDeleting, Deletes
<1>8. next.chat \in DOMAIN lineages => next.chat \in DOMAIN native'
  BY <1>1, <1>4, <1>6 DEF ApartInv, ForksLive, Forks
<1> QED  BY <1>1, <1>3, <1>5, <1>6, <1>7, <1>8, ApartGoesOn

LEMMA StartSwitchedApart == ASSUME ListedInv, ApartInv, NEW x \in Calls, StartSwitched(x) PROVE ApartInv'
<1>1. DOMAIN native' = DOMAIN native
  BY SaidThere DEF StartSwitched
<1>2. ~Deletes(calls[x]) /\ ~Forks(Idle)
  BY DEF StartSwitched, Doing, Deletes, Forks
<1> QED  BY <1>1, <1>2, GoesOnQuiet DEF StartSwitched, Ends

LEMMA FailSwitchApart == ASSUME ListedInv, ApartInv, "LateFailures" \notin Allow, NEW x \in Calls, FailSwitch(x) PROVE ApartInv'
<1>1. /\ Doing(x, "switch", "asked") \/ Doing(x, "switch", "ready")
      /\ calls' = [calls EXCEPT ![x] = Idle] /\ lineages' = lineages /\ provider' = provider
  BY DEF FailSwitch, Ends
<1>2. x \in Busy
  BY <1>1, DoingBusy
<1>3. \A t \in calls[x].made : t \notin DOMAIN lineages
  BY <1>1, <1>2, OfCall DEF Doing, CallOK, MadeNew
<1>4. \A c \in DOMAIN lineages : c \in DOMAIN native => c \in DOMAIN native'
  BY <1>3 DEF FailSwitch, Restrict
<1>5. ~Deletes(calls[x]) /\ ~Forks(Idle)
  BY <1>1 DEF Doing, Deletes, Forks
<1> QED  BY <1>1, <1>4, <1>5, GoesOnQuiet

LEMMA RefuseApart == ASSUME ListedInv, ApartInv, NEW x \in Calls, Refuse(x) PROVE ApartInv'
<1>1. ~Deletes(calls[x]) /\ ~Forks(Idle)
  BY DEF Refuse, Doing, Deletes, Forks
<1> QED  BY <1>1, GoesOnQuiet DEF Refuse, Ends

\* A rollback, step for step, is no fork and no deletion.
LEMMA RevertQuiet ==
  ASSUME ListedInv, ApartInv, lineages' = lineages, provider' = provider,
         NEW x \in Calls, calls[x] # Idle, calls[x].what = "revert",
         NEW next, calls' = [calls EXCEPT ![x] = next], next = Idle \/ next.what = "revert",
         \A c \in DOMAIN lineages : c \in DOMAIN native => c \in DOMAIN native'
  PROVE ApartInv'
<1>1. ~Deletes(calls[x]) /\ ~Forks(next)
  BY DEF Deletes, Forks
<1> QED  BY <1>1, GoesOnQuiet

LEMMA RevertThreadApart == ASSUME ListedInv, ApartInv, NEW x \in Calls, RevertThread(x) PROVE ApartInv'
<1>1. PICK call : call = calls[x]
  OBVIOUS
<1>2. PICK next : next = [call EXCEPT !.step = "ready"]
  OBVIOUS
<1>3. calls' = [calls EXCEPT ![x] = next] /\ x \in Busy /\ call # Idle /\ call.what = "revert"
  BY <1>1, <1>2, DoingBusy DEF RevertThread, Doing
<1>4. next.what = "revert"
  <2>1. call \in Requests(call.want)
    BY <1>1, <1>3, OfCall
  <2> QED  BY <1>2, <1>3, <2>1 DEF Requests
<1>5. lineages' = lineages /\ provider' = provider /\ DOMAIN native' = DOMAIN native
  BY DEF RevertThread
<1> QED  BY <1>1, <1>3, <1>4, <1>5, RevertQuiet

LEMMA DiscardApart == ASSUME ListedInv, ApartInv, NEW x \in Calls, Discard(x) PROVE ApartInv'
<1>1. PICK call : call = calls[x]
  OBVIOUS
<1>2. PICK at : at = call.at + 1
  OBVIOUS
<1>3. PICK next : next = IF at = Len(call.segs) THEN Idle ELSE Discarding(call, at)
  OBVIOUS
<1>4. PICK thread : thread = call.segs[at].thread
  OBVIOUS
<1>5. call # Idle /\ call.what = "revert" /\ x \in Busy /\ lineages' = lineages /\ provider' = provider
  BY <1>1, DoingBusy DEF Discard, Doing
<1>6. calls' = [calls EXCEPT ![x] = next]
  BY <1>1, <1>2, <1>3 DEF Discard, GoesOn, Ends, Discarding
<1>7. next = Idle \/ next.what = "revert"
  <2>1. call \in Requests(call.want)
    BY <1>1, <1>5, OfCall
  <2> QED  BY <1>3, <1>5, <2>1 DEF Requests, Discarding
<1>8. native' = native \/ (Unlisted(thread) /\ native' = Restrict(native, DOMAIN native \ {thread}))
  BY <1>1, <1>2, <1>4 DEF Discard, Unlisted
<1>9. ASSUME NEW c \in DOMAIN lineages, c \in DOMAIN native PROVE c \in DOMAIN native'
  <2>1. Lists(lineages[c], c)
    BY DEF ListedInv, ListsOK, LineageOK
  <2> QED  BY <1>8, <1>9, <2>1 DEF Unlisted, Restrict
<1> QED  BY <1>1, <1>5, <1>6, <1>7, <1>9, RevertQuiet

LEMMA DeleteOnlyApart == ASSUME ListedInv, ApartInv, NEW x \in Calls, DeleteOnly(x) PROVE ApartInv'
<1>1. PICK call : call = calls[x]
  OBVIOUS
<1>2. PICK thread : thread = call.segs[1].thread
  OBVIOUS
<1>3. /\ x \in Busy /\ call # Idle /\ call.what = "delete" /\ call.step = "asked" /\ Len(call.segs) = 1
      /\ calls' = [calls EXCEPT ![x] = Idle]
      /\ lineages' = lineages /\ provider' = provider /\ native' = Restrict(native, DOMAIN native \ {thread})
  BY <1>1, <1>2, DoingBusy DEF DeleteOnly, Doing, Ends
<1>4. CallOK(call) /\ call.segs = SegmentsOf(call.chat) /\ DOMAIN call.segs = 1 .. 1
  BY <1>1, <1>3, OfCall DEF CallOK, AsTaken
<1>5. \A t : Lists(SegmentsOf(call.chat), t) <=> t = thread
  BY <1>2, <1>4 DEF Lists
<1>6. thread = call.chat
  BY <1>4, <1>5, OwnSegments DEF ListedInv, CallOK, CallTyped
<1>7. SharesNothing(call)
  BY <1>5, <1>6 DEF SharesNothing, Alone, SegmentsOf
<1>8. \A c : c \in DOMAIN native => c \in DOMAIN native' \/ call.chat = c
  BY <1>3, <1>6 DEF Restrict
<1>9. ~Forks(Idle)
  BY DEF Forks
<1> QED  BY <1>1, <1>3, <1>7, <1>8, <1>9, ApartGoesOn

LEMMA DeleteSegmentApart == ASSUME ListedInv, ApartInv, NEW x \in Calls, DeleteSegment(x) PROVE ApartInv'
<1>1. PICK call : call = calls[x]
  OBVIOUS
<1>2. PICK next : next = [call EXCEPT !.at = @ + 1]
  OBVIOUS
<1>3. PICK thread : thread = call.segs[call.at + 1].thread
  OBVIOUS
<1>4. /\ x \in Busy /\ call # Idle /\ call.what = "delete" /\ calls' = [calls EXCEPT ![x] = next]
      /\ lineages' = lineages /\ provider' = provider
      /\ native' = IF Shared(call.chat, thread) THEN native ELSE Restrict(native, DOMAIN native \ {thread})
  BY <1>1, <1>2, <1>3, DoingBusy DEF DeleteSegment, Doing
<1>5. Deletes(next) /\ next.chat = call.chat /\ ~Forks(next)
  <2>1. call \in Requests(call.want) /\ call.at \in Nat
    BY <1>1, <1>4, OfCall
  <2>2. next.at = call.at + 1 /\ next.what = "delete" /\ next.chat = call.chat /\ next.step = call.step
    BY <1>2, <1>4, <2>1 DEF Requests
  <2>3. next # Idle
    BY <2>1, <2>2 DEF Idle, Requests
  <2> QED  BY <2>1, <2>2, <2>3 DEF Deletes, Forks
<1>6. ASSUME NEW c \in DOMAIN lineages, c \in DOMAIN native, c # call.chat PROVE c \in DOMAIN native'
  <2>1. Lists(lineages[c], c)
    BY DEF ListedInv, ListsOK, LineageOK
  <2>2. c = thread => Shared(call.chat, thread)
    BY <1>6, <2>1 DEF Shared
  <2> QED  BY <1>4, <1>6, <2>2 DEF Restrict
<1>7. GoesOnDeleting(call, next)
  BY <1>5 DEF GoesOnDeleting
<1> QED  BY <1>1, <1>4, <1>5, <1>6, <1>7, ApartGoesOn

\* Claude cleans up a thread of a chat that shares nothing, and that no request has.
LEMMA CleanUpApart ==
  ASSUME ListedInv, ApartInv, "Collisions" \notin Allow, NEW thread \in Threads, CleanUp(thread)
  PROVE ApartInv'
<1>1. /\ lineages' = lineages /\ calls' = calls /\ provider' = provider
      /\ native' = Restrict(native, DOMAIN native \ {thread}) /\ \A x \in Busy : ~Lists(calls[x].segs, thread)
  BY DEF CleanUp
<1>2. thread \in DOMAIN lineages => Alone(thread)
  BY DEF CleanUp, Alone, Lists
<1>3. ASSUME thread \in DOMAIN lineages, NEW x \in Busy, calls[x].chat = thread, Forks(calls[x]) PROVE FALSE
  <2>1. CallOK(calls[x])
    BY OfCall
  <2>2. calls[x].segs = lineages[thread]
    BY <1>3, <2>1 DEF Forks, CallOK, AsTaken, SegmentsOf
  <2>3. Lists(lineages[thread], thread)
    BY <1>3 DEF ListedInv, ListsOK, LineageOK
  <2> QED  BY <1>1, <2>2, <2>3
<1>4. \A c : c \in DOMAIN native => c \in DOMAIN native' \/ c = thread
  BY <1>1 DEF Restrict
<1> QED  BY <1>1, <1>2, <1>3, <1>4, ApartSame

-----------------------------------------------------------------------------
(* Steps that list a chat's segments anew *)

\* A thread is in no lineage but maybe the one listed under `key`.
NoOther(key, thread) == \A c \in DOMAIN lineages \ {key} : ~Lists(lineages[c], thread)

\* What a key's new list has is what its old one had, or is in no other.
NewFor(key, list) ==
  \A t : Lists(list, t) => NoOther(key, t) \/ (key \in DOMAIN lineages /\ Lists(lineages[key], t))

LEMMA OwnedListed == ASSUME NEW segs, NEW chat, NEW t, Owns(segs, chat, t) PROVE Lists(segs, t)
BY DEF Owns, Lists

LEMMA OwnApartPut ==
  ASSUME OwnApart, NEW key, NEW list, lineages' = Put(lineages, key, list),
         \A t : Owns(list, key, t) => NoOther(key, t) \/ (key \in DOMAIN lineages /\ Owns(lineages[key], key, t))
  PROVE OwnApart'
<1>1. /\ DOMAIN lineages' = DOMAIN lineages \cup {key} /\ lineages'[key] = list
      /\ \A c \in DOMAIN lineages \ {key} : lineages'[c] = lineages[c]
  BY DEF Put
<1>2. ASSUME NEW c \in DOMAIN lineages, c # key, NEW t, Owns(lineages[c], c, t), Owns(list, key, t) PROVE FALSE
  <2>1. Lists(lineages[c], t)
    BY <1>2, OwnedListed
  <2> QED  BY <1>2, <2>1 DEF NoOther, OwnApart
<1> QED  BY <1>1, <1>2 DEF OwnApart

\* A chat's new list shares what its old one did, or less.
LEMMA LostAlonePut ==
  ASSUME LostAlone, NEW key, NEW list, lineages' = Put(lineages, key, list), \A c : Lost(c)' => Lost(c),
         NewFor(key, list)
  PROVE LostAlone'
<1>1. /\ DOMAIN lineages' = DOMAIN lineages \cup {key} /\ lineages'[key] = list
      /\ \A c \in DOMAIN lineages \ {key} : lineages'[c] = lineages[c]
  BY DEF Put
<1> SUFFICES ASSUME NEW c \in DOMAIN lineages', Lost(c)', NEW t, Lists(lineages'[c], t), t # c,
                    NEW d \in DOMAIN lineages' \ {c}, Lists(lineages'[d], t)
             PROVE FALSE
  BY DEF LostAlone, Alone, Shared
<1>2. Lost(c)
  OBVIOUS
<1>3. CASE c # key /\ d # key
  BY <1>1, <1>2, <1>3 DEF LostAlone, Alone, Shared
<1>4. CASE c # key /\ d = key
  <2>1. c \in DOMAIN lineages /\ Lists(lineages[c], t) /\ Lists(list, t)
    BY <1>1, <1>4
  <2>2. key \in DOMAIN lineages /\ Lists(lineages[key], t)
    BY <1>4, <2>1 DEF NoOther, NewFor
  <2> QED  BY <1>2, <1>4, <2>1, <2>2 DEF LostAlone, Alone, Shared
<1>5. CASE c = key
  <2>1. d \in DOMAIN lineages \ {key} /\ Lists(lineages[d], t) /\ Lists(list, t)
    BY <1>1, <1>5
  <2>2. key \in DOMAIN lineages /\ Lists(lineages[key], t)
    BY <2>1 DEF NoOther, NewFor
  <2> QED  BY <1>2, <1>5, <2>1, <2>2 DEF LostAlone, Alone, Shared
<1> QED  BY <1>3, <1>4, <1>5

\* A fork shares segments of a chat that is there.
LEMMA LostAloneFork ==
  ASSUME LostAlone, NEW key, NEW list, key \notin DOMAIN lineages, lineages' = Put(lineages, key, list),
         \A c : Lost(c)' => Lost(c), ~Lost(key), NEW source \in DOMAIN lineages, ~Lost(source),
         \A t : Lists(list, t) => NoOther(key, t) \/ Lists(lineages[source], t)
  PROVE LostAlone'
<1>1. /\ DOMAIN lineages' = DOMAIN lineages \cup {key} /\ lineages'[key] = list
      /\ \A c \in DOMAIN lineages \ {key} : lineages'[c] = lineages[c]
  BY DEF Put
<1> SUFFICES ASSUME NEW c \in DOMAIN lineages', Lost(c)', NEW t, Lists(lineages'[c], t), t # c,
                    NEW d \in DOMAIN lineages' \ {c}, Lists(lineages'[d], t)
             PROVE FALSE
  BY DEF LostAlone, Alone, Shared
<1>2. Lost(c) /\ c # key /\ c # source /\ c \in DOMAIN lineages /\ Lists(lineages[c], t)
  BY <1>1
<1>3. CASE d # key
  BY <1>1, <1>2, <1>3 DEF LostAlone, Alone, Shared
<1>4. CASE d = key
  <2>1. Lists(lineages[source], t)
    BY <1>1, <1>2, <1>4 DEF NoOther
  <2> QED  BY <1>2, <2>1 DEF LostAlone, Alone, Shared
<1> QED  BY <1>3, <1>4

\* The deletions of other chats go on.
LEMMA StillDeleting ==
  ASSUME ListedInv, NEW x \in Calls, NEW next, calls' = [calls EXCEPT ![x] = next], ~Deletes(calls[x]), native' = native,
         provider' = provider
  PROVE \A c : Lost(c)' => Lost(c)
<1>1. \A y \in Calls \ {x} : calls'[y] = calls[y]
  BY DEF ListedInv, CallsOK
<1>2. ASSUME NEW c, Deleting(c) PROVE Deleting(c)'
  BY <1>1, <1>2 DEF Deleting
<1> QED  BY <1>2 DEF Lost

\* What is listed anew is not what another request forks.
LEMMA ForksStay ==
  ASSUME ListedInv, ForksLive, NEW x \in Busy, NEW next, calls' = [calls EXCEPT ![x] = next], ~Forks(next), native' = native,
         NEW key, key = calls[x].chat \/ (calls[x].step = "ready" /\ key \in calls[x].made),
         DOMAIN lineages' \subseteq DOMAIN lineages \cup {key}
  PROVE ForksLive'
<1>1. x \in Calls /\ calls'[x] = next /\ \A y \in Calls \ {x} : calls'[y] = calls[y]
  BY DEF ListedInv, CallsOK, Busy
<1> SUFFICES ASSUME NEW y \in Calls, Forks(calls'[y]), calls'[y].chat \in DOMAIN lineages' PROVE calls'[y].chat \in DOMAIN native
  BY DEF ForksLive
<1>2. y # x /\ calls'[y] = calls[y] /\ y \in Busy
  BY <1>1 DEF Forks, Busy
<1>3. calls[y].chat # key
  BY <1>2 DEF ListedInv, CallsOK, Apart
<1> QED  BY <1>2, <1>3 DEF ForksLive

\* A list that goes on in a backend.
GoesOnIn(list, segs, backend) ==
  /\ Len(segs) \in Nat \ {0} /\ DOMAIN segs = 1 .. Len(segs)
  /\ DOMAIN list = DOMAIN segs \cup {Len(segs) + 1} /\ list[Len(segs) + 1] = Segment(backend, None)
  /\ \A i \in DOMAIN segs : list[i] = segs[i] /\ i < Len(segs) + 1

\* A request's segments are still its chat's, but for the turn at which it leaves the last one.
TookOwn(call, chat, own) ==
  /\ own \in Seq(Segments) /\ DOMAIN own = DOMAIN call.segs /\ SameButLast(call.segs, own)
  /\ \A i \in DOMAIN call.segs : call.segs[i].thread = own[i].thread
  /\ chat \notin DOMAIN lineages => NoOther(chat, chat) /\ \A t : Lists(own, t) => t = chat
\* The chat goes on in a backend of its own.
SwitchedTo(call, chat, backend, list) ==
  /\ lineages' = Put(lineages, chat, list) /\ GoesOnIn(list, call.segs, backend) /\ NewFor(chat, list)
  /\ NoOther(chat, backend) /\ ~Lists(call.segs, backend) /\ backend \in DOMAIN native

LEMMA SetLineageIs ==
  ASSUME ListedInv, NEW x \in Calls, SetLineage(x), NEW call, call = calls[x], NEW chat, chat = call.chat,
         NEW own, own = SegmentsOf(chat)
  PROVE TookOwn(call, chat, own) /\ \E backend \in call.made : \E list : SwitchedTo(call, chat, backend, list)
<1>1. PICK backend \in call.made : lineages' = Put(lineages, call.chat, Append(call.segs, Segment(backend, None)))
  BY DEF SetLineage
<1>2. PICK list : list = Append(call.segs, Segment(backend, None))
  OBVIOUS
<1>3. x \in Busy /\ call # Idle /\ call.what = "switch" /\ call.step = "ready" /\ lineages' = Put(lineages, chat, list)
  BY <1>1, <1>2, DoingBusy DEF SetLineage, Doing
<1>4. PICK segs : segs = call.segs
  OBVIOUS
<1>5. /\ CallOK(call) /\ segs \in Seq(Segments) /\ Len(segs) \in Nat \ {0} /\ chat \in DOMAIN provider
      /\ DOMAIN segs = 1 .. Len(segs) /\ SameButLast(segs, own) /\ call \in Requests(call.want)
  BY <1>3, <1>4, OfCall DEF CallOK, CallTyped, AsTaken
<1>6. own \in Seq(Segments) /\ DOMAIN own = DOMAIN segs /\ \A i \in DOMAIN segs : segs[i].thread = own[i].thread
  <2>1. own \in Seq(Segments) /\ DOMAIN own = 1 .. Len(own) /\ Len(own) = Len(segs)
    BY <1>5, OwnSegments DEF ListedInv, SameButLast
  <2>2. 1 .. Len(segs) = (1 .. Len(segs) - 1) \cup {Len(segs)}
    BY <1>5
  <2> QED  BY <1>5, <2>1, <2>2 DEF SameButLast
<1>7. GoesOnIn(list, segs, backend)
  <2>1. PICK last : last = Segment(backend, None)
    OBVIOUS
  <2>2. last \in Segments
    BY <1>5, <2>1 DEF CallOK, CallTyped, Segment, Segments, Requests
  <2>3. list = Append(segs, last)
    BY <1>2, <1>4, <2>1
  <2>4. 1 .. Len(segs) + 1 = (1 .. Len(segs)) \cup {Len(segs) + 1}
    BY <1>5
  <2>5. /\ DOMAIN list = 1 .. Len(segs) + 1 /\ list[Len(segs) + 1] = last
        /\ \A i \in 1 .. Len(segs) : list[i] = segs[i] /\ i < Len(segs) + 1
    BY <1>5, <2>2, <2>3
  <2> QED  BY <1>5, <2>1, <2>4, <2>5 DEF GoesOnIn
<1>8. NoOther(chat, backend) /\ ~Lists(segs, backend) /\ backend \in DOMAIN native /\ (chat \notin DOMAIN lineages => NoOther(chat, chat))
  BY <1>3, <1>4, <1>5 DEF CallOK, MadeNew, ChatFree, Unlisted, NoOther
<1>9. \A t : Lists(list, t) => t = backend \/ Lists(own, t)
  BY <1>6, <1>7 DEF Lists, GoesOnIn, Segment
<1>10. chat \notin DOMAIN lineages => \A t : Lists(own, t) => t = chat
  BY DEF SegmentsOf, Lists, Segment
<1>11. NewFor(chat, list)
  BY <1>8, <1>9, <1>10 DEF SegmentsOf, NewFor
<1>12. TookOwn(call, chat, own)
  BY <1>4, <1>5, <1>6, <1>8, <1>10 DEF TookOwn
<1>13. SwitchedTo(call, chat, backend, list)
  BY <1>3, <1>4, <1>7, <1>8, <1>11 DEF SwitchedTo
<1> QED  BY <1>12, <1>13

LEMMA SetLineageApart == ASSUME ListedInv, ApartInv, NEW x \in Calls, SetLineage(x) PROVE ApartInv'
<1>1. PICK call : call = calls[x]
  OBVIOUS
<1>2. PICK chat : chat = call.chat
  OBVIOUS
<1>3. PICK own : own = SegmentsOf(chat)
  OBVIOUS
<1>4. PICK next : next = [call EXCEPT !.step = "set"]
  OBVIOUS
<1>5. /\ x \in Busy /\ call # Idle /\ call.what = "switch" /\ native' = native /\ provider' = provider
      /\ calls' = [calls EXCEPT ![x] = next]
  BY <1>1, <1>4, DoingBusy DEF SetLineage, Doing
<1>6. TookOwn(call, chat, own) /\ \E backend \in call.made : \E list : SwitchedTo(call, chat, backend, list)
  BY <1>1, <1>2, <1>3, SetLineageIs
<1>7. PICK backend \in call.made : \E list : SwitchedTo(call, chat, backend, list)
  BY <1>6
<1>8. PICK list : SwitchedTo(call, chat, backend, list)
  BY <1>7
<1>9. PICK segs : segs = call.segs
  OBVIOUS
<1>10. /\ Len(segs) \in Nat \ {0} /\ DOMAIN segs = 1 .. Len(segs)
      /\ DOMAIN list = DOMAIN segs \cup {Len(segs) + 1} /\ list[Len(segs) + 1].thread = backend
      /\ \A i \in DOMAIN segs : list[i].thread = own[i].thread
  BY <1>6, <1>8, <1>9 DEF GoesOnIn, Segment, SwitchedTo, TookOwn
<1>11. ASSUME NEW t, Owns(list, chat, t) PROVE NoOther(chat, t) \/ (chat \in DOMAIN lineages /\ Owns(lineages[chat], chat, t))
  <2>1. PICK i \in DOMAIN list : \E j \in DOMAIN list : i <= j /\ list[i].thread = chat /\ list[j].thread = t
    BY <1>11 DEF Owns
  <2>2. PICK j \in DOMAIN list : i <= j /\ list[i].thread = chat /\ list[j].thread = t
    BY <2>1
  <2>3. CASE t = backend
    BY <1>8, <2>3 DEF SwitchedTo
  <2>4. CASE t # backend /\ chat \in DOMAIN lineages
    <3>1. j \in DOMAIN segs
      BY <1>10, <2>2, <2>4
    <3>2. i \in DOMAIN segs
      <4>1. i # Len(segs) + 1
        BY <1>10, <2>2, <3>1
      <4> QED  BY <1>10, <4>1
    <3>3. own[i].thread = chat /\ own[j].thread = t /\ i \in DOMAIN own /\ j \in DOMAIN own /\ i <= j
      BY <1>6, <1>9, <1>10, <2>2, <3>1, <3>2 DEF TookOwn
    <3>4. Owns(own, chat, t)
      BY <3>3 DEF Owns
    <3> QED  BY <1>3, <2>4, <3>4 DEF SegmentsOf
  <2>5. CASE t # backend /\ chat \notin DOMAIN lineages
    <3>1. j \in DOMAIN segs
      BY <1>10, <2>2, <2>5
    <3>2. t = chat
      BY <1>6, <1>9, <1>10, <2>2, <2>5, <3>1 DEF Lists, TookOwn
    <3> QED  BY <1>6, <2>5, <3>2 DEF TookOwn
  <2> QED  BY <2>3, <2>4, <2>5
<1>12. ~Deletes(calls[x]) /\ ~Forks(next)
  <2>1. next.what = "switch"
    <3>1. call \in Requests(call.want)
      BY <1>1, <1>5, OfCall
    <3> QED  BY <1>4, <1>5, <3>1 DEF Requests
  <2> QED  BY <1>1, <1>5, <2>1 DEF Deletes, Forks
<1>13. OwnApart'
  BY <1>8, <1>11, OwnApartPut DEF ApartInv, SwitchedTo
<1>14. LostAlone'
  <2>1. \A c : Lost(c)' => Lost(c)
    BY <1>5, <1>12, StillDeleting
  <2> QED  BY <1>8, <2>1, LostAlonePut DEF ApartInv, SwitchedTo
<1>15. ForksLive'
  <2>1. DOMAIN lineages' \subseteq DOMAIN lineages \cup {chat}
    BY <1>8 DEF Put, SwitchedTo
  <2> QED  BY <1>1, <1>2, <1>5, <1>12, <2>1, ForksStay DEF ApartInv
<1> QED  BY <1>13, <1>14, <1>15 DEF ApartInv

\* A fork's list: its source's older segments, and its own.
ForkedTo(call, fork, list) ==
  /\ lineages' = Put(lineages, fork, list)
  /\ fork \in DOMAIN native /\ fork \notin DOMAIN lineages /\ NoOther(fork, fork) /\ ~Lists(call.segs, fork)
  /\ call.chat \in DOMAIN lineages /\ call.segs = lineages[call.chat]
  /\ \E n \in Nat : 1 .. n \subseteq DOMAIN call.segs /\ GoneOn(list, call.segs, n, Segment(fork, None))

LEMMA ListForkIs ==
  ASSUME ListedInv, NEW x \in Calls, ListFork(x), NEW call, call = calls[x], call.at # 1
  PROVE \E fork \in call.made : \E list : ForkedTo(call, fork, list)
<1>1. x \in Busy /\ call # Idle /\ call.what = "fork" /\ call.step = "ready"
  BY DoingBusy DEF ListFork, Doing
<1>2. PICK fork \in call.made : lineages' = Put(lineages, fork, GoingOn(call.segs, call.at - 1, Segment(fork, None)))
  BY DEF ListFork, GoingOn
<1>3. PICK n : n = call.at - 1
  OBVIOUS
<1>4. PICK last : last = Segment(fork, None)
  OBVIOUS
<1>5. PICK list : list = GoingOn(call.segs, n, last)
  OBVIOUS
<1>6. lineages' = Put(lineages, fork, list)
  BY <1>2, <1>3, <1>4, <1>5
<1>7. /\ CallOK(call) /\ call.segs \in Seq(Segments) /\ DOMAIN call.segs = 1 .. Len(call.segs) /\ Len(call.segs) \in Nat
      /\ call.segs = SegmentsOf(call.chat) /\ call.at \in 1 .. Len(call.segs) /\ call.at # 1
      /\ n \in Nat /\ n \in 0 .. Len(call.segs) /\ 1 .. n \subseteq DOMAIN call.segs /\ fork \in DOMAIN provider
  <2>1. CallOK(call) /\ call.segs \in Seq(Segments) /\ DOMAIN call.segs = 1 .. Len(call.segs) /\ Len(call.segs) \in Nat
    BY <1>1, OfCall
  <2>2. call.at \in DOMAIN call.segs /\ call.segs = SegmentsOf(call.chat) /\ fork \in DOMAIN provider
    BY <1>1, <2>1 DEF CallOK, AsTaken, CallTyped
  <2> QED  BY <1>3, <2>1, <2>2
<1>8. GoneOn(list, call.segs, n, last)
  <2>1. last \in Segments
    BY <1>4, <1>7 DEF CallOK, CallTyped, Requests, Segments, Segment
  <2>2. Within(n, call.segs)
    BY <1>7 DEF Within
  <2> QED  BY <1>5, <1>7, <2>1, <2>2, ListGoesOn
<1>9. fork \in DOMAIN native /\ fork \notin DOMAIN lineages /\ NoOther(fork, fork) /\ ~Lists(call.segs, fork)
  BY <1>1, <1>7 DEF CallOK, MadeNew, Unlisted, NoOther
<1>10. call.chat \in DOMAIN lineages /\ call.segs = lineages[call.chat]
  <2>1. Len(<<Segment(call.chat, None)>>) = 1
    OBVIOUS
  <2>2. ASSUME NEW m, m = Len(call.segs) PROVE m # 1
    <3>1. m \in Nat /\ call.at \in 1 .. m /\ call.at # 1
      BY <1>7, <2>2
    <3> QED  BY <3>1
  <2> QED  BY <1>7, <2>1, <2>2 DEF SegmentsOf
<1> QED  BY <1>4, <1>6, <1>7, <1>8, <1>9, <1>10 DEF ForkedTo

LEMMA ListForkApart == ASSUME ListedInv, ApartInv, NEW x \in Calls, ListFork(x) PROVE ApartInv'
<1>1. PICK call : call = calls[x]
  OBVIOUS
<1>2. /\ x \in Busy /\ call # Idle /\ call.what = "fork" /\ call.step = "ready" /\ calls' = [calls EXCEPT ![x] = Idle]
      /\ native' = native /\ provider' = provider
  BY <1>1, DoingBusy DEF ListFork, Doing, Ends
<1>3. ~Deletes(calls[x]) /\ ~Forks(Idle)
  BY <1>1, <1>2 DEF Deletes, Forks
<1>4. CASE call.at = 1
  <2>1. lineages' = lineages
    BY <1>1, <1>4 DEF ListFork
  <2> QED  BY <1>2, <1>3, <2>1, GoesOnQuiet
<1>5. CASE call.at # 1
  <2>1. PICK fork \in call.made : \E list : ForkedTo(call, fork, list)
    BY <1>1, <1>5, ListForkIs
  <2>2. PICK list : ForkedTo(call, fork, list)
    BY <2>1
  <2>3. /\ lineages' = Put(lineages, fork, list)
        /\ fork \in DOMAIN native /\ fork \notin DOMAIN lineages /\ NoOther(fork, fork) /\ ~Lists(call.segs, fork)
        /\ call.chat \in DOMAIN lineages /\ call.segs = lineages[call.chat]
    BY <2>2 DEF ForkedTo
  <2>4. PICK n \in Nat : 1 .. n \subseteq DOMAIN call.segs /\ GoneOn(list, call.segs, n, Segment(fork, None))
    BY <2>2 DEF ForkedTo
  <2>5. Segment(fork, None).thread = fork
    BY DEF Segment
  <2>6. call.chat \in DOMAIN native
    BY <1>1, <1>2, <2>3 DEF ApartInv, ForksLive, Forks, Busy
  <2>7. \A t : Lists(list, t) => NoOther(fork, t) \/ Lists(lineages[call.chat], t)
    BY <2>3, <2>4, <2>5 DEF GoneOn, UpTo, Lists
  <2>8. ASSUME NEW t, Owns(list, fork, t) PROVE NoOther(fork, t)
    <3>1. PICK i \in DOMAIN list : \E j \in DOMAIN list : i <= j /\ list[i].thread = fork /\ list[j].thread = t
      BY <2>8 DEF Owns
    <3>2. PICK j \in DOMAIN list : i <= j /\ list[i].thread = fork /\ list[j].thread = t
      BY <3>1
    <3>3. i \notin 1 .. n
      BY <2>3, <2>4, <3>2 DEF GoneOn, Lists
    <3>4. i \in 1 .. n + 1 /\ j \in 1 .. n + 1
      BY <2>4 DEF GoneOn
    <3>5. j = n + 1
      BY <3>2, <3>3, <3>4
    <3> QED  BY <2>3, <2>4, <2>5, <3>2, <3>5 DEF GoneOn
  <2>9. OwnApart'
    BY <2>3, <2>8, OwnApartPut DEF ApartInv
  <2>10. LostAlone'
    <3>1. \A c : Lost(c)' => Lost(c)
      BY <1>2, <1>3, StillDeleting
    <3>2. ~Lost(fork) /\ ~Lost(call.chat)
      BY <2>3, <2>6 DEF Lost
    <3> QED  BY <2>3, <2>7, <3>1, <3>2, LostAloneFork DEF ApartInv
  <2>11. ForksLive'
    <3>1. DOMAIN lineages' \subseteq DOMAIN lineages \cup {fork}
      BY <2>3 DEF Put
    <3> QED  BY <1>1, <1>2, <1>3, <3>1, ForksStay DEF ApartInv
  <2> QED  BY <2>9, <2>10, <2>11 DEF ApartInv
<1> QED  BY <1>4, <1>5

\* A chat that is taken out of the lineages.
LEMMA DropApart ==
  ASSUME ListedInv, ApartInv, NEW x \in Busy, NEW chat, chat = calls[x].chat, native' = native, provider' = provider,
         lineages' = Restrict(lineages, DOMAIN lineages \ {chat}),
         NEW next, calls' = [calls EXCEPT ![x] = next], ~Forks(next)
  PROVE ApartInv'
<1>1. DOMAIN lineages' = DOMAIN lineages \ {chat} /\ \A c \in DOMAIN lineages \ {chat} : lineages'[c] = lineages[c]
  BY DEF Restrict
<1>2. OwnApart'
  BY <1>1 DEF ApartInv, OwnApart
<1>3. ASSUME NEW c \in DOMAIN lineages', Deleting(c) PROVE Deleting(c)'
  <2>1. c # chat /\ \A y \in Calls \ {x} : calls'[y] = calls[y]
    BY <1>1 DEF ListedInv, CallsOK
  <2> QED  BY <1>3, <2>1 DEF Deleting
<1>4. LostAlone'
  BY <1>1, <1>3 DEF ApartInv, LostAlone, Lost, Alone, Shared
<1>5. ForksLive'
  BY <1>1, ForksStay DEF ApartInv
<1> QED  BY <1>2, <1>4, <1>5 DEF ApartInv

LEMMA DeleteLineageApart == ASSUME ListedInv, ApartInv, NEW x \in Calls, DeleteLineage(x) PROVE ApartInv'
<1>1. PICK chat : chat = calls[x].chat
  OBVIOUS
<1>2. /\ x \in Busy /\ lineages' = Restrict(lineages, DOMAIN lineages \ {chat}) /\ native' = native /\ provider' = provider
      /\ calls' = [calls EXCEPT ![x] = Idle]
  BY <1>1, DoingBusy DEF DeleteLineage, Ends
<1>3. ~Forks(Idle)
  BY DEF Forks
<1> QED  BY <1>1, <1>2, <1>3, DropApart

\* A rollback's list: its chat's segments up to the one it keeps to.
RevertedTo(call, chat, list) ==
  /\ lineages' = Put(lineages, chat, list)
  /\ chat \in DOMAIN lineages /\ call.segs = lineages[chat] /\ Len(call.segs) # 1
  /\ \E n \in Nat : /\ call.at = n + 1 /\ 1 .. n + 1 \subseteq DOMAIN call.segs
                    /\ GoneOn(list, call.segs, n, Segment(call.segs[n + 1].thread, None))

LEMMA RevertLineageIs ==
  ASSUME ListedInv, NEW x \in Calls, RevertLineage(x), NEW call, call = calls[x], NEW chat, chat = call.chat
  PROVE \/ lineages' = lineages /\ Len(call.segs) = 1
        \/ lineages' = Restrict(lineages, DOMAIN lineages \ {chat})
        \/ \E list : RevertedTo(call, chat, list)
<1>1. PICK thread : thread = call.segs[call.at].thread
  OBVIOUS
<1>2. PICK n : n = call.at - 1
  OBVIOUS
<1>3. PICK last : last = Segment(thread, None)
  OBVIOUS
<1>4. PICK list : list = GoingOn(call.segs, n, last)
  OBVIOUS
<1>5. x \in Busy /\ call # Idle /\ call.what = "revert" /\ call.step # "set"
  BY DoingBusy DEF RevertLineage, Doing
<1>6. \/ lineages' = lineages /\ Len(call.segs) = 1
      \/ lineages' = Restrict(lineages, DOMAIN lineages \ {chat})
      \/ Len(call.segs) # 1 /\ lineages' = Put(lineages, chat, list)
  BY <1>1, <1>2, <1>3, <1>4 DEF RevertLineage, Kept, GoingOn
<1>7. /\ CallOK(call) /\ call.segs \in Seq(Segments) /\ DOMAIN call.segs = 1 .. Len(call.segs) /\ Len(call.segs) \in Nat
      /\ call.segs = SegmentsOf(chat) /\ call.at \in 1 .. Len(call.segs) /\ n \in Nat /\ n \in 0 .. Len(call.segs)
      /\ n + 1 = call.at /\ thread \in DOMAIN provider
  <2>1. CallOK(call) /\ call.segs \in Seq(Segments) /\ DOMAIN call.segs = 1 .. Len(call.segs) /\ Len(call.segs) \in Nat
    BY <1>5, OfCall
  <2>2. call.segs = SegmentsOf(chat) /\ call.at \in DOMAIN call.segs
    BY <1>5, <2>1 DEF CallOK, AsTaken
  <2> QED  BY <1>1, <1>2, <2>1, <2>2 DEF CallOK, CallTyped
<1>8. CASE Len(call.segs) # 1 /\ lineages' = Put(lineages, chat, list)
  <2>1. chat \in DOMAIN lineages /\ call.segs = lineages[chat]
    <3>1. Len(<<Segment(chat, None)>>) = 1
      OBVIOUS
    <3> QED  BY <1>7, <1>8, <3>1 DEF SegmentsOf
  <2>2. last \in Segments
    <3>1. thread \in Threads
      BY <1>7 DEF ListedInv, ThreadsOK
    <3> QED  BY <1>3, <3>1 DEF Segments, Segment
  <2>3. GoneOn(list, call.segs, n, last)
    <3>1. Within(n, call.segs)
      BY <1>7 DEF Within
    <3> QED  BY <1>4, <1>7, <2>2, <3>1, ListGoesOn
  <2>4. 1 .. n + 1 \subseteq DOMAIN call.segs
    BY <1>7
  <2> QED  BY <1>1, <1>3, <1>7, <1>8, <2>1, <2>3, <2>4 DEF RevertedTo
<1> QED  BY <1>6, <1>8

LEMMA RevertLineageApart == ASSUME ListedInv, ApartInv, NEW x \in Calls, RevertLineage(x) PROVE ApartInv'
<1>1. PICK call : call = calls[x]
  OBVIOUS
<1>2. PICK chat : chat = call.chat
  OBVIOUS
<1>3. PICK next : next = IF call.at = Len(call.segs) THEN Idle ELSE Discarding(call, call.at)
  OBVIOUS
<1>4. x \in Busy /\ call # Idle /\ call.what = "revert" /\ native' = native /\ provider' = provider
  BY <1>1, DoingBusy DEF RevertLineage, Doing
<1>5. calls' = [calls EXCEPT ![x] = next]
  BY <1>1, <1>3 DEF RevertLineage, GoesOn, Ends, Discarding
<1>6. ~Deletes(calls[x]) /\ ~Forks(next) /\ (next = Idle \/ next.what = "revert")
  <2>1. call \in Requests(call.want)
    BY <1>1, <1>4, OfCall
  <2> QED  BY <1>1, <1>3, <1>4, <2>1 DEF Deletes, Forks, Requests, Discarding
<1>7. CASE lineages' = lineages
  BY <1>1, <1>4, <1>5, <1>6, <1>7, RevertQuiet
<1>8. CASE lineages' = Restrict(lineages, DOMAIN lineages \ {chat})
  BY <1>1, <1>2, <1>4, <1>5, <1>6, <1>8, DropApart
<1>9. ASSUME NEW list, RevertedTo(call, chat, list) PROVE ApartInv'
  <2>1. lineages' = Put(lineages, chat, list) /\ chat \in DOMAIN lineages /\ call.segs = lineages[chat]
    BY <1>9 DEF RevertedTo
  <2>2. PICK n \in Nat : /\ 1 .. n + 1 \subseteq DOMAIN call.segs
                         /\ GoneOn(list, call.segs, n, Segment(call.segs[n + 1].thread, None))
    BY <1>9 DEF RevertedTo
  <2>3. DOMAIN list = 1 .. n + 1 /\ \A i \in 1 .. n + 1 : i \in DOMAIN call.segs /\ list[i].thread = call.segs[i].thread
    <3>1. 1 .. n + 1 = (1 .. n) \cup {n + 1}
      OBVIOUS
    <3> QED  BY <2>2, <3>1 DEF GoneOn, Segment
  <2>4. \A t : Lists(list, t) => Lists(lineages[chat], t)
    BY <2>1, <2>3 DEF Lists
  <2>5. \A t : Owns(list, chat, t) => Owns(lineages[chat], chat, t)
    BY <2>1, <2>3 DEF Owns
  <2>6. OwnApart'
    BY <2>1, <2>5, OwnApartPut DEF ApartInv
  <2>7. LostAlone'
    <3>1. \A c : Lost(c)' => Lost(c)
      BY <1>4, <1>5, <1>6, StillDeleting DEF Busy
    <3>2. NewFor(chat, list)
      BY <2>1, <2>4 DEF NewFor
    <3> QED  BY <2>1, <3>1, <3>2, LostAlonePut DEF ApartInv
  <2>8. ForksLive'
    <3>1. DOMAIN lineages' \subseteq DOMAIN lineages \cup {chat}
      BY <2>1 DEF Put
    <3> QED  BY <1>1, <1>2, <1>4, <1>5, <1>6, <3>1, ForksStay DEF ApartInv
  <2> QED  BY <2>6, <2>7, <2>8 DEF ApartInv
<1>10. \/ lineages' = lineages \/ lineages' = Restrict(lineages, DOMAIN lineages \ {chat})
       \/ \E list : RevertedTo(call, chat, list)
  BY <1>1, <1>2, RevertLineageIs
<1> QED  BY <1>7, <1>8, <1>9, <1>10

\* A pruned lineage is a part of its chat's own, under another id only when the chat's own thread is gone.
LEMMA PrunedPart ==
  ASSUME ThreadsOK, ListsOK, NEW chat \in DOMAIN lineages, NEW done, NEW id, NEW segs, CameFrom(id, segs, chat, done)
  PROVE /\ \A t : Lists(segs, t) => Lists(lineages[chat], t)
        /\ id = chat => \A t : Owns(segs, chat, t) => Owns(lineages[chat], chat, t)
        /\ id # chat => /\ provider[chat] = "claude" /\ chat \notin DOMAIN native /\ ~Lists(segs, chat)
                        /\ provider[id] = "codex" \/ id \in DOMAIN native
<1>1. CASE chat \notin done
  BY <1>1 DEF CameFrom
<1>2. CASE chat \in done
  <2>1. PICK own : own = lineages[chat]
    OBVIOUS
  <2>2. segs = Existing(own) /\ id = ListedUnder(chat, segs) /\ (segs = own \/ Len(segs) > 1 \/ segs[1].thread # id)
    BY <1>2, <2>1 DEF CameFrom, PrunedAs
  <2>3. own \in Seq(Segments) /\ own # << >> /\ Lists(own, chat)
    BY <2>1 DEF ListsOK, LineageOK
  <2>4. InOrder(segs, own, Len(own)) /\ segs # << >>
    BY <2>2, <2>3, ExistingInOrder
  <2>5. segs \in Seq(Segments)
    BY <2>4 DEF InOrder
  <2>6. /\ DOMAIN segs = 1 .. Len(segs) /\ Len(segs) \in Nat \ {0}
        /\ DOMAIN own = 1 .. Len(own) /\ Len(own) \in Nat \ {0}
    BY <2>3, <2>4, <2>5
  <2>7. ASSUME NEW i \in DOMAIN segs, NEW j \in DOMAIN segs, i <= j
        PROVE \E a \in DOMAIN own : \E b \in DOMAIN own :
                segs[i] = own[a] /\ segs[j] = own[b] /\ a <= b /\ (i < j => a < b) /\ Stays(own, a)
    <3>1. i \in 1 .. Len(segs) /\ j \in 1 .. Len(segs)
      BY <2>6
    <3>2. \E a, b \in 1 .. Len(own) :
            segs[i] = own[a] /\ segs[j] = own[b] /\ a <= b /\ (i < j => a < b) /\ Stays(own, a)
      BY <2>4, <2>7, <3>1 DEF InOrder
    <3> QED  BY <2>6, <3>2
  <2>8. ASSUME NEW t, Lists(segs, t) PROVE Lists(own, t)
    <3>1. PICK i \in DOMAIN segs : segs[i].thread = t
      BY <2>8 DEF Lists
    <3>2. i <= i
      BY <2>6
    <3>3. PICK a \in DOMAIN own : segs[i] = own[a]
      BY <2>7, <3>2
    <3> QED  BY <3>1, <3>3 DEF Lists
  <2>9. ASSUME NEW t, Owns(segs, chat, t) PROVE Owns(own, chat, t)
    <3>1. PICK i \in DOMAIN segs : \E j \in DOMAIN segs : i <= j /\ segs[i].thread = chat /\ segs[j].thread = t
      BY <2>9 DEF Owns
    <3>2. PICK j \in DOMAIN segs : i <= j /\ segs[i].thread = chat /\ segs[j].thread = t
      BY <3>1
    <3> QED  BY <2>7, <3>2 DEF Owns
  <2>10. ASSUME id # chat PROVE /\ provider[chat] = "claude" /\ chat \notin DOMAIN native /\ ~Lists(segs, chat)
                                /\ provider[id] = "codex" \/ id \in DOMAIN native
    <3>1. ~Lists(segs, chat) /\ id = segs[1].thread
      BY <2>2, <2>10 DEF ListedUnder
    <3>2. PICK a \in DOMAIN own : own[a].thread = chat
      BY <2>3 DEF Lists
    <3>3. ~Stays(own, a)
      <4>1. SUFFICES ASSUME Stays(own, a) PROVE FALSE
        OBVIOUS
      <4>2. PICK i \in 1 .. Len(segs) : segs[i] = own[a]
        BY <2>4, <2>6, <4>1 DEF InOrder
      <4> QED  BY <2>6, <3>1, <3>2, <4>2 DEF Lists
    <3>4. provider[chat] \in Providers
      BY DEF ListsOK, ThreadsOK
    <3>5. provider[chat] = "claude" /\ chat \notin DOMAIN native
      BY <3>2, <3>3, <3>4 DEF Stays, Providers
    <3>6. segs # own
      BY <2>3, <3>1
    <3>7. Len(segs) > 1
      BY <2>2, <3>1, <3>6
    <3>8. 1 \in DOMAIN segs /\ 2 \in DOMAIN segs
      BY <2>6, <3>7
    <3>9. PICK b \in DOMAIN own : \E c \in DOMAIN own : segs[1] = own[b] /\ b < c /\ Stays(own, b)
      BY <2>7, <3>8
    <3>10. b # Len(own)
      BY <2>6, <3>9
    <3> QED  BY <3>1, <3>5, <3>9, <3>10 DEF Stays
  <2> QED  BY <2>1, <2>8, <2>9, <2>10
<1> QED  BY <1>1, <1>2

\* One lineage is listed under one id.
LEMMA PrunedOnce ==
  ASSUME NEW chat, NEW done, NEW id, NEW segs, CameFrom(id, segs, chat, done), NEW other, NEW list,
         CameFrom(other, list, chat, done)
  PROVE id = other
BY DEF CameFrom, PrunedAs

LEMMA RestartApart == ASSUME ListedInv, ApartInv, "TornCrashes" \notin Allow, Restart PROVE ApartInv'
<1>1. PICK order \in SetToSeqs(DOMAIN lineages) : lineages' = Pruned(order)
  BY DEF Restart
<1>2. PICK done \in SUBSET DOMAIN lineages : PrunedFrom(lineages', done)
  BY <1>1, PrunedIsFrom DEF ListedInv
<1>3. provider' = provider /\ native' = native /\ calls' = [x \in Calls |-> Idle]
  BY DEF Restart
<1>4. ASSUME NEW c \in DOMAIN lineages, provider[c] = "claude", c \notin DOMAIN native PROVE Alone(c)
  <2>1. ASSUME NEW x \in Calls, Deletes(calls[x]) PROVE FALSE
    BY <2>1 DEF Restart, Halfway, Deletes, Busy
  <2> QED  BY <1>4, <2>1 DEF ApartInv, LostAlone, Lost, Deleting
<1>5. ASSUME NEW e \in DOMAIN lineages', NEW segs, segs = lineages'[e]
      PROVE \E c \in DOMAIN lineages : CameFrom(e, segs, c, done)
  BY <1>2, <1>5 DEF PrunedFrom
<1>6. ASSUME NEW e, NEW f, NEW segs, NEW list, NEW c \in DOMAIN lineages, NEW d \in DOMAIN lineages, e # f,
             CameFrom(e, segs, c, done), CameFrom(f, list, d, done), NEW t, Lists(segs, t), Lists(list, t)
      PROVE Lists(lineages[c], t) /\ Shared(c, t) /\ Lists(lineages[d], t) /\ Shared(d, t) /\ c # d
  <2>1. c # d
    BY <1>6, PrunedOnce
  <2>2. Lists(lineages[c], t) /\ Lists(lineages[d], t)
    BY <1>6, PrunedPart DEF ListedInv
  <2> QED  BY <2>1, <2>2 DEF Shared
<1>7. ASSUME NEW e, NEW segs, NEW c \in DOMAIN lineages, CameFrom(e, segs, c, done), e # c, NEW t, Lists(segs, t), Shared(c, t)
      PROVE FALSE
  <2>1. provider[c] = "claude" /\ c \notin DOMAIN native /\ ~Lists(segs, c) /\ Lists(lineages[c], t)
    BY <1>7, PrunedPart DEF ListedInv
  <2> QED  BY <1>4, <1>7, <2>1 DEF Alone
<1>8. ASSUME NEW e \in DOMAIN lineages', NEW f \in DOMAIN lineages', e # f, NEW segs, segs = lineages'[e],
             NEW list, list = lineages'[f], NEW t, Owns(segs, e, t), Owns(list, f, t)
      PROVE FALSE
  <2>1. PICK c \in DOMAIN lineages : CameFrom(e, segs, c, done)
    BY <1>5, <1>8
  <2>2. PICK d \in DOMAIN lineages : CameFrom(f, list, d, done)
    BY <1>5, <1>8
  <2>3. Lists(segs, t) /\ Lists(list, t)
    BY <1>8, OwnedListed
  <2>4. Shared(c, t) /\ Shared(d, t) /\ c # d
    BY <1>6, <1>8, <2>1, <2>2, <2>3
  <2>5. e = c /\ f = d
    BY <1>7, <2>1, <2>2, <2>3, <2>4
  <2>6. Owns(lineages[c], c, t) /\ Owns(lineages[d], d, t)
    BY <1>8, <2>1, <2>2, <2>5, PrunedPart DEF ListedInv
  <2> QED  BY <2>4, <2>6 DEF ApartInv, OwnApart
<1>9. OwnApart'
  BY <1>8 DEF OwnApart
<1>10. ASSUME NEW e \in DOMAIN lineages', provider[e] = "claude", e \notin DOMAIN native, NEW segs, segs = lineages'[e],
              NEW t, Lists(segs, t), t # e, NEW f \in DOMAIN lineages', e # f, NEW list, list = lineages'[f], Lists(list, t)
       PROVE FALSE
  <2>1. PICK c \in DOMAIN lineages : CameFrom(e, segs, c, done)
    BY <1>5, <1>10
  <2>2. PICK d \in DOMAIN lineages : CameFrom(f, list, d, done)
    BY <1>5, <1>10
  <2>3. e = c
    BY <1>10, <2>1, PrunedPart DEF ListedInv
  <2>4. Lists(lineages[c], t) /\ Shared(c, t)
    BY <1>6, <1>10, <2>1, <2>2
  <2> QED  BY <1>4, <1>10, <2>3, <2>4 DEF Alone
<1>11. LostAlone'
  BY <1>3, <1>10 DEF LostAlone, Lost, Alone, Shared
<1>12. ForksLive'
  BY <1>3 DEF ForksLive, Forks
<1> QED  BY <1>9, <1>11, <1>12 DEF ApartInv

LEMMA ApartKeeps ==
  ASSUME "Collisions" \notin Allow, "LateFailures" \notin Allow, "TornCrashes" \notin Allow, ListedInv, ApartInv, [Next]_vars
  PROVE ApartInv'
<1>1. CASE Users
  <2>1. PICK chat \in Threads :
          \/ \E p \in Providers : Begin(chat, p)
          \/ StartTurn(chat)
          \/ \E x \in Calls :
               \/ \E noop \in BOOLEAN : AskSwitch(x, chat, noop)
               \/ AskWholeFork(x, chat)
               \/ \E i \in DOMAIN SegmentsOf(chat), k \in 0 .. MaxTurn :
                    AskRevert(x, chat, i, k) \/ \E before \in BOOLEAN : AskFork(x, chat, i, k, before)
               \/ AskDelete(x, chat)
    BY <1>1 DEF Users
  <2> QED  BY <2>1, BeginApart, StartTurnApart, AskSwitchApart, AskForkApart, AskDeleteApart
<1>2. CASE Gateway
  <2>1. PICK x \in Calls :
          \/ \E t \in Threads : CreateBackend(x, t) \/ CopyThread(x, t)
          \/ SetLineage(x) \/ StartSwitched(x) \/ FailSwitch(x)
          \/ ListFork(x)
          \/ RevertThread(x) \/ RevertLineage(x) \/ Discard(x)
          \/ DeleteOnly(x) \/ DeleteSegment(x) \/ DeleteLineage(x)
          \/ Refuse(x)
    BY <1>2 DEF Gateway
  <2> QED  BY <2>1, CreateBackendApart, CopyThreadApart, SetLineageApart, StartSwitchedApart, FailSwitchApart,
              ListForkApart, RevertThreadApart, RevertLineageApart, DiscardApart, DeleteOnlyApart, DeleteSegmentApart,
              DeleteLineageApart, RefuseApart
<1>3. CASE \E thread \in Threads : CleanUp(thread)
  BY <1>3, CleanUpApart
<1>4. CASE Restart
  BY <1>4, RestartApart
<1>5. CASE UNCHANGED vars
  <2>1. UNCHANGED <<provider, native, lineages, calls>>
    BY <1>5 DEF vars
  <2> QED  BY <2>1, ApartSame
<1> QED  BY <1>1, <1>2, <1>3, <1>4, <1>5 DEF Next

\* As long as a chat's requests wait for one another, nothing that others list is rolled back or deleted natively, no
\* switch fails once its lineage is set, no crash cuts a rollback or a deletion in two, and Claude cleans up no thread
\* of a chat that shares others: a thread of a chat's own is no other chat's own, so the id of a backend reads as one
\* chat (Meta.rewrites).
THEOREM ChatsKeepApart ==
  ASSUME "Overlap" \notin Allow, "SharedEdits" \notin Allow, "Collisions" \notin Allow, "LateFailures" \notin Allow,
         "TornCrashes" \notin Allow
  PROVE Spec => []OneChatEach
<1>1. Init => ListedInv /\ ApartInv
  BY ListedStarts DEF Init, ApartInv, OwnApart, LostAlone, ForksLive, Forks
<1>2. ListedInv /\ ApartInv /\ [Next]_vars => (ListedInv /\ ApartInv)'
  BY ListedStepKeeps, ApartKeeps
<1>3. ListedInv /\ ApartInv => OneChatEach
  <2> SUFFICES ASSUME ListedInv, ApartInv, NEW chat \in DOMAIN lineages, NEW other \in DOMAIN lineages, chat # other,
                      NEW t, t = Last(lineages[chat]).thread, t \in {other, Last(lineages[other]).thread}
               PROVE FALSE
    BY DEF OneChatEach
  <2>1. ASSUME NEW c \in DOMAIN lineages, NEW segs, segs = lineages[c]
        PROVE Owns(segs, c, c) /\ Owns(segs, c, Last(segs).thread)
    <3>1. segs \in Seq(Segments) /\ segs # << >> /\ Lists(segs, c)
      BY <2>1 DEF ListedInv, ListsOK, LineageOK
    <3>2. PICK i \in DOMAIN segs : segs[i].thread = c
      BY <3>1 DEF Lists
    <3>3. i <= i /\ i <= Len(segs) /\ Len(segs) \in DOMAIN segs /\ Last(segs) = segs[Len(segs)]
      BY <3>1 DEF Last
    <3> QED  BY <3>2, <3>3 DEF Owns
  <2> QED  BY <2>1 DEF ApartInv, OwnApart
<1> QED  BY <1>1, <1>2, <1>3, PTL DEF Spec

-----------------------------------------------------------------------------
(* What lineages list holds *)

There(thread) == thread \in cleaned \cup DOMAIN native
Counts(segment) ==
  \/ segment.thread \in cleaned
  \/ segment.thread \in DOMAIN native /\ segment.last \in Range(native[segment.thread]) \cup {None}

\* A rollback of the chat's i-th segment is between its thread and the lineage.
RollsIn(call, chat, i) ==
  call # Idle /\ call.what = "revert" /\ call.step = "ready" /\ call.chat = chat /\ call.at = i
Rolling(chat, i) == \E x \in Calls : RollsIn(calls[x], chat, i)

Distinct(segs) == \A i \in DOMAIN segs : \A j \in DOMAIN segs : segs[i].thread = segs[j].thread => i = j
SegmentsCount ==
  \A chat \in DOMAIN lineages :
    /\ Distinct(lineages[chat])
    /\ Len(lineages[chat]) > 1 /\ ~Deleting(chat) =>
         \A i \in DOMAIN lineages[chat] :
           There(lineages[chat][i].thread) /\ (Counts(lineages[chat][i]) \/ Rolling(chat, i))

\* A switch leaves a segment that counts.
Switches(call) == call # Idle /\ call.what = "switch" /\ call.step # "set"
SourceCounts(call) == Switches(call) => Counts(call.segs[Len(call.segs)])

\* A thread that its provider deletes alone is no one else's.
DeletedAlone(call) == call # Idle /\ call.what = "delete" /\ Len(call.segs) = 1 => ~Shared(call.chat, call.chat)

\* The backends that a rollback is still to discard are no chats that switch.
Dropped(call) ==
  IF call # Idle /\ call.what = "revert" /\ call.step = "set"
  THEN {call.segs[i].thread : i \in call.at + 1 .. Len(call.segs)} ELSE {}
DroppedApart ==
  \A x \in Calls : \A y \in Calls :
    Switches(calls[y]) /\ calls[y].chat \notin DOMAIN lineages => calls[y].chat \notin Dropped(calls[x])

CallsHold == \A x \in Calls : SourceCounts(calls[x]) /\ DeletedAlone(calls[x])
HoldInv == SegmentsCount /\ CallsHold /\ DroppedApart

-----------------------------------------------------------------------------
(* Steps that leave the lineages *)

ThreadKept(t) ==
  /\ t \in cleaned => t \in cleaned'
  /\ t \in DOMAIN native => t \in cleaned' \/ (t \in DOMAIN native' /\ Range(native[t]) \subseteq Range(native'[t]))

\* What a thread loses is missed by no other switch, and by a chat only if that is deleted,
Missed(x, t) == \E y \in Calls \ {x} : Switches(calls[y]) /\ Lists(SegmentsOf(calls[y].chat), t)
Parted(x, t) ==
  /\ ~Missed(x, t)
  /\ \A c \in DOMAIN lineages : Lists(lineages[c], t) /\ Len(lineages[c]) > 1 => Deleting(c)'
\* or is being rolled back itself.
RolledBack(x, t) ==
  /\ ~Missed(x, t) /\ (There(t) => There(t)')
  /\ \A c \in DOMAIN lineages : \A i \in DOMAIN lineages[c] : lineages[c][i].thread = t => Rolling(c, i)'

\* Deletions and rollbacks go on.
GoesOnWith ==
  \A c \in DOMAIN lineages :
    Len(lineages[c]) > 1 => (Deleting(c) => Deleting(c)') /\ \A i : Rolling(c, i) => Rolling(c, i)'

LEMMA CountsKept ==
  ASSUME NEW segment, ThreadKept(segment.thread)
  PROVE (Counts(segment) => Counts(segment)') /\ (There(segment.thread) => There(segment.thread)')
BY DEF ThreadKept, Counts, There

LEMMA SegmentsStay ==
  ASSUME ListedInv, SegmentsCount, lineages' = lineages, GoesOnWith, NEW x,
         \A t : ThreadKept(t) \/ Parted(x, t) \/ RolledBack(x, t)
  PROVE SegmentsCount'
<1> SUFFICES ASSUME NEW c \in DOMAIN lineages, Len(lineages[c]) > 1, ~Deleting(c)', NEW i \in DOMAIN lineages[c],
                    NEW segment, segment = lineages[c][i]
             PROVE There(segment.thread)' /\ (Counts(segment)' \/ Rolling(c, i)')
  BY DEF SegmentsCount
<1>1. ~Deleting(c) /\ There(segment.thread) /\ (Counts(segment) \/ Rolling(c, i))
  BY DEF SegmentsCount, GoesOnWith
<1>2. Rolling(c, i) => Rolling(c, i)'
  BY DEF GoesOnWith
<1>3. CASE ThreadKept(segment.thread)
  BY <1>1, <1>2, <1>3, CountsKept
<1>4. CASE Parted(x, segment.thread)
  BY <1>4 DEF Parted, Lists
<1>5. CASE RolledBack(x, segment.thread)
  BY <1>1, <1>5 DEF RolledBack
<1> QED  BY <1>3, <1>4, <1>5

\* A switch leaves a segment of its chat.
LEMMA SourceListed ==
  ASSUME ListedInv, NEW y \in Calls, Switches(calls[y]), NEW call, call = calls[y]
  PROVE Lists(SegmentsOf(call.chat), call.segs[Len(call.segs)].thread) /\ y \in Busy
<1>1. y \in Busy /\ call.what = "switch" /\ call.step # "set"
  BY DEF Busy, Switches
<1>2. CallOK(call) /\ call.chat \in DOMAIN provider
  BY <1>1, OfCall DEF CallOK, CallTyped
<1>3. SameButLast(call.segs, SegmentsOf(call.chat))
  BY <1>1, <1>2 DEF CallOK, AsTaken
<1>4. PICK own : own = SegmentsOf(call.chat)
  OBVIOUS
<1>5. Len(own) \in Nat \ {0} /\ DOMAIN own = 1 .. Len(own)
  BY <1>2, <1>4, OwnSegments DEF ListedInv
<1> QED  BY <1>1, <1>3, <1>4, <1>5 DEF SameButLast, Lists

LEMMA OthersHold ==
  ASSUME ListedInv, CallsHold, lineages' = lineages, NEW x,
         \A t : Missed(x, t) => ThreadKept(t), NEW y \in Calls \ {x}, NEW call, call = calls[y]
  PROVE SourceCounts(call)' /\ DeletedAlone(call)'
<1>1. SourceCounts(call) /\ DeletedAlone(call)
  BY DEF CallsHold
<1>2. DeletedAlone(call)'
  BY <1>1 DEF DeletedAlone, Shared
<1>3. ASSUME Switches(call) PROVE Counts(call.segs[Len(call.segs)])'
  <2>1. PICK segment : segment = call.segs[Len(call.segs)]
    OBVIOUS
  <2>2. Missed(x, segment.thread)
    BY <1>3, <2>1, SourceListed DEF Missed
  <2> QED  BY <1>1, <1>3, <2>1, <2>2, CountsKept DEF SourceCounts
<1> QED  BY <1>2, <1>3 DEF SourceCounts, Switches

\* A chat that switches is no backend that a rollback discards.
SourceApart(x, next) ==
  Switches(next) /\ next.chat \notin DOMAIN lineages => \A y \in Calls \ {x} : next.chat \notin Dropped(calls[y])

LEMMA DroppedStay ==
  ASSUME ListedInv, DroppedApart, DOMAIN lineages \subseteq DOMAIN lineages', NEW x \in Calls, NEW next,
         calls' = [calls EXCEPT ![x] = next], Dropped(next) \subseteq Dropped(calls[x]), SourceApart(x, next)
  PROVE DroppedApart'
<1>1. calls'[x] = next /\ \A y \in Calls \ {x} : calls'[y] = calls[y]
  BY DEF ListedInv, CallsOK
<1> SUFFICES ASSUME NEW y \in Calls, NEW z \in Calls, Switches(calls'[z]), calls'[z].chat \notin DOMAIN lineages',
                    calls'[z].chat \in Dropped(calls'[y])
             PROVE FALSE
  BY DEF DroppedApart
<1>2. CASE z # x
  <2>1. calls[z].chat \in Dropped(calls[y])
    BY <1>1, <1>2
  <2> QED  BY <1>1, <1>2, <2>1 DEF DroppedApart
<1>3. CASE z = x /\ y # x
  BY <1>1, <1>3 DEF SourceApart
<1>4. CASE z = x /\ y = x
  BY <1>1, <1>4 DEF Switches, Dropped
<1> QED  BY <1>2, <1>3, <1>4

LEMMA HoldStays ==
  ASSUME ListedInv, HoldInv, lineages' = lineages, GoesOnWith, NEW x \in Calls, NEW next,
         calls' = [calls EXCEPT ![x] = next], \A t : ThreadKept(t) \/ Parted(x, t) \/ RolledBack(x, t),
         SourceCounts(next)', DeletedAlone(next), Dropped(next) \subseteq Dropped(calls[x]), SourceApart(x, next)
  PROVE HoldInv'
<1>1. calls'[x] = next /\ \A y \in Calls \ {x} : calls'[y] = calls[y]
  BY DEF ListedInv, CallsOK
<1>2. SegmentsCount'
  BY SegmentsStay DEF HoldInv
<1>3. DroppedApart'
  BY DroppedStay DEF HoldInv
<1>4. DeletedAlone(next)'
  BY DEF DeletedAlone, Shared
<1>5. \A t : Missed(x, t) => ThreadKept(t)
  BY DEF Parted, RolledBack
<1>6. ASSUME NEW y \in Calls PROVE SourceCounts(calls[y])' /\ DeletedAlone(calls[y])'
  <2>1. CASE y = x
    BY <1>1, <1>4, <2>1 DEF SourceCounts, Switches, Counts, DeletedAlone, Shared
  <2>2. CASE y # x
    <3>1. PICK call : call = calls[y]
      OBVIOUS
    <3>2. SourceCounts(call)' /\ DeletedAlone(call)'
      BY <1>5, <2>2, <3>1, OthersHold DEF HoldInv
    <3> QED  BY <1>1, <2>2, <3>1, <3>2 DEF SourceCounts, Switches, Counts, DeletedAlone, Shared
  <2> QED  BY <2>1, <2>2
<1>7. CallsHold'
  BY <1>6 DEF CallsHold
<1> QED  BY <1>2, <1>3, <1>7 DEF HoldInv

LEMMA HoldSame ==
  ASSUME ListedInv, HoldInv, lineages' = lineages, calls' = calls, \A t : ThreadKept(t)
  PROVE HoldInv'
<1>1. GoesOnWith
  BY DEF GoesOnWith, Deleting, Rolling
<1>2. SegmentsCount'
  BY <1>1, SegmentsStay DEF HoldInv
<1>3. DroppedApart'
  BY DEF HoldInv, DroppedApart
<1>4. ASSUME NEW y \in Calls PROVE SourceCounts(calls[y])' /\ DeletedAlone(calls[y])'
  <2>1. PICK call : call = calls[y]
    OBVIOUS
  <2>2. SourceCounts(call) /\ DeletedAlone(call)
    BY <2>1 DEF HoldInv, CallsHold
  <2>3. Switches(call) => Counts(call.segs[Len(call.segs)])'
    BY <2>2, CountsKept DEF SourceCounts
  <2> QED  BY <2>1, <2>2, <2>3 DEF SourceCounts, DeletedAlone, Shared, Switches, Counts
<1>5. CallsHold'
  BY <1>4 DEF CallsHold
<1> QED  BY <1>2, <1>3, <1>5 DEF HoldInv

\* Threads are made, or said in.
LEMMA MadeKept ==
  ASSUME NEW t, NEW all, t \notin DOMAIN native, native' = Put(native, t, all), cleaned' = cleaned
  PROVE \A other : ThreadKept(other)
BY DEF ThreadKept, Put

LEMMA SaidKept ==
  ASSUME ThreadsOK, NEW t, NEW turn, Say(t, turn), cleaned' = cleaned
  PROVE \A other : ThreadKept(other)
<1> SUFFICES ASSUME NEW other \in DOMAIN native PROVE other \in DOMAIN native' /\ Range(native[other]) \subseteq Range(native'[other])
  BY DEF ThreadKept
<1>1. DOMAIN native' = DOMAIN native
  BY SaidThere
<1>2. CASE other # t
  BY <1>1, <1>2 DEF Say
<1>3. CASE other = t
  <2>1. PICK said : said = native[other]
    OBVIOUS
  <2>2. said \in Seq(1 .. turns)
    BY <2>1 DEF ThreadsOK
  <2>3. native'[other] = Append(said, turn)
    BY <1>3, <2>1 DEF Say
  <2>4. PICK longer : longer = Append(said, turn)
    OBVIOUS
  <2>5. DOMAIN said \subseteq DOMAIN longer /\ \A k \in DOMAIN said : longer[k] = said[k]
    BY <2>2, <2>4
  <2> QED  BY <1>1, <2>1, <2>3, <2>4, <2>5 DEF Range
<1> QED  BY <1>2, <1>3

LEMMA SameKept == ASSUME native' = native, cleaned' = cleaned PROVE \A t : ThreadKept(t)
BY DEF ThreadKept

LEMMA BeginHolds == ASSUME ListedInv, HoldInv, NEW chat \in Threads, NEW p \in Providers, Begin(chat, p) PROVE HoldInv'
<1>1. chat \notin DOMAIN native
  BY DEF Begin, Fresh, ListedInv, ThreadsOK
<1>2. \A t : ThreadKept(t)
  BY <1>1, MadeKept DEF Begin
<1> QED  BY <1>2, HoldSame DEF Begin

LEMMA StartTurnHolds == ASSUME ListedInv, HoldInv, NEW chat \in Threads, StartTurn(chat) PROVE HoldInv'
<1>1. \A t : ThreadKept(t)
  BY SaidKept DEF StartTurn, ListedInv
<1> QED  BY <1>1, HoldSame DEF StartTurn

LEMMA CleanUpHolds == ASSUME ListedInv, HoldInv, NEW thread \in Threads, CleanUp(thread) PROVE HoldInv'
<1>1. \A t : ThreadKept(t)
  BY DEF CleanUp, ThreadKept, Restrict
<1> QED  BY <1>1, HoldSame DEF CleanUp

\* A request that deletes nothing yet, and is not in the middle of a rollback.
Early(call) == ~Deletes(call) /\ ~(call # Idle /\ call.what = "revert" /\ call.step = "ready")

LEMMA EarlyGoesOn ==
  ASSUME ListedInv, NEW x \in Calls, NEW next, calls' = [calls EXCEPT ![x] = next], Early(calls[x])
  PROVE GoesOnWith
<1>1. \A y \in Calls \ {x} : calls'[y] = calls[y]
  BY DEF ListedInv, CallsOK
<1>2. ASSUME NEW c, Deleting(c) PROVE Deleting(c)'
  BY <1>1, <1>2 DEF Deleting, Early
<1>3. ASSUME NEW c, NEW i, Rolling(c, i) PROVE Rolling(c, i)'
  BY <1>1, <1>3 DEF Rolling, RollsIn, Early
<1> QED  BY <1>2, <1>3 DEF GoesOnWith

\* A request that goes on, or ends, while threads stay.
LEMMA HoldKept ==
  ASSUME ListedInv, HoldInv, lineages' = lineages, NEW x \in Calls, NEW next, calls' = [calls EXCEPT ![x] = next],
         Early(calls[x]), \A t : ThreadKept(t),
         SourceCounts(next)', DeletedAlone(next), Dropped(next) \subseteq Dropped(calls[x]), SourceApart(x, next)
  PROVE HoldInv'
BY EarlyGoesOn, HoldStays

\* A request that is no switch, no deletion of one segment, and has nothing more to discard.
LEMMA PlainNext ==
  ASSUME NEW x, NEW next, next = Idle \/ (next.what # "switch" /\ (next.what = "delete" => Len(next.segs) # 1)
                                          /\ (next.what = "revert" => next.step # "set"))
  PROVE SourceCounts(next)' /\ DeletedAlone(next) /\ Dropped(next) \subseteq Dropped(calls[x]) /\ SourceApart(x, next)
BY DEF SourceCounts, DeletedAlone, Dropped, SourceApart, Switches

LEMMA AskForkHolds ==
  ASSUME ListedInv, HoldInv, NEW x \in Calls, NEW chat, NEW at, NEW count, NEW drop, NEW what \in {"fork", "revert"},
         TakeUpTo(x, what, chat, at, count, drop), lineages' = lineages, native' = native, cleaned' = cleaned
  PROVE HoldInv'
<1>1. PICK next : next = [what |-> what, chat |-> chat, segs |-> SegmentsOf(chat), step |-> "asked",
                          at |-> at, count |-> count, drop |-> drop, made |-> {},
                          want |-> SaidUpTo(SegmentsOf(chat), at, count)]
  OBVIOUS
<1>2. calls[x] = Idle /\ calls' = [calls EXCEPT ![x] = next]
  BY <1>1 DEF TakeUpTo
<1>3. next.what \in {"fork", "revert"} /\ next.step = "asked"
  BY <1>1
<1>4. Early(calls[x])
  BY <1>2 DEF Early, Deletes
<1>5. SourceCounts(next)' /\ DeletedAlone(next) /\ Dropped(next) \subseteq Dropped(calls[x]) /\ SourceApart(x, next)
  BY <1>3, PlainNext
<1> QED  BY <1>2, <1>4, <1>5, SameKept, HoldKept

LEMMA AskDeleteHolds ==
  ASSUME "SharedEdits" \notin Allow, ListedInv, HoldInv, NEW x \in Calls, NEW chat \in Threads, AskDelete(x, chat)
  PROVE HoldInv'
<1>1. PICK segs : segs = SegmentsOf(chat)
  OBVIOUS
<1>2. PICK next : next = [what |-> "delete", chat |-> chat, segs |-> segs, step |-> "asked",
                          at |-> 0, count |-> 0, drop |-> FALSE, made |-> {}, want |-> 0]
  OBVIOUS
<1>3. calls[x] = Idle /\ calls' = [calls EXCEPT ![x] = next]
  BY <1>1, <1>2 DEF AskDelete, Take
<1>4. DeletedAlone(next)
  <2>1. Len(segs) > 1 \/ ~Shared(chat, chat)
    BY <1>1 DEF AskDelete
  <2>2. ~(1 > 1)
    OBVIOUS
  <2>3. next.segs = segs /\ next.chat = chat
    BY <1>2
  <2> QED  BY <2>1, <2>2, <2>3 DEF DeletedAlone
<1>5. SourceCounts(next)' /\ Dropped(next) \subseteq Dropped(calls[x]) /\ SourceApart(x, next)
  BY <1>2 DEF SourceCounts, Dropped, SourceApart, Switches
<1>6. Early(calls[x])
  BY <1>3 DEF Early, Deletes
<1>7. \A t : ThreadKept(t)
  BY SameKept DEF AskDelete
<1> QED  BY <1>3, <1>4, <1>5, <1>6, <1>7, HoldKept DEF AskDelete

LEMMA RefuseHolds == ASSUME ListedInv, HoldInv, NEW x \in Calls, Refuse(x) PROVE HoldInv'
<1>1. Early(calls[x])
  BY DEF Refuse, Doing, Early, Deletes
<1>2. calls' = [calls EXCEPT ![x] = Idle]
  BY DEF Refuse, Ends
<1>3. \A t : ThreadKept(t)
  BY SameKept DEF Refuse
<1> QED  BY <1>1, <1>2, <1>3, PlainNext, HoldKept DEF Refuse

LEMMA StartSwitchedHolds == ASSUME ListedInv, HoldInv, NEW x \in Calls, StartSwitched(x) PROVE HoldInv'
<1>1. Early(calls[x])
  BY DEF StartSwitched, Doing, Early, Deletes
<1>2. calls' = [calls EXCEPT ![x] = Idle]
  BY DEF StartSwitched, Ends
<1>3. \A t : ThreadKept(t)
  BY SaidKept DEF StartSwitched, ListedInv
<1> QED  BY <1>1, <1>2, <1>3, PlainNext, HoldKept DEF StartSwitched

LEMMA CopyThreadHolds == ASSUME ListedInv, HoldInv, NEW x \in Calls, NEW fork \in Threads, CopyThread(x, fork) PROVE HoldInv'
<1>1. PICK call : call = calls[x]
  OBVIOUS
<1>2. PICK next : next = [call EXCEPT !.step = "ready", !.made = {fork}]
  OBVIOUS
<1>3. calls' = [calls EXCEPT ![x] = next]
  BY <1>1, <1>2 DEF CopyThread
<1>4. call # Idle /\ call.what = "fork" /\ next.what = "fork"
  <2>1. call # Idle /\ call.what = "fork" /\ x \in Busy
    BY <1>1, DoingBusy DEF CopyThread, Doing
  <2>2. call \in Requests(call.want)
    BY <1>1, <2>1, OfCall
  <2> QED  BY <1>2, <2>1, <2>2 DEF Requests
<1>5. Early(calls[x])
  BY <1>1, <1>4 DEF Early, Deletes
<1>6. fork \notin DOMAIN native
  BY DEF CopyThread, Fresh, ListedInv, ThreadsOK
<1>7. \A t : ThreadKept(t)
  BY <1>6, MadeKept DEF CopyThread
<1>8. SourceCounts(next)' /\ DeletedAlone(next) /\ Dropped(next) \subseteq Dropped(calls[x]) /\ SourceApart(x, next)
  BY <1>4, PlainNext
<1> QED  BY <1>3, <1>5, <1>7, <1>8, HoldKept DEF CopyThread

LEMMA EndsAt ==
  ASSUME NEW segs, NEW thread, EndsIn(segs, thread), NEW turn \in Turns \cup {None}, NEW next, next = Ended(segs, thread, turn)
  PROVE next[Len(next)] = Segment(thread, turn)
<1>1. PICK front : front = Front(segs)
  OBVIOUS
<1>2. front \in Seq(Segments)
  BY <1>1, FrontIs DEF EndsIn
<1>3. PICK last : last = Segment(thread, turn)
  OBVIOUS
<1>4. next = Append(front, last)
  BY <1>1, <1>3 DEF Ended
<1>5. last \in Segments
  <2>1. segs \in Seq(Segments) /\ segs # << >> /\ thread = segs[Len(segs)].thread
    BY DEF EndsIn
  <2>2. segs[Len(segs)] \in Segments
    BY <2>1
  <2>3. thread \in Threads
    BY <2>1, <2>2 DEF Segments
  <2> QED  BY <1>3, <2>3 DEF Segment, Segments
<1> QED  BY <1>2, <1>3, <1>4, <1>5

\* A turn that is in a thread counts there.
LEMMA TurnCounts ==
  ASSUME NEW thread, NEW turn, NEW segment, segment = Segment(thread, turn), thread \in DOMAIN native',
         turn \in Range(native'[thread]) \cup {None}
  PROVE Counts(segment)'
BY DEF Segment, Counts

LEMMA LastIn == ASSUME NEW m, NEW s \in Seq(1 .. m), s # << >> PROVE Last(s) \in Range(s)
BY DEF Last, Range

LEMMA AskSwitchHolds ==
  ASSUME ListedInv, HoldInv, NEW x \in Calls, NEW chat \in Threads, NEW noop \in BOOLEAN, AskSwitch(x, chat, noop)
  PROVE HoldInv'
<1>1. PICK own : own = SegmentsOf(chat)
  OBVIOUS
<1>2. PICK current : current = Current(chat)
  OBVIOUS
<1>3. /\ Open(chat) /\ current \in DOMAIN native /\ EndsIn(own, current) /\ own[Len(own)].last = None
      /\ native[current] \in Seq(1 .. turns) /\ turns \in 0 .. MaxTurn
  BY <1>1, <1>2, OpenKnown, OwnSegments DEF AskSwitch, ListedInv, EndsIn, Current, Last, ThreadsOK
<1>4. \E segs : Take(x, "switch", chat, segs) /\ Counts(segs[Len(segs)])'
  <2>1. CASE provider[current] = "claude"
    <3>1. PICK turn : turn = IF noop THEN Last(native[current]) ELSE NextTurn
      OBVIOUS
    <3>2. PICK segs : segs = Ended(own, current, turn)
      OBVIOUS
    <3>3. /\ Speak /\ Say(current, NextTurn) /\ (noop => native[current] # << >>) /\ cleaned' = cleaned
          /\ Take(x, "switch", chat, segs)
      BY <1>1, <1>2, <2>1, <3>1, <3>2 DEF AskSwitch, Ended
    <3>4. \A t : ThreadKept(t)
      BY <3>3, SaidKept DEF ListedInv
    <3>5. NextTurn \in Turns /\ NextTurn \in Range(native'[current]) /\ current \in DOMAIN native'
      <4>1. NextTurn \in Turns
        BY <1>3, <3>3, BoundsAssumption DEF Speak, NextTurn, Turns
      <4>2. PICK said : said = native[current]
        OBVIOUS
      <4>3. PICK next : next = NextTurn
        OBVIOUS
      <4>4. PICK longer : longer = Append(said, next)
        OBVIOUS
      <4>5. said \in Seq(1 .. turns)
        BY <1>3, <4>2
      <4>6. Len(longer) \in DOMAIN longer /\ longer[Len(longer)] = next
        BY <4>4, <4>5
      <4>7. native'[current] = longer /\ current \in DOMAIN native'
        BY <1>3, <3>3, <4>2, <4>3, <4>4 DEF Say
      <4> QED  BY <4>1, <4>3, <4>6, <4>7 DEF Range
    <3>6. noop => Last(native[current]) \in Turns /\ Last(native[current]) \in Range(native'[current])
      <4>1. ASSUME noop PROVE Last(native[current]) \in Range(native[current]) /\ Last(native[current]) \in 1 .. turns
        BY <1>3, <3>3, <4>1, LastIn DEF Last
      <4>2. 1 .. turns \subseteq Turns
        BY <1>3, BoundsAssumption DEF Turns
      <4>3. native'[current] = Append(native[current], NextTurn)
        BY <1>3, <3>3 DEF Say
      <4>4. Range(native[current]) \subseteq Range(native'[current])
        <5>1. PICK said : said = native[current]
          OBVIOUS
        <5>2. PICK next : next = NextTurn
          OBVIOUS
        <5>3. PICK longer : longer = Append(said, next)
          OBVIOUS
        <5>4. said \in Seq(1 .. turns)
          BY <1>3, <5>1
        <5>5. DOMAIN said \subseteq DOMAIN longer /\ \A k \in DOMAIN said : longer[k] = said[k]
          BY <5>3, <5>4
        <5> QED  BY <4>3, <5>1, <5>2, <5>3, <5>5 DEF Range
      <4> QED  BY <4>1, <4>2, <4>4
    <3>7. turn \in Turns /\ turn \in Range(native'[current])
      BY <3>1, <3>5, <3>6
    <3>8. segs[Len(segs)] = Segment(current, turn)
      BY <1>3, <3>2, <3>7, EndsAt
    <3>9. Counts(segs[Len(segs)])'
      BY <3>5, <3>7, <3>8, TurnCounts
    <3> QED  BY <3>3, <3>9
  <2>2. CASE provider[current] # "claude"
    <3>1. Take(x, "switch", chat, own) /\ native' = native
      BY <1>1, <1>2, <2>2 DEF AskSwitch
    <3>2. PICK last : last = own[Len(own)]
      OBVIOUS
    <3>3. last.thread = current /\ last.last = None
      BY <1>3, <3>2 DEF EndsIn
    <3>4. Counts(last)'
      BY <1>3, <3>1, <3>3 DEF Counts
    <3> QED  BY <3>1, <3>2, <3>4
  <2> QED  BY <2>1, <2>2
<1>5. PICK segs : Take(x, "switch", chat, segs) /\ Counts(segs[Len(segs)])'
  BY <1>4
<1>6. PICK next : next = [what |-> "switch", chat |-> chat, segs |-> segs, step |-> "asked",
                          at |-> 0, count |-> 0, drop |-> FALSE, made |-> {}, want |-> 0]
  OBVIOUS
<1>7. calls[x] = Idle /\ calls' = [calls EXCEPT ![x] = next]
  BY <1>5, <1>6 DEF Take
<1>8. next.what = "switch" /\ next.chat = chat /\ next.segs = segs
  BY <1>6
<1>9. SourceCounts(next)' /\ DeletedAlone(next) /\ Dropped(next) \subseteq Dropped(calls[x])
  <2>1. PICK last : last = segs[Len(segs)]
    OBVIOUS
  <2>2. Counts(last)'
    BY <1>5, <2>1
  <2> QED  BY <1>8, <2>1, <2>2 DEF SourceCounts, DeletedAlone, Dropped
<1>10. SourceApart(x, next)
  <2>1. ASSUME NEW y \in Calls, chat \in Dropped(calls[y]) PROVE FALSE
    <3>1. y \in Busy /\ Doing(y, "revert", "set")
      BY <2>1 DEF Dropped, Busy, Doing
    <3>2. chat \in Passing(y)
      BY <2>1, <3>1 DEF Dropped, Passing
    <3> QED  BY <1>3, <3>1, <3>2 DEF Open
  <2> QED  BY <1>8, <2>1 DEF SourceApart
<1>11. Early(calls[x])
  BY <1>7 DEF Early, Deletes
<1>12. lineages' = lineages /\ cleaned' = cleaned /\ (native' = native \/ \E t : \E turn : Say(t, turn))
  BY DEF AskSwitch
<1>13. \A t : ThreadKept(t)
  BY <1>12, SameKept, SaidKept DEF ListedInv
<1> QED  BY <1>7, <1>9, <1>10, <1>11, <1>12, <1>13, HoldKept

LEMMA CreateBackendHolds ==
  ASSUME ListedInv, HoldInv, NEW x \in Calls, NEW backend \in Threads, CreateBackend(x, backend)
  PROVE HoldInv'
<1>1. PICK call : call = calls[x]
  OBVIOUS
<1>2. PICK turn : turn = LastTurn(x)
  OBVIOUS
<1>3. PICK source : source = call.segs[Len(call.segs)]
  OBVIOUS
<1>4. PICK segs : segs = Ended(call.segs, source.thread, turn)
  OBVIOUS
<1>5. PICK next : next = [call EXCEPT !.step = "ready", !.made = {backend}, !.segs = segs]
  OBVIOUS
<1>6. x \in Busy /\ call # Idle /\ call.what = "switch" /\ call.step = "asked"
  BY <1>1, DoingBusy DEF CreateBackend, Doing
<1>7. call.segs \in Seq(Segments) /\ call.segs # << >> /\ source = Last(call.segs) /\ call \in Requests(call.want)
  BY <1>1, <1>3, <1>6, OfCall DEF Last, CallOK, CallTyped
<1>8. /\ source.thread \in DOMAIN native /\ calls' = [calls EXCEPT ![x] = next]
      /\ lineages' = lineages /\ cleaned' = cleaned /\ native' = Put(native, backend, << >>) /\ backend \notin DOMAIN native
  <2>1. PICK thread : thread = source.thread
    OBVIOUS
  <2>2. PICK front : front = Front(call.segs)
    OBVIOUS
  <2>3. segs = Append(front, Segment(thread, turn))
    BY <1>4, <2>1, <2>2 DEF Ended
  <2>4. calls' = [calls EXCEPT ![x] = [call EXCEPT !.step = "ready", !.made = {backend}, !.segs = Append(front, Segment(thread, turn))]]
    BY <1>1, <1>2, <1>7, <2>1, <2>2 DEF CreateBackend
  <2>5. calls' = [calls EXCEPT ![x] = next]
    BY <1>5, <2>3, <2>4
  <2> QED  BY <1>1, <1>7, <2>5 DEF CreateBackend, Fresh, ListedInv, ThreadsOK
<1>9. turn \in Turns \cup {None}
  BY <1>1, <1>2, <1>6, <1>7, <1>8, LastTurnTyped
<1>10. segs[Len(segs)] = Segment(source.thread, turn)
  <2>1. PICK was : was = call.segs
    OBVIOUS
  <2>2. PICK thread : thread = source.thread
    OBVIOUS
  <2>3. EndsIn(was, thread)
    BY <1>3, <1>7, <2>1, <2>2 DEF EndsIn
  <2>4. segs = Ended(was, thread, turn)
    BY <1>4, <2>1, <2>2
  <2>5. segs[Len(segs)] = Segment(thread, turn)
    BY <1>9, <2>3, <2>4, EndsAt
  <2> QED  BY <2>2, <2>5
<1>11. next.what = "switch" /\ next.step = "ready" /\ next.chat = call.chat /\ next.segs = segs
  BY <1>5, <1>6, <1>7 DEF Requests
<1>12. PICK last : last = segs[Len(segs)]
  OBVIOUS
<1>13. last.thread = source.thread /\ last.last = turn
  BY <1>10, <1>12 DEF Segment
<1>14. \A t : ThreadKept(t)
  BY <1>8, MadeKept
<1>15. Counts(last)
  <2>1. CASE provider[source.thread] = "claude"
    <3>1. turn = source.last
      BY <1>1, <1>2, <1>7, <2>1 DEF LastTurn
    <3>2. Counts(source)
      BY <1>1, <1>3, <1>6 DEF HoldInv, CallsHold, SourceCounts, Switches
    <3> QED  BY <1>13, <3>1, <3>2 DEF Counts
  <2>2. CASE provider[source.thread] # "claude" /\ native[source.thread] = << >>
    <3>1. turn = None
      BY <1>1, <1>2, <1>7, <2>2 DEF LastTurn
    <3> QED  BY <1>8, <1>13, <3>1 DEF Counts
  <2>3. CASE provider[source.thread] # "claude" /\ native[source.thread] # << >>
    <3>1. turn = Last(native[source.thread])
      BY <1>1, <1>2, <1>7, <2>3 DEF LastTurn
    <3>2. native[source.thread] \in Seq(1 .. turns)
      BY <1>8 DEF ListedInv, ThreadsOK
    <3>3. turn \in Range(native[source.thread])
      BY <2>3, <3>1, <3>2, LastIn
    <3> QED  BY <1>8, <1>13, <3>3 DEF Counts
  <2> QED  BY <2>1, <2>2, <2>3
<1>16. Counts(last)'
  BY <1>14, <1>15, CountsKept
<1>17. SourceCounts(next)' /\ DeletedAlone(next) /\ Dropped(next) \subseteq Dropped(calls[x])
  BY <1>11, <1>12, <1>16 DEF SourceCounts, DeletedAlone, Dropped
<1>18. SourceApart(x, next)
  BY <1>1, <1>6, <1>11 DEF SourceApart, HoldInv, DroppedApart, Switches
<1>19. Early(calls[x])
  BY <1>1, <1>6 DEF Early, Deletes
<1> QED  BY <1>8, <1>14, <1>17, <1>18, <1>19, HoldKept

\* A thread that a chat lists alone is not what another's switch leaves,
LEMMA OwnUnmissed ==
  ASSUME ListedInv, NEW x \in Busy, NEW call, call = calls[x], NEW t, Lists(SegmentsOf(call.chat), t), ~Shared(call.chat, t)
  PROVE ~Missed(x, t)
<1> SUFFICES ASSUME NEW y \in Calls \ {x}, Switches(calls[y]), Lists(SegmentsOf(calls[y].chat), t) PROVE FALSE
  BY DEF Missed
<1>1. PICK other : other = calls[y]
  OBVIOUS
<1>2. CallOK(call) /\ CallOK(other) /\ call.chat # other.chat
  BY <1>1 DEF ListedInv, CallsOK, Apart, Busy, Switches
<1>3. other.chat \notin DOMAIN lineages
  BY <1>1, <1>2 DEF Shared, SegmentsOf
<1>4. t = other.chat /\ Unlisted(t)
  BY <1>1, <1>2, <1>3 DEF SegmentsOf, Lists, Segment, CallOK, ChatFree
<1>5. call.chat \notin DOMAIN lineages
  BY <1>4 DEF SegmentsOf, Unlisted
<1> QED  BY <1>2, <1>4, <1>5 DEF SegmentsOf, Lists, Segment

\* nor is one that nobody lists, but for a chat without a lineage.
LEMMA UnlistedUnmissed ==
  ASSUME ListedInv, NEW x, NEW t, Unlisted(t),
         \A y \in Calls \ {x} : Switches(calls[y]) /\ calls[y].chat \notin DOMAIN lineages => t # calls[y].chat
  PROVE ~Missed(x, t)
<1> SUFFICES ASSUME NEW y \in Calls \ {x}, Switches(calls[y]), Lists(SegmentsOf(calls[y].chat), t) PROVE FALSE
  BY DEF Missed
<1>1. calls[y].chat \notin DOMAIN lineages
  BY DEF SegmentsOf, Unlisted
<1> QED  BY <1>1 DEF SegmentsOf, Lists, Segment

LEMMA FailSwitchHolds ==
  ASSUME "LateFailures" \notin Allow, ListedInv, HoldInv, NEW x \in Calls, FailSwitch(x)
  PROVE HoldInv'
<1>1. PICK call : call = calls[x]
  OBVIOUS
<1>2. x \in Busy /\ call # Idle /\ call.what = "switch" /\ call.step \in {"asked", "ready"} /\ calls' = [calls EXCEPT ![x] = Idle]
  BY <1>1, DoingBusy DEF FailSwitch, Doing, Ends
<1>3. CallOK(call)
  BY <1>1, <1>2, OfCall
<1>4. ASSUME NEW t \in call.made PROVE Parted(x, t)
  <2>1. call.step = "ready" /\ Unlisted(t)
    BY <1>2, <1>3 DEF CallOK, MadeNew
  <2>2. \A y \in Calls \ {x} : Switches(calls[y]) => t # calls[y].chat
    BY <1>1, <1>2, <2>1 DEF ListedInv, CallsOK, Apart, Busy, Switches
  <2>3. ~Missed(x, t)
    BY <2>1, <2>2, UnlistedUnmissed
  <2> QED  BY <2>1, <2>3 DEF Parted, Unlisted
<1>5. \A t : ThreadKept(t) \/ Parted(x, t)
  BY <1>1, <1>4 DEF FailSwitch, ThreadKept, Restrict
<1>6. GoesOnWith
  <2>1. Early(calls[x])
    BY <1>1, <1>2 DEF Early, Deletes
  <2> QED  BY <1>2, <2>1, EarlyGoesOn
<1>7. SourceCounts(Idle)' /\ DeletedAlone(Idle) /\ Dropped(Idle) \subseteq Dropped(calls[x]) /\ SourceApart(x, Idle)
  BY PlainNext
<1> QED  BY <1>2, <1>5, <1>6, <1>7, HoldStays DEF FailSwitch

LEMMA DiscardHolds == ASSUME ListedInv, HoldInv, NEW x \in Calls, Discard(x) PROVE HoldInv'
<1>1. PICK call : call = calls[x]
  OBVIOUS
<1>2. PICK at : at = call.at + 1
  OBVIOUS
<1>3. PICK next : next = IF at = Len(call.segs) THEN Idle ELSE Discarding(call, at)
  OBVIOUS
<1>4. PICK thread : thread = call.segs[at].thread
  OBVIOUS
<1>5. x \in Busy /\ call # Idle /\ call.what = "revert" /\ call.step = "set" /\ calls' = [calls EXCEPT ![x] = next]
  BY <1>1, <1>2, <1>3, DoingBusy DEF Discard, Doing, GoesOn, Ends, Discarding
<1>6. /\ CallOK(call) /\ call \in Requests(call.want) /\ Len(call.segs) \in Nat /\ call.at \in Nat /\ call.at < Len(call.segs)
  BY <1>1, <1>5, OfCall DEF CallOK, AsTaken
<1>7. native' = native \/ (Unlisted(thread) /\ native' = Restrict(native, DOMAIN native \ {thread}))
  BY <1>1, <1>2, <1>4 DEF Discard, Unlisted
<1>8. thread \in Dropped(call)
  BY <1>2, <1>4, <1>5, <1>6 DEF Dropped
<1>9. \A t : ThreadKept(t) \/ Parted(x, t)
  <2>1. CASE native' = native
    BY <2>1, SameKept DEF Discard
  <2>2. CASE Unlisted(thread) /\ native' = Restrict(native, DOMAIN native \ {thread})
    <3>1. ~Missed(x, thread)
      BY <1>1, <1>8, <2>2, UnlistedUnmissed DEF HoldInv, DroppedApart
    <3>2. Parted(x, thread)
      BY <2>2, <3>1 DEF Parted, Unlisted
    <3> QED  BY <2>2, <3>2 DEF ThreadKept, Restrict, Discard
  <2> QED  BY <1>7, <2>1, <2>2
<1>10. next = Idle \/ (next.what = "revert" /\ next.step = "set" /\ next.at = at /\ next.segs = call.segs)
  BY <1>3, <1>5, <1>6 DEF Discarding, Requests
<1>11. SourceCounts(next)' /\ DeletedAlone(next) /\ SourceApart(x, next)
  BY <1>10 DEF SourceCounts, DeletedAlone, SourceApart, Switches
<1>12. Dropped(next) \subseteq Dropped(calls[x])
  BY <1>1, <1>2, <1>5, <1>6, <1>10 DEF Dropped
<1>13. GoesOnWith
  <2>1. Early(calls[x])
    BY <1>1, <1>5 DEF Early, Deletes
  <2> QED  BY <1>5, <2>1, EarlyGoesOn
<1> QED  BY <1>5, <1>9, <1>11, <1>12, <1>13, HoldStays DEF Discard

LEMMA RevertThreadHolds == ASSUME ListedInv, HoldInv, NEW x \in Calls, RevertThread(x) PROVE HoldInv'
<1>1. PICK call : call = calls[x]
  OBVIOUS
<1>2. PICK next : next = [call EXCEPT !.step = "ready"]
  OBVIOUS
<1>3. PICK thread : thread = call.segs[call.at].thread
  OBVIOUS
<1>4. /\ calls' = [calls EXCEPT ![x] = next] /\ x \in Busy /\ call # Idle /\ call.what = "revert" /\ call.step = "asked"
      /\ ~call.drop /\ lineages' = lineages /\ cleaned' = cleaned
  BY <1>1, <1>2, DoingBusy DEF RevertThread, Doing
<1>5. /\ CallOK(call) /\ call \in Requests(call.want) /\ call.segs = SegmentsOf(call.chat) /\ call.at \in DOMAIN call.segs
      /\ ~Shared(call.chat, thread)
  BY <1>1, <1>3, <1>4, OfCall DEF CallOK, AsTaken, RolledAlone, RollsBack
<1>6. next.what = "revert" /\ next.step = "ready" /\ next.chat = call.chat /\ next.at = call.at /\ next # Idle
  <2>1. next.what = "revert" /\ next.step = "ready" /\ next.chat = call.chat /\ next.at = call.at
    BY <1>2, <1>4, <1>5 DEF Requests
  <2> QED  BY <2>1 DEF Idle
<1>7. RolledBack(x, thread)
  <2>1. ~Missed(x, thread)
    BY <1>1, <1>3, <1>4, <1>5, OwnUnmissed DEF Lists
  <2>2. There(thread) => There(thread)'
    BY DEF RevertThread, There
  <2>3. ASSUME NEW c \in DOMAIN lineages, NEW i \in DOMAIN lineages[c], lineages[c][i].thread = thread PROVE Rolling(c, i)'
    <3>1. c = call.chat
      BY <1>5, <2>3 DEF Shared, Lists
    <3>2. i = call.at
      BY <1>3, <1>5, <2>3, <3>1 DEF HoldInv, SegmentsCount, Distinct, SegmentsOf
    <3>3. calls'[x] = next
      BY <1>4 DEF ListedInv, CallsOK
    <3> QED  BY <1>6, <3>1, <3>2, <3>3 DEF Rolling, RollsIn
  <2> QED  BY <2>1, <2>2, <2>3 DEF RolledBack
<1>8. \A t : ThreadKept(t) \/ RolledBack(x, t)
  <2>1. \A t : t # thread => ThreadKept(t)
    BY <1>1, <1>3 DEF RevertThread, ThreadKept
  <2> QED  BY <1>7, <2>1
<1>9. SourceCounts(next)' /\ DeletedAlone(next) /\ Dropped(next) \subseteq Dropped(calls[x]) /\ SourceApart(x, next)
  BY <1>6, PlainNext
<1>10. GoesOnWith
  <2>1. Early(calls[x])
    BY <1>1, <1>4 DEF Early, Deletes
  <2> QED  BY <1>4, <2>1, EarlyGoesOn
<1> QED  BY <1>4, <1>8, <1>9, <1>10, HoldStays

LEMMA DeleteGoesOn ==
  ASSUME ListedInv, NEW x \in Calls, NEW call, call = calls[x], call # Idle, call.what = "delete",
         NEW next, calls' = [calls EXCEPT ![x] = next],
         (Deletes(next) /\ next.chat = call.chat) \/ call.chat \notin DOMAIN lineages \/ ~(Len(lineages[call.chat]) > 1)
  PROVE GoesOnWith
<1>1. calls'[x] = next /\ \A y \in Calls \ {x} : calls'[y] = calls[y]
  BY DEF ListedInv, CallsOK
<1>2. ASSUME NEW c \in DOMAIN lineages, Len(lineages[c]) > 1, Deleting(c) PROVE Deleting(c)'
  <2>1. PICK y \in Calls : Deletes(calls[y]) /\ calls[y].chat = c
    BY <1>2 DEF Deleting
  <2>2. CASE y # x
    BY <1>1, <2>1, <2>2 DEF Deleting
  <2>3. CASE y = x
    BY <1>1, <1>2, <2>1, <2>3 DEF Deleting
  <2> QED  BY <2>2, <2>3
<1>3. ASSUME NEW c, NEW i, Rolling(c, i) PROVE Rolling(c, i)'
  BY <1>1, <1>3 DEF Rolling, RollsIn
<1> QED  BY <1>2, <1>3 DEF GoesOnWith

LEMMA DeleteOnlyHolds == ASSUME ListedInv, HoldInv, NEW x \in Calls, DeleteOnly(x) PROVE HoldInv'
<1>1. PICK call : call = calls[x]
  OBVIOUS
<1>2. PICK thread : thread = call.segs[1].thread
  OBVIOUS
<1>3. /\ x \in Busy /\ call # Idle /\ call.what = "delete" /\ Len(call.segs) = 1 /\ calls' = [calls EXCEPT ![x] = Idle]
      /\ lineages' = lineages /\ cleaned' = cleaned /\ native' = Restrict(native, DOMAIN native \ {thread})
  BY <1>1, <1>2, DoingBusy DEF DeleteOnly, Doing, Ends
<1>4. call.segs = SegmentsOf(call.chat) /\ call.chat \in DOMAIN provider
  BY <1>1, <1>3, OfCall DEF CallOK, AsTaken, CallTyped
<1>5. thread = call.chat /\ Lists(SegmentsOf(call.chat), thread)
  <2>1. PICK own : own = SegmentsOf(call.chat)
    OBVIOUS
  <2>2. Lists(own, call.chat) /\ DOMAIN own = 1 .. Len(own)
    BY <1>4, <2>1, OwnSegments DEF ListedInv
  <2> QED  BY <1>2, <1>3, <1>4, <2>1, <2>2 DEF Lists
<1>6. ~Shared(call.chat, thread)
  BY <1>1, <1>3, <1>5 DEF HoldInv, CallsHold, DeletedAlone
<1>7. call.chat \in DOMAIN lineages => ~(Len(lineages[call.chat]) > 1)
  <2>1. ~(1 > 1)
    OBVIOUS
  <2> QED  BY <1>3, <1>4, <2>1 DEF SegmentsOf
<1>8. Parted(x, thread)
  <2>1. ~Missed(x, thread)
    BY <1>1, <1>3, <1>5, <1>6, OwnUnmissed
  <2> QED  BY <1>5, <1>6, <1>7, <2>1 DEF Parted, Shared
<1>9. \A t : ThreadKept(t) \/ Parted(x, t)
  BY <1>3, <1>8 DEF ThreadKept, Restrict
<1>10. GoesOnWith
  BY <1>1, <1>3, <1>7, DeleteGoesOn
<1>11. SourceCounts(Idle)' /\ DeletedAlone(Idle) /\ Dropped(Idle) \subseteq Dropped(calls[x]) /\ SourceApart(x, Idle)
  BY PlainNext
<1> QED  BY <1>3, <1>9, <1>10, <1>11, HoldStays

LEMMA DeleteSegmentHolds == ASSUME ListedInv, HoldInv, NEW x \in Calls, DeleteSegment(x) PROVE HoldInv'
<1>1. PICK call : call = calls[x]
  OBVIOUS
<1>2. PICK at : at = call.at + 1
  OBVIOUS
<1>3. PICK thread : thread = call.segs[at].thread
  OBVIOUS
<1>4. PICK next : next = [call EXCEPT !.at = at]
  OBVIOUS
<1>5. /\ x \in Busy /\ call # Idle /\ call.what = "delete" /\ Len(call.segs) > 1 /\ call.at < Len(call.segs)
      /\ lineages' = lineages /\ cleaned' = cleaned
      /\ native' = native \/ (~Shared(call.chat, thread) /\ native' = Restrict(native, DOMAIN native \ {thread}))
  BY <1>1, <1>2, <1>3, DoingBusy DEF DeleteSegment, Doing
<1>6. /\ CallOK(call) /\ call \in Requests(call.want) /\ call.segs = SegmentsOf(call.chat) /\ call.at \in Nat
      /\ DOMAIN call.segs = 1 .. Len(call.segs) /\ Len(call.segs) \in Nat
  BY <1>1, <1>5, OfCall DEF CallOK, AsTaken
<1>7. calls' = [calls EXCEPT ![x] = next]
  BY <1>1, <1>2, <1>4 DEF DeleteSegment
<1>8. next.what = "delete" /\ next.segs = call.segs /\ next.at = at /\ next.chat = call.chat
  BY <1>4, <1>5, <1>6 DEF Requests
<1>9. Deletes(next)
  <2>1. next # Idle
    <3>1. next.step = call.step /\ call.step # "idle"
      BY <1>4, <1>5, <1>6 DEF Requests
    <3> QED  BY <3>1 DEF Idle
  <2> QED  BY <1>2, <1>6, <1>8, <2>1 DEF Deletes
<1>10. calls'[x] = next
  BY <1>7 DEF ListedInv, CallsOK
<1>11. at \in DOMAIN call.segs
  <2>1. call.at + 1 \in 1 .. Len(call.segs)
    BY <1>5, <1>6
  <2> QED  BY <1>2, <1>6, <2>1
<1>12. \A t : ThreadKept(t) \/ Parted(x, t)
  <2>1. CASE native' = native
    BY <1>5, <2>1, SameKept
  <2>2. CASE ~Shared(call.chat, thread) /\ native' = Restrict(native, DOMAIN native \ {thread})
    <3>1. ~Missed(x, thread)
      BY <1>1, <1>3, <1>5, <1>6, <1>11, <2>2, OwnUnmissed DEF Lists
    <3>2. Deleting(call.chat)'
      BY <1>8, <1>9, <1>10 DEF Deleting
    <3>3. Parted(x, thread)
      BY <2>2, <3>1, <3>2 DEF Parted, Shared
    <3> QED  BY <1>5, <2>2, <3>3 DEF ThreadKept, Restrict
  <2> QED  BY <1>5, <2>1, <2>2
<1>13. GoesOnWith
  BY <1>1, <1>5, <1>7, <1>8, <1>9, DeleteGoesOn
<1>14. SourceCounts(next)' /\ DeletedAlone(next) /\ Dropped(next) \subseteq Dropped(calls[x]) /\ SourceApart(x, next)
  <2>1. ASSUME NEW m \in Nat, m = Len(next.segs) PROVE m # 1
    <3>1. m > 1
      BY <1>5, <1>8, <2>1
    <3> QED  BY <3>1
  <2>2. Len(next.segs) # 1
    BY <1>6, <1>8, <2>1
  <2> QED  BY <1>8, <2>2, PlainNext
<1> QED  BY <1>5, <1>7, <1>12, <1>13, <1>14, HoldStays

-----------------------------------------------------------------------------
(* Steps that list a chat's segments anew *)

\* A request that is done with its switch, or its rollback's lineage.
Settled(next) == ~Switches(next) /\ (next # Idle => next.what # "delete")

LEMMA DroppedListed ==
  ASSUME ListedInv, DroppedApart, NEW x \in Busy, NEW call, call = calls[x], NEW next, calls' = [calls EXCEPT ![x] = next],
         Settled(next), \A t \in Dropped(next) : Lists(SegmentsOf(call.chat), t),
         DOMAIN lineages \ {call.chat} \subseteq DOMAIN lineages'
  PROVE DroppedApart'
<1>1. x \in Calls /\ calls'[x] = next /\ \A y \in Calls \ {x} : calls'[y] = calls[y]
  BY DEF ListedInv, CallsOK, Busy
<1> SUFFICES ASSUME NEW y \in Calls, NEW z \in Calls, Switches(calls'[z]), calls'[z].chat \notin DOMAIN lineages',
                    calls'[z].chat \in Dropped(calls'[y])
             PROVE FALSE
  BY DEF DroppedApart
<1>2. PICK other : other = calls[z]
  OBVIOUS
<1>3. z # x /\ calls'[z] = other /\ z \in Busy /\ Switches(other)
  BY <1>1, <1>2 DEF Settled, Busy, Switches
<1>4. CallOK(other) /\ call.chat # other.chat
  BY <1>2, <1>3 DEF ListedInv, CallsOK, Apart
<1>5. other.chat \notin DOMAIN lineages /\ Unlisted(other.chat)
  BY <1>3, <1>4 DEF CallOK, ChatFree
<1>6. CASE y = x
  BY <1>1, <1>3, <1>4, <1>5, <1>6 DEF SegmentsOf, Lists, Segment, Unlisted
<1>7. CASE y # x
  BY <1>1, <1>2, <1>3, <1>5, <1>7 DEF DroppedApart
<1> QED  BY <1>6, <1>7

SegmentsHere(c, segs) ==
  /\ Distinct(segs)
  /\ Len(segs) > 1 /\ ~Deleting(c) =>
       \A i \in DOMAIN segs : There(segs[i].thread) /\ (Counts(segs[i]) \/ Rolling(c, i))

LEMMA SegmentsAreHere ==
  SegmentsCount <=> \A c \in DOMAIN lineages : \A segs : segs = lineages[c] => SegmentsHere(c, segs)
BY DEF SegmentsCount, SegmentsHere

LEMMA HoldPut ==
  ASSUME ListedInv, ListedInv', HoldInv, NEW x \in Busy, NEW call, call = calls[x],
         NEW next, calls' = [calls EXCEPT ![x] = next], native' = native, cleaned' = cleaned, ~Deletes(call), Settled(next),
         \A t \in Dropped(next) : Lists(SegmentsOf(call.chat), t),
         NEW key, key = call.chat \/ ~(call.what = "revert"), NEW list, lineages' = Put(lineages, key, list),
         Distinct(list), \A i \in DOMAIN list : Counts(list[i]),
         \A t : Lists(list, t) => NoOther(key, t) \/ (call.chat \in DOMAIN lineages /\ Lists(lineages[call.chat], t))
  PROVE HoldInv'
<1>1. x \in Calls /\ calls'[x] = next /\ \A y \in Calls \ {x} : calls'[y] = calls[y]
  BY DEF ListedInv, CallsOK, Busy
<1>2. /\ DOMAIN lineages' = DOMAIN lineages \cup {key} /\ lineages'[key] = list
      /\ \A c \in DOMAIN lineages \ {key} : lineages'[c] = lineages[c]
  BY DEF Put
<1>3. \A segment : Counts(segment)' <=> Counts(segment)
  BY DEF Counts
<1>4. \A segment : Counts(segment) => There(segment.thread) /\ There(segment.thread)'
  BY DEF Counts, There
<1>5. ASSUME NEW c, Deleting(c) PROVE Deleting(c)'
  BY <1>1, <1>5 DEF Deleting
<1>6. ASSUME NEW c, c # key, NEW i, Rolling(c, i) PROVE Rolling(c, i)'
  BY <1>1, <1>6 DEF Rolling, RollsIn
<1>7. SegmentsCount'
  <2>1. ASSUME NEW c \in DOMAIN lineages', NEW segs, segs = lineages'[c]
        PROVE SegmentsHere(c, segs)'
    <3>1. CASE c = key
      BY <1>2, <1>3, <1>4, <2>1, <3>1 DEF SegmentsHere
    <3>2. CASE c # key
      <4>1. c \in DOMAIN lineages /\ segs = lineages[c]
        BY <1>2, <2>1, <3>2
      <4>2. \A t : There(t) => There(t)'
        BY DEF There
      <4>3. SegmentsHere(c, segs)
        BY <4>1, SegmentsAreHere DEF HoldInv
      <4> QED  BY <1>3, <1>5, <1>6, <3>2, <4>2, <4>3 DEF SegmentsHere
    <3> QED  BY <3>1, <3>2
  <2> QED  BY <2>1 DEF SegmentsCount, SegmentsHere
<1>8. ASSUME NEW y \in Calls \ {x}, NEW other, other = calls[y], other # Idle, other.what = "delete", Len(other.segs) = 1
      PROVE ~Shared(other.chat, other.chat)'
  <2>1. y \in Busy /\ y \in Busy' /\ ~Shared(other.chat, other.chat) /\ call.chat # other.chat
    BY <1>1, <1>8 DEF HoldInv, CallsHold, DeletedAlone, Busy, ListedInv, CallsOK, Apart
  <2>2. CallOK(other)'
    BY <1>1, <1>8, <2>1 DEF ListedInv, CallsOK
  <2>3. other.chat \notin DOMAIN lineages' => Unlisted(other.chat)'
    BY <2>2 DEF CallOK, ChatFree
  <2> SUFFICES ASSUME NEW d \in DOMAIN lineages' \ {other.chat}, Lists(lineages'[d], other.chat) PROVE FALSE
    BY <2>1 DEF Shared
  <2>4. other.chat \in DOMAIN lineages'
    BY <2>3 DEF Unlisted
  <2>5. CASE d # key
    BY <1>2, <2>1, <2>5 DEF Shared
  <2>6. CASE d = key
    <3>1. other.chat \in DOMAIN lineages /\ other.chat # key
      BY <1>2, <2>4, <2>6
    <3>2. Lists(lineages[other.chat], other.chat)
      BY <3>1 DEF ListedInv, ListsOK, LineageOK
    <3>3. ~NoOther(key, other.chat)
      BY <3>1, <3>2 DEF NoOther
    <3>4. call.chat \in DOMAIN lineages /\ Lists(lineages[call.chat], other.chat)
      BY <1>2, <2>6, <3>3
    <3> QED  BY <2>1, <3>4 DEF Shared
  <2> QED  BY <2>5, <2>6
<1>9. CallsHold'
  <2> SUFFICES ASSUME NEW y \in Calls PROVE SourceCounts(calls[y])' /\ DeletedAlone(calls[y])'
    BY DEF CallsHold
  <2>1. CASE y = x
    BY <1>1, <2>1 DEF SourceCounts, DeletedAlone, Settled, Switches
  <2>2. CASE y # x
    <3>1. SourceCounts(calls[y])'
      BY <1>1, <2>2 DEF HoldInv, CallsHold, SourceCounts, Switches, Counts
    <3>2. DeletedAlone(calls[y])'
      BY <1>1, <1>8, <2>2 DEF DeletedAlone
    <3> QED  BY <3>1, <3>2
  <2> QED  BY <2>1, <2>2
<1>10. DroppedApart'
  BY <1>2, DroppedListed DEF HoldInv
<1> QED  BY <1>7, <1>9, <1>10 DEF HoldInv

\* A chat that is taken out of the lineages.
LEMMA HoldDrop ==
  ASSUME ListedInv, HoldInv, NEW x \in Busy, NEW call, call = calls[x], NEW next, calls' = [calls EXCEPT ![x] = next],
         native' = native, cleaned' = cleaned, Settled(next), \A t \in Dropped(next) : Lists(SegmentsOf(call.chat), t),
         lineages' = Restrict(lineages, DOMAIN lineages \ {call.chat})
  PROVE HoldInv'
<1>1. x \in Calls /\ calls'[x] = next /\ \A y \in Calls \ {x} : calls'[y] = calls[y]
  BY DEF ListedInv, CallsOK, Busy
<1>2. DOMAIN lineages' = DOMAIN lineages \ {call.chat} /\ \A c \in DOMAIN lineages \ {call.chat} : lineages'[c] = lineages[c]
  BY DEF Restrict
<1>3. ASSUME NEW c \in DOMAIN lineages', Deleting(c) PROVE Deleting(c)'
  BY <1>1, <1>2, <1>3 DEF Deleting
<1>4. ASSUME NEW c \in DOMAIN lineages', NEW i, Rolling(c, i) PROVE Rolling(c, i)'
  BY <1>1, <1>2, <1>4 DEF Rolling, RollsIn
<1>5. SegmentsCount'
  <2>1. ASSUME NEW c \in DOMAIN lineages', NEW segs, segs = lineages'[c] PROVE SegmentsHere(c, segs)'
    <3>1. SegmentsHere(c, segs)
      BY <1>2, <2>1, SegmentsAreHere DEF HoldInv
    <3>2. (\A t : There(t) => There(t)') /\ (\A segment : Counts(segment) => Counts(segment)')
      BY DEF There, Counts
    <3> QED  BY <1>3, <1>4, <2>1, <3>1, <3>2 DEF SegmentsHere
  <2> QED  BY <2>1 DEF SegmentsCount, SegmentsHere
<1>6. CallsHold'
  <2> SUFFICES ASSUME NEW y \in Calls PROVE SourceCounts(calls[y])' /\ DeletedAlone(calls[y])'
    BY DEF CallsHold
  <2>1. CASE y = x
    BY <1>1, <2>1 DEF SourceCounts, DeletedAlone, Settled, Switches
  <2>2. CASE y # x
    <3>1. SourceCounts(calls[y])'
      BY <1>1, <2>2 DEF HoldInv, CallsHold, SourceCounts, Switches, Counts
    <3>2. DeletedAlone(calls[y])'
      BY <1>1, <1>2, <2>2 DEF HoldInv, CallsHold, DeletedAlone, Shared
    <3> QED  BY <3>1, <3>2
  <2> QED  BY <2>1, <2>2
<1>7. DroppedApart'
  BY <1>2, DroppedListed DEF HoldInv
<1> QED  BY <1>5, <1>6, <1>7 DEF HoldInv

LEMMA OwnDistinct == ASSUME SegmentsCount, NEW chat PROVE Distinct(SegmentsOf(chat))
<1>1. CASE chat \in DOMAIN lineages
  BY <1>1 DEF SegmentsCount, SegmentsOf
<1>2. CASE chat \notin DOMAIN lineages
  <2>1. PICK own : own = <<Segment(chat, None)>>
    OBVIOUS
  <2>2. Distinct(own)
    BY <2>1 DEF Distinct
  <2> QED  BY <1>2, <2>1, <2>2 DEF SegmentsOf
<1> QED  BY <1>1, <1>2

\* The chat of a request has no other: what it lists counts, but where it is being rolled back.
LEMMA OwnCounts ==
  ASSUME ListedInv, SegmentsCount, NEW x \in Busy, NEW call, call = calls[x], ~Deletes(call),
         call.chat \in DOMAIN lineages, NEW segs, segs = lineages[call.chat], Len(segs) > 1, NEW i \in DOMAIN segs
  PROVE There(segs[i].thread) /\ (Counts(segs[i]) \/ RollsIn(call, call.chat, i))
<1>1. \A y \in Busy : calls[y].chat = call.chat => y = x
  BY DEF ListedInv, CallsOK, Apart
<1>2. ~Deleting(call.chat)
  BY <1>1 DEF Deleting, Deletes, Busy
<1>3. Rolling(call.chat, i) => RollsIn(call, call.chat, i)
  BY <1>1 DEF Rolling, RollsIn, Busy
<1> QED  BY <1>2, <1>3 DEF SegmentsCount

LEMMA DeleteLineageHolds == ASSUME ListedInv, HoldInv, NEW x \in Calls, DeleteLineage(x) PROVE HoldInv'
<1>1. PICK call : call = calls[x]
  OBVIOUS
<1>2. /\ x \in Busy /\ lineages' = Restrict(lineages, DOMAIN lineages \ {call.chat}) /\ native' = native /\ cleaned' = cleaned
      /\ calls' = [calls EXCEPT ![x] = Idle]
  BY <1>1, DoingBusy DEF DeleteLineage, Ends
<1>3. Settled(Idle) /\ Dropped(Idle) = {}
  BY DEF Settled, Switches, Dropped
<1> QED  BY <1>1, <1>2, <1>3, HoldDrop

LEMMA SetLineageHolds == ASSUME ListedInv, ListedInv', HoldInv, NEW x \in Calls, SetLineage(x) PROVE HoldInv'
<1>1. PICK call : call = calls[x]
  OBVIOUS
<1>2. PICK chat : chat = call.chat
  OBVIOUS
<1>3. PICK own : own = SegmentsOf(chat)
  OBVIOUS
<1>4. PICK next : next = [call EXCEPT !.step = "set"]
  OBVIOUS
<1>5. /\ x \in Busy /\ call # Idle /\ call.what = "switch" /\ call.step = "ready" /\ native' = native /\ cleaned' = cleaned
      /\ calls' = [calls EXCEPT ![x] = next]
  BY <1>1, <1>4, DoingBusy DEF SetLineage, Doing
<1>6. TookOwn(call, chat, own) /\ \E backend \in call.made : \E list : SwitchedTo(call, chat, backend, list)
  BY <1>1, <1>2, <1>3, SetLineageIs
<1>7. PICK backend \in call.made : \E list : SwitchedTo(call, chat, backend, list)
  BY <1>6
<1>8. PICK list : SwitchedTo(call, chat, backend, list)
  BY <1>7
<1>9. PICK segs : segs = call.segs
  OBVIOUS
<1>10. /\ Len(segs) \in Nat \ {0} /\ DOMAIN segs = 1 .. Len(segs) /\ DOMAIN own = DOMAIN segs /\ Len(own) = Len(segs)
       /\ DOMAIN list = DOMAIN segs \cup {Len(segs) + 1} /\ list[Len(segs) + 1] = Segment(backend, None)
       /\ \A i \in DOMAIN segs : list[i] = segs[i] /\ segs[i].thread = own[i].thread
       /\ \A i \in 1 .. Len(segs) - 1 : segs[i] = own[i]
       /\ ~Lists(segs, backend) /\ backend \in DOMAIN native /\ NoOther(chat, backend)
  BY <1>6, <1>8, <1>9 DEF GoesOnIn, SwitchedTo, TookOwn, SameButLast
<1>11. Distinct(list)
  <2>1. Distinct(own)
    BY <1>3, OwnDistinct DEF HoldInv
  <2>2. Segment(backend, None).thread = backend
    BY DEF Segment
  <2>3. ASSUME NEW i \in DOMAIN list, NEW j \in DOMAIN list, list[i].thread = list[j].thread PROVE i = j
    <3>1. CASE i \in DOMAIN segs /\ j \in DOMAIN segs
      BY <1>10, <2>1, <2>3, <3>1 DEF Distinct
    <3>2. CASE i \notin DOMAIN segs \/ j \notin DOMAIN segs
      BY <1>10, <2>2, <2>3, <3>2 DEF Lists
    <3> QED  BY <3>1, <3>2
  <2> QED  BY <2>3 DEF Distinct
<1>12. ASSUME NEW i \in DOMAIN list PROVE Counts(list[i])
  <2>1. CASE i = Len(segs) + 1
    BY <1>10, <2>1 DEF Counts, Segment
  <2>2. CASE i \in DOMAIN segs /\ i = Len(segs)
    <3>1. Counts(segs[Len(segs)])
      BY <1>1, <1>5, <1>9 DEF HoldInv, CallsHold, SourceCounts, Switches
    <3> QED  BY <1>10, <2>2, <3>1
  <2>3. CASE i \in DOMAIN segs /\ i # Len(segs)
    <3>1. i \in 1 .. Len(segs) - 1 /\ i \in DOMAIN own /\ Len(segs) > 1
      BY <1>10, <2>3
    <3>2. list[i] = own[i]
      BY <1>10, <3>1, <2>3
    <3>3. chat \in DOMAIN lineages /\ own = lineages[chat]
      <4>1. Len(<<Segment(chat, None)>>) = 1
        OBVIOUS
      <4>2. ASSUME NEW m \in Nat, m = Len(segs) PROVE m # 1
        BY <3>1, <4>2
      <4> QED  BY <1>3, <1>10, <4>1, <4>2 DEF SegmentsOf
    <3>4. ~Deletes(call) /\ ~RollsIn(call, chat, i)
      BY <1>5 DEF Deletes, RollsIn
    <3>5. Counts(own[i])
      BY <1>1, <1>2, <1>5, <1>10, <3>1, <3>3, <3>4, OwnCounts DEF HoldInv
    <3> QED  BY <3>2, <3>5
  <2> QED  BY <1>10, <2>1, <2>2, <2>3
<1>13. Settled(next) /\ Dropped(next) = {}
  <2>1. call \in Requests(call.want)
    BY <1>1, <1>5, OfCall
  <2>2. next.what = "switch" /\ next.step = "set"
    BY <1>4, <1>5, <2>1 DEF Requests
  <2> QED  BY <2>2 DEF Settled, Switches, Dropped
<1>14. \A t : Lists(list, t) => NoOther(chat, t) \/ (chat \in DOMAIN lineages /\ Lists(lineages[chat], t))
  BY <1>8 DEF SwitchedTo, NewFor
<1>15. lineages' = Put(lineages, chat, list) /\ ~Deletes(call)
  BY <1>5, <1>8 DEF SwitchedTo, Deletes
<1> QED  BY <1>1, <1>2, <1>5, <1>11, <1>12, <1>13, <1>14, <1>15, HoldPut

LEMMA ListForkHolds == ASSUME ListedInv, ListedInv', HoldInv, NEW x \in Calls, ListFork(x) PROVE HoldInv'
<1>1. PICK call : call = calls[x]
  OBVIOUS
<1>2. /\ x \in Busy /\ call # Idle /\ call.what = "fork" /\ call.step = "ready" /\ calls' = [calls EXCEPT ![x] = Idle]
      /\ native' = native /\ cleaned' = cleaned
  BY <1>1, DoingBusy DEF ListFork, Doing, Ends
<1>3. ~Deletes(call) /\ Settled(Idle) /\ Dropped(Idle) = {} /\ Early(call)
  BY <1>2 DEF Deletes, Settled, Switches, Dropped, Early
<1>4. CASE call.at = 1
  <2>1. lineages' = lineages
    BY <1>1, <1>4 DEF ListFork
  <2>2. SourceCounts(Idle)' /\ DeletedAlone(Idle) /\ Dropped(Idle) \subseteq Dropped(calls[x]) /\ SourceApart(x, Idle)
    BY PlainNext
  <2>3. \A t : ThreadKept(t)
    BY <1>2, SameKept
  <2> QED  BY <1>1, <1>2, <1>3, <2>1, <2>2, <2>3, HoldKept
<1>5. CASE call.at # 1
  <2>1. PICK fork \in call.made : \E list : ForkedTo(call, fork, list)
    BY <1>1, <1>5, ListForkIs
  <2>2. PICK list : ForkedTo(call, fork, list)
    BY <2>1
  <2>3. /\ lineages' = Put(lineages, fork, list)
        /\ fork \in DOMAIN native /\ NoOther(fork, fork) /\ ~Lists(call.segs, fork)
        /\ call.chat \in DOMAIN lineages /\ call.segs = lineages[call.chat]
    BY <2>2 DEF ForkedTo
  <2>4. PICK n \in Nat : 1 .. n \subseteq DOMAIN call.segs /\ GoneOn(list, call.segs, n, Segment(fork, None))
    BY <2>2 DEF ForkedTo
  <2>5. Segment(fork, None).thread = fork
    BY DEF Segment
  <2>6. PICK segs : segs = call.segs
    OBVIOUS
  <2>7. /\ DOMAIN list = 1 .. n + 1 /\ list[n + 1] = Segment(fork, None) /\ 1 .. n \subseteq DOMAIN segs
        /\ \A i \in 1 .. n : list[i] = segs[i]
    BY <2>4, <2>6 DEF GoneOn
  <2>8. \A i \in DOMAIN list : i \in 1 .. n \/ i = n + 1
    BY <2>7
  <2>9. Distinct(list)
    <3>1. Distinct(segs)
      BY <2>3, <2>6 DEF HoldInv, SegmentsCount
    <3> QED  BY <2>3, <2>5, <2>6, <2>7, <2>8, <3>1 DEF Distinct, Lists
  <2>10. Len(segs) > 1
    <3>1. call.at \in DOMAIN segs /\ DOMAIN segs = 1 .. Len(segs) /\ Len(segs) \in Nat
      BY <1>1, <1>2, <2>6, OfCall DEF CallOK, AsTaken
    <3> QED  BY <1>5, <3>1
  <2>11. ASSUME NEW i \in DOMAIN list PROVE Counts(list[i])
    <3>1. CASE i = n + 1
      BY <2>3, <2>7, <3>1 DEF Counts, Segment
    <3>2. CASE i \in 1 .. n
      <4>1. i \in DOMAIN segs /\ list[i] = segs[i]
        BY <2>7, <3>2
      <4>2. ~RollsIn(call, call.chat, i)
        BY <1>2 DEF RollsIn
      <4> QED  BY <1>1, <1>2, <1>3, <2>3, <2>6, <2>10, <4>1, <4>2, OwnCounts DEF HoldInv
    <3> QED  BY <2>8, <3>1, <3>2
  <2>12. \A t : Lists(list, t) => NoOther(fork, t) \/ (call.chat \in DOMAIN lineages /\ Lists(lineages[call.chat], t))
    BY <2>3, <2>4, <2>5 DEF GoneOn, UpTo, Lists
  <2> QED  BY <1>1, <1>2, <1>3, <2>3, <2>9, <2>11, <2>12, HoldPut
<1> QED  BY <1>4, <1>5

LEMMA RevertLineageHolds == ASSUME ListedInv, ListedInv', HoldInv, NEW x \in Calls, RevertLineage(x) PROVE HoldInv'
<1>1. PICK call : call = calls[x]
  OBVIOUS
<1>2. PICK chat : chat = call.chat
  OBVIOUS
<1>3. PICK next : next = IF call.at = Len(call.segs) THEN Idle ELSE Discarding(call, call.at)
  OBVIOUS
<1>4. x \in Busy /\ call # Idle /\ call.what = "revert" /\ call.step # "set" /\ native' = native /\ cleaned' = cleaned
  BY <1>1, DoingBusy DEF RevertLineage, Doing
<1>5. calls' = [calls EXCEPT ![x] = next]
  BY <1>1, <1>3 DEF RevertLineage, GoesOn, Ends, Discarding
<1>6. /\ CallOK(call) /\ call \in Requests(call.want) /\ call.segs = SegmentsOf(chat) /\ call.at \in 1 .. Len(call.segs)
      /\ Len(call.segs) \in Nat \ {0} /\ DOMAIN call.segs = 1 .. Len(call.segs)
  BY <1>1, <1>2, <1>4, OfCall DEF CallOK, AsTaken
<1>7. next = Idle \/ (next.what = "revert" /\ next.step = "set" /\ next.at = call.at /\ next.segs = call.segs)
  BY <1>3, <1>4, <1>6 DEF Discarding, Requests
<1>8. Settled(next) /\ ~Deletes(call)
  BY <1>4, <1>7 DEF Settled, Switches, Deletes
<1>9. \A t \in Dropped(next) : Lists(SegmentsOf(chat), t)
  <2>1. \A i \in call.at + 1 .. Len(call.segs) : i \in DOMAIN call.segs
    BY <1>6
  <2> QED  BY <1>6, <1>7, <2>1 DEF Dropped, Lists
<1>10. CASE lineages' = lineages /\ Len(call.segs) = 1
  <2>1. next = Idle
    BY <1>3, <1>6, <1>10
  <2>2. chat \in DOMAIN lineages => ~(Len(lineages[chat]) > 1)
    <3>1. ~(1 > 1)
      OBVIOUS
    <3> QED  BY <1>6, <1>10, <3>1 DEF SegmentsOf
  <2>3. GoesOnWith
    <3>1. \A y \in Calls \ {x} : calls'[y] = calls[y]
      BY <1>5 DEF ListedInv, CallsOK
    <3>2. ASSUME NEW c, Deleting(c) PROVE Deleting(c)'
      BY <1>1, <1>8, <3>1, <3>2 DEF Deleting
    <3>3. ASSUME NEW c, c # chat, NEW i, Rolling(c, i) PROVE Rolling(c, i)'
      BY <1>1, <1>2, <3>1, <3>3 DEF Rolling, RollsIn
    <3> QED  BY <2>2, <3>2, <3>3 DEF GoesOnWith
  <2>4. SourceCounts(Idle)' /\ DeletedAlone(Idle) /\ Dropped(Idle) \subseteq Dropped(calls[x]) /\ SourceApart(x, Idle)
    BY PlainNext
  <2>5. \A t : ThreadKept(t)
    BY <1>4, SameKept
  <2> QED  BY <1>5, <1>10, <2>1, <2>3, <2>4, <2>5, HoldStays
<1>11. CASE lineages' = Restrict(lineages, DOMAIN lineages \ {chat})
  BY <1>1, <1>2, <1>4, <1>5, <1>8, <1>9, <1>11, HoldDrop
<1>12. ASSUME NEW list, RevertedTo(call, chat, list) PROVE HoldInv'
  <2>1. lineages' = Put(lineages, chat, list) /\ chat \in DOMAIN lineages /\ call.segs = lineages[chat] /\ Len(call.segs) # 1
    BY <1>12 DEF RevertedTo
  <2>2. PICK n \in Nat : /\ call.at = n + 1 /\ 1 .. n + 1 \subseteq DOMAIN call.segs
                         /\ GoneOn(list, call.segs, n, Segment(call.segs[n + 1].thread, None))
    BY <1>12 DEF RevertedTo
  <2>3. PICK segs : segs = call.segs
    OBVIOUS
  <2>4. PICK last : last = Segment(segs[n + 1].thread, None)
    OBVIOUS
  <2>5. last.thread = segs[n + 1].thread /\ last.last = None
    BY <2>4 DEF Segment
  <2>6. /\ DOMAIN list = 1 .. n + 1 /\ list[n + 1] = last /\ 1 .. n + 1 \subseteq DOMAIN segs
        /\ \A i \in 1 .. n : list[i] = segs[i]
    BY <2>2, <2>3, <2>4 DEF GoneOn
  <2>7. ASSUME NEW i \in DOMAIN list
        PROVE i \in DOMAIN segs /\ list[i].thread = segs[i].thread /\ ((i \in 1 .. n /\ i # n + 1 /\ list[i] = segs[i]) \/ i = n + 1)
    <3>1. i \in 1 .. n + 1 /\ i \in DOMAIN segs
      BY <2>6
    <3>2. CASE i = n + 1
      BY <2>5, <2>6, <3>1, <3>2
    <3>3. CASE i # n + 1
      <4>1. i \in 1 .. n
        BY <3>1, <3>3
      <4> QED  BY <2>6, <3>1, <3>3, <4>1
    <3> QED  BY <3>2, <3>3
  <2>8. Distinct(list)
    BY <2>1, <2>3, <2>7 DEF HoldInv, SegmentsCount, Distinct
  <2>9. Len(segs) > 1
    <3>1. ASSUME NEW m \in Nat \ {0}, m = Len(segs), m # 1 PROVE m > 1
      BY <3>1
    <3> QED  BY <1>6, <2>1, <2>3, <3>1
  <2>10. ASSUME NEW i \in DOMAIN segs PROVE There(segs[i].thread) /\ (Counts(segs[i]) \/ RollsIn(call, chat, i))
    BY <1>1, <1>2, <1>4, <1>8, <2>1, <2>3, <2>9, OwnCounts DEF HoldInv
  <2>11. ASSUME NEW i \in DOMAIN list PROVE Counts(list[i])
    <3>1. CASE i = n + 1
      <4>1. There(last.thread)
        BY <2>5, <2>7, <2>10, <3>1
      <4> QED  BY <2>5, <2>6, <3>1, <4>1 DEF Counts, There
    <3>2. CASE i # n + 1
      <4>1. ~RollsIn(call, chat, i)
        BY <2>2, <3>2 DEF RollsIn
      <4> QED  BY <2>7, <2>10, <3>2, <4>1
    <3> QED  BY <3>1, <3>2
  <2>12. \A t : Lists(list, t) => Lists(lineages[chat], t)
    BY <2>1, <2>3, <2>7 DEF Lists
  <2> QED  BY <1>1, <1>2, <1>4, <1>5, <1>8, <1>9, <2>1, <2>8, <2>11, <2>12, HoldPut
<1>13. \/ lineages' = lineages /\ Len(call.segs) = 1
       \/ lineages' = Restrict(lineages, DOMAIN lineages \ {chat})
       \/ \E list : RevertedTo(call, chat, list)
  BY <1>1, <1>2, RevertLineageIs
<1> QED  BY <1>10, <1>11, <1>12, <1>13

\* What is kept of a lineage is a part of it, in its order.
LEMMA PrunedHolds ==
  ASSUME ThreadsOK, ListsOK, NEW chat \in DOMAIN lineages, Distinct(lineages[chat]), NEW done, NEW id, NEW segs,
         CameFrom(id, segs, chat, done)
  PROVE /\ Distinct(segs)
        /\ \A i \in DOMAIN segs : \E a \in DOMAIN lineages[chat] : segs[i] = lineages[chat][a]
        /\ Len(segs) > 1 => Len(lineages[chat]) > 1
<1>1. PICK own : own = lineages[chat]
  OBVIOUS
<1>2. own \in Seq(Segments) /\ own # << >>
  BY <1>1 DEF ListsOK, LineageOK
<1>3. CASE chat \notin done
  BY <1>3 DEF CameFrom
<1>4. CASE chat \in done
  <2>1. segs = Existing(own)
    BY <1>1, <1>4 DEF CameFrom, PrunedAs
  <2>2. InOrder(segs, own, Len(own))
    BY <1>2, <2>1, ExistingInOrder
  <2>3. segs \in Seq(Segments)
    BY <2>2 DEF InOrder
  <2>4. DOMAIN segs = 1 .. Len(segs) /\ Len(segs) \in Nat /\ DOMAIN own = 1 .. Len(own) /\ Len(own) \in Nat \ {0}
    BY <1>2, <2>3
  <2>5. ASSUME NEW i \in DOMAIN segs, NEW j \in DOMAIN segs, i <= j
        PROVE \E a \in DOMAIN own : \E b \in DOMAIN own : segs[i] = own[a] /\ segs[j] = own[b] /\ (i < j => a < b)
    BY <2>2, <2>4, <2>5 DEF InOrder
  <2>6. ASSUME NEW i \in DOMAIN segs PROVE \E a \in DOMAIN own : segs[i] = own[a]
    <3>1. i <= i
      BY <2>4
    <3> QED  BY <2>5, <3>1
  <2>7. ASSUME NEW i \in DOMAIN segs, NEW j \in DOMAIN segs, i < j PROVE segs[i].thread # segs[j].thread
    <3>1. i <= j
      BY <2>4, <2>7
    <3>2. PICK a \in DOMAIN own : \E b \in DOMAIN own : segs[i] = own[a] /\ segs[j] = own[b] /\ a < b
      BY <2>5, <2>7, <3>1
    <3>3. PICK b \in DOMAIN own : segs[i] = own[a] /\ segs[j] = own[b] /\ a < b
      BY <3>2
    <3>4. a # b
      BY <2>4, <3>3
    <3> QED  BY <1>1, <3>3, <3>4 DEF Distinct
  <2>8. Distinct(segs)
    <3>1. ASSUME NEW i \in DOMAIN segs, NEW j \in DOMAIN segs, segs[i].thread = segs[j].thread PROVE i = j
      <4>1. ~(i < j) /\ ~(j < i)
        BY <2>7, <3>1
      <4> QED  BY <2>4, <4>1
    <3> QED  BY <3>1 DEF Distinct
  <2>9. ASSUME Len(segs) > 1 PROVE Len(own) > 1
    <3>1. 1 \in DOMAIN segs /\ 2 \in DOMAIN segs /\ 1 <= 2 /\ 1 < 2
      BY <2>4, <2>9
    <3>2. PICK a \in DOMAIN own : \E b \in DOMAIN own : a < b
      BY <2>5, <3>1
    <3>3. PICK b \in DOMAIN own : a < b
      BY <3>2
    <3> QED  BY <2>4, <3>3
  <2> QED  BY <1>1, <2>6, <2>8, <2>9
<1> QED  BY <1>3, <1>4

LEMMA RestartHolds == ASSUME ListedInv, HoldInv, "TornCrashes" \notin Allow, Restart PROVE HoldInv'
<1>1. PICK order \in SetToSeqs(DOMAIN lineages) : lineages' = Pruned(order)
  BY DEF Restart
<1>2. PICK done \in SUBSET DOMAIN lineages : PrunedFrom(lineages', done)
  BY <1>1, PrunedIsFrom DEF ListedInv
<1>3. cleaned' = cleaned /\ native' = native /\ calls' = [x \in Calls |-> Idle]
  BY DEF Restart
<1>4. \A x \in Busy : ~Halfway(x)
  BY DEF Restart
<1>5. ASSUME NEW c PROVE ~Deleting(c) /\ \A i : ~Rolling(c, i)
  BY <1>4 DEF Deleting, Deletes, Rolling, RollsIn, Halfway, Busy
<1>6. ASSUME NEW e \in DOMAIN lineages', NEW segs, segs = lineages'[e] PROVE SegmentsHere(e, segs)'
  <2>1. PICK c \in DOMAIN lineages : CameFrom(e, segs, c, done)
    BY <1>2, <1>6 DEF PrunedFrom
  <2>2. Distinct(lineages[c])
    BY DEF HoldInv, SegmentsCount
  <2>3. /\ Distinct(segs) /\ (Len(segs) > 1 => Len(lineages[c]) > 1)
        /\ \A i \in DOMAIN segs : \E a \in DOMAIN lineages[c] : segs[i] = lineages[c][a]
    BY <2>1, <2>2, PrunedHolds DEF ListedInv
  <2>4. ASSUME Len(segs) > 1, NEW i \in DOMAIN segs PROVE There(segs[i].thread) /\ Counts(segs[i])
    BY <1>5, <2>3, <2>4 DEF HoldInv, SegmentsCount
  <2> QED  BY <1>3, <2>3, <2>4 DEF SegmentsHere, There, Counts
<1>7. SegmentsCount'
  BY <1>6 DEF SegmentsCount, SegmentsHere
<1>8. CallsHold'
  BY <1>3 DEF CallsHold, SourceCounts, DeletedAlone, Switches
<1>9. DroppedApart'
  BY <1>3 DEF DroppedApart, Switches
<1> QED  BY <1>7, <1>8, <1>9 DEF HoldInv

LEMMA HoldKeeps ==
  ASSUME "SharedEdits" \notin Allow, "LateFailures" \notin Allow, "TornCrashes" \notin Allow,
         ListedInv, ListedInv', HoldInv, [Next]_vars
  PROVE HoldInv'
<1>1. CASE Users
  <2>1. PICK chat \in Threads :
          \/ \E p \in Providers : Begin(chat, p)
          \/ StartTurn(chat)
          \/ \E x \in Calls :
               \/ \E noop \in BOOLEAN : AskSwitch(x, chat, noop)
               \/ AskWholeFork(x, chat)
               \/ \E i \in DOMAIN SegmentsOf(chat), k \in 0 .. MaxTurn :
                    AskRevert(x, chat, i, k) \/ \E before \in BOOLEAN : AskFork(x, chat, i, k, before)
               \/ AskDelete(x, chat)
    BY <1>1 DEF Users
  <2>2. ASSUME NEW x \in Calls,
               AskWholeFork(x, chat) \/ \E i \in DOMAIN SegmentsOf(chat), k \in 0 .. MaxTurn :
                 AskRevert(x, chat, i, k) \/ \E before \in BOOLEAN : AskFork(x, chat, i, k, before)
        PROVE HoldInv'
    <3>1. lineages' = lineages /\ native' = native /\ cleaned' = cleaned
      BY <2>2 DEF AskWholeFork, AskRevert, AskFork
    <3>2. \E what \in {"fork", "revert"} : \E at : \E count : \E drop : TakeUpTo(x, what, chat, at, count, drop)
      BY <2>2 DEF AskWholeFork, AskRevert, AskFork
    <3> QED  BY <3>1, <3>2, AskForkHolds
  <2> QED  BY <2>1, <2>2, BeginHolds, StartTurnHolds, AskSwitchHolds, AskDeleteHolds
<1>2. CASE Gateway
  <2>1. PICK x \in Calls :
          \/ \E t \in Threads : CreateBackend(x, t) \/ CopyThread(x, t)
          \/ SetLineage(x) \/ StartSwitched(x) \/ FailSwitch(x)
          \/ ListFork(x)
          \/ RevertThread(x) \/ RevertLineage(x) \/ Discard(x)
          \/ DeleteOnly(x) \/ DeleteSegment(x) \/ DeleteLineage(x)
          \/ Refuse(x)
    BY <1>2 DEF Gateway
  <2> QED  BY <2>1, CreateBackendHolds, CopyThreadHolds, SetLineageHolds, StartSwitchedHolds, FailSwitchHolds,
              ListForkHolds, RevertThreadHolds, RevertLineageHolds, DiscardHolds, DeleteOnlyHolds, DeleteSegmentHolds,
              DeleteLineageHolds, RefuseHolds
<1>3. CASE \E thread \in Threads : CleanUp(thread)
  BY <1>3, CleanUpHolds
<1>4. CASE Restart
  BY <1>4, RestartHolds
<1>5. CASE UNCHANGED vars
  <2>1. lineages' = lineages /\ calls' = calls /\ native' = native /\ cleaned' = cleaned
    BY <1>5 DEF vars
  <2> QED  BY <2>1, SameKept, HoldSame
<1> QED  BY <1>1, <1>2, <1>3, <1>4, <1>5 DEF Next

LEMMA HoldStarts == ASSUME Init PROVE HoldInv
<1>1. DOMAIN lineages = {} /\ \A x \in Calls : calls[x] = Idle
  BY DEF Init
<1> QED  BY <1>1 DEF HoldInv, SegmentsCount, CallsHold, SourceCounts, DeletedAlone, DroppedApart, Switches

\* As long as a chat's requests wait for one another, no thread that another lineage lists is rolled back or deleted
\* natively, no switch fails after its lineage was set, and no crash cuts a rollback or a deletion short: what a lineage
\* of several segments lists is where its provider had it, with the turn it counts to, until Claude cleans it up.
THEOREM HistoryIsKept ==
  ASSUME "Overlap" \notin Allow, "SharedEdits" \notin Allow, "LateFailures" \notin Allow, "TornCrashes" \notin Allow
  PROVE Spec => []SegmentsHold
<1>1. Init => ListedInv /\ HoldInv
  BY ListedStarts, HoldStarts
<1>2. ListedInv /\ HoldInv /\ [Next]_vars => ListedInv' /\ HoldInv'
  BY ListedStepKeeps, HoldKeeps
<1>3. ListedInv /\ HoldInv => SegmentsHold
  <2> SUFFICES ASSUME HoldInv, NEW c \in DOMAIN lineages, Len(lineages[c]) > 1, \A x \in CallsOf(c) : ~Halfway(x),
                      NEW i \in DOMAIN lineages[c]
               PROVE Counts(lineages[c][i])
    BY DEF SegmentsHold, Counts
  <2>1. ~Deleting(c) /\ ~Rolling(c, i)
    BY DEF Deleting, Deletes, Rolling, RollsIn, Halfway, CallsOf, Busy
  <2> QED  BY <2>1 DEF HoldInv, SegmentsCount
<1> QED  BY <1>1, <1>2, <1>3, PTL DEF Spec

=============================================================================
