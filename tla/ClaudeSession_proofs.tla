------------------------ MODULE ClaudeSession_proofs ------------------------
(***************************************************************************)
(* Theorems about ClaudeSession, for every value of its constants.         *)
(*                                                                         *)
(* A handler is an operator on the object's state, so most lemmas say what *)
(* one operator keeps: Fit is well-formedness, the waiting turn's rule and *)
(* the injected contexts somebody waits for.                               *)
(***************************************************************************)
EXTENDS ClaudeSession, SequenceTheorems, FiniteSetTheorems, TLAPS

Fit(s, awaited) ==
  /\ s \in Session
  /\ s.injections = awaited
  /\ s.turn # None /\ s.turn.waiting => s.queued = <<>> /\ s.turn.resultSeen

-----------------------------------------------------------------------------
(* Sequences. *)

LEMMA ElementsAppend ==
  ASSUME NEW S, NEW q \in Seq(S), NEW e \in S
  PROVE  Append(q, e) \in Seq(S) /\ Elements(Append(q, e)) = Elements(q) \cup {e}
<1>1. /\ Append(q, e) \in Seq(S)
      /\ Len(Append(q, e)) = Len(q) + 1
      /\ \A i \in 1..Len(q) : Append(q, e)[i] = q[i]
      /\ Append(q, e)[Len(q) + 1] = e
  BY AppendProperties
<1>2. Len(q) \in Nat /\ DOMAIN q = 1..Len(q) /\ DOMAIN Append(q, e) = 1..(Len(q) + 1)
  BY <1>1, LenProperties
<1> QED  BY <1>1, <1>2 DEF Elements

LEMMA ElementsTail ==
  ASSUME NEW S, NEW q \in Seq(S), q # <<>>
  PROVE  /\ Tail(q) \in Seq(S) /\ Head(q) \in S
         /\ Head(q) = q[1] /\ 1 \in DOMAIN q
         /\ Len(q) \in Nat /\ DOMAIN q = 1..Len(q) /\ DOMAIN Tail(q) = 1..(Len(q) - 1)
         /\ \A i \in DOMAIN Tail(q) : Tail(q)[i] = q[i + 1] /\ i + 1 \in DOMAIN q
         /\ Elements(Tail(q)) \subseteq Elements(q) /\ Head(q) \in Elements(q)
<1>1. Tail(q) \in Seq(S) /\ Head(q) \in S /\ Head(q) = q[1] /\ Len(Tail(q)) = Len(q) - 1
      /\ \A i \in 1..Len(Tail(q)) : Tail(q)[i] = q[i + 1]
  BY HeadTailProperties
<1>2. Len(q) \in Nat /\ Len(q) # 0 /\ DOMAIN q = 1..Len(q) /\ DOMAIN Tail(q) = 1..Len(Tail(q))
  BY <1>1, LenProperties, EmptySeq
<1> QED  BY <1>1, <1>2 DEF Elements

LEMMA HeadAndTail ==
  ASSUME NEW S, NEW q \in Seq(S), q # <<>> PROVE Elements(q) = Elements(Tail(q)) \cup {Head(q)}
<1>1. /\ Head(q) = q[1] /\ Head(q) \in Elements(q) /\ Elements(Tail(q)) \subseteq Elements(q)
      /\ Len(q) \in Nat /\ DOMAIN q = 1..Len(q) /\ DOMAIN Tail(q) = 1..(Len(q) - 1)
      /\ \A i \in DOMAIN Tail(q) : Tail(q)[i] = q[i + 1]
  BY ElementsTail
<1>2. ASSUME NEW i \in DOMAIN q, i # 1 PROVE q[i] \in Elements(Tail(q))
  <2>1. i - 1 \in DOMAIN Tail(q) /\ Tail(q)[i - 1] = q[i]
    BY <1>1, <1>2
  <2> QED  BY <2>1 DEF Elements
<1> QED  BY <1>1, <1>2 DEF Elements

-----------------------------------------------------------------------------
(* The turn bookkeeping keeps a session fit. *)

LEMMA FreshOwnType == ASSUME NEW s PROVE FreshOwn(s) \in OwnIds
<1>1. \E id \in OwnIds : UnusedOwn(s) # {} => id \in UnusedOwn(s)
  BY IdsFinite DEF UnusedOwn
<1> QED  BY <1>1 DEF FreshOwn

LEMMA OpenTurnFit ==
  ASSUME NEW s \in Session, NEW id \in TurnIds
  PROVE  Fit(OpenTurn(s, id), s.injections) /\ OpenTurn(s, id).turn \in Turn /\ OpenTurn(s, id).queued = s.queued
BY ZenonT(80) DEF OpenTurn, Announce, NewTurn, Session, Turn, Fit

LEMMA OpenTurnDeferredFit ==
  ASSUME NEW s \in Session, NEW id \in Messages PROVE Fit(OpenTurnDeferred(s, id), s.injections)
BY ZenonT(80) DEF OpenTurnDeferred, NewTurn, Session, Turn, TurnIds, Fit

LEMMA WaitForAgentsFit ==
  ASSUME NEW s \in Session, s.queued = <<>> PROVE Fit(WaitForAgents(s), s.injections)
<1> DEFINE o == OpenTurn(s, FreshOwn(s))
<1>1. o \in Session /\ o.turn \in Turn /\ o.queued = <<>> /\ o.injections = s.injections
  BY FreshOwnType, OpenTurnFit DEF TurnIds, Fit
<1> HIDE DEF o
<1>2. Fit([o EXCEPT !.turn.resultSeen = TRUE, !.turn.waiting = TRUE, !.afterResult = TRUE], s.injections)
  BY <1>1 DEF Session, Turn, Fit
<1> QED  BY <1>2 DEF WaitForAgents, o

LEMMA CallTypes ==
  /\ \A id \in Messages : StartCall(id) \in Call /\ SteerCall(id) \in Call
  /\ \A id \in Messages, i \in Injections : NoteCall(id, i) \in Call
  /\ \A calls \in SUBSET Call : LoseInbox(calls) \in SUBSET Call
BY DEF StartCall, SteerCall, NoteCall, LoseInbox, Call

LEMMA CloseFit ==
  ASSUME NEW s \in Session PROVE Fit(Close(s), s.injections) /\ Close(s).turn = None
BY DEF Close, Session, Fit

LEMMA AfterTurnFit ==
  ASSUME NEW s, NEW I, Fit(s, I), s.turn = None, NEW interrupted \in BOOLEAN PROVE Fit(AfterTurn(s, interrupted), I)
<1>1. CASE s.queued # <<>>
  <2>1. Tail(s.queued) \in Seq(Messages) /\ Head(s.queued) \in Messages
    BY <1>1, ElementsTail DEF Session, Fit
  <2>2. StartCall(Head(s.queued)) \in Call
    BY <2>1, CallTypes
  <2> DEFINE e == [s EXCEPT !.queued = Tail(@), !.calls = @ \cup {StartCall(Head(s.queued))}, !.active = FALSE]
  <2>3. AfterTurn(s, interrupted) = e
    BY <1>1, Zenon DEF AfterTurn
  <2>4. e \in Session
    BY <2>1, <2>2 DEF Session, Fit
  <2>5. e.turn = s.turn /\ e.injections = I
    BY DEF Session, Fit
  <2> HIDE DEF e
  <2> QED  BY <2>3, <2>4, <2>5 DEF Fit
<1>2. CASE s.queued = <<>>
  BY <1>2, WaitForAgentsFit DEF AfterTurn, Session, Fit
<1> QED  BY <1>1, <1>2

LEMMA CompleteTurnFit ==
  ASSUME NEW s, NEW I, Fit(s, I), NEW continued \in BOOLEAN PROVE Fit(CompleteTurn(s, continued), I)
<1>1. s.turn # None => s.turn.interrupted \in BOOLEAN
  BY DEF Fit, Session, Turn
<1> QED  BY <1>1, CloseFit, AfterTurnFit DEF CompleteTurn, Fit

LEMMA MaybeCompleteFit == ASSUME NEW s, NEW I, Fit(s, I) PROVE Fit(MaybeComplete(s), I)
BY CompleteTurnFit DEF MaybeComplete

LEMMA EnsureTurnFit ==
  ASSUME NEW s, NEW I, Fit(s, I), NEW id \in TurnIds PROVE Fit(EnsureTurn(s, id), I) /\ EnsureTurn(s, id).turn # None
<1>1. [s EXCEPT !.pendingInputs = @ \ {id}] \in Session /\ [s EXCEPT !.pendingInputs = @ \ {id}].injections = I
  BY DEF Session, Fit
<1> QED  BY <1>1, OpenTurnFit, NoneIsNoTurn DEF EnsureTurn

LEMMA EnsureOwnTurnFit == ASSUME NEW s, NEW I, Fit(s, I) PROVE Fit(EnsureOwnTurn(s), I)
BY EnsureTurnFit, FreshOwnType DEF EnsureOwnTurn, TurnIds

LEMMA ContinueTurnFit == ASSUME NEW s, NEW I, Fit(s, I) PROVE Fit(ContinueTurn(s), I)
BY CompleteTurnFit, EnsureOwnTurnFit DEF ContinueTurn

-----------------------------------------------------------------------------
(* Claude's messages keep it fit. *)

Prompt == [id: Commands \cup {None}, origin: {"human"}] \cup [id: OwnIds, origin: {"peer", "task"}]

LEMMA ContinuedFit ==
  ASSUME NEW s, NEW I, Fit(s, I), NEW prompt \in Prompt PROVE Fit(Continued(s, prompt), I)
<1> DEFINE seen == [s EXCEPT !.afterResult = FALSE]
<1>1. Fit(seen, I) /\ seen.turn = s.turn
  BY DEF Session, Fit
<1> HIDE DEF seen
<1>2. prompt.origin # "human" => prompt.id \in TurnIds
  BY DEF Prompt, TurnIds
<1>3. s.turn # None => s.turn.waiting \in BOOLEAN
  BY DEF Fit, Session, Turn
<1>4. Fit(ContinueTurn(seen), I)
  BY <1>1, ContinueTurnFit
<1>5. s.turn # None => Fit(CompleteTurn(seen, s.turn.waiting), I)
  BY <1>1, <1>3, CompleteTurnFit
<1>6. s.turn # None /\ prompt.origin # "human" => Fit(EnsureTurn(CompleteTurn(seen, s.turn.waiting), prompt.id), I)
  BY <1>2, <1>5, EnsureTurnFit
<1> QED  BY <1>1, <1>4, <1>6 DEF Continued, seen

LEMMA WokenFit ==
  ASSUME NEW s, NEW I, Fit(s, I), NEW prompt \in Prompt PROVE Fit(Woken(s, prompt), I)
<1> DEFINE r == IF s.afterResult THEN Continued(s, prompt) ELSE s
<1>1. Fit(r, I)
  BY ContinuedFit
<1> HIDE DEF r
<1>2. r.turn # None =>
        Fit([r EXCEPT !.turn.resultSeen = @ /\ ~r.turn.waiting, !.turn.waiting = FALSE, !.turn.limit = FALSE], I)
  <2> SUFFICES ASSUME r.turn # None
               PROVE  Fit([r EXCEPT !.turn.resultSeen = @ /\ ~r.turn.waiting, !.turn.waiting = FALSE, !.turn.limit = FALSE], I)
    OBVIOUS
  <2> DEFINE w == [r EXCEPT !.turn.resultSeen = @ /\ ~r.turn.waiting, !.turn.waiting = FALSE, !.turn.limit = FALSE]
             turn == [r.turn EXCEPT !.resultSeen = @ /\ ~r.turn.waiting, !.waiting = FALSE, !.limit = FALSE]
  <2>1. turn \in Turn /\ turn.waiting = FALSE
    BY <1>1 DEF Fit, Session, Turn
  <2>2. w = [r EXCEPT !.turn = turn]
    BY <1>1 DEF Fit, Session
  <2> HIDE DEF turn, w
  <2>3. Fit(w, I)
    BY <1>1, <2>1, <2>2 DEF Fit, Session
  <2> QED  BY <2>3 DEF w
<1> QED  BY <1>1, <1>2 DEF Woken, r

LEMMA OnRetryFit ==
  ASSUME NEW s, NEW I, Fit(s, I), NEW limit \in BOOLEAN PROVE Fit(OnRetry(s, limit), I)
BY DEF OnRetry, Fit, Session, Turn

LEMMA OnMessageFit ==
  ASSUME NEW s, NEW I, Fit(s, I), NEW prompt \in Prompt PROVE Fit(OnMessage(s, prompt), I)
<1> DEFINE o == EnsureOwnTurn(Woken(s, prompt))
<1>1. Fit(o, I)
  BY WokenFit, EnsureOwnTurnFit
<1> HIDE DEF o
<1>2. Fit([o EXCEPT !.response = TRUE], I)
  BY <1>1 DEF Fit, Session
<1> QED  BY <1>2 DEF OnMessage, o

LEMMA OnBlockFit ==
  ASSUME NEW s, NEW I, Fit(s, I), NEW prompt \in Prompt, NEW block \in {"block", "answer"}
  PROVE  Fit(OnBlock(s, prompt, block), I)
<1> DEFINE w == Woken(s, prompt)
           split == IF w.lastBlock = "answer" THEN ContinueTurn(w) ELSE w
<1>1. Fit(w, I) /\ Fit(split, I)
  BY WokenFit, ContinueTurnFit
<1> HIDE DEF w, split
<1>2. Fit([split EXCEPT !.response = TRUE, !.lastBlock = block], I)
  BY <1>1 DEF Fit, Session
<1> QED  BY <1>1, <1>2 DEF OnBlock, w, split

LEMMA OnStartedFit ==
  ASSUME NEW s, NEW I, Fit(s, I), NEW id \in Commands, id \in s.injections \/ id \in TurnIds
  PROVE  Fit(OnStarted(s, id), I)
<1> DEFINE pending == id \in s.pendingInputs
           silent == id \in s.injections
           ended == IF s.turn # None /\ s.turn.waiting /\ ~silent /\ (pending \/ ~s.notified)
                    THEN CompleteTurn(s, TRUE) ELSE s
           own == [ended EXCEPT !.timer = FALSE]
           fresh == FreshOwn([own EXCEPT !.peers = @ \cup {id}])
<1>1. Fit(ended, I)
  BY CompleteTurnFit
<1> HIDE DEF ended
<1>2. Fit(own, I)
  BY <1>1 DEF Fit, Session
<1> HIDE DEF own
<1>3. fresh \in TurnIds
  BY FreshOwnType DEF TurnIds
<1> HIDE DEF fresh
<1>4. CASE silent
  BY <1>1, <1>4 DEF OnStarted, ended
<1>5. CASE ~silent /\ pending
  <2> DEFINE e == EnsureTurn(ended, id)
  <2>1. Fit(e, I)
    BY <1>1, <1>5, EnsureTurnFit
  <2> HIDE DEF e
  <2>2. Fit([e EXCEPT !.pendingInputs = @ \ {id}], I)
    BY <2>1 DEF Fit, Session
  <2> QED  BY <2>2, <1>5 DEF OnStarted, ended, e
<1>6. CASE ~silent /\ ~pending
  <2> DEFINE e == EnsureTurn(own, id)
  <2>1. Fit(e, I) /\ Fit(EnsureTurn(own, fresh), I)
    BY <1>2, <1>3, <1>6, EnsureTurnFit
  <2> HIDE DEF e
  <2>2. Fit([e EXCEPT !.peers = @ \cup ({id} \cap OwnIds)], I)
    BY <2>1 DEF Fit, Session
  <2> QED  BY <2>1, <2>2, <1>6 DEF OnStarted, ended, own, fresh, e
<1> QED  BY <1>4, <1>5, <1>6

LEMMA OnCompletedFit ==
  ASSUME NEW s, NEW I, Fit(s, I), NEW id PROVE Fit(OnCompleted(s, id), I \ {id})
<1> DEFINE settled == [s EXCEPT !.injections = @ \ {id},
              !.calls = {IF c.at = "note" /\ c.note = id THEN [c EXCEPT !.at = "told"] ELSE c : c \in @}]
<1>1. {IF c.at = "note" /\ c.note = id THEN [c EXCEPT !.at = "told"] ELSE c : c \in s.calls} \in SUBSET Call
  BY DEF Fit, Session, Call
<1>2. Fit(settled, I \ {id})
  BY <1>1 DEF Fit, Session
<1> HIDE DEF settled
<1>3. settled.turn # None => Fit([settled EXCEPT !.turn.resultSeen = TRUE], I \ {id})
  BY <1>2 DEF Fit, Session, Turn
<1>4. settled.turn # None => Fit(MaybeComplete([settled EXCEPT !.turn.resultSeen = TRUE]), I \ {id})
  BY <1>3, MaybeCompleteFit
<1> QED  BY <1>2, <1>4 DEF OnCompleted, settled

LEMMA OnResultFit ==
  ASSUME NEW s, NEW I, Fit(s, I), NEW interrupted \in BOOLEAN PROVE Fit(OnResult(s, interrupted), I)
<1>1. s.turn # None =>
        Fit([s EXCEPT !.turn.resultSeen = TRUE, !.turn.interrupted = @ \/ interrupted, !.afterResult = TRUE], I)
  BY DEF Fit, Session, Turn
<1> QED  BY <1>1, MaybeCompleteFit DEF OnResult

LEMMA OnTaskFit ==
  ASSUME NEW s, NEW I, Fit(s, I), NEW a \in Agents
  PROVE  Fit(OnTaskStarted(s, a), I) /\ Fit(OnTaskEnded(s, a), I)
BY DEF OnTaskStarted, OnTaskEnded, Fit, Session

LEMMA OnStateFit ==
  ASSUME NEW s, NEW I, Fit(s, I) PROVE Fit(OnRunning(s), I) /\ Fit(OnIdle(s), I)
<1>1. Fit(OnRunning(s), I)
  BY DEF OnRunning, Fit, Session
<1>2. Fit([s EXCEPT !.running = FALSE], I)
  BY DEF Fit, Session
<1> QED  BY <1>1, <1>2, MaybeCompleteFit DEF OnIdle

LEMMA OnGoneFit == ASSUME NEW s, NEW I, Fit(s, I) PROVE Fit(OnGone(s), {})
<1> DEFINE noted == {c \in s.calls : c.at = "note"}
           off == [s EXCEPT !.injections = {}, !.calls = LoseInbox(@ \ noted), !.running = FALSE, !.agents = {}]
<1>1. LoseInbox(s.calls \ noted) \in SUBSET Call
  BY CallTypes DEF Fit, Session
<1>2. Fit(off, {})
  BY <1>1 DEF Fit, Session
<1> HIDE DEF off
<1>3. off.turn # None => Fit([off EXCEPT !.turn.resultSeen = TRUE], {})
  BY <1>2 DEF Fit, Session, Turn
<1> QED  BY <1>2, <1>3, MaybeCompleteFit DEF OnGone, off

-----------------------------------------------------------------------------
(* The invariant. *)

\* Context in Claude's inbox is context somebody waits for, is there once, and is not what Claude works on: so a context
\* message Claude takes is always known as one, and opens no turn (onCommand's `silent`).
ContextKnown ==
  /\ Injections \cap Elements(inbox) \subseteq session.injections
  /\ \A i \in DOMAIN inbox : inbox[i] \in Injections =>
       /\ inbox[i] \notin claude.folded \cup {claude.cmd}
       /\ \A j \in DOMAIN inbox : i # j => inbox[i] # inbox[j]

IInv ==
  /\ Fit(session, session.injections)
  /\ inbox \in Seq(Messages \cup Injections)
  /\ stop \in Seq(Stop)
  /\ claude \in Claude
  /\ history \in History
  /\ ContextKnown

\* The calls of interrupt() that wait, as one begins, Claude takes one, the first returns.
LEMMA StopsType ==
  ASSUME stop \in Seq(Stop)
  PROVE  /\ \A e \in Stop : Append(stop, e) \in Seq(Stop)
         /\ \A e \in Stop, k \in DOMAIN stop : [stop EXCEPT ![k] = e] \in Seq(Stop)
         /\ stop # <<>> => Tail(stop) \in Seq(Stop) /\ Head(stop) \in Stop
<1>1. ASSUME NEW e \in Stop PROVE Append(stop, e) \in Seq(Stop)
  BY ElementsAppend
<1>2. ASSUME NEW e \in Stop, NEW k \in DOMAIN stop PROVE [stop EXCEPT ![k] = e] \in Seq(Stop)
  <2>1. k \in 1..Len(stop)
    BY <1>2, LenProperties
  <2> QED  BY <2>1, ExceptSeq
<1>3. stop # <<>> => Tail(stop) \in Seq(Stop) /\ Head(stop) \in Stop
  BY ElementsTail
<1> QED  BY <1>1, <1>2, <1>3

LEMMA EmptyInbox ==
  <<>> \in Seq(Messages \cup Injections) /\ Elements(<<>>) = {} /\ DOMAIN <<>> = {}
BY EmptySeq DEF Elements

LEMMA InitIInv == Init => IInv
<1> SUFFICES ASSUME Init PROVE IInv
  OBVIOUS
<1>1. session \in Session /\ session.turn = None
  BY EmptySeq DEF Init, Session
<1>2. claude \in Claude
  BY DEF Init, Claude, Commands
<1>3. stop \in Seq(Stop) /\ history \in History
  BY EmptySeq DEF Init, History
<1> QED  BY <1>1, <1>2, <1>3, EmptyInbox DEF Init, IInv, Fit, ContextKnown

-----------------------------------------------------------------------------
(* What steps do to the inbox, to the context in it and to the process. *)

LEMMA EnsureQueryKeeps ==
  ASSUME claude \in Claude, EnsureQuery
  PROVE  claude' \in Claude /\ claude'.folded = claude.folded /\ claude'.cmd = claude.cmd
BY DEF EnsureQuery, Claude

LEMMA ClosedType ==
  ASSUME claude \in Claude PROVE Closed(claude) \in Claude
BY DEF Closed, Claude

LEMMA ContextUnchanged ==
  ASSUME IInv, UNCHANGED inbox, session.injections \subseteq session'.injections,
         \A i \in Injections : i \in claude'.folded \cup {claude'.cmd} => i \in claude.folded \cup {claude.cmd}
  PROVE  ContextKnown'
BY DEF IInv, ContextKnown

LEMMA ContextDropped ==
  ASSUME inbox' = <<>> PROVE ContextKnown' /\ inbox' \in Seq(Messages \cup Injections)
BY EmptyInbox DEF ContextKnown

LEMMA ContextPushed ==
  ASSUME IInv, NEW id \in Messages \cup Injections, inbox' = Append(inbox, id),
         claude'.folded = claude.folded, claude'.cmd = claude.cmd,
         session.injections \subseteq session'.injections,
         id \in Injections => id \in session'.injections \ (Elements(inbox) \cup claude.folded \cup {claude.cmd})
  PROVE  ContextKnown' /\ inbox' \in Seq(Messages \cup Injections)
<1>1. inbox \in Seq(Messages \cup Injections) /\ ContextKnown
  BY DEF IInv
<1>2. inbox' \in Seq(Messages \cup Injections) /\ Elements(inbox') = Elements(inbox) \cup {id}
  BY <1>1, ElementsAppend
<1>3. /\ Len(inbox) \in Nat /\ DOMAIN inbox = 1..Len(inbox) /\ DOMAIN inbox' = 1..(Len(inbox) + 1)
      /\ \A i \in 1..Len(inbox) : inbox'[i] = inbox[i]
      /\ inbox'[Len(inbox) + 1] = id
  BY <1>1, AppendProperties, LenProperties
<1>4. (Injections \cap Elements(inbox) \subseteq session.injections)'
  BY <1>1, <1>2 DEF ContextKnown
<1>5. ASSUME NEW i \in DOMAIN inbox', inbox'[i] \in Injections
      PROVE  inbox'[i] \notin claude'.folded \cup {claude'.cmd}
  BY <1>1, <1>3, <1>5 DEF ContextKnown
<1>6. ASSUME NEW i \in DOMAIN inbox', inbox'[i] \in Injections, NEW j \in DOMAIN inbox', i # j
      PROVE  inbox'[i] # inbox'[j]
  <2>1. \A k \in 1..Len(inbox) : inbox[k] \in Elements(inbox)
    BY <1>3 DEF Elements
  <2> QED  BY <1>1, <1>3, <1>6, <2>1 DEF ContextKnown
<1> QED  BY <1>2, <1>4, <1>5, <1>6 DEF ContextKnown

LEMMA ContextTaken ==
  ASSUME IInv, inbox # <<>>, inbox' = Tail(inbox), session'.injections = session.injections,
         claude'.folded \cup {claude'.cmd} \subseteq claude.folded \cup {claude.cmd, Head(inbox)}
  PROVE  ContextKnown' /\ inbox' \in Seq(Messages \cup Injections)
<1>1. inbox \in Seq(Messages \cup Injections) /\ ContextKnown
  BY DEF IInv
<1>2. /\ inbox' \in Seq(Messages \cup Injections)
      /\ Head(inbox) = inbox[1] /\ 1 \in DOMAIN inbox
      /\ Len(inbox) \in Nat /\ DOMAIN inbox = 1..Len(inbox) /\ DOMAIN inbox' = 1..(Len(inbox) - 1)
      /\ \A i \in DOMAIN inbox' : inbox'[i] = inbox[i + 1] /\ i + 1 \in DOMAIN inbox
      /\ Elements(inbox') \subseteq Elements(inbox)
  BY <1>1, ElementsTail
<1>3. (Injections \cap Elements(inbox) \subseteq session.injections)'
  BY <1>1, <1>2 DEF ContextKnown
<1>4. ASSUME NEW i \in DOMAIN inbox', inbox'[i] \in Injections
      PROVE  inbox'[i] \notin claude'.folded \cup {claude'.cmd}
  <2>1. inbox[i + 1] # inbox[1]
    <3>1. i + 1 # 1 /\ i + 1 \in DOMAIN inbox /\ inbox[i + 1] \in Injections
      BY <1>2, <1>4
    <3> QED  BY <1>1, <1>2, <3>1 DEF ContextKnown
  <2> QED  BY <1>1, <1>2, <1>4, <2>1 DEF ContextKnown
<1>5. ASSUME NEW i \in DOMAIN inbox', inbox'[i] \in Injections, NEW j \in DOMAIN inbox', i # j
      PROVE  inbox'[i] # inbox'[j]
  <2>1. i + 1 # j + 1 /\ i + 1 \in DOMAIN inbox /\ j + 1 \in DOMAIN inbox /\ inbox[i + 1] \in Injections
    BY <1>2, <1>5
  <2> QED  BY <1>1, <1>2, <2>1 DEF ContextKnown
<1> QED  BY <1>2, <1>3, <1>4, <1>5 DEF ContextKnown

-----------------------------------------------------------------------------
(* Clients' steps. *)

LEMMA SeqOf ==
  ASSUME NEW S, NEW n \in Nat, NEW q \in [1..n -> S] PROVE q \in Seq(S) /\ Len(q) = n
BY SeqDef, LenProperties

LEMMA WithoutEntryType ==
  ASSUME NEW S, NEW q \in Seq(S), NEW k \in DOMAIN q
  PROVE  WithoutEntry(q, k) \in Seq(S) /\ q[k] \in S /\ q # <<>>
<1>1. Len(q) \in Nat /\ DOMAIN q = 1..Len(q) /\ (\A i \in 1..Len(q) : q[i] \in S)
  BY LenProperties, ElementOfSeq
<1>2. Len(q) - 1 \in Nat /\ k \in 1..Len(q) /\ k \in Nat
  BY <1>1
<1>3. WithoutEntry(q, k) \in [1..(Len(q) - 1) -> S]
  BY <1>1, <1>2 DEF WithoutEntry
<1>4. q # <<>>
  BY EmptyInbox
<1> QED  BY <1>1, <1>2, <1>3, <1>4, SeqOf

LEMMA ReorderType ==
  ASSUME NEW S, NEW q \in Seq(S), NEW order \in [DOMAIN q -> Elements(q)]
  PROVE  order \in Seq(S) /\ (q = <<>> => order = q)
<1>1. Len(q) \in Nat /\ DOMAIN q = 1..Len(q) /\ (\A i \in 1..Len(q) : q[i] \in S)
  BY LenProperties, ElementOfSeq
<1>2. order \in [1..Len(q) -> S]
  BY <1>1 DEF Elements
<1>3. order \in Seq(S) /\ Len(order) = Len(q)
  BY <1>1, <1>2, SeqOf
<1> QED  BY <1>3, EmptySeq

LEMMA CompletedFits ==
  ASSUME IInv, session.turn # None
  PROVE  Fit(CompleteTurn(session, TRUE), session.injections)
BY CompleteTurnFit DEF IInv

LEMMA StartTurnKeeps ==
  ASSUME IInv, NEW m \in Messages, NEW ultra \in UltraChoices, StartTurn(m, ultra) PROVE IInv'
<1>1. Fit(session', session.injections)
  BY ZenonT(80), CallTypes, SwitchesAreBoolean DEF IInv, Fit, StartTurn, Session
<1>2. history' \in History
  BY DEF IInv, StartTurn, History
<1> QED  BY <1>1, <1>2, ContextUnchanged DEF IInv, Fit, StartTurn

LEMMA ResumeStartKeeps ==
  ASSUME IInv, NEW c, ResumeStart(c) PROVE IInv'
<1> DEFINE s == IF session.turn # None /\ session.turn.waiting THEN CompleteTurn(session, TRUE) ELSE session
           gone == [s EXCEPT !.calls = @ \ {c}]
<1>1. c \in Call /\ c.id \in Messages
  BY DEF IInv, Fit, Session, ResumeStart, Call
<1>2. Fit(s, session.injections)
  BY CompleteTurnFit DEF IInv
<1> HIDE DEF s
<1>3. Fit(gone, session.injections) /\ gone.turn = s.turn
  BY <1>2 DEF Fit, Session
<1> HIDE DEF gone
<1>4. CASE s.turn # None
  <2>1. session' = [gone EXCEPT !.pendingInputs = @ \cup {c.id}] /\ Push(c.id) /\ UNCHANGED <<stop, history>>
    BY <1>4 DEF ResumeStart, s, gone
  <2>2. Fit([gone EXCEPT !.pendingInputs = @ \cup {c.id}], session.injections)
    BY <1>1, <1>3 DEF Fit, Session
  <2>3. claude' \in Claude /\ claude'.folded = claude.folded /\ claude'.cmd = claude.cmd
    BY <2>1, EnsureQueryKeeps DEF Push, IInv
  <2>4. ContextKnown' /\ inbox' \in Seq(Messages \cup Injections)
    BY <1>1, <2>1, <2>2, <2>3, ContextPushed, IdsDisjoint DEF Push, Fit
  <2> QED  BY <2>1, <2>2, <2>3, <2>4 DEF IInv, Fit
<1>5. CASE s.turn = None /\ s.ultra # s.delegating
  <2>1. PICK i \in FreeInjections :
          /\ session' = [gone EXCEPT !.delegating = ~@, !.injections = @ \cup {i}, !.calls = @ \cup {NoteCall(c.id, i)}]
          /\ Push(i) /\ UNCHANGED <<stop, history>>
    BY <1>5 DEF ResumeStart, s, gone
  <2>2. i \in Injections \ (Elements(inbox) \cup claude.folded \cup {claude.cmd})
    BY DEF FreeInjections
  <2>3. Fit([gone EXCEPT !.delegating = ~@, !.injections = @ \cup {i}, !.calls = @ \cup {NoteCall(c.id, i)}],
            session.injections \cup {i})
    <3> DEFINE told == ~gone.delegating
               noted == gone.calls \cup {NoteCall(c.id, i)}
    <3>1. noted \in SUBSET Call
      BY <1>1, <1>3, <2>2, CallTypes DEF Fit, Session
    <3>2. told \in BOOLEAN
      OBVIOUS
    <3> HIDE DEF told, noted
    <3>3. i \in Injections
      BY <2>2
    <3>4. Fit([gone EXCEPT !.injections = @ \cup {i}], session.injections \cup {i})
      BY <1>3, <3>3 DEF Fit, Session
    <3>5. Fit([gone EXCEPT !.delegating = told, !.injections = @ \cup {i}, !.calls = noted], session.injections \cup {i})
      BY ZenonT(80), <1>3, <3>1, <3>2, <3>4 DEF Fit, Session
    <3> QED  BY <3>5 DEF told, noted
  <2>4. claude' \in Claude /\ claude'.folded = claude.folded /\ claude'.cmd = claude.cmd
    BY <2>1, EnsureQueryKeeps DEF Push, IInv
  <2>5. ContextKnown' /\ inbox' \in Seq(Messages \cup Injections)
    BY <2>1, <2>2, <2>3, <2>4, ContextPushed DEF Push, Fit
  <2> QED  BY <2>1, <2>3, <2>4, <2>5 DEF IInv, Fit
<1>6. CASE s.turn = None /\ ~(s.ultra # s.delegating)
  <2>1. session' = OpenTurnDeferred(gone, c.id) /\ UNCHANGED <<inbox, claude, stop, history>>
    BY <1>6 DEF ResumeStart, s, gone
  <2>2. Fit(session', session.injections)
    BY <1>1, <1>3, <2>1, OpenTurnDeferredFit DEF Fit
  <2> QED  BY <2>1, <2>2, ContextUnchanged DEF IInv, Fit
<1> QED  BY <1>4, <1>5, <1>6

LEMMA ResumeToldKeeps ==
  ASSUME IInv, NEW c, ResumeTold(c) PROVE IInv'
<1>1. c.id \in Messages
  BY DEF IInv, Fit, Session, ResumeTold, Call
<1>2. [session EXCEPT !.calls = @ \ {c}] \in Session
  BY DEF IInv, Fit, Session
<1>3. [session EXCEPT !.calls = @ \ {c}].injections = session.injections
  BY DEF IInv, Fit, Session
<1>4. Fit(session', session.injections)
  BY <1>1, <1>2, <1>3, OpenTurnDeferredFit DEF ResumeTold
<1> QED  BY <1>4, ContextUnchanged DEF IInv, Fit, ResumeTold

LEMMA FailStartKeeps ==
  ASSUME IInv, NEW c, FailStart(c) PROVE IInv'
<1>1. c.id \in Messages
  BY DEF IInv, Fit, Session, FailStart, Call
<1>2. Fit(session', session.injections)
  BY DEF IInv, Fit, FailStart, Session
<1>3. history' \in History
  BY <1>1 DEF IInv, FailStart, History
<1> QED  BY <1>2, <1>3, ContextUnchanged DEF IInv, Fit, FailStart

LEMMA DeliverKeeps ==
  ASSUME IInv, NEW m \in Messages, Deliver(m) PROVE IInv'
<1>1. Fit(session', session.injections)
  BY DEF IInv, Fit, Deliver, Announce, Session, TurnIds
<1>2. claude' \in Claude /\ claude'.folded = claude.folded /\ claude'.cmd = claude.cmd
  BY EnsureQueryKeeps DEF Deliver, Push, IInv
<1>3. ContextKnown' /\ inbox' \in Seq(Messages \cup Injections)
  BY <1>1, <1>2, ContextPushed, IdsDisjoint DEF Deliver, Push, Fit
<1> QED  BY <1>1, <1>2, <1>3 DEF IInv, Fit, Deliver

LEMMA SteerKeeps ==
  ASSUME IInv, NEW m \in Messages, Steer(m) PROVE IInv'
<1>1. Fit(session', session.injections)
  BY ZenonT(80), CallTypes DEF IInv, Fit, Steer, Session
<1>2. claude' \in Claude /\ claude'.folded = claude.folded /\ claude'.cmd = claude.cmd
  BY EnsureQueryKeeps DEF Steer, IInv
<1>3. history' \in History
  BY DEF IInv, Steer, History
<1> QED  BY <1>1, <1>2, <1>3, ContextUnchanged DEF IInv, Fit, Steer

LEMMA ResumeSteerKeeps ==
  ASSUME IInv, NEW c, ResumeSteer(c) PROVE IInv'
<1>1. c.id \in Messages
  BY DEF IInv, Fit, Session, ResumeSteer, Call
<1>2. Fit(session', session.injections) /\ UNCHANGED <<stop, claude>>
  BY DEF IInv, Fit, ResumeSteer, Session
<1>3. CASE c.at = "steer"
  <2>1. inbox' = Append(inbox, c.id) /\ UNCHANGED history
    BY <1>3 DEF ResumeSteer
  <2>2. ContextKnown' /\ inbox' \in Seq(Messages \cup Injections)
    BY <1>1, <1>2, <2>1, ContextPushed, IdsDisjoint DEF Fit
  <2> QED  BY <1>2, <2>1, <2>2 DEF IInv, Fit
<1>4. CASE c.at # "steer"
  <2>1. history' \in History /\ UNCHANGED inbox
    BY <1>1, <1>4 DEF ResumeSteer, IInv, History
  <2> QED  BY <1>2, <2>1, ContextUnchanged DEF IInv, Fit
<1> QED  BY <1>3, <1>4

LEMMA QueueAddKeeps ==
  ASSUME IInv, NEW m \in Messages, QueueAdd(m) PROVE IInv'
<1>1. Append(session.queued, m) \in Seq(Messages)
  BY ElementsAppend DEF IInv, Fit, Session
<1>2. Fit(session', session.injections)
  BY ZenonT(80), <1>1, CallTypes DEF IInv, Fit, QueueAdd, Session
<1>3. history' \in History
  BY DEF IInv, QueueAdd, History
<1> QED  BY <1>2, <1>3, ContextUnchanged DEF IInv, Fit, QueueAdd

LEMMA QueueStartKeeps ==
  ASSUME IInv, NEW k, QueueStart(k) PROVE IInv'
<1> DEFINE m == session.queued[k]
           rest == [session EXCEPT !.queued = WithoutEntry(@, k)]
<1>1. WithoutEntry(session.queued, k) \in Seq(Messages) /\ m \in Messages /\ session.queued # <<>>
  BY WithoutEntryType DEF IInv, Fit, Session, QueueStart
<1>2. Fit(rest, session.injections) /\ rest.turn = session.turn
  BY <1>1 DEF IInv, Fit, Session
<1> HIDE DEF rest
<1>a. StartCall(m) \in Call /\ SteerCall(m) \in Call /\ m \in Messages
  BY <1>1, CallTypes
<1> HIDE DEF m
<1>4. Fit([rest EXCEPT !.calls = @ \cup {StartCall(m)}], session.injections)
  BY <1>a, <1>2 DEF Fit, Session
<1>5. Fit([rest EXCEPT !.pendingInputs = @ \cup {m}, !.calls = @ \cup {SteerCall(m)}], session.injections)
  BY <1>a, <1>2 DEF Fit, Session
<1>3. history' \in History
  <2>1. CASE UNCHANGED history
    BY <2>1 DEF IInv
  <2>2. CASE history' = [history EXCEPT !.dropped = @ \cup {m}, !.refused = IF session.turn.waiting THEN @ ELSE @ \cup {m}]
    BY <1>a, <2>2 DEF IInv, History
  <2> QED  BY <2>1, <2>2 DEF QueueStart, m
<1>6. Fit(session', session.injections) /\ UNCHANGED <<inbox, stop>>
  BY <1>2, <1>4, <1>5 DEF QueueStart, rest, m
<1>7. claude' \in Claude /\ claude'.folded = claude.folded /\ claude'.cmd = claude.cmd
  BY EnsureQueryKeeps DEF QueueStart, IInv
<1> QED  BY <1>3, <1>6, <1>7, ContextUnchanged DEF IInv, Fit

LEMMA QueueEditKeeps ==
  ASSUME IInv,
         \/ \E k \in DOMAIN session.queued : QueueDelete(k)
         \/ \E order \in [DOMAIN session.queued -> Elements(session.queued)] : QueueReorder(order)
  PROVE  IInv'
<1>1. session \in Session /\ session.queued \in Seq(Messages)
  BY DEF IInv, Fit, Session
<1>2. CASE \E k \in DOMAIN session.queued : QueueDelete(k)
  <2>1. PICK k \in DOMAIN session.queued : QueueDelete(k)
    BY <1>2
  <2>2. WithoutEntry(session.queued, k) \in Seq(Messages) /\ session.queued # <<>>
    BY <1>1, <2>1, WithoutEntryType
  <2>3. Fit(session', session.injections)
    BY <2>1, <2>2 DEF IInv, Fit, QueueDelete, Session
  <2>4. history' \in History
    BY <2>1 DEF IInv, QueueDelete, History
  <2> QED  BY <2>1, <2>3, <2>4, ContextUnchanged DEF IInv, Fit, QueueDelete
<1>3. CASE \E order \in [DOMAIN session.queued -> Elements(session.queued)] : QueueReorder(order)
  <2>1. PICK order \in [DOMAIN session.queued -> Elements(session.queued)] : QueueReorder(order)
    BY <1>3
  <2>2. order \in Seq(Messages) /\ session.queued # <<>>
    BY <1>1, <2>1, ReorderType DEF QueueReorder
  <2>3. Fit(session', session.injections)
    BY <2>1, <2>2 DEF IInv, Fit, QueueReorder, Session
  <2> QED  BY <2>1, <2>3, ContextUnchanged DEF IInv, Fit, QueueReorder
<1> QED  BY <1>2, <1>3

LEMMA InjectKeeps ==
  ASSUME IInv, NEW i \in Injections, Inject(i) PROVE IInv'
<1>1. Fit(session', session.injections \cup {i})
  BY DEF IInv, Fit, Inject, Session
<1>2. claude' \in Claude /\ claude'.folded = claude.folded /\ claude'.cmd = claude.cmd
  BY EnsureQueryKeeps DEF Inject, Push, IInv
<1>3. ContextKnown' /\ inbox' \in Seq(Messages \cup Injections)
  BY <1>1, <1>2, ContextPushed DEF Inject, Push, FreeInjections, Fit
<1> QED  BY <1>1, <1>2, <1>3 DEF IInv, Fit, Inject

\* interrupt() once it marked the turn.
Asked(awaited) ==
  [session EXCEPT !.turn.interrupted = TRUE,
                  !.waiters = IF awaited THEN @ \cup {session.turn.id} ELSE @,
                  !.unheard = @ \/ (awaited /\ session.turn.id \in session.waiters)]

\* The turn, the waiters and the flag of the waiters nobody tells are set, the rest stays.
Sets(s, t, r) ==
  /\ r \in Session /\ r.turn = t /\ r.injections = s.injections
  /\ r.queued = s.queued /\ r.calls = s.calls /\ r.deferred = s.deferred /\ r.ultra = s.ultra
  /\ r.delegating = s.delegating /\ r.open = s.open /\ r.active = s.active /\ r.running = s.running

LEMMA SetsTurn ==
  ASSUME NEW s \in Session, NEW t \in Turn, NEW w \in SUBSET TurnIds, NEW u \in BOOLEAN
  PROVE  Sets(s, t, [s EXCEPT !.turn = t, !.waiters = w, !.unheard = u])
<1> DEFINE r == [s EXCEPT !.turn = t, !.waiters = w, !.unheard = u]
<1>1. t \in Turn \cup {None}
  OBVIOUS
<1>2. r \in Session
  BY <1>1 DEF Session
<1>3. /\ r.turn = t /\ r.injections = s.injections
      /\ r.queued = s.queued /\ r.calls = s.calls /\ r.deferred = s.deferred /\ r.ultra = s.ultra
      /\ r.delegating = s.delegating /\ r.open = s.open /\ r.active = s.active /\ r.running = s.running
  BY DEF Session
<1> HIDE DEF r
<1>4. Sets(s, t, r)
  BY <1>2, <1>3 DEF Sets
<1> QED  BY <1>4 DEF r

LEMMA AskedFit ==
  ASSUME IInv, NEW awaited \in BOOLEAN, session.turn # None
  PROVE  /\ Fit(Asked(awaited), session.injections)
         /\ Asked(awaited).queued = session.queued /\ Asked(awaited).calls = session.calls
         /\ Asked(awaited).deferred = session.deferred /\ Asked(awaited).ultra = session.ultra
         /\ Asked(awaited).delegating = session.delegating /\ Asked(awaited).open = session.open
         /\ Asked(awaited).active = session.active /\ Asked(awaited).running = session.running
         /\ Asked(awaited).turn \in Turn /\ Asked(awaited).turn.id = session.turn.id
         /\ Asked(awaited).turn.waiting = session.turn.waiting /\ Asked(awaited).turn.interrupted = TRUE
<1> DEFINE turn == [session.turn EXCEPT !.interrupted = TRUE]
<1>1. Fit(session, session.injections) /\ session \in Session /\ session.turn \in Turn
  BY DEF IInv, Fit, Session
<1>2. turn \in Turn /\ turn.id = session.turn.id /\ turn.waiting = session.turn.waiting /\ turn.interrupted = TRUE
      /\ turn.resultSeen = session.turn.resultSeen
  BY <1>1 DEF Turn
<1>3. PICK w \in SUBSET TurnIds : w = IF awaited THEN session.waiters \cup {session.turn.id} ELSE session.waiters
  BY <1>1 DEF Session, Turn
<1>4. PICK u \in BOOLEAN : u = (session.unheard \/ (awaited /\ session.turn.id \in session.waiters))
  OBVIOUS
<1>5. Asked(awaited) = [session EXCEPT !.turn = turn, !.waiters = w, !.unheard = u]
  BY <1>3, <1>4, Zenon DEF Asked
<1> HIDE DEF turn
<1>6. Sets(session, turn, Asked(awaited))
  <2>1. Sets(session, turn, [session EXCEPT !.turn = turn, !.waiters = w, !.unheard = u])
    BY <1>1, <1>2, SetsTurn
  <2> QED  BY <1>5, <2>1, Zenon
<1>7. Fit(Asked(awaited), session.injections)
  BY <1>1, <1>2, <1>6 DEF Fit, Sets
<1> QED  BY <1>2, <1>6, <1>7 DEF Sets

LEMMA InterruptIs ==
  ASSUME NEW awaited \in BOOLEAN, Interrupt(awaited)
  PROVE  session.turn # None /\ session' = IF loaded THEN Asked(awaited) ELSE CompleteTurn(Asked(awaited), FALSE)
BY DEF Interrupt, Asked

LEMMA InterruptKeeps ==
  ASSUME IInv, NEW awaited \in BOOLEAN, Interrupt(awaited) PROVE IInv'
<1>1. Fit(Asked(awaited), session.injections)
  BY InterruptIs, AskedFit
<1>2. Fit(CompleteTurn(Asked(awaited), FALSE), session.injections)
  BY <1>1, CompleteTurnFit
<1>3. Fit(session', session.injections)
  BY <1>1, <1>2, InterruptIs
<1>4. stop' \in Seq(Stop)
  <2>1. [at |-> "asked", cancelled |-> {}] \in Stop
    BY DEF Stop
  <2> QED  BY <2>1, StopsType DEF Interrupt, IInv
<1> QED  BY <1>3, <1>4, ContextUnchanged DEF IInv, Fit, Interrupt

-----------------------------------------------------------------------------
(* The object's own steps. *)

LEMMA InterruptReturnsKeeps == ASSUME IInv, InterruptReturns PROVE IInv'
<1> DEFINE s == [session EXCEPT !.pendingInputs = @ \ Head(stop).cancelled, !.agents = {}]
<1>1. Fit(s, session.injections)
  BY DEF IInv, Fit, Session
<1> HIDE DEF s
<1>2. s.turn # None => Fit([s EXCEPT !.turn.resultSeen = TRUE], session.injections)
  BY <1>1 DEF Fit, Session, Turn
<1>3. s.turn # None => Fit(CompleteTurn([s EXCEPT !.turn.resultSeen = TRUE], FALSE), session.injections)
  BY <1>2, CompleteTurnFit
<1>4. Fit(session', session.injections)
  BY <1>1, <1>3 DEF InterruptReturns, s
<1>5. stop' \in Seq(Stop)
  BY StopsType DEF InterruptReturns, IInv
<1> QED  BY <1>4, <1>5, ContextUnchanged DEF IInv, Fit, InterruptReturns

LEMMA RunningTimerKeeps == ASSUME IInv, RunningTimer PROVE IInv'
<1>1. Fit([session EXCEPT !.timer = FALSE], session.injections)
  BY DEF IInv, Fit, Session
<1>2. Fit(session', session.injections)
  BY <1>1, EnsureOwnTurnFit DEF RunningTimer
<1> QED  BY <1>2, ContextUnchanged DEF IInv, Fit, RunningTimer

LEMMA PeerReadKeeps ==
  ASSUME IInv, NEW id \in OwnIds, NEW found \in BOOLEAN, PeerRead(id, found) PROVE IInv'
<1> DEFINE cut == CompleteTurn(session, session.turn.waiting)
           read == IF /\ found
                      /\ id \in claude.peers
                      /\ session.turn # None /\ session.turn.id # id /\ session.turn.resultSeen
                      /\ session.queued = <<>>
                   THEN EnsureTurn(cut, id) ELSE session
<1>1. session.turn # None => Fit(EnsureTurn(cut, id), session.injections)
  <2>1. session.turn # None => session.turn.waiting \in BOOLEAN
    BY DEF IInv, Fit, Session, Turn
  <2> QED  BY <2>1, CompleteTurnFit, EnsureTurnFit DEF IInv, TurnIds
<1>2. Fit(read, session.injections)
  BY <1>1 DEF IInv
<1>3. session' = [read EXCEPT !.peers = @ \ {id}]
  BY DEF PeerRead
<1> HIDE DEF read
<1>4. Fit(session', session.injections)
  BY <1>2, <1>3 DEF Fit, Session
<1>5. claude' \in Claude /\ claude'.folded = claude.folded /\ claude'.cmd = claude.cmd
  BY DEF IInv, PeerRead, Claude
<1> QED  BY <1>4, <1>5, ContextUnchanged DEF IInv, Fit, PeerRead

LEMMA SweepKeeps == ASSUME IInv, Sweep PROVE IInv'
<1>1. Fit(session', session.injections)
  BY CallTypes DEF IInv, Fit, Sweep, Session
<1>2. history' \in History
  BY DEF IInv, Sweep, History
<1> QED  BY <1>1, <1>2, ClosedType, ContextDropped DEF IInv, Fit, Sweep

-----------------------------------------------------------------------------
(* Claude's steps. *)

\* A step of Claude's that leaves the inbox alone and takes no context keeps the invariant if what it does to the object does.
LEMMA ClaudeKeeps ==
  ASSUME IInv, UNCHANGED <<inbox, stop, history>>, Fit(session', session.injections), claude' \in Claude,
         claude'.folded \subseteq claude.folded, claude'.cmd \in OwnIds \cup {None, claude.cmd}
  PROVE  IInv'
BY ContextUnchanged, IdsDisjoint DEF IInv, Fit

LEMMA ClaudeStateKeeps == ASSUME IInv, ClaudeRuns \/ ClaudeWakes \/ ClaudeIdles PROVE IInv'
<1>1. Fit(session', session.injections)
  BY OnStateFit DEF IInv, ClaudeRuns, ClaudeWakes, ClaudeIdles
<1>2. claude' \in Claude /\ claude'.folded = claude.folded /\ claude'.cmd = claude.cmd
  BY SMTT(40) DEF IInv, ClaudeRuns, ClaudeWakes, ClaudeIdles, Claude
<1> QED  BY <1>1, <1>2, ClaudeKeeps DEF ClaudeRuns, ClaudeWakes, ClaudeIdles

LEMMA ClaudeReadsKeeps == ASSUME IInv, ClaudeTakes \/ ClaudeFolds PROVE IInv'
<1> DEFINE id == Head(inbox)
<1>1. inbox # <<>> /\ session' = OnStarted(session, id) /\ Taken(id) /\ inbox' = Tail(inbox) /\ UNCHANGED stop
  BY DEF ClaudeTakes, ClaudeFolds
<1>2. id \in Messages \cup Injections /\ id \in Elements(inbox)
  BY <1>1, ElementsTail DEF IInv
<1> HIDE DEF id
<1>3. id \in session.injections \/ id \in TurnIds
  BY <1>2 DEF IInv, ContextKnown, TurnIds
<1>4. Fit(session', session.injections)
  BY <1>1, <1>2, <1>3, OnStartedFit DEF IInv, Commands
<1>5. history' \in History
  BY <1>1 DEF IInv, Taken, History
<1>6. claude' \in Claude /\ claude'.folded \cup {claude'.cmd} \subseteq claude.folded \cup {claude.cmd, id}
  <2>1. CASE ClaudeTakes
    BY <1>2, <2>1 DEF IInv, ClaudeTakes, Claude, Commands, id
  <2>2. CASE ClaudeFolds
    BY <1>2, <2>2 DEF IInv, ClaudeFolds, Claude, Commands, id
  <2> QED  BY <2>1, <2>2
<1>7. ContextKnown' /\ inbox' \in Seq(Messages \cup Injections)
  BY <1>1, <1>4, <1>6, ContextTaken DEF id, Fit
<1> QED  BY <1>1, <1>4, <1>5, <1>6, <1>7 DEF IInv, Fit

LEMMA ClaudeAloneKeeps ==
  ASSUME IInv, NEW origin \in {"peer", "task"}, ClaudeStartsOwn(origin) \/ ClaudeGoesOn(origin) PROVE IInv'
<1> DEFINE id == FreshOwn(session)
<1>1. id \in OwnIds /\ id \in Commands /\ id \in TurnIds
  BY FreshOwnType DEF Commands, TurnIds
<1>2. CASE ClaudeStartsOwn(origin)
  <2>1. Fit(session', session.injections)
    BY <1>1, <1>2, OnStartedFit DEF IInv, ClaudeStartsOwn
  <2>2. claude' \in Claude /\ claude'.folded = claude.folded /\ claude'.cmd \in OwnIds
    BY <1>1, <1>2 DEF IInv, ClaudeStartsOwn, Claude
  <2> QED  BY <1>2, <2>1, <2>2, ClaudeKeeps DEF ClaudeStartsOwn
<1>3. CASE ClaudeGoesOn(origin)
  <2>1. claude' \in Claude /\ claude'.folded = claude.folded /\ claude'.cmd = None
    BY <1>1, <1>3 DEF IInv, ClaudeGoesOn, Claude
  <2> QED  BY <1>3, <2>1, ClaudeKeeps DEF ClaudeGoesOn, IInv
<1> QED  BY <1>2, <1>3

LEMMA ClaudeWorksKeeps ==
  ASSUME IInv, ClaudeSpeaks \/ ClaudeRetries \/ ClaudeCompacts \/ \E block \in {"block", "answer"} : ClaudeBlocks(block)
  PROVE  IInv'
<1>1. claude.prompt \in Prompt
  BY DEF IInv, Claude, Prompt
<1>2. Fit(session', session.injections)
  BY <1>1, OnMessageFit, OnBlockFit, OnRetryFit, EnsureOwnTurnFit
     DEF IInv, ClaudeSpeaks, ClaudeBlocks, ClaudeRetries, ClaudeCompacts
<1> QED  BY <1>2, ClaudeKeeps DEF IInv, ClaudeSpeaks, ClaudeBlocks, ClaudeRetries, ClaudeCompacts

LEMMA ClaudeAgentKeeps ==
  ASSUME IInv, NEW a \in Agents, ClaudeStartsAgent(a) \/ ClaudeEndsAgent(a) PROVE IInv'
<1>1. Fit(session', session.injections)
  BY OnTaskFit DEF IInv, ClaudeStartsAgent, ClaudeEndsAgent
<1>2. claude' \in Claude /\ claude'.folded = claude.folded /\ claude'.cmd = claude.cmd
  <2>1. CASE ClaudeStartsAgent(a)
    BY <2>1 DEF IInv, ClaudeStartsAgent, Claude
  <2>2. CASE ClaudeEndsAgent(a)
    BY <2>2 DEF IInv, ClaudeEndsAgent, Claude
  <2> QED  BY <2>1, <2>2
<1> QED  BY <1>1, <1>2, ClaudeKeeps DEF ClaudeStartsAgent, ClaudeEndsAgent

LEMMA ClaudeResultKeeps == ASSUME IInv, ClaudeResult PROVE IInv'
<1>1. Fit(session', session.injections)
  BY OnResultFit DEF IInv, ClaudeResult, Claude
<1>2. claude' \in Claude /\ claude'.folded = claude.folded /\ claude'.cmd = claude.cmd
  BY DEF IInv, ClaudeResult, Claude
<1> QED  BY <1>1, <1>2, ClaudeKeeps DEF ClaudeResult

\* The context completed is not in the inbox, so what is there is still waited for.
LEMMA ClaudeCompletedKeeps ==
  ASSUME IInv, ClaudeCompletes \/ \E id \in Commands : ClaudeCompletesFolded(id) PROVE IInv'
<1>1. UNCHANGED <<inbox, stop, history>>
  BY DEF ClaudeCompletes, ClaudeCompletesFolded
<1>2. claude' \in Claude /\ claude'.folded \subseteq claude.folded /\ claude'.cmd \in {None, claude.cmd}
  <2>1. CASE ClaudeCompletes
    BY <2>1 DEF IInv, ClaudeCompletes, Claude
  <2>2. CASE \E id \in Commands : ClaudeCompletesFolded(id)
    BY SMTT(40), <2>2 DEF IInv, ClaudeCompletesFolded, Claude
  <2> QED  BY <2>1, <2>2
<1>3. PICK id \in claude.folded \cup {claude.cmd} : Fit(session', session.injections \ {id})
  <2>1. CASE ClaudeCompletes /\ claude.cmd # None
    BY <2>1, OnCompletedFit DEF ClaudeCompletes, IInv
  <2>2. CASE ClaudeCompletes /\ claude.cmd = None
    <3>1. session.injections \ {None} = session.injections
      BY IdsDisjoint DEF IInv, Fit, Session
    <3> QED  BY <2>2, <3>1 DEF ClaudeCompletes, IInv
  <2>3. CASE \E id \in Commands : ClaudeCompletesFolded(id)
    BY <2>3, OnCompletedFit DEF ClaudeCompletesFolded, IInv
  <2> QED  BY <2>1, <2>2, <2>3
<1>4. ASSUME id \in Injections PROVE id \notin Elements(inbox)
  BY <1>4 DEF IInv, ContextKnown, Elements
<1>5. ContextKnown'
  BY <1>1, <1>2, <1>3, <1>4, IdsDisjoint DEF IInv, ContextKnown, Fit, Elements
<1> QED  BY <1>1, <1>2, <1>3, <1>5 DEF IInv, Fit

LEMMA ClaudeInterruptedKeeps == ASSUME IInv, ClaudeInterrupted PROVE IInv'
<1>1. claude' \in Claude
  BY DEF IInv, ClaudeInterrupted, Claude
<1>2. history' \in History
  BY DEF IInv, ClaudeInterrupted, History
<1>3. stop' \in Seq(Stop)
  <2> DEFINE acted == [at |-> "acted", cancelled |-> Messages \cap Elements(inbox)]
  <2>1. acted \in Stop
    BY DEF Stop
  <2>2. \E k \in DOMAIN stop : stop' = [stop EXCEPT ![k] = acted]
    BY DEF ClaudeInterrupted
  <2> HIDE DEF acted
  <2> QED  BY <2>1, <2>2, StopsType DEF IInv
<1> QED  BY <1>1, <1>2, <1>3, ContextDropped DEF IInv, Fit, ClaudeInterrupted

LEMMA ClaudeDiesKeeps == ASSUME IInv, ClaudeDies PROVE IInv'
<1>1. Fit(session', {})
  BY OnGoneFit DEF IInv, ClaudeDies
<1>2. history' \in History
  BY DEF IInv, Fit, Session, Call, ClaudeDies, History
<1> QED  BY <1>1, <1>2, ClosedType, ContextDropped DEF IInv, Fit, ClaudeDies

-----------------------------------------------------------------------------
(* The theorems. *)

LEMMA NextIInv == IInv /\ [Next]_vars => IInv'
<1> SUFFICES ASSUME IInv, [Next]_vars PROVE IInv'
  OBVIOUS
<1>1. CASE UNCHANGED vars
  BY <1>1 DEF vars, IInv, ContextKnown
<1>2. CASE Immediates
  BY <1>2, DeliverKeeps DEF Immediates, IInv, Fit, Session
<1>3. CASE Clients
  BY <1>3, StartTurnKeeps, SteerKeeps, QueueAddKeeps, QueueStartKeeps, QueueEditKeeps, InjectKeeps, InterruptKeeps
     DEF Clients
<1>4. CASE Resumes
  BY <1>4, ResumeStartKeeps, ResumeToldKeeps, ResumeSteerKeeps, InterruptReturnsKeeps, RunningTimerKeeps, PeerReadKeeps
     DEF Resumes, CallOf
<1>5. CASE ClaudeActs
  BY <1>5, ClaudeStateKeeps, ClaudeReadsKeeps, ClaudeAloneKeeps, ClaudeWorksKeeps, ClaudeAgentKeeps, ClaudeResultKeeps,
     ClaudeCompletedKeeps, ClaudeInterruptedKeeps
     DEF ClaudeActs
<1>6. CASE (\E c \in session.calls : FailStart(c)) \/ Sweep \/ ClaudeDies
  BY <1>6, FailStartKeeps, SweepKeeps, ClaudeDiesKeeps
<1> QED  BY <1>1, <1>2, <1>3, <1>4, <1>5, <1>6 DEF Next

LEMMA Invariant == Spec => []IInv
BY InitIInv, NextIInv, PTL DEF Spec

\* In every chat, whatever clients and Claude do, the object's fields stay what their types say: above all, no call and no
\* turn is ever entered under the id of injected context, which has no turn (onCommand's `silent`).
THEOREM TypeCorrect == Spec => []TypeOK
<1>1. IInv => TypeOK
  BY DEF IInv, Fit, TypeOK
<1> QED  BY <1>1, Invariant, PTL

\* A turn that only waits for sub-agents ended for the client: nothing is queued behind it, and Claude's result is in
\* (waitForAgents, thread/queue/add, thread/queue/start).
THEOREM WaitingTurnsAreOver == Spec => []WaitingTurnIsOver
<1>1. IInv => WaitingTurnIsOver
  BY DEF IInv, Fit, WaitingTurnIsOver
<1> QED  BY <1>1, Invariant, PTL

-----------------------------------------------------------------------------
(* What a handler does to the turn, to the queue and to the prompts the object holds. *)

Current(s) == IF s.turn = None THEN {} ELSE {s.turn.id}

\* What clients were told is true; and what is true of it between the end of one turn and the next within a handler.
Truthful(s) == s.open \subseteq Current(s) /\ (s.active <=> s.turn # None)
HalfTruthful(s) == s.open \subseteq Current(s) /\ (s.turn # None => s.active)

Served(s) ==
  s.queued # <<>> =>
    \/ s.turn # None /\ ~s.turn.waiting
    \/ \E c \in s.calls : c.at \in {"settings", "note", "told"}
HalfServed(s) == s.turn # None => Served(s)

\* The prompts the object holds, and that it holds each of them once.
Distinct(q) == \A i, j \in DOMAIN q : i # j => q[i] # q[j]
Prompts(s) == Elements(s.queued) \cup Ids(s.calls) \cup s.deferred
Once(s) ==
  /\ Distinct(s.queued)
  /\ \A c, d \in s.calls : c.id = d.id => c = d
  /\ Elements(s.queued) \cap Ids(s.calls) = {}
  /\ s.deferred \cap (Elements(s.queued) \cup Ids(s.calls)) = {}

\* Claude's messages move prompts from the queue into calls of their own, and do nothing else to them.
HandsOn(s, t) ==
  /\ Prompts(t) = Prompts(s)
  /\ Once(s) => Once(t)
  /\ t.deferred = s.deferred /\ t.ultra = s.ultra /\ t.delegating = s.delegating
  /\ s.calls \subseteq t.calls
  /\ \A c \in t.calls \ s.calls : c.at = "settings"

\* A part of a handler may end a turn, leave things as settled as they were, or leave a turn running.
Leaves(s, t) ==
  HandsOn(s, t) /\ (HalfTruthful(s) => HalfTruthful(t)) /\ (HalfServed(s) => HalfServed(t))
Settles(s, t) ==
  HandsOn(s, t) /\ (Truthful(s) => Truthful(t)) /\ (Served(s) => Served(t))
Opens(s, t) ==
  HandsOn(s, t) /\ (HalfTruthful(s) => Truthful(t)) /\ (HalfServed(s) => Served(t))

LEMMA HandsOnTwice ==
  ASSUME NEW r, NEW s, NEW t, HandsOn(r, s), HandsOn(s, t) PROVE HandsOn(r, t)
BY DEF HandsOn

LEMMA HandsNothing ==
  ASSUME NEW s, NEW t, t.queued = s.queued, t.calls = s.calls, t.deferred = s.deferred,
         t.ultra = s.ultra, t.delegating = s.delegating
  PROVE  HandsOn(s, t)
BY DEF HandsOn, Prompts, Once

LEMMA LeavesThenOpens ==
  ASSUME NEW r, NEW s, NEW t, Leaves(r, s), Opens(s, t) PROVE Opens(r, t)
BY HandsOnTwice DEF Leaves, Opens

LEMMA OpensSettles ==
  ASSUME NEW s, NEW t, Opens(s, t) PROVE Settles(s, t)
BY DEF Opens, Settles, Truthful, HalfTruthful, HalfServed

LEMMA SettlesTwice ==
  ASSUME NEW r, NEW s, NEW t, Settles(r, s), Settles(s, t) PROVE Settles(r, t)
BY HandsOnTwice DEF Settles

\* The first of the queue gets a call of its own.
LEMMA HandsHead ==
  ASSUME NEW s \in Session, NEW t, s.queued # <<>>, t.queued = Tail(s.queued),
         t.calls = s.calls \cup {StartCall(Head(s.queued))}, t.deferred = s.deferred,
         t.ultra = s.ultra, t.delegating = s.delegating
  PROVE  HandsOn(s, t)
<1> DEFINE q == s.queued
           c == StartCall(Head(q))
<1>1. q \in Seq(Messages)
  BY DEF Session
<1>2. /\ Head(q) = q[1] /\ 1 \in DOMAIN q /\ Head(q) \in Elements(q)
      /\ Len(q) \in Nat /\ DOMAIN q = 1..Len(q) /\ DOMAIN Tail(q) = 1..(Len(q) - 1)
      /\ \A i \in DOMAIN Tail(q) : Tail(q)[i] = q[i + 1] /\ i + 1 \in DOMAIN q
      /\ Elements(Tail(q)) \subseteq Elements(q)
  BY <1>1, ElementsTail
<1>3. Elements(q) = Elements(Tail(q)) \cup {Head(q)}
  BY <1>1, HeadAndTail
<1>4. c.id = Head(q) /\ c.at = "settings"
  BY DEF StartCall
<1>5. Ids(t.calls) = Ids(s.calls) \cup {Head(q)}
  BY <1>4 DEF Ids
<1>6. Prompts(t) = Prompts(s)
  BY <1>3, <1>5 DEF Prompts
<1>7. ASSUME Once(s) PROVE Once(t)
  <2>1. Distinct(Tail(q)) /\ Head(q) \notin Elements(Tail(q))
    <3>1. ASSUME NEW i \in DOMAIN Tail(q) PROVE Tail(q)[i] # Head(q)
      <4>1. i + 1 # 1 /\ i + 1 \in DOMAIN q /\ Tail(q)[i] = q[i + 1]
        BY <1>2
      <4> QED  BY <1>2, <1>7, <4>1 DEF Once, Distinct
    <3>2. ASSUME NEW i \in DOMAIN Tail(q), NEW j \in DOMAIN Tail(q), i # j PROVE Tail(q)[i] # Tail(q)[j]
      <4>1. i + 1 # j + 1 /\ i + 1 \in DOMAIN q /\ j + 1 \in DOMAIN q
        BY <1>2, <3>2
      <4> QED  BY <1>2, <1>7, <4>1 DEF Once, Distinct
    <3> QED  BY <3>1, <3>2 DEF Distinct, Elements
  <2>2. Head(q) \notin Ids(s.calls) /\ Head(q) \notin s.deferred
    BY <1>2, <1>7 DEF Once
  <2>3. \A d, e \in t.calls : d.id = e.id => d = e
    BY <1>4, <1>7, <2>2 DEF Once, Ids
  <2>4. Elements(Tail(q)) \cap (Ids(s.calls) \cup {Head(q)}) = {}
    BY <1>2, <1>7, <2>1 DEF Once
  <2>5. s.deferred \cap (Elements(Tail(q)) \cup Ids(s.calls) \cup {Head(q)}) = {}
    BY <1>2, <1>7, <2>2 DEF Once
  <2> QED  BY <1>5, <2>1, <2>3, <2>4, <2>5 DEF Once
<1> QED  BY <1>4, <1>6, <1>7 DEF HandsOn

-----------------------------------------------------------------------------
(* What the turn bookkeeping does to them. *)

LEMMA OpenTurnOpens ==
  ASSUME NEW s \in Session, s.turn = None, NEW id \in TurnIds PROVE Opens(s, OpenTurn(s, id))
<1> DEFINE t == OpenTurn(s, id)
<1>1. /\ t.queued = s.queued /\ t.calls = s.calls /\ t.deferred = s.deferred
      /\ t.ultra = s.ultra /\ t.delegating = s.delegating /\ t.active = TRUE /\ t.open = s.open \cup {id}
      /\ t.turn = [id |-> id, resultSeen |-> FALSE, interrupted |-> FALSE, waiting |-> FALSE, limit |-> FALSE]
  BY DEF OpenTurn, Announce, NewTurn, Session
<1>2. t.turn # None
  <2>1. [id |-> id, resultSeen |-> FALSE, interrupted |-> FALSE, waiting |-> FALSE, limit |-> FALSE] \in Turn
    BY DEF Turn
  <2> QED  BY <1>1, <2>1, NoneIsNoTurn
<1> HIDE DEF t
<1>3. HalfTruthful(s) => Truthful(t)
  BY <1>1, <1>2 DEF HalfTruthful, Truthful, Current
<1> QED  BY <1>1, <1>2, <1>3, HandsNothing DEF Opens, Served, t

LEMMA EnsureTurnOpens ==
  ASSUME NEW s, NEW I, Fit(s, I), NEW id \in TurnIds PROVE Opens(s, EnsureTurn(s, id))
<1>1. CASE s.turn # None
  BY <1>1, HandsNothing DEF EnsureTurn, Opens, HalfTruthful, Truthful, HalfServed
<1>2. CASE s.turn = None
  <2> DEFINE r == [s EXCEPT !.pendingInputs = @ \ {id}]
  <2>1. /\ r \in Session /\ r.turn = None /\ r.queued = s.queued /\ r.calls = s.calls /\ r.deferred = s.deferred
        /\ r.ultra = s.ultra /\ r.delegating = s.delegating /\ r.open = s.open /\ r.active = s.active
    BY <1>2 DEF Fit, Session
  <2> HIDE DEF r
  <2>2. Leaves(s, r)
    BY <1>2, <2>1, HandsNothing DEF Leaves, HalfTruthful, HalfServed, Current
  <2> QED  BY <1>2, <2>1, <2>2, OpenTurnOpens, LeavesThenOpens DEF EnsureTurn, r
<1> QED  BY <1>1, <1>2

LEMMA EnsureOwnTurnOpens == ASSUME NEW s, NEW I, Fit(s, I) PROVE Opens(s, EnsureOwnTurn(s))
<1>1. CASE s.turn # None
  BY <1>1, HandsNothing DEF EnsureOwnTurn, Opens, HalfTruthful, Truthful, HalfServed
<1>2. CASE s.turn = None
  BY <1>2, EnsureTurnOpens, FreshOwnType DEF EnsureOwnTurn, TurnIds
<1> QED  BY <1>1, <1>2

LEMMA WaitForAgentsOpens ==
  ASSUME NEW s \in Session, s.turn = None, s.queued = <<>> PROVE Opens(s, WaitForAgents(s))
<1> DEFINE o == OpenTurn(s, FreshOwn(s))
           w == [o EXCEPT !.turn.resultSeen = TRUE, !.turn.waiting = TRUE, !.afterResult = TRUE]
<1>1. FreshOwn(s) \in TurnIds
  BY FreshOwnType DEF TurnIds
<1>2. o \in Session /\ o.turn \in Turn /\ o.queued = <<>> /\ Opens(s, o)
  BY <1>1, OpenTurnFit, OpenTurnOpens DEF Fit
<1> HIDE DEF o
<1>3. /\ w.queued = o.queued /\ w.calls = o.calls /\ w.deferred = o.deferred /\ w.ultra = o.ultra
      /\ w.delegating = o.delegating /\ w.active = o.active /\ w.open = o.open
      /\ w.turn.id = o.turn.id /\ w.turn \in Turn
  BY <1>2 DEF Session, Turn
<1> HIDE DEF w
<1>4. HandsOn(o, w) /\ (Truthful(o) => Truthful(w)) /\ Served(w)
  BY <1>2, <1>3, HandsNothing, NoneIsNoTurn DEF Truthful, Current, Served
<1>5. Opens(s, w)
  BY <1>2, <1>4, HandsOnTwice DEF Opens
<1> QED  BY <1>5 DEF WaitForAgents, w, o

\* The end of a turn: it leaves none running, or the next one; on its own it settles what clients see and who is served.
LEMMA CompleteTurnDoes ==
  ASSUME NEW s, NEW I, Fit(s, I), NEW continued \in BOOLEAN
  PROVE  /\ Leaves(s, CompleteTurn(s, continued))
         /\ ~continued => Settles(s, CompleteTurn(s, continued))
<1> DEFINE t == CompleteTurn(s, continued)
           e == Close(s)
<1>1. CASE s.turn = None
  BY <1>1, HandsNothing DEF CompleteTurn, Leaves, Settles
<1>2. CASE s.turn # None
  <2>1. /\ e \in Session /\ e.turn = None /\ e.queued = s.queued /\ e.calls = s.calls /\ e.deferred = s.deferred
        /\ e.ultra = s.ultra /\ e.delegating = s.delegating /\ e.open = s.open \ {s.turn.id}
    BY ZenonT(80), <1>2, CloseFit DEF Close, Fit, Session
  <2> HIDE DEF e
  <2>2. HandsOn(s, e) /\ (HalfTruthful(s) => e.open = {})
    BY <1>2, <2>1, HandsNothing DEF HalfTruthful, Current
  <2>3. CASE continued
    <3>1. t = e
      BY <1>2, <2>3 DEF CompleteTurn, e
    <3> QED  BY <2>1, <2>2, <2>3, <3>1 DEF Leaves, HalfTruthful, HalfServed
  <2>4. CASE ~continued
    <3> DEFINE a == AfterTurn(e, s.turn.interrupted)
    <3>1. t = a
      BY <1>2, <2>4 DEF CompleteTurn, e
    <3>2. HandsOn(e, a) /\ (e.open = {} => Truthful(a)) /\ Served(a)
      <4>1. CASE e.queued # <<>>
        <5>1. /\ a.queued = Tail(e.queued) /\ a.calls = e.calls \cup {StartCall(Head(e.queued))}
              /\ a.deferred = e.deferred /\ a.ultra = e.ultra /\ a.delegating = e.delegating
              /\ a.open = e.open /\ a.active = FALSE /\ a.turn = None
          BY <2>1, <4>1 DEF AfterTurn, Session
        <5> HIDE DEF a
        <5>2. StartCall(Head(e.queued)) \in a.calls /\ StartCall(Head(e.queued)).at = "settings"
          BY <5>1 DEF StartCall
        <5> QED  BY <2>1, <4>1, <5>1, <5>2, HandsHead DEF Truthful, Current, Served
      <4>2. CASE e.queued = <<>> /\ ~s.turn.interrupted /\ e.agents # {}
        <5>1. a = WaitForAgents(e)
          BY <4>2 DEF AfterTurn
        <5>2. Opens(e, a)
          BY <2>1, <4>2, <5>1, WaitForAgentsOpens
        <5> QED  BY <2>1, <5>2 DEF Opens, HalfTruthful, HalfServed, Current
      <4>3. CASE e.queued = <<>> /\ ~(~s.turn.interrupted /\ e.agents # {})
        <5>1. /\ a.queued = e.queued /\ a.calls = e.calls /\ a.deferred = e.deferred /\ a.ultra = e.ultra
              /\ a.delegating = e.delegating /\ a.open = e.open /\ a.active = FALSE /\ a.turn = None
          BY <2>1, <4>3 DEF AfterTurn, Session
        <5> HIDE DEF a
        <5> QED  BY <4>3, <5>1, HandsNothing DEF Truthful, Current, Served
      <4> QED  BY <4>1, <4>2, <4>3
    <3> HIDE DEF a
    <3>3. HandsOn(s, t) /\ (HalfTruthful(s) => Truthful(t)) /\ Served(t)
      BY <2>2, <3>1, <3>2, HandsOnTwice
    <3> HIDE DEF t
    <3>4. Leaves(s, t) /\ Settles(s, t)
      BY <3>3 DEF Leaves, Settles, HalfTruthful, Truthful, HalfServed
    <3> QED  BY <3>4 DEF t
  <2> QED  BY <2>3, <2>4
<1> QED  BY <1>1, <1>2

LEMMA MaybeCompleteSettles == ASSUME NEW s, NEW I, Fit(s, I) PROVE Settles(s, MaybeComplete(s))
<1>1. Settles(s, s)
  BY HandsNothing DEF Settles
<1> QED  BY <1>1, CompleteTurnDoes DEF MaybeComplete

LEMMA ContinueTurnOpens == ASSUME NEW s, NEW I, Fit(s, I) PROVE Opens(s, ContinueTurn(s))
<1>1. Fit(CompleteTurn(s, TRUE), I) /\ Leaves(s, CompleteTurn(s, TRUE))
  BY CompleteTurnFit, CompleteTurnDoes
<1> QED  BY <1>1, EnsureOwnTurnOpens, LeavesThenOpens DEF ContinueTurn

-----------------------------------------------------------------------------
(* What Claude's messages do to them. *)

\* A part of a handler that touches none of it, or starts the work of a turn that waited.
LEMMA SettlesAlike ==
  ASSUME NEW s, NEW t, t.queued = s.queued, t.calls = s.calls, t.deferred = s.deferred, t.ultra = s.ultra,
         t.delegating = s.delegating, t.open = s.open, t.active = s.active, t.turn = None <=> s.turn = None,
         s.turn # None => t.turn.id = s.turn.id /\ (t.turn.waiting => s.turn.waiting \/ s.queued = <<>>)
  PROVE  Settles(s, t) /\ Leaves(s, t)
<1>1. HandsOn(s, t)
  BY HandsNothing
<1>2. Current(t) = Current(s)
  BY DEF Current
<1>3. Served(s) => Served(t)
  BY DEF Served
<1> QED  BY <1>1, <1>2, <1>3 DEF Settles, Leaves, Truthful, HalfTruthful, HalfServed

Alike(s, t) ==
  /\ t.turn = s.turn /\ t.queued = s.queued /\ t.calls = s.calls /\ t.deferred = s.deferred
  /\ t.ultra = s.ultra /\ t.delegating = s.delegating /\ t.open = s.open /\ t.active = s.active

LEMMA AlikeSettles ==
  ASSUME NEW s, NEW t, Alike(s, t) PROVE Settles(s, t) /\ Leaves(s, t)
BY SettlesAlike DEF Alike

LEMMA ContinuedSettles ==
  ASSUME NEW s, NEW I, Fit(s, I), NEW prompt \in Prompt PROVE Settles(s, Continued(s, prompt))
<1> DEFINE seen == [s EXCEPT !.afterResult = FALSE]
           cut == CompleteTurn(seen, s.turn.waiting)
<1>1. Fit(seen, I) /\ Settles(s, seen) /\ Leaves(s, seen)
  <2>1. Fit(seen, I) /\ Alike(s, seen)
    BY DEF Session, Fit, Alike
  <2> QED  BY <2>1, AlikeSettles
<1> HIDE DEF seen
<1>2. prompt.origin # "human" => prompt.id \in TurnIds
  BY DEF Prompt, TurnIds
<1>3. s.turn # None => s.turn.waiting \in BOOLEAN
  BY DEF Fit, Session, Turn
<1>4. Settles(seen, ContinueTurn(seen))
  BY <1>1, ContinueTurnOpens, OpensSettles
<1>5. ASSUME s.turn # None, prompt.origin # "human" PROVE Settles(seen, EnsureTurn(cut, prompt.id))
  <2>1. Fit(cut, I) /\ Leaves(seen, cut)
    BY <1>1, <1>3, <1>5, CompleteTurnFit, CompleteTurnDoes
  <2> HIDE DEF cut
  <2>2. Opens(cut, EnsureTurn(cut, prompt.id))
    BY <1>2, <1>5, <2>1, EnsureTurnOpens
  <2> QED  BY <2>1, <2>2, LeavesThenOpens, OpensSettles
<1> HIDE DEF cut
<1>6. Settles(s, ContinueTurn(seen)) /\
      (s.turn # None /\ prompt.origin # "human" => Settles(s, EnsureTurn(cut, prompt.id)))
  BY <1>1, <1>4, <1>5, SettlesTwice
<1> QED  BY <1>1, <1>6 DEF Continued, seen, cut

LEMMA WokenSettles ==
  ASSUME NEW s, NEW I, Fit(s, I), NEW prompt \in Prompt PROVE Settles(s, Woken(s, prompt))
<1> DEFINE r == IF s.afterResult THEN Continued(s, prompt) ELSE s
           w == [r EXCEPT !.turn.resultSeen = @ /\ ~r.turn.waiting, !.turn.waiting = FALSE, !.turn.limit = FALSE]
<1>1. Fit(r, I)
  BY ContinuedFit
<1>2. Settles(s, r)
  <2>1. Settles(s, s)
    BY HandsNothing DEF Settles
  <2> QED  BY <2>1, ContinuedSettles
<1> HIDE DEF r
<1>3. ASSUME r.turn # None PROVE Settles(r, w)
  <2>1. /\ w.queued = r.queued /\ w.calls = r.calls /\ w.deferred = r.deferred /\ w.ultra = r.ultra
        /\ w.delegating = r.delegating /\ w.open = r.open /\ w.active = r.active
        /\ w.turn \in Turn /\ w.turn.id = r.turn.id /\ w.turn.waiting = FALSE
    BY <1>1, <1>3 DEF Fit, Session, Turn
  <2> HIDE DEF w
  <2> QED  BY <1>3, <2>1, NoneIsNoTurn, SettlesAlike
<1> HIDE DEF w
<1>4. r.turn # None => Settles(s, w)
  BY <1>2, <1>3, SettlesTwice
<1> QED  BY <1>2, <1>4 DEF Woken, r, w

LEMMA OnRetrySettles ==
  ASSUME NEW s, NEW I, Fit(s, I), NEW limit \in BOOLEAN PROVE Settles(s, OnRetry(s, limit))
<1> DEFINE w == [s EXCEPT !.turn.limit = limit]
<1>1. ASSUME s.turn # None PROVE Settles(s, w)
  <2>1. /\ w.queued = s.queued /\ w.calls = s.calls /\ w.deferred = s.deferred /\ w.ultra = s.ultra
        /\ w.delegating = s.delegating /\ w.open = s.open /\ w.active = s.active
        /\ w.turn \in Turn /\ w.turn.id = s.turn.id /\ w.turn.waiting = s.turn.waiting
    BY <1>1 DEF Fit, Session, Turn
  <2> HIDE DEF w
  <2> QED  BY <1>1, <2>1, NoneIsNoTurn, SettlesAlike
<1>2. Settles(s, s)
  BY HandsNothing DEF Settles
<1> QED  BY <1>1, <1>2 DEF OnRetry

LEMMA OnMessageSettles ==
  ASSUME NEW s, NEW I, Fit(s, I), NEW prompt \in Prompt PROVE Settles(s, OnMessage(s, prompt))
<1> DEFINE w == Woken(s, prompt)
           o == EnsureOwnTurn(w)
<1>1. Fit(w, I) /\ Settles(s, w)
  BY WokenFit, WokenSettles
<1> HIDE DEF w
<1>2. Fit(o, I) /\ Settles(w, o)
  BY <1>1, EnsureOwnTurnFit, EnsureOwnTurnOpens, OpensSettles
<1> HIDE DEF o
<1>3. Settles(o, [o EXCEPT !.response = TRUE])
  <2>1. Alike(o, [o EXCEPT !.response = TRUE])
    BY <1>2 DEF Fit, Session, Alike
  <2> QED  BY <2>1, AlikeSettles
<1>4. Settles(s, [o EXCEPT !.response = TRUE])
  BY <1>1, <1>2, <1>3, SettlesTwice
<1> QED  BY <1>4 DEF OnMessage, o, w

LEMMA OnBlockSettles ==
  ASSUME NEW s, NEW I, Fit(s, I), NEW prompt \in Prompt, NEW block \in {"block", "answer"}
  PROVE  Settles(s, OnBlock(s, prompt, block))
<1> DEFINE w == Woken(s, prompt)
           split == IF w.lastBlock = "answer" THEN ContinueTurn(w) ELSE w
           b == [split EXCEPT !.response = TRUE, !.lastBlock = block]
<1>1. Fit(w, I) /\ Settles(s, w)
  BY WokenFit, WokenSettles
<1> HIDE DEF w
<1>2. Fit(split, I) /\ Settles(w, split)
  <2>1. Settles(w, w)
    BY HandsNothing DEF Settles
  <2> QED  BY <1>1, <2>1, ContinueTurnFit, ContinueTurnOpens, OpensSettles
<1> HIDE DEF split
<1>3. Settles(split, b)
  <2>1. Alike(split, b)
    BY <1>2 DEF Fit, Session, Alike
  <2> QED  BY <2>1, AlikeSettles
<1> HIDE DEF b
<1>4. Settles(s, b)
  BY <1>1, <1>2, <1>3, SettlesTwice
<1> QED  BY <1>1, <1>4 DEF OnBlock, w, split, b

LEMMA OnStartedSettles ==
  ASSUME NEW s, NEW I, Fit(s, I), NEW id \in Commands, id \in s.injections \/ id \in TurnIds
  PROVE  Settles(s, OnStarted(s, id))
<1> DEFINE pending == id \in s.pendingInputs
           silent == id \in s.injections
           ends == s.turn # None /\ s.turn.waiting /\ ~silent /\ (pending \/ ~s.notified)
           ended == IF ends THEN CompleteTurn(s, TRUE) ELSE s
           own == [ended EXCEPT !.timer = FALSE]
           fresh == FreshOwn([own EXCEPT !.peers = @ \cup {id}])
<1>1. Settles(s, s) /\ Leaves(s, s)
  BY HandsNothing DEF Settles, Leaves
<1>2. Fit(ended, I) /\ Leaves(s, ended) /\ (silent => ended = s)
  BY <1>1, CompleteTurnFit, CompleteTurnDoes
<1> HIDE DEF ended
<1>3. Fit(own, I) /\ Leaves(s, own)
  <2>1. Fit(own, I) /\ Alike(ended, own)
    BY <1>2 DEF Fit, Session, Alike
  <2>2. Leaves(ended, own)
    BY <2>1, AlikeSettles
  <2> QED  BY <1>2, <2>1, <2>2, HandsOnTwice DEF Leaves
<1> HIDE DEF own
<1>4. fresh \in TurnIds
  BY FreshOwnType DEF TurnIds
<1> HIDE DEF fresh
<1>5. CASE silent
  BY <1>1, <1>2, <1>5 DEF OnStarted, ended
<1>6. CASE ~silent /\ pending
  <2> DEFINE e == EnsureTurn(ended, id)
  <2>1. Fit(e, I) /\ Settles(s, e)
    BY <1>2, <1>6, EnsureTurnFit, EnsureTurnOpens, LeavesThenOpens, OpensSettles
  <2> HIDE DEF e
  <2>2. Settles(e, [e EXCEPT !.pendingInputs = @ \ {id}])
    <3>1. Alike(e, [e EXCEPT !.pendingInputs = @ \ {id}])
      BY <2>1 DEF Fit, Session, Alike
    <3> QED  BY <3>1, AlikeSettles
  <2>3. Settles(s, [e EXCEPT !.pendingInputs = @ \ {id}])
    BY <2>1, <2>2, SettlesTwice
  <2> QED  BY <2>3, <1>6 DEF OnStarted, ended, e
<1>7. CASE ~silent /\ ~pending
  <2> DEFINE e == EnsureTurn(own, id)
  <2>1. Fit(e, I) /\ Settles(s, e) /\ Settles(s, EnsureTurn(own, fresh))
    BY <1>3, <1>4, <1>7, EnsureTurnFit, EnsureTurnOpens, LeavesThenOpens, OpensSettles
  <2> HIDE DEF e
  <2>2. Settles(e, [e EXCEPT !.peers = @ \cup ({id} \cap OwnIds)])
    <3>1. Alike(e, [e EXCEPT !.peers = @ \cup ({id} \cap OwnIds)])
      BY <2>1 DEF Fit, Session, Alike
    <3> QED  BY <3>1, AlikeSettles
  <2>3. Settles(s, [e EXCEPT !.peers = @ \cup ({id} \cap OwnIds)])
    BY <2>1, <2>2, SettlesTwice
  <2> QED  BY <2>1, <2>3, <1>7 DEF OnStarted, ended, own, fresh, e
<1> QED  BY <1>5, <1>6, <1>7

LEMMA OnResultSettles ==
  ASSUME NEW s, NEW I, Fit(s, I), NEW interrupted \in BOOLEAN PROVE Settles(s, OnResult(s, interrupted))
<1> DEFINE r == [s EXCEPT !.turn.resultSeen = TRUE, !.turn.interrupted = @ \/ interrupted, !.afterResult = TRUE]
<1>1. ASSUME s.turn # None PROVE Fit(r, I) /\ Settles(s, r)
  <2>1. /\ r.queued = s.queued /\ r.calls = s.calls /\ r.deferred = s.deferred /\ r.ultra = s.ultra
        /\ r.delegating = s.delegating /\ r.open = s.open /\ r.active = s.active
        /\ r.turn \in Turn /\ r.turn.id = s.turn.id /\ r.turn.waiting = s.turn.waiting
    BY <1>1 DEF Fit, Session, Turn
  <2>2. Fit(r, I)
    BY <1>1 DEF Fit, Session, Turn
  <2> HIDE DEF r
  <2> QED  BY <1>1, <2>1, <2>2, NoneIsNoTurn, SettlesAlike
<1> HIDE DEF r
<1>2. s.turn # None => Settles(s, MaybeComplete(r))
  BY <1>1, MaybeCompleteSettles, SettlesTwice
<1>3. Settles(s, s)
  BY HandsNothing DEF Settles
<1> QED  BY <1>2, <1>3 DEF OnResult, r

LEMMA OnTaskSettles ==
  ASSUME NEW s, NEW I, Fit(s, I), NEW a \in Agents
  PROVE  /\ Settles(s, OnTaskStarted(s, a)) /\ OnTaskStarted(s, a).turn = s.turn
         /\ Settles(s, OnTaskEnded(s, a)) /\ OnTaskEnded(s, a).turn = s.turn
<1>1. Alike(s, OnTaskStarted(s, a)) /\ Alike(s, OnTaskEnded(s, a))
  BY DEF OnTaskStarted, OnTaskEnded, Fit, Session, Alike
<1> QED  BY <1>1, AlikeSettles DEF Alike

LEMMA OnStateSettles ==
  ASSUME NEW s, NEW I, Fit(s, I) PROVE Settles(s, OnRunning(s)) /\ Settles(s, OnIdle(s))
<1> DEFINE i == [s EXCEPT !.running = FALSE]
<1>1. Alike(s, OnRunning(s)) /\ Alike(s, i) /\ Fit(i, I)
  BY DEF OnRunning, Fit, Session, Alike
<1> HIDE DEF i
<1>2. Settles(s, OnRunning(s)) /\ Settles(s, i) /\ Settles(i, MaybeComplete(i))
  BY <1>1, AlikeSettles, MaybeCompleteSettles
<1>3. Settles(s, MaybeComplete(i))
  BY <1>2, SettlesTwice
<1> QED  BY <1>2, <1>3 DEF OnIdle, i

\* The calls change where they wait, and stay the calls of the same prompts.
Recalls(s, r) ==
  /\ r.turn = s.turn /\ r.queued = s.queued /\ r.deferred = s.deferred
  /\ r.ultra = s.ultra /\ r.delegating = s.delegating /\ r.open = s.open /\ r.active = s.active
  /\ Ids(r.calls) = Ids(s.calls)
  /\ (\A c, d \in s.calls : c.id = d.id => c = d) => (\A c, d \in r.calls : c.id = d.id => c = d)

LEMMA RecallsKeeps ==
  ASSUME NEW s, NEW r, Recalls(s, r)
  PROVE  Prompts(r) = Prompts(s) /\ (Once(s) => Once(r)) /\ (Truthful(s) <=> Truthful(r))
<1>1. Prompts(r) = Prompts(s) /\ (Truthful(s) <=> Truthful(r))
  BY DEF Recalls, Prompts, Truthful, Current
<1>2. Once(s) => Once(r)
  BY DEF Recalls, Once
<1> QED  BY <1>1, <1>2

\* The calls once Claude took the note named.
Told(calls, id) == {IF c.at = "note" /\ c.note = id THEN [c EXCEPT !.at = "told"] ELSE c : c \in calls}

LEMMA ToldCalls ==
  ASSUME NEW calls \in SUBSET Call, NEW id
  PROVE  /\ Told(calls, id) \in SUBSET Call
         /\ Ids(Told(calls, id)) = Ids(calls)
         /\ (\A c, d \in calls : c.id = d.id => c = d) => (\A c, d \in Told(calls, id) : c.id = d.id => c = d)
         /\ \A c : c \in Told(calls, id) /\ c.at # "told" <=> c \in calls /\ c.at # "told" /\ ~(c.at = "note" /\ c.note = id)
         /\ \A c \in Told(calls, id) : c.at = "told" => \E d \in calls : d.at \in {"note", "told"}
<1> DEFINE f(c) == IF c.at = "note" /\ c.note = id THEN [c EXCEPT !.at = "told"] ELSE c
<1>1. \A c \in calls : f(c) \in Call /\ f(c).id = c.id /\ (f(c) = c \/ (f(c).at = "told" /\ c.at = "note" /\ c.note = id))
  BY DEF Call
<1>2. \A c \in calls : c.at = "note" /\ c.note = id => f(c).at = "told"
  BY DEF Call
<1>3. Told(calls, id) = {f(c) : c \in calls}
  BY DEF Told
<1>4. \A c \in calls : ~(c.at = "note" /\ c.note = id) => f(c) = c
  OBVIOUS
<1> HIDE DEF f
<1>5. Told(calls, id) \in SUBSET Call /\ Ids(Told(calls, id)) = Ids(calls)
  BY <1>1, <1>3 DEF Ids
<1>6. ASSUME \A c, d \in calls : c.id = d.id => c = d, NEW c \in Told(calls, id), NEW d \in Told(calls, id), c.id = d.id
      PROVE  c = d
  BY <1>1, <1>3, <1>6
<1>7. ASSUME NEW c
      PROVE  c \in Told(calls, id) /\ c.at # "told" <=> c \in calls /\ c.at # "told" /\ ~(c.at = "note" /\ c.note = id)
  BY <1>1, <1>2, <1>3, <1>4
<1>8. ASSUME NEW c \in Told(calls, id), c.at = "told" PROVE \E d \in calls : d.at \in {"note", "told"}
  BY <1>1, <1>3, <1>8
<1> QED  BY <1>5, <1>6, <1>7, <1>8

LEMMA LostCalls ==
  ASSUME NEW calls \in SUBSET Call
  PROVE  /\ Ids(LoseInbox(calls)) = Ids(calls)
         /\ (\A c, d \in calls : c.id = d.id => c = d) => (\A c, d \in LoseInbox(calls) : c.id = d.id => c = d)
         /\ \A c : c \in LoseInbox(calls) /\ c.at # "lost" <=> c \in calls /\ c.at \notin {"lost", "steer"}
<1> DEFINE f(c) == IF c.at = "steer" THEN [c EXCEPT !.at = "lost"] ELSE c
<1>1. \A c \in calls : f(c).id = c.id /\ (f(c) = c \/ (f(c).at = "lost" /\ c.at = "steer"))
  BY DEF Call
<1>2. \A c \in calls : c.at = "steer" => f(c).at = "lost"
  BY DEF Call
<1>3. LoseInbox(calls) = {f(c) : c \in calls}
  BY DEF LoseInbox
<1>4. \A c \in calls : c.at # "steer" => f(c) = c
  OBVIOUS
<1> HIDE DEF f
<1>5. Ids(LoseInbox(calls)) = Ids(calls)
  BY <1>1, <1>3 DEF Ids
<1>6. ASSUME \A c, d \in calls : c.id = d.id => c = d, NEW c \in LoseInbox(calls), NEW d \in LoseInbox(calls), c.id = d.id
      PROVE  c = d
  BY <1>1, <1>3, <1>6
<1>7. ASSUME NEW c PROVE c \in LoseInbox(calls) /\ c.at # "lost" <=> c \in calls /\ c.at \notin {"lost", "steer"}
  BY <1>1, <1>2, <1>3, <1>4
<1> QED  BY <1>5, <1>6, <1>7

\* A command completed: calls that waited for it go on, then the turn may be over.
LEMMA OnCompletedDoes ==
  ASSUME NEW s, NEW I, Fit(s, I), NEW id
  PROVE  LET r == [s EXCEPT !.injections = @ \ {id}, !.calls = Told(@, id)]
         IN  /\ Fit(r, I \ {id}) /\ r.calls = Told(s.calls, id) /\ Recalls(s, r) /\ (Served(s) => Served(r))
             /\ Settles(r, OnCompleted(s, id))
<1> DEFINE r == [s EXCEPT !.injections = @ \ {id}, !.calls = Told(@, id)]
           seen == [r EXCEPT !.turn.resultSeen = TRUE]
<1>1. s.calls \in SUBSET Call
  BY DEF Fit, Session
<1>2. Fit(r, I \ {id}) /\ r.calls = Told(s.calls, id) /\ r.turn = s.turn /\ r.queued = s.queued /\ r.deferred = s.deferred
      /\ r.ultra = s.ultra /\ r.delegating = s.delegating /\ r.open = s.open /\ r.active = s.active
  BY <1>1, ToldCalls DEF Fit, Session
<1>3. OnCompleted(s, id) = IF r.turn # None /\ r.turn.id = id /\ ~r.turn.resultSeen THEN MaybeComplete(seen) ELSE r
  BY DEF OnCompleted, Told
<1> HIDE DEF r
<1>4. Recalls(s, r)
  BY <1>1, <1>2, ToldCalls DEF Recalls
<1>5. Served(s) => Served(r)
  <2>1. ASSUME NEW c \in s.calls, c.at \in {"settings", "note", "told"}
        PROVE  \E d \in r.calls : d.at \in {"settings", "note", "told"}
    <3>1. PICK d \in r.calls : d.id = c.id /\ (d = c \/ d.at = "told")
      <4> DEFINE d == IF c.at = "note" /\ c.note = id THEN [c EXCEPT !.at = "told"] ELSE c
      <4>1. d \in r.calls
        BY <1>2, <2>1 DEF Told
      <4>2. d.id = c.id /\ (d = c \/ d.at = "told")
        BY <1>1, <2>1 DEF Call
      <4> QED  BY <4>1, <4>2
    <3> QED  BY <2>1, <3>1
  <2> QED  BY <1>2, <2>1 DEF Served
<1>6. ASSUME r.turn # None PROVE Settles(r, MaybeComplete(seen))
  <2>1. Fit(seen, I \ {id})
    BY <1>2, <1>6 DEF Fit, Session, Turn
  <2>2. /\ seen.queued = r.queued /\ seen.calls = r.calls /\ seen.deferred = r.deferred /\ seen.ultra = r.ultra
        /\ seen.delegating = r.delegating /\ seen.open = r.open /\ seen.active = r.active
        /\ seen.turn \in Turn /\ seen.turn.id = r.turn.id /\ seen.turn.waiting = r.turn.waiting
    BY <1>2, <1>6 DEF Fit, Session, Turn
  <2> HIDE DEF seen
  <2>3. Settles(r, seen)
    BY <1>6, <2>2, NoneIsNoTurn, SettlesAlike
  <2> QED  BY <2>1, <2>3, MaybeCompleteSettles, SettlesTwice
<1>7. Settles(r, r)
  BY HandsNothing DEF Settles
<1> QED  BY <1>2, <1>3, <1>4, <1>5, <1>6, <1>7 DEF r

\* A turn stopped, or with no sub-agents to wait for, ends with no turn after it.
LEMMA CompleteTurnEnds ==
  ASSUME NEW s, NEW I, Fit(s, I), s.turn # None => s.turn.interrupted \/ s.agents = {}
  PROVE  CompleteTurn(s, FALSE).turn = None
<1> DEFINE e == Close(s)
<1>1. CASE s.turn # None
  <2>1. e \in Session /\ e.turn = None /\ e.agents = s.agents
    BY ZenonT(80), CloseFit DEF Close, Fit, Session
  <2>2. CompleteTurn(s, FALSE) = AfterTurn(e, s.turn.interrupted)
    BY <1>1 DEF CompleteTurn
  <2> HIDE DEF e
  <2> QED  BY <1>1, <2>1, <2>2 DEF AfterTurn, Session
<1>2. CASE s.turn = None
  BY <1>2 DEF CompleteTurn
<1> QED  BY <1>1, <1>2

\* Claude's process is gone: the calls that waited for it to take their note fail, and no turn is left.
LEMMA OnGoneDoes ==
  ASSUME NEW s, NEW I, Fit(s, I), Once(s)
  PROVE  LET noted == {c \in s.calls : c.at = "note"}
         IN  /\ OnGone(s).turn = None /\ Once(OnGone(s)) /\ (Truthful(s) => Truthful(OnGone(s)))
             /\ Prompts(OnGone(s)) = Prompts(s) \ Ids(noted) /\ OnGone(s).deferred = s.deferred
             /\ OnGone(s).ultra = s.ultra /\ OnGone(s).delegating = s.delegating
             /\ \A c \in OnGone(s).calls : c.at = "told" => c \in s.calls
             /\ \A c \in OnGone(s).calls : c.at # "note"
             /\ Ids(noted) \subseteq Prompts(s)
<1> DEFINE noted == {c \in s.calls : c.at = "note"}
           off == [s EXCEPT !.injections = {}, !.calls = LoseInbox(@ \ noted), !.running = FALSE, !.agents = {}]
           seen == [off EXCEPT !.turn.resultSeen = TRUE]
<1>1. s.calls \ noted \in SUBSET Call
  BY DEF Fit, Session
<1>2. Fit(off, {}) /\ off.calls = LoseInbox(s.calls \ noted) /\ off.turn = s.turn /\ off.queued = s.queued
      /\ off.deferred = s.deferred /\ off.ultra = s.ultra /\ off.delegating = s.delegating /\ off.open = s.open
      /\ off.active = s.active /\ off.running = FALSE /\ off.agents = {}
  BY <1>1, CallTypes DEF Fit, Session
<1>3. OnGone(s) = IF off.turn = None THEN off ELSE MaybeComplete(seen)
  BY DEF OnGone
<1>4. Ids(off.calls) = Ids(s.calls) \ Ids(noted) /\ Ids(noted) \subseteq Ids(s.calls)
  <2>1. Ids(s.calls \ noted) = Ids(s.calls) \ Ids(noted)
    BY DEF Once, Ids
  <2>2. Ids(noted) \subseteq Ids(s.calls)
    BY DEF Ids
  <2> QED  BY <1>1, <1>2, <2>1, <2>2, LostCalls
<1>5. \A c \in off.calls : c.at # "lost" => c \in s.calls /\ c.at # "note"
  BY <1>1, <1>2, LostCalls
<1>6. \A c, d \in off.calls : c.id = d.id => c = d
  BY <1>1, <1>2, LostCalls DEF Once
<1> HIDE DEF off
<1>7. Once(off)
  <2> HIDE DEF noted
  <2> QED  BY <1>2, <1>4, <1>6 DEF Once
<1>8. Prompts(off) = Prompts(s) \ Ids(noted)
  <2>1. Ids(noted) \cap (Elements(s.queued) \cup s.deferred) = {}
    BY <1>4 DEF Once
  <2> HIDE DEF noted
  <2> QED  BY <1>2, <1>4, <2>1 DEF Prompts
<1>9. Truthful(s) => Truthful(off)
  BY <1>2 DEF Truthful, Current
<1>10. Settles(off, OnGone(s)) /\ OnGone(s).turn = None
  <2>1. CASE off.turn = None
    BY <1>3, <2>1, HandsNothing DEF Settles
  <2>2. CASE off.turn # None
    <3>1. Fit(seen, {}) /\ seen.turn.resultSeen /\ seen.running = FALSE /\ seen.agents = {}
      BY <1>2, <2>2 DEF Fit, Session, Turn
    <3>2. /\ seen.queued = off.queued /\ seen.calls = off.calls /\ seen.deferred = off.deferred /\ seen.ultra = off.ultra
          /\ seen.delegating = off.delegating /\ seen.open = off.open /\ seen.active = off.active
          /\ seen.turn \in Turn /\ seen.turn.id = off.turn.id /\ seen.turn.waiting = off.turn.waiting
      BY <1>2, <2>2 DEF Fit, Session, Turn
    <3> HIDE DEF seen
    <3>3. Settles(off, seen) /\ seen.turn # None
      BY <2>2, <3>2, NoneIsNoTurn, SettlesAlike
    <3>4. OnGone(s) = MaybeComplete(seen) /\ MaybeComplete(seen) = CompleteTurn(seen, FALSE)
      BY <1>3, <2>2, <3>1, <3>3 DEF MaybeComplete
    <3>5. CompleteTurn(seen, FALSE).turn = None
      BY <3>1, CompleteTurnEnds
    <3>6. Settles(off, MaybeComplete(seen))
      BY <3>1, <3>3, MaybeCompleteSettles, SettlesTwice
    <3> QED  BY <3>4, <3>5, <3>6
  <2> QED  BY <2>1, <2>2
<1>11. \A c \in OnGone(s).calls : c \in off.calls \/ c.at = "settings"
  BY <1>10 DEF Settles, HandsOn
<1>12. Ids(noted) \subseteq Prompts(s)
  BY <1>4 DEF Prompts
<1> HIDE DEF noted
<1>13. /\ Prompts(OnGone(s)) = Prompts(s) \ Ids(noted) /\ OnGone(s).deferred = s.deferred
       /\ OnGone(s).ultra = s.ultra /\ OnGone(s).delegating = s.delegating
       /\ Once(OnGone(s)) /\ (Truthful(s) => Truthful(OnGone(s)))
  BY <1>2, <1>7, <1>8, <1>9, <1>10 DEF Settles, HandsOn
<1>14. \A c \in OnGone(s).calls : c.at # "note" /\ (c.at = "told" => c \in s.calls)
  BY <1>5, <1>11
<1> QED  BY <1>10, <1>12, <1>13, <1>14 DEF noted

-----------------------------------------------------------------------------
(* Steps by what they do to the object: most of Claude's only settle, and so do the object's own. *)

Streams ==
  \/ ClaudeRuns \/ ClaudeWakes \/ ClaudeTakes \/ ClaudeFolds
  \/ \E origin \in {"peer", "task"} : ClaudeStartsOwn(origin) \/ ClaudeGoesOn(origin)
  \/ ClaudeSpeaks \/ ClaudeRetries \/ ClaudeCompacts \/ \E block \in {"block", "answer"} : ClaudeBlocks(block)
  \/ \E a \in Agents : ClaudeStartsAgent(a) \/ ClaudeEndsAgent(a)
  \/ ClaudeResult \/ ClaudeIdles \/ ClaudeInterrupted

Returns ==
  \/ InterruptReturns \/ RunningTimer
  \/ \E id \in OwnIds, found \in BOOLEAN : PeerRead(id, found)
  \/ \E awaited \in BOOLEAN : Interrupt(awaited)

\* The command completed is one folded in, or the prompt itself.
Completes(id) ==
  /\ id \in Commands /\ (id \in claude.folded \/ (claude.phase = "answered" /\ id = claude.cmd))
  /\ session' = OnCompleted(session, id)
  /\ UNCHANGED <<inbox, stop, history>>

CompletesNothing == ClaudeCompletes /\ claude.cmd = None

LEMMA ClaudeActsAre == ASSUME IInv, ClaudeActs PROVE Streams \/ CompletesNothing \/ \E id \in Commands : Completes(id)
<1>1. ASSUME ClaudeCompletes, claude.cmd # None PROVE \E id \in Commands : Completes(id)
  BY <1>1 DEF ClaudeCompletes, Completes, IInv, Claude
<1>2. ASSUME NEW id \in Commands, ClaudeCompletesFolded(id) PROVE Completes(id)
  BY <1>2 DEF ClaudeCompletesFolded, Completes
<1> QED  BY <1>1, <1>2 DEF ClaudeActs, Streams, CompletesNothing

LEMMA StreamsSettle == ASSUME IInv, Streams PROVE Settles(session, session')
<1>1. Fit(session, session.injections) /\ claude.prompt \in Prompt /\ claude.aborted \in BOOLEAN
  BY DEF IInv, Claude, Prompt
<1>2. CASE UNCHANGED session
  BY <1>2, HandsNothing DEF Settles
<1>3. CASE ClaudeRuns \/ ClaudeWakes \/ ClaudeIdles
  BY <1>1, <1>3, OnStateSettles DEF ClaudeRuns, ClaudeWakes, ClaudeIdles
<1>4. CASE ClaudeTakes \/ ClaudeFolds
  <2> DEFINE id == Head(inbox)
  <2>1. inbox # <<>> /\ session' = OnStarted(session, id)
    BY <1>4 DEF ClaudeTakes, ClaudeFolds
  <2>2. id \in Messages \cup Injections /\ id \in Elements(inbox)
    BY <2>1, ElementsTail DEF IInv
  <2> HIDE DEF id
  <2>3. id \in Commands /\ (id \in session.injections \/ id \in TurnIds)
    BY <2>2 DEF IInv, ContextKnown, TurnIds, Commands
  <2> QED  BY <1>1, <2>1, <2>3, OnStartedSettles
<1>5. CASE \E origin \in {"peer", "task"} : ClaudeStartsOwn(origin)
  <2>1. session' = OnStarted(session, FreshOwn(session)) /\ FreshOwn(session) \in Commands /\ FreshOwn(session) \in TurnIds
    BY <1>5, FreshOwnType DEF ClaudeStartsOwn, Commands, TurnIds
  <2> QED  BY <1>1, <2>1, OnStartedSettles
<1>6. CASE ClaudeSpeaks \/ ClaudeRetries \/ ClaudeCompacts \/ \E block \in {"block", "answer"} : ClaudeBlocks(block)
  BY <1>1, <1>6, OnMessageSettles, OnBlockSettles, OnRetrySettles, EnsureOwnTurnOpens, OpensSettles
     DEF ClaudeSpeaks, ClaudeRetries, ClaudeBlocks, ClaudeCompacts
<1>7. CASE \E a \in Agents : ClaudeStartsAgent(a) \/ ClaudeEndsAgent(a)
  BY <1>1, <1>7, OnTaskSettles DEF ClaudeStartsAgent, ClaudeEndsAgent
<1>8. CASE ClaudeResult
  BY <1>1, <1>8, OnResultSettles DEF ClaudeResult
<1>9. (\E origin \in {"peer", "task"} : ClaudeGoesOn(origin)) \/ ClaudeInterrupted => UNCHANGED session
  BY DEF ClaudeGoesOn, ClaudeInterrupted
<1> QED  BY <1>2, <1>3, <1>4, <1>5, <1>6, <1>7, <1>8, <1>9 DEF Streams

LEMMA InterruptSettles ==
  ASSUME IInv, NEW awaited \in BOOLEAN, Interrupt(awaited)
  PROVE  Settles(session, session') /\ (~loaded => session'.turn = None)
<1> DEFINE asked == Asked(awaited)
<1>3. session.turn # None /\ session' = IF loaded THEN asked ELSE CompleteTurn(asked, FALSE)
  BY InterruptIs
<1>1. Fit(asked, session.injections)
  BY <1>3, AskedFit
<1>2. /\ asked.queued = session.queued /\ asked.calls = session.calls /\ asked.deferred = session.deferred
      /\ asked.ultra = session.ultra /\ asked.delegating = session.delegating
      /\ asked.open = session.open /\ asked.active = session.active
      /\ asked.turn \in Turn /\ asked.turn.id = session.turn.id /\ asked.turn.waiting = session.turn.waiting
      /\ asked.turn.interrupted = TRUE
  BY <1>3, AskedFit
<1> HIDE DEF asked
<1>4. Settles(session, asked)
  BY <1>2, <1>3, NoneIsNoTurn, SettlesAlike
<1>5. Settles(session, CompleteTurn(asked, FALSE))
  BY <1>1, <1>4, CompleteTurnDoes, SettlesTwice
<1>6. CompleteTurn(asked, FALSE).turn = None
  BY <1>1, <1>2, CompleteTurnEnds
<1> QED  BY <1>3, <1>4, <1>5, <1>6

LEMMA InterruptReturnsSettles ==
  ASSUME IInv, InterruptReturns
  PROVE  /\ Settles(session, session')
         /\ session'.turn = None \/ (session'.turn = session.turn /\ session.running /\ ~session.turn.waiting)
<1> DEFINE s == [session EXCEPT !.pendingInputs = @ \ Head(stop).cancelled, !.agents = {}]
           seen == [s EXCEPT !.turn.resultSeen = TRUE]
<1>1. Fit(s, session.injections) /\ Alike(session, s) /\ s.agents = {} /\ s.running = session.running
  BY DEF IInv, Fit, Session, Alike
<1>2. session' = IF s.turn # None /\ (~s.running \/ s.turn.waiting) THEN CompleteTurn(seen, FALSE) ELSE s
  BY DEF InterruptReturns
<1> HIDE DEF s
<1>3. Settles(session, s) /\ s.turn = session.turn
  BY <1>1, AlikeSettles DEF Alike
<1>4. ASSUME s.turn # None PROVE Settles(s, CompleteTurn(seen, FALSE)) /\ CompleteTurn(seen, FALSE).turn = None
  <2>1. Fit(seen, session.injections) /\ seen.agents = {}
    BY <1>1, <1>4 DEF Fit, Session, Turn
  <2>2. /\ seen.queued = s.queued /\ seen.calls = s.calls /\ seen.deferred = s.deferred /\ seen.ultra = s.ultra
        /\ seen.delegating = s.delegating /\ seen.open = s.open /\ seen.active = s.active
        /\ seen.turn \in Turn /\ seen.turn.id = s.turn.id /\ seen.turn.waiting = s.turn.waiting
    BY <1>1, <1>4 DEF Fit, Session, Turn
  <2> HIDE DEF seen
  <2>3. Settles(s, seen)
    BY <1>4, <2>2, NoneIsNoTurn, SettlesAlike
  <2> QED  BY <2>1, <2>3, CompleteTurnDoes, CompleteTurnEnds, SettlesTwice
<1>5. s.turn # None => Settles(session, CompleteTurn(seen, FALSE))
  BY <1>3, <1>4, SettlesTwice
<1> HIDE DEF seen
<1> QED  BY <1>1, <1>2, <1>3, <1>4, <1>5

LEMMA RunningTimerSettles == ASSUME IInv, RunningTimer PROVE Settles(session, session')
<1> DEFINE s == [session EXCEPT !.timer = FALSE]
<1>1. Fit(s, session.injections) /\ Alike(session, s)
  BY DEF IInv, Fit, Session, Alike
<1>2. session' = IF s.running THEN EnsureOwnTurn(s) ELSE s
  BY DEF RunningTimer
<1> HIDE DEF s
<1>3. Settles(session, s) /\ Settles(s, EnsureOwnTurn(s))
  BY <1>1, AlikeSettles, EnsureOwnTurnOpens, OpensSettles
<1> QED  BY <1>2, <1>3, SettlesTwice

LEMMA PeerReadSettles ==
  ASSUME IInv, NEW id \in OwnIds, NEW found \in BOOLEAN, PeerRead(id, found)
  PROVE  /\ Settles(session, session')
         /\ session'.turn = session.turn \/ (session.turn # None /\ session.turn.resultSeen)
<1> DEFINE cut == CompleteTurn(session, session.turn.waiting)
           read == IF /\ found
                      /\ id \in claude.peers
                      /\ session.turn # None /\ session.turn.id # id /\ session.turn.resultSeen
                      /\ session.queued = <<>>
                   THEN EnsureTurn(cut, id) ELSE session
           gone == [read EXCEPT !.peers = @ \ {id}]
<1>1. Fit(session, session.injections)
  BY DEF IInv
<1>2. ASSUME session.turn # None
      PROVE  Fit(EnsureTurn(cut, id), session.injections) /\ Settles(session, EnsureTurn(cut, id))
  <2>1. session.turn.waiting \in BOOLEAN
    BY <1>1, <1>2 DEF Fit, Session, Turn
  <2>2. Fit(cut, session.injections) /\ Leaves(session, cut)
    BY <1>1, <2>1, CompleteTurnFit, CompleteTurnDoes
  <2> HIDE DEF cut
  <2>3. id \in TurnIds
    BY DEF TurnIds
  <2> QED  BY <2>2, <2>3, EnsureTurnFit, EnsureTurnOpens, LeavesThenOpens, OpensSettles
<1>3. /\ Fit(read, session.injections) /\ Settles(session, read)
      /\ read = session \/ (session.turn # None /\ session.turn.resultSeen)
  <2>1. Settles(session, session)
    BY HandsNothing DEF Settles
  <2> QED  BY <1>1, <1>2, <2>1
<1>4. session' = gone
  BY DEF PeerRead
<1> HIDE DEF read
<1>5. Settles(read, gone) /\ gone.turn = read.turn
  <2>1. Alike(read, gone)
    BY <1>3 DEF Fit, Session, Alike
  <2> QED  BY <2>1, AlikeSettles DEF Alike
<1> HIDE DEF gone
<1> QED  BY <1>3, <1>4, <1>5, SettlesTwice

LEMMA ReturnsSettle == ASSUME IInv, Returns PROVE Settles(session, session')
BY InterruptSettles, InterruptReturnsSettles, RunningTimerSettles, PeerReadSettles DEF Returns

\* startTurn() goes on: the turn that waited is over, and the call is off the list.
ResumedAt(s, c) ==
  /\ s = IF session.turn # None /\ session.turn.waiting THEN CompleteTurn(session, TRUE) ELSE session
  /\ c \in session.calls /\ c.at = "settings"

LEMMA ResumeStartFrom ==
  ASSUME IInv, NEW c, ResumeStart(c)
  PROVE  \E s : /\ ResumedAt(s, c) /\ Fit(s, session.injections) /\ Leaves(session, s)
                /\ s.turn # None => s = session /\ ~session.turn.waiting
<1> DEFINE s == IF session.turn # None /\ session.turn.waiting THEN CompleteTurn(session, TRUE) ELSE session
<1>1. Fit(s, session.injections) /\ Leaves(session, s)
  <2>1. Leaves(session, session)
    BY HandsNothing DEF Leaves
  <2> QED  BY <2>1, CompleteTurnFit, CompleteTurnDoes DEF IInv
<1>2. ASSUME s.turn # None PROVE s = session /\ ~session.turn.waiting
  <2>1. session.turn # None => CompleteTurn(session, TRUE).turn = None
    BY CloseFit DEF CompleteTurn, IInv, Fit
  <2> QED  BY <1>2, <2>1
<1>3. ResumedAt(s, c)
  BY DEF ResumedAt, ResumeStart
<1> HIDE DEF s
<1> QED  BY <1>1, <1>2, <1>3

-----------------------------------------------------------------------------
(* Each prompt in one place. *)

LEMMA CallAdded ==
  ASSUME NEW s, NEW t, NEW c, t.queued = s.queued, t.deferred = s.deferred, t.calls = s.calls \cup {c},
         c.id \notin Prompts(s), Once(s)
  PROVE  Once(t) /\ Prompts(t) = Prompts(s) \cup {c.id}
<1>1. Ids(t.calls) = Ids(s.calls) \cup {c.id}
  BY DEF Ids
<1>2. c.id \notin Elements(s.queued) /\ c.id \notin Ids(s.calls) /\ c.id \notin s.deferred
  BY DEF Prompts
<1>3. \A d, e \in t.calls : d.id = e.id => d = e
  BY <1>2 DEF Once, Ids
<1>4. Prompts(t) = Prompts(s) \cup {c.id}
  BY <1>1 DEF Prompts
<1>5. Elements(t.queued) \cap Ids(t.calls) = {}
  <2>1. Elements(s.queued) \cap Ids(s.calls) = {}
    BY DEF Once
  <2> QED  BY <1>1, <1>2, <2>1
<1>6. t.deferred \cap (Elements(t.queued) \cup Ids(t.calls)) = {}
  <2>1. s.deferred \cap (Elements(s.queued) \cup Ids(s.calls)) = {}
    BY DEF Once
  <2> QED  BY <1>1, <1>2, <2>1
<1> QED  BY <1>3, <1>4, <1>5, <1>6 DEF Once

LEMMA CallRemoved ==
  ASSUME NEW s, NEW t, NEW c, t.queued = s.queued, t.deferred = s.deferred, t.calls = s.calls \ {c},
         c \in s.calls, Once(s)
  PROVE  Once(t) /\ Prompts(t) = Prompts(s) \ {c.id} /\ c.id \in Prompts(s)
<1>1. Ids(t.calls) = Ids(s.calls) \ {c.id} /\ c.id \in Ids(s.calls)
  BY DEF Ids, Once
<1>2. c.id \notin Elements(s.queued) /\ c.id \notin s.deferred
  BY <1>1 DEF Once
<1>3. \A d, e \in t.calls : d.id = e.id => d = e
  BY DEF Once
<1>4. Prompts(t) = Prompts(s) \ {c.id} /\ c.id \in Prompts(s)
  BY <1>1, <1>2 DEF Prompts
<1>5. Elements(t.queued) \cap Ids(t.calls) = {} /\ t.deferred \cap (Elements(t.queued) \cup Ids(t.calls)) = {}
  BY <1>1 DEF Once
<1> QED  BY <1>3, <1>4, <1>5 DEF Once

LEMMA DeferredAdded ==
  ASSUME NEW s, NEW t, NEW m, t.queued = s.queued, t.deferred = s.deferred \cup {m}, t.calls = s.calls,
         m \notin Prompts(s), Once(s)
  PROVE  Once(t) /\ Prompts(t) = Prompts(s) \cup {m}
<1>1. m \notin Elements(s.queued) /\ m \notin Ids(s.calls)
  BY DEF Prompts
<1> QED  BY <1>1 DEF Once, Prompts

LEMMA DeferredRemoved ==
  ASSUME NEW s, NEW t, NEW m, t.queued = s.queued, t.deferred = s.deferred \ {m}, t.calls = s.calls,
         m \in s.deferred, Once(s)
  PROVE  Once(t) /\ Prompts(t) = Prompts(s) \ {m} /\ m \in Prompts(s)
<1>1. m \notin Elements(s.queued) /\ m \notin Ids(s.calls)
  BY DEF Once
<1> QED  BY <1>1 DEF Once, Prompts

LEMMA DistinctAppend ==
  ASSUME NEW S, NEW q \in Seq(S), NEW e \in S, Distinct(q), e \notin Elements(q) PROVE Distinct(Append(q, e))
<1>1. /\ Len(q) \in Nat /\ DOMAIN q = 1..Len(q) /\ DOMAIN Append(q, e) = 1..(Len(q) + 1)
      /\ \A i \in 1..Len(q) : Append(q, e)[i] = q[i] /\ q[i] \in Elements(q)
      /\ Append(q, e)[Len(q) + 1] = e
  BY AppendProperties, LenProperties DEF Elements
<1> QED  BY <1>1 DEF Distinct

LEMMA DistinctTail ==
  ASSUME NEW S, NEW q \in Seq(S), q # <<>>, Distinct(q)
  PROVE  /\ Distinct(Tail(q)) /\ Elements(Tail(q)) = Elements(q) \ {Head(q)} /\ Head(q) \in Elements(q)
         /\ Tail(q) \in Seq(S)
<1>1. /\ Tail(q) \in Seq(S) /\ Head(q) = q[1] /\ 1 \in DOMAIN q /\ Head(q) \in Elements(q)
      /\ Len(q) \in Nat /\ DOMAIN q = 1..Len(q) /\ DOMAIN Tail(q) = 1..(Len(q) - 1)
      /\ \A i \in DOMAIN Tail(q) : Tail(q)[i] = q[i + 1] /\ i + 1 \in DOMAIN q
      /\ Elements(Tail(q)) \subseteq Elements(q)
  BY ElementsTail
<1>2. ASSUME NEW i \in DOMAIN Tail(q) PROVE Tail(q)[i] # Head(q)
  <2>1. i + 1 # 1 /\ i + 1 \in DOMAIN q /\ Tail(q)[i] = q[i + 1]
    BY <1>1
  <2> QED  BY <1>1, <2>1 DEF Distinct
<1>3. ASSUME NEW i \in DOMAIN Tail(q), NEW j \in DOMAIN Tail(q), i # j PROVE Tail(q)[i] # Tail(q)[j]
  <2>1. i + 1 # j + 1 /\ i + 1 \in DOMAIN q /\ j + 1 \in DOMAIN q
    BY <1>1, <1>3
  <2> QED  BY <1>1, <2>1 DEF Distinct
<1>4. ASSUME NEW i \in DOMAIN q, i # 1 PROVE q[i] \in Elements(Tail(q))
  <2>1. i - 1 \in DOMAIN Tail(q) /\ Tail(q)[i - 1] = q[i]
    BY <1>1, <1>4
  <2> QED  BY <2>1 DEF Elements
<1>5. Elements(q) \subseteq Elements(Tail(q)) \cup {Head(q)}
  BY <1>1, <1>4 DEF Elements
<1>6. Head(q) \notin Elements(Tail(q))
  BY <1>2 DEF Elements
<1> QED  BY <1>1, <1>3, <1>5, <1>6 DEF Distinct

LEMMA DistinctWithout ==
  ASSUME NEW S, NEW q \in Seq(S), NEW k \in DOMAIN q, Distinct(q)
  PROVE  /\ Distinct(WithoutEntry(q, k)) /\ Elements(WithoutEntry(q, k)) = Elements(q) \ {q[k]}
         /\ q[k] \in Elements(q)
<1> DEFINE w == WithoutEntry(q, k)
<1>1. Len(q) \in Nat /\ DOMAIN q = 1..Len(q) /\ k \in 1..Len(q)
  BY LenProperties
<1>2. DOMAIN w = 1..(Len(q) - 1) /\ \A j \in DOMAIN w : w[j] = q[IF j < k THEN j ELSE j + 1]
  BY <1>1 DEF WithoutEntry
<1>3. \A j \in DOMAIN w : (IF j < k THEN j ELSE j + 1) \in DOMAIN q /\ (IF j < k THEN j ELSE j + 1) # k
  BY <1>1, <1>2
<1> HIDE DEF w
<1>4. ASSUME NEW i \in DOMAIN w, NEW j \in DOMAIN w, i # j PROVE w[i] # w[j]
  <2>1. (IF i < k THEN i ELSE i + 1) # (IF j < k THEN j ELSE j + 1)
    BY <1>1, <1>2, <1>4
  <2> QED  BY <1>2, <1>3, <2>1 DEF Distinct
<1>5. ASSUME NEW j \in DOMAIN w PROVE w[j] \in Elements(q) /\ w[j] # q[k]
  BY <1>2, <1>3 DEF Distinct, Elements
<1>6. ASSUME NEW i \in DOMAIN q, i # k PROVE q[i] \in Elements(w)
  <2> DEFINE j == IF i < k THEN i ELSE i - 1
  <2>1. j \in DOMAIN w /\ (IF j < k THEN j ELSE j + 1) = i
    BY <1>1, <1>2, <1>6
  <2> HIDE DEF j
  <2> QED  BY <1>2, <2>1 DEF Elements
<1>7. Elements(w) = Elements(q) \ {q[k]} /\ q[k] \in Elements(q)
  BY <1>5, <1>6 DEF Elements
<1> QED  BY <1>4, <1>7 DEF Distinct, w

\* Entries are distinct just when there are as many as elements.
LEMMA DistinctCounts ==
  ASSUME NEW S, NEW q \in Seq(S)
  PROVE  IsFiniteSet(Elements(q)) /\ (Distinct(q) <=> Cardinality(Elements(q)) = Len(q))
<1> DEFINE E == Elements(q)
<1>1. Len(q) \in Nat /\ DOMAIN q = 1..Len(q) /\ q \in [1..Len(q) -> E]
  <2>1. Len(q) \in Nat /\ DOMAIN q = 1..Len(q) /\ q \in [1..Len(q) -> S]
    BY LenProperties, SeqDef
  <2> QED  BY <2>1 DEF Elements
<1>2. q \in Surjection(1..Len(q), E)
  BY <1>1 DEF Surjection, Elements
<1>3. IsFiniteSet(1..Len(q)) /\ Cardinality(1..Len(q)) = Len(q)
  <2>1. 1 \in Int /\ Len(q) \in Int
    BY <1>1
  <2>2. IsFiniteSet(1..Len(q)) /\ Cardinality(1..Len(q)) = IF 1 > Len(q) THEN 0 ELSE Len(q) - 1 + 1
    BY <2>1, FS_Interval
  <2> QED  BY <1>1, <2>2
<1>4. IsFiniteSet(E) /\ (Cardinality(E) = Cardinality(1..Len(q)) <=> q \in Injection(1..Len(q), E))
  BY <1>2, <1>3, FS_Surjection
<1>5. q \in Injection(1..Len(q), E) <=> Distinct(q)
  BY <1>1 DEF Injection, IsInjective, Distinct
<1> QED  BY <1>3, <1>4, <1>5

\* Every prompt sent is held by the object, unread in Claude's inbox, taken or dropped, and in one of these only.
Sorted(sent, held, unread, taken, dropped) ==
  /\ sent = held \cup unread \cup taken \cup dropped
  /\ held \cap (unread \cup taken \cup dropped) = {}
  /\ unread \cap (taken \cup dropped) = {}
  /\ taken \cap dropped = {}

Unread == Messages \cap Elements(inbox)

PromptsInv ==
  /\ Once(session)
  /\ Distinct(inbox)
  /\ Sorted(history.sent, Prompts(session), Unread, history.taken, history.dropped)

LEMMA SortedSent ==
  ASSUME NEW S, NEW H, NEW U, NEW T, NEW D, Sorted(S, H, U, T, D), NEW m, m \notin S
  PROVE  m \notin H /\ Sorted(S \cup {m}, H \cup {m}, U, T, D)
BY DEF Sorted

LEMMA SortedPushed ==
  ASSUME NEW S, NEW H, NEW U, NEW T, NEW D, Sorted(S, H, U, T, D), NEW m, m \in H
  PROVE  m \notin U /\ Sorted(S, H \ {m}, U \cup {m}, T, D)
BY DEF Sorted

LEMMA SortedDropped ==
  ASSUME NEW S, NEW H, NEW U, NEW T, NEW D, Sorted(S, H, U, T, D), NEW m, m \in H
  PROVE  Sorted(S, H \ {m}, U, T, D \cup {m})
BY DEF Sorted

LEMMA SortedBack ==
  ASSUME NEW S, NEW H, NEW U, NEW T, NEW D, Sorted(S, H, U, T, D), NEW m, m \in H
  PROVE  Sorted(S \ {m}, H \ {m}, U, T, D)
BY DEF Sorted

LEMMA SortedTaken ==
  ASSUME NEW S, NEW H, NEW U, NEW T, NEW D, Sorted(S, H, U, T, D), NEW m, m \in U
  PROVE  Sorted(S, H, U \ {m}, T \cup {m}, D)
BY DEF Sorted

LEMMA SortedLost ==
  ASSUME NEW S, NEW H, NEW U, NEW T, NEW D, Sorted(S, H, U, T, D), NEW N, N \subseteq H
  PROVE  Sorted(S, H \ N, {}, T, D \cup U \cup N)
BY DEF Sorted

LEMMA InboxPushed ==
  ASSUME IInv, PromptsInv, NEW id \in Messages \cup Injections, id \notin Elements(inbox), inbox' = Append(inbox, id)
  PROVE  Distinct(inbox') /\ Unread' = Unread \cup ({id} \cap Messages)
<1>1. inbox \in Seq(Messages \cup Injections)
  BY DEF IInv
<1>2. Elements(inbox') = Elements(inbox) \cup {id}
  BY <1>1, ElementsAppend
<1>3. Distinct(inbox')
  BY <1>1, DistinctAppend DEF PromptsInv
<1> QED  BY <1>2, <1>3 DEF Unread

LEMMA InboxTaken ==
  ASSUME IInv, PromptsInv, inbox # <<>>, inbox' = Tail(inbox)
  PROVE  Distinct(inbox') /\ Unread' = Unread \ {Head(inbox)} /\ Head(inbox) \in Elements(inbox)
<1>1. inbox \in Seq(Messages \cup Injections) /\ Distinct(inbox)
  BY DEF IInv, PromptsInv
<1>2. Distinct(inbox') /\ Elements(inbox') = Elements(inbox) \ {Head(inbox)} /\ Head(inbox) \in Elements(inbox)
  BY <1>1, DistinctTail
<1> QED  BY <1>2 DEF Unread

LEMMA InboxDropped == ASSUME inbox' = <<>> PROVE Distinct(inbox') /\ Unread' = {}
BY EmptyInbox DEF Distinct, Unread

\* Steps that move no prompt out of the object or into it.
LEMMA PromptsStay ==
  ASSUME PromptsInv, HandsOn(session, session') \/ Recalls(session, session'), UNCHANGED <<inbox, history>>
  PROVE  PromptsInv'
<1>1. Prompts(session') = Prompts(session) /\ Once(session')
  BY RecallsKeeps DEF HandsOn, PromptsInv
<1>2. Unread' = Unread
  BY DEF Unread
<1> QED  BY <1>1, <1>2 DEF PromptsInv

\* A prompt of the object goes to Claude, or is dropped.
LEMMA PromptsPushed ==
  ASSUME IInv, PromptsInv, NEW m \in Messages, m \in Prompts(session), Prompts(session') = Prompts(session) \ {m},
         Once(session'), inbox' = Append(inbox, m), UNCHANGED history
  PROVE  PromptsInv'
<1>1. Sorted(history.sent, Prompts(session) \ {m}, Unread \cup {m}, history.taken, history.dropped) /\ m \notin Unread
  <2>1. Sorted(history.sent, Prompts(session), Unread, history.taken, history.dropped)
    BY DEF PromptsInv
  <2> QED  BY <2>1, SortedPushed
<1>2. Distinct(inbox') /\ Unread' = Unread \cup {m}
  BY <1>1, InboxPushed DEF Unread
<1> QED  BY <1>1, <1>2 DEF PromptsInv

LEMMA PromptsDropped ==
  ASSUME PromptsInv, NEW m \in Prompts(session), Prompts(session') = Prompts(session) \ {m}, Once(session'),
         history'.sent = history.sent, history'.taken = history.taken, history'.dropped = history.dropped \cup {m},
         UNCHANGED inbox
  PROVE  PromptsInv'
<1>2. Sorted(history.sent, Prompts(session) \ {m}, Unread, history.taken, history.dropped \cup {m})
  <2>1. Sorted(history.sent, Prompts(session), Unread, history.taken, history.dropped)
    BY DEF PromptsInv
  <2> QED  BY <2>1, SortedDropped
<1>3. Unread' = Unread
  BY DEF Unread
<1> QED  BY <1>2, <1>3 DEF PromptsInv

LEMMA PromptsSent ==
  ASSUME PromptsInv, NEW m, m \notin history.sent, Prompts(session') = Prompts(session) \cup {m}, Once(session'),
         history' = [history EXCEPT !.sent = @ \cup {m}], history \in History, UNCHANGED inbox
  PROVE  PromptsInv'
<1>1. history'.sent = history.sent \cup {m} /\ history'.taken = history.taken /\ history'.dropped = history.dropped
  BY DEF History
<1>2. Sorted(history.sent \cup {m}, Prompts(session) \cup {m}, Unread, history.taken, history.dropped)
  <2>1. Sorted(history.sent, Prompts(session), Unread, history.taken, history.dropped)
    BY DEF PromptsInv
  <2> QED  BY <2>1, SortedSent
<1>3. Unread' = Unread
  BY DEF Unread
<1> QED  BY <1>1, <1>2, <1>3 DEF PromptsInv

\* Claude's inbox is gone, and with it the prompts there.
LEMMA PromptsLost ==
  ASSUME PromptsInv, NEW N, N \subseteq Prompts(session), Prompts(session') = Prompts(session) \ N, Once(session'),
         history' = [history EXCEPT !.dropped = @ \cup Unread \cup N], history \in History, inbox' = <<>>
  PROVE  PromptsInv'
<1>1. history'.sent = history.sent /\ history'.taken = history.taken
      /\ history'.dropped = history.dropped \cup Unread \cup N
  BY DEF History
<1>2. Sorted(history.sent, Prompts(session) \ N, {}, history.taken, history.dropped \cup Unread \cup N)
  <2>1. Sorted(history.sent, Prompts(session), Unread, history.taken, history.dropped)
    BY DEF PromptsInv
  <2> QED  BY <2>1, SortedLost
<1> QED  BY <1>1, <1>2, InboxDropped DEF PromptsInv

\* A prompt a client sends, or takes from the queue, into a call or into the queue.
LEMMA SentIntoCall ==
  ASSUME IInv, PromptsInv, NEW m, m \in Unsent, NEW c, c.id = m, session'.queued = session.queued,
         session'.deferred = session.deferred, session'.calls = session.calls \cup {c},
         history' = [history EXCEPT !.sent = @ \cup {m}], UNCHANGED inbox
  PROVE  PromptsInv'
<1>1. m \notin history.sent /\ m \notin Prompts(session) /\ Once(session) /\ history \in History
  BY DEF Unsent, PromptsInv, Sorted, IInv
<1>2. Once(session') /\ Prompts(session') = Prompts(session) \cup {m}
  BY <1>1, CallAdded
<1> QED  BY <1>1, <1>2, PromptsSent

LEMMA QueueAddPlaces == ASSUME IInv, PromptsInv, NEW m \in Messages, QueueAdd(m) PROVE PromptsInv'
<1>1. session \in Session /\ session.queued \in Seq(Messages) /\ history \in History
  BY DEF IInv, Fit, Session
<1>2. m \in Unsent /\ history' = [history EXCEPT !.sent = @ \cup {m}] /\ UNCHANGED inbox
  BY DEF QueueAdd
<1>3. CASE session' = [session EXCEPT !.calls = @ \cup {StartCall(m)}]
  <2>1. session'.queued = session.queued /\ session'.deferred = session.deferred
        /\ session'.calls = session.calls \cup {StartCall(m)} /\ StartCall(m).id = m
    BY <1>1, <1>3 DEF Session, StartCall
  <2> QED  BY <1>2, <2>1, SentIntoCall
<1>4. CASE session' = [session EXCEPT !.queued = Append(@, m)]
  <2>1. session'.queued = Append(session.queued, m) /\ session'.deferred = session.deferred
        /\ session'.calls = session.calls
    BY <1>1, <1>4 DEF Session
  <2>2. m \notin history.sent /\ m \notin Prompts(session) /\ Once(session)
    BY <1>2 DEF Unsent, PromptsInv, Sorted
  <2>3. m \notin Elements(session.queued) /\ m \notin Ids(session.calls) /\ m \notin session.deferred
    BY <2>2 DEF Prompts
  <2>4. Elements(session'.queued) = Elements(session.queued) \cup {m}
    BY <1>1, <2>1, ElementsAppend
  <2>5. Prompts(session') = Prompts(session) \cup {m}
    BY <2>1, <2>4 DEF Prompts
  <2>6. Distinct(session'.queued)
    BY <1>1, <2>1, <2>2, <2>3, DistinctAppend DEF Once
  <2>7. Once(session')
    BY <2>1, <2>2, <2>3, <2>4, <2>6 DEF Once
  <2> QED  BY <1>1, <1>2, <2>2, <2>5, <2>7, PromptsSent
<1> QED  BY <1>3, <1>4 DEF QueueAdd

\* An entry leaves the queue.
LEMMA EntryLeaves ==
  ASSUME NEW s \in Session, NEW k \in DOMAIN s.queued, NEW r, r.queued = WithoutEntry(s.queued, k), r.calls = s.calls,
         r.deferred = s.deferred, Once(s)
  PROVE  /\ Once(r) /\ Prompts(r) = Prompts(s) \ {s.queued[k]} /\ s.queued[k] \in Prompts(s)
         /\ s.queued[k] \in Messages
<1> DEFINE m == s.queued[k]
<1>1. s.queued \in Seq(Messages) /\ Distinct(s.queued)
  BY DEF Session, Once
<1>2. Distinct(r.queued) /\ Elements(r.queued) = Elements(s.queued) \ {m} /\ m \in Elements(s.queued) /\ m \in Messages
  BY <1>1, DistinctWithout, WithoutEntryType
<1> HIDE DEF m
<1>3. m \notin Ids(s.calls) /\ m \notin s.deferred
  BY <1>2 DEF Once
<1>4. Prompts(r) = Prompts(s) \ {m} /\ m \in Prompts(s)
  BY <1>2, <1>3 DEF Prompts
<1>5. Once(r)
  BY <1>2 DEF Once
<1> QED  BY <1>2, <1>4, <1>5 DEF m

LEMMA QueueStartPlaces == ASSUME IInv, PromptsInv, NEW k, QueueStart(k) PROVE PromptsInv'
<1> DEFINE m == session.queued[k]
           rest == [session EXCEPT !.queued = WithoutEntry(@, k)]
<1>1. session \in Session /\ history \in History /\ k \in DOMAIN session.queued /\ Once(session) /\ UNCHANGED inbox
  BY DEF IInv, Fit, QueueStart, PromptsInv
<1>2. rest \in [turn: Turn \cup {None}, queued: {WithoutEntry(session.queued, k)}, agents: SUBSET Agents,
                pendingInputs: SUBSET Messages, injections: SUBSET Injections, waiters: SUBSET TurnIds,
                unheard: BOOLEAN, peers: SUBSET OwnIds, calls: {session.calls}, deferred: {session.deferred}, running: BOOLEAN,
                timer: BOOLEAN, afterResult: BOOLEAN, notified: BOOLEAN, response: BOOLEAN,
                lastBlock: {"none", "block", "answer"}, ultra: BOOLEAN, delegating: BOOLEAN,
                open: SUBSET TurnIds, active: BOOLEAN]
  BY <1>1 DEF Session
<1>3. /\ Once(rest) /\ Prompts(rest) = Prompts(session) \ {m} /\ m \in Prompts(session) /\ m \in Messages
  BY <1>1, <1>2, EntryLeaves
<1>4. ASSUME NEW c, c.id = m, session'.queued = rest.queued, session'.deferred = rest.deferred,
             session'.calls = rest.calls \cup {c}, UNCHANGED history
      PROVE  PromptsInv'
  <2> HIDE DEF rest, m
  <2>1. c.id \notin Prompts(rest)
    BY <1>3, <1>4
  <2>2. Once(session') /\ Prompts(session') = Prompts(rest) \cup {m}
    BY <1>3, <1>4, <2>1, CallAdded
  <2>3. Prompts(session') = Prompts(session)
    BY <1>3, <2>2
  <2>4. Unread' = Unread
    BY <1>1 DEF Unread
  <2> QED  BY <1>1, <1>4, <2>2, <2>3, <2>4 DEF PromptsInv
<1>5. CASE session' = [rest EXCEPT !.calls = @ \cup {StartCall(m)}] /\ UNCHANGED history
  <2>1. session'.queued = rest.queued /\ session'.deferred = rest.deferred
        /\ session'.calls = rest.calls \cup {StartCall(m)} /\ StartCall(m).id = m
    BY <1>2, <1>5 DEF StartCall
  <2> QED  BY <1>4, <1>5, <2>1
<1>6. CASE session' = [rest EXCEPT !.pendingInputs = @ \cup {m}, !.calls = @ \cup {SteerCall(m)}] /\ UNCHANGED history
  <2>1. session'.queued = rest.queued /\ session'.deferred = rest.deferred
        /\ session'.calls = rest.calls \cup {SteerCall(m)} /\ SteerCall(m).id = m
    BY <1>2, <1>6 DEF SteerCall
  <2> QED  BY <1>4, <1>6, <2>1
<1>7. CASE /\ session' = rest
           /\ history' = [history EXCEPT !.dropped = @ \cup {m}, !.refused = IF session.turn.waiting THEN @ ELSE @ \cup {m}]
  <2>1. history'.sent = history.sent /\ history'.taken = history.taken /\ history'.dropped = history.dropped \cup {m}
    BY <1>1, <1>7 DEF History
  <2> HIDE DEF rest, m
  <2> QED  BY <1>1, <1>3, <1>7, <2>1, PromptsDropped
<1> QED  BY <1>5, <1>6, <1>7 DEF QueueStart

LEMMA QueueEditPlaces ==
  ASSUME IInv, PromptsInv,
         \/ \E k \in DOMAIN session.queued : QueueDelete(k)
         \/ \E order \in [DOMAIN session.queued -> Elements(session.queued)] : QueueReorder(order)
  PROVE  PromptsInv'
<1>1. session \in Session /\ session.queued \in Seq(Messages) /\ history \in History /\ Once(session) /\ UNCHANGED inbox
  BY DEF IInv, Fit, Session, PromptsInv, QueueDelete, QueueReorder
<1>2. Unread' = Unread /\ Distinct(inbox)'
  BY <1>1 DEF Unread, PromptsInv
<1>3. ASSUME NEW k \in DOMAIN session.queued, QueueDelete(k) PROVE PromptsInv'
  <2> DEFINE m == session.queued[k]
  <2>1. session'.queued = WithoutEntry(session.queued, k) /\ session'.calls = session.calls
        /\ session'.deferred = session.deferred
        /\ history'.sent = history.sent \ {m} /\ history'.taken = history.taken /\ history'.dropped = history.dropped
    BY <1>1, <1>3 DEF QueueDelete, Session, History
  <2>2. Once(session') /\ Prompts(session') = Prompts(session) \ {m} /\ m \in Prompts(session)
    BY <1>1, <2>1, EntryLeaves
  <2> HIDE DEF m
  <2>3. Sorted(history.sent \ {m}, Prompts(session) \ {m}, Unread, history.taken, history.dropped)
    <3>1. Sorted(history.sent, Prompts(session), Unread, history.taken, history.dropped)
      BY DEF PromptsInv
    <3> QED  BY <2>2, <3>1, SortedBack
  <2> QED  BY <1>2, <2>1, <2>2, <2>3 DEF PromptsInv
<1>4. ASSUME NEW order \in [DOMAIN session.queued -> Elements(session.queued)], QueueReorder(order) PROVE PromptsInv'
  <2>1. session'.queued = order /\ session'.calls = session.calls /\ session'.deferred = session.deferred
        /\ Elements(order) = Elements(session.queued) /\ UNCHANGED history
    BY <1>1, <1>4 DEF QueueReorder, Session
  <2>2. order \in Seq(Messages) /\ Len(order) = Len(session.queued)
    <3>1. order \in Seq(Messages)
      BY <1>1, ReorderType
    <3>2. DOMAIN order = DOMAIN session.queued
      OBVIOUS
    <3> QED  BY <1>1, <3>1, <3>2, LenProperties
  <2>3. Distinct(order)
    <3>1. Cardinality(Elements(session.queued)) = Len(session.queued)
      BY <1>1, DistinctCounts DEF Once
    <3> QED  BY <2>1, <2>2, <3>1, DistinctCounts
  <2>4. Once(session') /\ Prompts(session') = Prompts(session)
    BY <1>1, <2>1, <2>3 DEF Once, Prompts
  <2> QED  BY <1>2, <2>1, <2>4 DEF PromptsInv
<1> QED  BY <1>3, <1>4

LEMMA SendPlaces ==
  ASSUME IInv, PromptsInv, NEW m \in Messages, Steer(m) \/ \E ultra \in UltraChoices : StartTurn(m, ultra)
  PROVE  PromptsInv'
<1>1. m \in Unsent /\ history' = [history EXCEPT !.sent = @ \cup {m}] /\ UNCHANGED inbox
  BY DEF Steer, StartTurn
<1>2. session'.queued = session.queued /\ session'.deferred = session.deferred
      /\ (session'.calls = session.calls \cup {StartCall(m)} \/ session'.calls = session.calls \cup {SteerCall(m)})
  BY DEF IInv, Fit, Session, Steer, StartTurn
<1>3. StartCall(m).id = m /\ SteerCall(m).id = m
  BY DEF StartCall, SteerCall
<1> QED  BY <1>1, <1>2, <1>3, SentIntoCall

LEMMA ResumeStartPlaces == ASSUME IInv, PromptsInv, NEW c, ResumeStart(c) PROVE PromptsInv'
<1>1. PICK s : ResumedAt(s, c) /\ Fit(s, session.injections) /\ Leaves(session, s)
  BY ResumeStartFrom
<1> DEFINE gone == [s EXCEPT !.calls = @ \ {c}]
           m == c.id
<1>2. m \in Messages /\ c \in session.calls /\ c \in s.calls /\ UNCHANGED history
  BY <1>1 DEF IInv, Fit, Session, Call, ResumedAt, Leaves, HandsOn, ResumeStart
<1>3. Once(s) /\ Prompts(s) = Prompts(session)
  BY <1>1 DEF Leaves, HandsOn, PromptsInv
<1>4. gone \in Session /\ gone.queued = s.queued /\ gone.deferred = s.deferred /\ gone.calls = s.calls \ {c}
      /\ gone.turn = s.turn
  BY <1>1 DEF Fit, Session
<1> HIDE DEF gone
<1>5. Once(gone) /\ Prompts(gone) = Prompts(session) \ {m} /\ m \in Prompts(session)
  BY <1>2, <1>3, <1>4, CallRemoved
<1> HIDE DEF m
<1>6. CASE session' = [gone EXCEPT !.pendingInputs = @ \cup {m}] /\ Push(m)
  <2>1. HandsOn(gone, session')
    <3>1. session'.queued = gone.queued /\ session'.calls = gone.calls /\ session'.deferred = gone.deferred
          /\ session'.ultra = gone.ultra /\ session'.delegating = gone.delegating
      BY <1>4, <1>6 DEF Session
    <3> QED  BY <3>1, HandsNothing
  <2>2. Once(session') /\ Prompts(session') = Prompts(session) \ {m}
    BY <1>5, <2>1 DEF HandsOn
  <2> QED  BY <1>2, <1>5, <1>6, <2>2, PromptsPushed DEF Push
<1>7. CASE \E i \in FreeInjections :
             /\ session' = [gone EXCEPT !.delegating = ~@, !.injections = @ \cup {i}, !.calls = @ \cup {NoteCall(m, i)}]
             /\ Push(i)
  <2>1. PICK i \in FreeInjections :
          /\ session' = [gone EXCEPT !.delegating = ~@, !.injections = @ \cup {i}, !.calls = @ \cup {NoteCall(m, i)}]
          /\ inbox' = Append(inbox, i)
    BY <1>7 DEF Push
  <2>2. session'.queued = gone.queued /\ session'.deferred = gone.deferred
        /\ session'.calls = gone.calls \cup {NoteCall(m, i)} /\ NoteCall(m, i).id = m
    BY <1>4, <2>1 DEF Session, NoteCall
  <2>3. Once(session') /\ Prompts(session') = Prompts(session)
    <3>1. NoteCall(m, i).id \notin Prompts(gone)
      BY <1>5, <2>2
    <3>2. Once(session') /\ Prompts(session') = Prompts(gone) \cup {m}
      BY <1>5, <2>2, <3>1, CallAdded
    <3> QED  BY <1>5, <3>2
  <2>4. Distinct(inbox') /\ Unread' = Unread \cup ({i} \cap Messages) /\ {i} \cap Messages = {}
    BY <2>1, InboxPushed, IdsDisjoint DEF FreeInjections
  <2> QED  BY <1>2, <2>3, <2>4 DEF PromptsInv
<1>8. CASE session' = OpenTurnDeferred(gone, m) /\ UNCHANGED inbox
  <2>1. session'.queued = gone.queued /\ session'.calls = gone.calls /\ session'.deferred = gone.deferred \cup {m}
    BY <1>4, <1>8 DEF OpenTurnDeferred, NewTurn, Session
  <2>2. m \notin Prompts(gone)
    BY <1>5
  <2>3. Once(session') /\ Prompts(session') = Prompts(gone) \cup {m}
    BY <1>5, <2>1, <2>2, DeferredAdded
  <2>4. Prompts(session') = Prompts(session) /\ Unread' = Unread
    BY <1>5, <1>8, <2>3 DEF Unread
  <2> QED  BY <1>2, <1>8, <2>3, <2>4 DEF PromptsInv
<1> QED  BY <1>1, <1>4, <1>6, <1>7, <1>8 DEF ResumeStart, ResumedAt, gone, m

LEMMA ResumeToldPlaces == ASSUME IInv, PromptsInv, NEW c, ResumeTold(c) PROVE PromptsInv'
<1> DEFINE gone == [session EXCEPT !.calls = @ \ {c}]
           m == c.id
<1>1. c \in session.calls /\ session' = OpenTurnDeferred(gone, m) /\ UNCHANGED <<inbox, history>> /\ Once(session)
  BY DEF ResumeTold, PromptsInv
<1>2. gone \in Session /\ gone.queued = session.queued /\ gone.deferred = session.deferred
      /\ gone.calls = session.calls \ {c}
  BY DEF IInv, Fit, Session
<1> HIDE DEF gone
<1>3. Once(gone) /\ Prompts(gone) = Prompts(session) \ {m} /\ m \in Prompts(session)
  BY <1>1, <1>2, CallRemoved
<1> HIDE DEF m
<1>4. session'.queued = gone.queued /\ session'.calls = gone.calls /\ session'.deferred = gone.deferred \cup {m}
  BY <1>1, <1>2 DEF OpenTurnDeferred, NewTurn, Session
<1>5. Once(session') /\ Prompts(session') = Prompts(gone) \cup {m}
  BY <1>3, <1>4, DeferredAdded
<1>6. Prompts(session') = Prompts(session) /\ Unread' = Unread
  BY <1>1, <1>3, <1>5 DEF Unread
<1> QED  BY <1>1, <1>5, <1>6 DEF PromptsInv

LEMMA CallEndsPlaces ==
  ASSUME IInv, PromptsInv, NEW c, ResumeSteer(c) \/ FailStart(c) PROVE PromptsInv'
<1> DEFINE m == c.id
<1>1. c \in session.calls /\ Once(session) /\ history \in History /\ c.id \in Messages
  BY DEF ResumeSteer, FailStart, PromptsInv, IInv, Fit, Session, Call
<1>2. session'.queued = session.queued /\ session'.deferred = session.deferred /\ session'.calls = session.calls \ {c}
  BY DEF IInv, Fit, Session, ResumeSteer, FailStart
<1>3. Once(session') /\ Prompts(session') = Prompts(session) \ {m} /\ m \in Prompts(session)
  BY <1>1, <1>2, CallRemoved
<1>4. \/ inbox' = Append(inbox, m) /\ UNCHANGED history
      \/ /\ history'.sent = history.sent /\ history'.taken = history.taken /\ history'.dropped = history.dropped \cup {m}
         /\ UNCHANGED inbox
  BY <1>1 DEF ResumeSteer, FailStart, History
<1> HIDE DEF m
<1> QED  BY <1>1, <1>3, <1>4, PromptsPushed, PromptsDropped DEF m

LEMMA DeliverPlaces == ASSUME IInv, PromptsInv, NEW m \in Messages, Deliver(m) PROVE PromptsInv'
<1>1. m \in session.deferred /\ Once(session) /\ inbox' = Append(inbox, m) /\ UNCHANGED history
  BY DEF Deliver, Push, PromptsInv
<1>2. session'.queued = session.queued /\ session'.calls = session.calls /\ session'.deferred = session.deferred \ {m}
  BY DEF IInv, Fit, Session, Deliver, Announce
<1>3. Once(session') /\ Prompts(session') = Prompts(session) \ {m} /\ m \in Prompts(session)
  BY <1>1, <1>2, DeferredRemoved
<1> QED  BY <1>1, <1>3, PromptsPushed

LEMMA InjectPlaces == ASSUME IInv, PromptsInv, NEW i \in Injections, Inject(i) PROVE PromptsInv'
<1>1. HandsOn(session, session')
  <2>1. session'.queued = session.queued /\ session'.calls = session.calls /\ session'.deferred = session.deferred
        /\ session'.ultra = session.ultra /\ session'.delegating = session.delegating
    BY DEF IInv, Fit, Session, Inject
  <2> QED  BY <2>1, HandsNothing
<1>2. inbox' = Append(inbox, i) /\ i \notin Elements(inbox) /\ UNCHANGED history
  BY DEF Inject, Push, FreeInjections
<1>3. Distinct(inbox') /\ Unread' = Unread \cup ({i} \cap Messages) /\ {i} \cap Messages = {}
  BY <1>2, InboxPushed, IdsDisjoint
<1> QED  BY <1>1, <1>2, <1>3 DEF PromptsInv, HandsOn

LEMMA StreamsPlaces == ASSUME IInv, PromptsInv, Streams PROVE PromptsInv'
<1>1. HandsOn(session, session') /\ history \in History
  BY StreamsSettle DEF Settles, IInv
<1>2. CASE ClaudeTakes \/ ClaudeFolds
  <2> DEFINE m == Head(inbox)
  <2>1. inbox # <<>> /\ inbox' = Tail(inbox) /\ Taken(m)
    BY <1>2 DEF ClaudeTakes, ClaudeFolds
  <2>2. Distinct(inbox') /\ Unread' = Unread \ {m} /\ m \in Elements(inbox)
    BY <2>1, InboxTaken
  <2>3. history'.sent = history.sent /\ history'.taken = history.taken \cup ({m} \cap Messages)
        /\ history'.dropped = history.dropped
    BY <1>1, <2>1 DEF Taken, History
  <2> HIDE DEF m
  <2>4. Sorted(history.sent, Prompts(session), Unread, history.taken, history.dropped)
    BY DEF PromptsInv
  <2>5. Sorted(history.sent, Prompts(session), Unread', history'.taken, history.dropped)
    <3>1. CASE m \in Messages
      <4>1. m \in Unread /\ history'.taken = history.taken \cup {m}
        BY <2>2, <2>3, <3>1 DEF Unread
      <4> QED  BY <2>2, <2>4, <4>1, SortedTaken
    <3>2. CASE m \notin Messages
      <4>1. Unread' = Unread /\ history'.taken = history.taken
        BY <2>2, <2>3, <3>2 DEF Unread
      <4> QED  BY <2>4, <4>1
    <3> QED  BY <3>1, <3>2
  <2> QED  BY <1>1, <2>2, <2>3, <2>5 DEF PromptsInv, HandsOn
<1>3. CASE ClaudeInterrupted
  <2>1. UNCHANGED session /\ history' = [history EXCEPT !.dropped = @ \cup Unread \cup {}] /\ inbox' = <<>>
    BY <1>1, <1>3 DEF ClaudeInterrupted, Unread
  <2>2. Prompts(session') = Prompts(session) \ {} /\ Once(session')
    BY <2>1 DEF PromptsInv
  <2> QED  BY <1>1, <2>1, <2>2, PromptsLost
<1>4. CASE UNCHANGED <<inbox, history>>
  BY <1>1, <1>4, PromptsStay
<1>5. ClaudeTakes \/ ClaudeFolds \/ ClaudeInterrupted \/ UNCHANGED <<inbox, history>>
  BY DEF Streams, ClaudeRuns, ClaudeWakes, ClaudeStartsOwn, ClaudeGoesOn, ClaudeSpeaks, ClaudeRetries, ClaudeCompacts, ClaudeBlocks,
         ClaudeStartsAgent, ClaudeEndsAgent, ClaudeResult, ClaudeIdles
<1> QED  BY <1>2, <1>3, <1>4, <1>5

LEMMA CompletesPlaces == ASSUME IInv, PromptsInv, NEW id, Completes(id) PROVE PromptsInv'
<1> DEFINE r == [session EXCEPT !.injections = @ \ {id}, !.calls = Told(@, id)]
<1>1. Recalls(session, r) /\ Settles(r, OnCompleted(session, id))
  BY OnCompletedDoes DEF IInv
<1> HIDE DEF r
<1>2. Prompts(session') = Prompts(session) /\ Once(session') /\ UNCHANGED <<inbox, history>>
  BY <1>1, RecallsKeeps DEF Settles, HandsOn, PromptsInv, Completes
<1>3. Unread' = Unread
  BY <1>2 DEF Unread
<1> QED  BY <1>2, <1>3 DEF PromptsInv

LEMMA ReturnsPlaces == ASSUME IInv, PromptsInv, Returns PROVE PromptsInv'
<1>1. UNCHANGED <<inbox, history>>
  BY DEF Returns, InterruptReturns, RunningTimer, PeerRead, Interrupt
<1> QED  BY <1>1, ReturnsSettle, PromptsStay DEF Settles

LEMMA SweepPlaces == ASSUME IInv, PromptsInv, Sweep PROVE PromptsInv'
<1>1. Recalls(session, session')
  <2>1. session.calls \in SUBSET Call
    BY DEF IInv, Fit, Session
  <2>2. session'.calls = LoseInbox(session.calls) /\ session'.turn = session.turn /\ session'.queued = session.queued
        /\ session'.deferred = session.deferred /\ session'.ultra = session.ultra
        /\ session'.delegating = session.delegating /\ session'.open = session.open /\ session'.active = session.active
    BY DEF IInv, Fit, Session, Sweep
  <2> QED  BY <2>1, <2>2, LostCalls DEF Recalls
<1>2. Prompts(session') = Prompts(session) \ {} /\ Once(session')
  BY <1>1, RecallsKeeps DEF PromptsInv
<1>3. history \in History /\ history' = [history EXCEPT !.dropped = @ \cup Unread \cup {}] /\ inbox' = <<>>
  BY DEF IInv, Sweep, Unread
<1> QED  BY <1>2, <1>3, PromptsLost

LEMMA ClaudeDiesPlaces == ASSUME IInv, PromptsInv, ClaudeDies PROVE PromptsInv'
<1> DEFINE N == Ids({c \in session.calls : c.at = "note"})
<1>1. Fit(session, session.injections) /\ Once(session) /\ session' = OnGone(session)
  BY DEF IInv, PromptsInv, ClaudeDies
<1>2. Prompts(session') = Prompts(session) \ N /\ Once(session') /\ N \subseteq Prompts(session)
  BY <1>1, OnGoneDoes
<1>3. history \in History /\ history' = [history EXCEPT !.dropped = @ \cup Unread \cup N] /\ inbox' = <<>>
  BY DEF IInv, ClaudeDies, Unread, Ids
<1> HIDE DEF N
<1> QED  BY <1>2, <1>3, PromptsLost

LEMMA InitPrompts == Init => PromptsInv
<1> SUFFICES ASSUME Init PROVE PromptsInv
  OBVIOUS
<1>1. session.queued = <<>> /\ session.calls = {} /\ session.deferred = {} /\ inbox = <<>>
      /\ history.sent = {} /\ history.taken = {} /\ history.dropped = {}
  BY DEF Init
<1>2. Prompts(session) = {} /\ Once(session) /\ Distinct(inbox) /\ Unread = {}
  BY <1>1, EmptyInbox DEF Prompts, Ids, Once, Distinct, Unread
<1> QED  BY <1>1, <1>2 DEF PromptsInv, Sorted

LEMMA NextPrompts == IInv /\ PromptsInv /\ [Next]_vars => PromptsInv'
<1> SUFFICES ASSUME IInv, PromptsInv, [Next]_vars PROVE PromptsInv'
  OBVIOUS
<1>1. CASE UNCHANGED vars
  <2>1. UNCHANGED <<session, inbox, history>> /\ HandsOn(session, session')
    BY <1>1, HandsNothing DEF vars
  <2> QED  BY <2>1, PromptsStay
<1>2. CASE Immediates
  BY <1>2, DeliverPlaces DEF Immediates, IInv, Fit, Session
<1>3. CASE Clients
  BY <1>3, SendPlaces, QueueAddPlaces, QueueStartPlaces, QueueEditPlaces, InjectPlaces, ReturnsPlaces
     DEF Clients, Returns
<1>4. CASE Resumes
  BY <1>4, ResumeStartPlaces, ResumeToldPlaces, CallEndsPlaces, ReturnsPlaces DEF Resumes, CallOf, Returns
<1>5. CASE ClaudeActs
  <2>1. ASSUME CompletesNothing PROVE PromptsInv'
    <3>1. UNCHANGED <<session, inbox, history>> /\ HandsOn(session, session')
      BY <2>1, HandsNothing DEF CompletesNothing, ClaudeCompletes
    <3> QED  BY <3>1, PromptsStay
  <2> QED  BY <1>5, <2>1, ClaudeActsAre, StreamsPlaces, CompletesPlaces
<1>6. CASE (\E c \in session.calls : FailStart(c)) \/ Sweep \/ ClaudeDies
  BY <1>6, CallEndsPlaces, SweepPlaces, ClaudeDiesPlaces
<1> QED  BY <1>1, <1>2, <1>3, <1>4, <1>5, <1>6 DEF Next

\* Every prompt a client sent is in exactly one place, in every chat, whatever clients, Claude and the sweep do: it is
\* never run twice and never vanishes (startTurn, steer, completeTurn's shift, thread/queue/start, interrupt, consume).
THEOREM EachInOnePlace == Spec => []OnePlace
<1>1. IInv /\ PromptsInv => OnePlace
  <2> SUFFICES ASSUME IInv, PromptsInv PROVE OnePlace
    OBVIOUS
  <2> DEFINE Q == Elements(session.queued)
             C == Ids(session.calls)
             D == session.deferred
             U == Messages \cap Elements(inbox)
             T == history.taken
             L == history.dropped
  <2>1. Places = <<Q, C, D, U, T, L>>
    BY DEF Places
  <2>2. /\ history.sent = (Q \cup C \cup D) \cup U \cup T \cup L
        /\ (Q \cup C \cup D) \cap (U \cup T \cup L) = {} /\ U \cap (T \cup L) = {} /\ T \cap L = {}
        /\ Q \cap C = {} /\ D \cap (Q \cup C) = {}
    BY DEF PromptsInv, Sorted, Prompts, Unread, Once
  <2>3. Cardinality(Q) = Len(session.queued) /\ Cardinality(Elements(inbox)) = Len(inbox)
    BY DistinctCounts DEF PromptsInv, Once, IInv, Fit, Session
  <2> HIDE DEF Q, C, D, U, T, L
  <2>4. Elements(Places) = {Q, C, D, U, T, L} /\ DOMAIN Places = 1..6
    <3>1. DOMAIN Places = {1, 2, 3, 4, 5, 6}
      BY <2>1
    <3> QED  BY <2>1, <3>1 DEF Elements
  <2>5. history.sent = UNION Elements(Places)
    BY <2>4, <2>2
  <2>6. \A i, j \in DOMAIN Places : i # j => Places[i] \cap Places[j] = {}
    <3>1. Places[1] = Q /\ Places[2] = C /\ Places[3] = D /\ Places[4] = U /\ Places[5] = T /\ Places[6] = L
      BY <2>1
    <3>2. /\ Q \cap C = {} /\ Q \cap D = {} /\ Q \cap U = {} /\ Q \cap T = {} /\ Q \cap L = {}
          /\ C \cap D = {} /\ C \cap U = {} /\ C \cap T = {} /\ C \cap L = {}
          /\ D \cap U = {} /\ D \cap T = {} /\ D \cap L = {}
          /\ U \cap T = {} /\ U \cap L = {} /\ T \cap L = {}
      BY <2>2
    <3>3. \A A, B : A \cap B = B \cap A
      OBVIOUS
    <3>4. DOMAIN Places = {1, 2, 3, 4, 5, 6}
      BY <2>4
    <3> QED  BY <3>1, <3>2, <3>3, <3>4
  <2> QED  BY <2>3, <2>5, <2>6 DEF OnePlace, Q
<1>2. Spec => [](IInv /\ PromptsInv)
  BY InitIInv, NextIInv, InitPrompts, NextPrompts, PTL DEF Spec
<1> QED  BY <1>1, <1>2, PTL

-----------------------------------------------------------------------------
(* What steps leave alone. *)

\* What a client's step may do, Stop aside.
Asks ==
  /\ session'.turn = session.turn /\ session'.deferred = session.deferred /\ session'.open = session.open
  /\ session'.active = session.active /\ session'.running = session.running /\ session'.delegating = session.delegating
  /\ session'.ultra = session.ultra \/ session'.ultra \in UltraChoices
  /\ session.calls \subseteq session'.calls
  /\ \A c \in session'.calls : c \in session.calls \/ c.at \in {"settings", "steer"}
  /\ history'.dropped \subseteq history.dropped \cup history'.refused /\ history.refused \subseteq history'.refused
  /\ history'.told = history.told
  /\ UNCHANGED stop /\ (UNCHANGED claude \/ EnsureQuery)
  /\ \/ UNCHANGED inbox /\ session'.injections = session.injections
     \/ \E i \in FreeInjections : inbox' = Append(inbox, i) /\ session'.injections = session.injections \cup {i}

LEMMA QueueStartAsks == ASSUME IInv, NEW k \in DOMAIN session.queued, QueueStart(k) PROVE Asks
<1> DEFINE m == session.queued[k]
           rest == [session EXCEPT !.queued = WithoutEntry(@, k)]
<1>1. session \in Session
  BY DEF IInv, Fit
<1>2. ~(session.turn # None /\ session.turn.waiting)
  <2>1. session.queued # <<>>
    BY <1>1, WithoutEntryType DEF Session
  <2> QED  BY <2>1 DEF IInv, Fit
<1>3. /\ \/ session' = [rest EXCEPT !.calls = @ \cup {StartCall(m)}]
         \/ session' = [rest EXCEPT !.pendingInputs = @ \cup {m}, !.calls = @ \cup {SteerCall(m)}]
         \/ session' = rest
      /\ UNCHANGED <<stop, inbox>> /\ (UNCHANGED claude \/ EnsureQuery)
  BY DEF QueueStart
<1>7. /\ history'.dropped \subseteq history.dropped \cup history'.refused /\ history.refused \subseteq history'.refused
      /\ history'.told = history.told
  <2>1. CASE UNCHANGED history
    BY <2>1
  <2>2. CASE history' = [history EXCEPT !.dropped = @ \cup {m}, !.refused = IF session.turn.waiting THEN @ ELSE @ \cup {m}]
             /\ session.turn # None
    <3>1. history'.dropped = history.dropped \cup {m} /\ history'.refused = history.refused \cup {m}
          /\ history'.told = history.told
      BY <1>2, <2>2 DEF IInv, History
    <3> QED  BY <3>1
  <2> QED  BY <2>1, <2>2 DEF QueueStart
<1>4. /\ rest \in Session /\ rest.turn = session.turn /\ rest.deferred = session.deferred /\ rest.open = session.open
      /\ rest.active = session.active /\ rest.running = session.running /\ rest.delegating = session.delegating
      /\ rest.ultra = session.ultra /\ rest.calls = session.calls /\ rest.injections = session.injections
  <2>1. WithoutEntry(session.queued, k) \in Seq(Messages)
    BY <1>1, WithoutEntryType DEF Session
  <2> QED  BY <1>1, <2>1 DEF Session
<1>5. StartCall(m).at = "settings" /\ SteerCall(m).at = "steer"
  BY DEF StartCall, SteerCall
<1> HIDE DEF rest, m
<1>6. /\ session'.turn = rest.turn /\ session'.deferred = rest.deferred /\ session'.open = rest.open
      /\ session'.active = rest.active /\ session'.running = rest.running /\ session'.delegating = rest.delegating
      /\ session'.ultra = rest.ultra /\ session'.injections = rest.injections
      /\ session'.calls \in {rest.calls, rest.calls \cup {StartCall(m)}, rest.calls \cup {SteerCall(m)}}
  <2>1. CASE session' = [rest EXCEPT !.calls = @ \cup {StartCall(m)}]
    BY <1>4, <2>1 DEF Session
  <2>2. CASE session' = [rest EXCEPT !.pendingInputs = @ \cup {m}, !.calls = @ \cup {SteerCall(m)}]
    BY <1>4, <2>2 DEF Session
  <2>3. CASE session' = rest
    BY <2>3
  <2> QED  BY <1>3, <2>1, <2>2, <2>3
<1> QED  BY <1>3, <1>4, <1>5, <1>6, <1>7 DEF Asks

SameLosses == history'.dropped = history.dropped /\ history'.refused = history.refused

LEMMA ClientsAsk == ASSUME IInv, Clients PROVE Asks \/ \E awaited \in BOOLEAN : Interrupt(awaited)
<1>1. session \in Session /\ history \in History
  BY DEF IInv, Fit
<1>2. \A m : StartCall(m).at = "settings" /\ SteerCall(m).at = "steer"
  BY DEF StartCall, SteerCall
<1>3. ASSUME NEW m, NEW ultra \in UltraChoices, StartTurn(m, ultra) PROVE Asks
  <2>1. session' = [session EXCEPT !.calls = @ \cup {StartCall(m)}, !.ultra = ultra]
    BY <1>3 DEF StartTurn
  <2>2. SameLosses /\ history'.told = history.told /\ UNCHANGED <<inbox, stop, claude>>
    BY <1>1, <1>3 DEF SameLosses, StartTurn, History
  <2> QED  BY <1>1, <1>2, <2>1, <2>2 DEF SameLosses, Asks, Session
<1>4. ASSUME NEW m, Steer(m) PROVE Asks
  <2>1. session' = [session EXCEPT !.pendingInputs = @ \cup {m}, !.calls = @ \cup {SteerCall(m)}]
    BY <1>4 DEF Steer
  <2>2. SameLosses /\ history'.told = history.told /\ UNCHANGED <<inbox, stop>> /\ EnsureQuery
    BY <1>1, <1>4 DEF SameLosses, Steer, History
  <2> QED  BY <1>1, <1>2, <2>1, <2>2 DEF SameLosses, Asks, Session
<1>5. ASSUME NEW q, session' = [session EXCEPT !.queued = q], UNCHANGED <<inbox, stop, claude>>,
             SameLosses, history'.told = history.told
      PROVE  Asks
  BY <1>1, <1>5 DEF SameLosses, Asks, Session
<1>6. ASSUME NEW m, QueueAdd(m) PROVE Asks
  <2>1. SameLosses /\ history'.told = history.told /\ UNCHANGED <<inbox, stop, claude>>
    BY <1>1, <1>6 DEF SameLosses, QueueAdd, History
  <2>2. CASE session' = [session EXCEPT !.calls = @ \cup {StartCall(m)}]
    BY <1>1, <1>2, <2>1, <2>2 DEF SameLosses, Asks, Session
  <2> QED  BY <1>5, <1>6, <2>1, <2>2 DEF QueueAdd
<1>7. ASSUME NEW k, QueueDelete(k) PROVE Asks
  <2>1. SameLosses /\ history'.told = history.told /\ UNCHANGED <<inbox, stop, claude>>
    BY <1>1, <1>7 DEF SameLosses, QueueDelete, History
  <2> QED  BY <1>5, <1>7, <2>1 DEF QueueDelete
<1>8. ASSUME NEW order, QueueReorder(order) PROVE Asks
  BY <1>5, <1>8 DEF SameLosses, QueueReorder
<1>9. ASSUME NEW i, Inject(i) PROVE Asks
  <2>1. session' = [session EXCEPT !.injections = @ \cup {i}]
    BY <1>9 DEF Inject
  <2>2. i \in FreeInjections /\ EnsureQuery /\ inbox' = Append(inbox, i) /\ UNCHANGED <<stop, history>>
    BY <1>9 DEF Inject, Push
  <2>3. session'.injections = session.injections \cup {i}
    BY <1>1, <2>1 DEF Session
  <2>4. /\ session'.turn = session.turn /\ session'.deferred = session.deferred /\ session'.open = session.open
        /\ session'.active = session.active /\ session'.running = session.running /\ session'.calls = session.calls
        /\ session'.delegating = session.delegating /\ session'.ultra = session.ultra
    BY <1>1, <2>1 DEF Session
  <2> QED  BY <2>2, <2>3, <2>4 DEF SameLosses, Asks
<1> QED  BY <1>3, <1>4, <1>6, <1>7, <1>8, <1>9, QueueStartAsks DEF Clients

LEMMA CompleteTurnRuns ==
  ASSUME NEW s, NEW I, Fit(s, I), NEW continued \in BOOLEAN PROVE CompleteTurn(s, continued).running = s.running
<1> DEFINE e == Close(s)
<1>1. CASE s.turn = None
  BY <1>1 DEF CompleteTurn
<1>2. CASE s.turn # None
  <2>1. e \in Session /\ e.running = s.running
    BY ZenonT(80), <1>2, CloseFit DEF Close, Fit, Session
  <2>2. CompleteTurn(s, continued) = IF continued THEN e ELSE AfterTurn(e, s.turn.interrupted)
    BY <1>2 DEF CompleteTurn
  <2> HIDE DEF e
  <2>3. AfterTurn(e, s.turn.interrupted).running = e.running
    <3>1. CASE e.queued # <<>>
      BY <2>1, <3>1 DEF AfterTurn, Session
    <3>2. CASE e.queued = <<>> /\ ~s.turn.interrupted /\ e.agents # {}
      <4>1. AfterTurn(e, s.turn.interrupted) = WaitForAgents(e)
        BY <3>2 DEF AfterTurn
      <4> QED  BY <2>1, <4>1 DEF WaitForAgents, OpenTurn, Announce, NewTurn, Session
    <3>3. CASE e.queued = <<>> /\ ~(~s.turn.interrupted /\ e.agents # {})
      <4>1. AfterTurn(e, s.turn.interrupted) = [e EXCEPT !.active = FALSE]
        BY <3>3 DEF AfterTurn
      <4> QED  BY <2>1, <4>1 DEF Session
    <3> QED  BY <3>1, <3>2, <3>3
  <2> QED  BY <2>1, <2>2, <2>3
<1> QED  BY <1>1, <1>2

\* startTurn() goes on in one of three ways: into the running turn, behind a note, or in a turn of its own.
Gone(s, c) == [s EXCEPT !.calls = @ \ {c}]
Goes(s, c) ==
  \/ s.turn # None /\ Push(c.id) /\ session' = [Gone(s, c) EXCEPT !.pendingInputs = @ \cup {c.id}]
  \/ /\ s.turn = None /\ s.ultra # s.delegating
     /\ \E i \in FreeInjections :
          /\ Push(i)
          /\ session' = [Gone(s, c) EXCEPT !.delegating = ~@, !.injections = @ \cup {i}, !.calls = @ \cup {NoteCall(c.id, i)}]
  \/ s.turn = None /\ s.ultra = s.delegating /\ UNCHANGED <<inbox, claude>> /\ session' = OpenTurnDeferred(Gone(s, c), c.id)

LEMMA ResumeStartGoes ==
  ASSUME IInv, NEW c, ResumeStart(c)
  PROVE  \E s : /\ ResumedAt(s, c) /\ Fit(s, session.injections) /\ Leaves(session, s) /\ s.running = session.running
                /\ s.turn # None => s = session /\ ~session.turn.waiting
                /\ UNCHANGED <<stop, history>> /\ c.id \in Messages /\ Goes(s, c)
<1>1. PICK s : /\ ResumedAt(s, c) /\ Fit(s, session.injections) /\ Leaves(session, s)
               /\ s.turn # None => s = session /\ ~session.turn.waiting
  BY ResumeStartFrom
<1>2. c.id \in Messages
  <2>1. c \in Call
    BY <1>1 DEF ResumedAt, IInv, Fit, Session
  <2> QED  BY <2>1 DEF Call
<1>3. s.running = session.running
  BY <1>1, CompleteTurnRuns DEF ResumedAt, IInv
<1>4. UNCHANGED <<stop, history>> /\ Goes(s, c)
  BY <1>1 DEF ResumeStart, ResumedAt, Goes, Gone
<1> QED  BY <1>1, <1>2, <1>3, <1>4

LEMMA GoneFields ==
  ASSUME NEW s \in Session, NEW c
  PROVE  /\ Gone(s, c) \in Session /\ Gone(s, c).calls = s.calls \ {c} /\ Gone(s, c).turn = s.turn
         /\ Gone(s, c).open = s.open /\ Gone(s, c).active = s.active /\ Gone(s, c).deferred = s.deferred
         /\ Gone(s, c).ultra = s.ultra /\ Gone(s, c).delegating = s.delegating /\ Gone(s, c).running = s.running
         /\ Gone(s, c).injections = s.injections
BY DEF Gone, Session

LEMMA ReturnsInjections == ASSUME IInv, Returns PROVE session'.injections = session.injections
<1>1. session \in Session /\ Fit(session, session.injections)
  BY DEF IInv, Fit
<1>2. CASE RunningTimer
  <2>1. Fit([session EXCEPT !.timer = FALSE], session.injections)
    BY <1>1 DEF Fit, Session
  <2> QED  BY <1>2, <2>1, EnsureOwnTurnFit DEF RunningTimer, Fit
<1>3. ASSUME NEW id \in OwnIds, NEW found \in BOOLEAN, PeerRead(id, found) PROVE session'.injections = session.injections
  <2> DEFINE cut == CompleteTurn(session, session.turn.waiting)
             read == IF /\ found
                        /\ id \in claude.peers
                        /\ session.turn # None /\ session.turn.id # id /\ session.turn.resultSeen
                        /\ session.queued = <<>>
                     THEN EnsureTurn(cut, id) ELSE session
  <2>1. Fit(read, session.injections)
    <3>1. ASSUME session.turn # None PROVE Fit(EnsureTurn(cut, id), session.injections)
      <4>1. session.turn.waiting \in BOOLEAN
        BY <1>1, <3>1 DEF Session, Turn
      <4>2. Fit(cut, session.injections)
        BY <1>1, <4>1, CompleteTurnFit
      <4> QED  BY <4>2, EnsureTurnFit DEF TurnIds
    <3> QED  BY <1>1, <3>1
  <2>2. session' = [read EXCEPT !.peers = @ \ {id}]
    BY <1>3 DEF PeerRead
  <2> HIDE DEF read
  <2> QED  BY <2>1, <2>2 DEF Fit, Session
<1>4. CASE InterruptReturns
  <2> DEFINE s == [session EXCEPT !.pendingInputs = @ \ Head(stop).cancelled, !.agents = {}]
             seen == [s EXCEPT !.turn.resultSeen = TRUE]
  <2>1. Fit(s, session.injections)
    BY <1>1 DEF Fit, Session
  <2>2. session' = IF s.turn # None /\ (~s.running \/ s.turn.waiting) THEN CompleteTurn(seen, FALSE) ELSE s
    BY <1>4 DEF InterruptReturns
  <2> HIDE DEF s
  <2>3. s.turn # None => Fit(seen, session.injections)
    BY <2>1 DEF Fit, Session, Turn
  <2> HIDE DEF seen
  <2> QED  BY ZenonT(80), <2>1, <2>2, <2>3, CompleteTurnFit DEF Fit
<1>5. ASSUME NEW awaited \in BOOLEAN, Interrupt(awaited) PROVE session'.injections = session.injections
  <2> DEFINE asked == Asked(awaited)
  <2>1. session' = IF loaded THEN asked ELSE CompleteTurn(asked, FALSE)
    BY <1>5, InterruptIs
  <2>2. Fit(asked, session.injections)
    BY <1>5, InterruptIs, AskedFit
  <2> HIDE DEF asked
  <2> QED  BY <2>1, <2>2, CompleteTurnFit DEF Fit
<1> QED  BY <1>2, <1>3, <1>4, <1>5 DEF Returns

LEMMA StreamsInjections == ASSUME IInv, Streams PROVE session'.injections = session.injections
<1>1. Fit(session, session.injections) /\ claude.prompt \in Prompt /\ claude.aborted \in BOOLEAN
  BY DEF IInv, Claude, Prompt
<1>2. CASE ClaudeRuns \/ ClaudeWakes \/ ClaudeIdles
  BY <1>1, <1>2, OnStateFit DEF ClaudeRuns, ClaudeWakes, ClaudeIdles, Fit
<1>3. CASE ClaudeTakes \/ ClaudeFolds
  <2> DEFINE id == Head(inbox)
  <2>1. inbox # <<>> /\ session' = OnStarted(session, id)
    BY <1>3 DEF ClaudeTakes, ClaudeFolds
  <2>2. id \in Messages \cup Injections /\ id \in Elements(inbox)
    BY <2>1, ElementsTail DEF IInv
  <2> HIDE DEF id
  <2>3. id \in Commands /\ (id \in session.injections \/ id \in TurnIds)
    BY <2>2 DEF IInv, ContextKnown, TurnIds, Commands
  <2> QED  BY <1>1, <2>1, <2>3, OnStartedFit DEF Fit
<1>4. ASSUME NEW origin \in {"peer", "task"}, ClaudeStartsOwn(origin) \/ ClaudeGoesOn(origin)
      PROVE  session'.injections = session.injections
  <2>1. FreshOwn(session) \in Commands /\ FreshOwn(session) \in TurnIds
    BY FreshOwnType DEF Commands, TurnIds
  <2> QED  BY <1>1, <1>4, <2>1, OnStartedFit DEF ClaudeStartsOwn, ClaudeGoesOn, Fit
<1>5. CASE ClaudeSpeaks \/ ClaudeRetries \/ ClaudeCompacts \/ \E block \in {"block", "answer"} : ClaudeBlocks(block)
  BY <1>1, <1>5, OnMessageFit, OnBlockFit, OnRetryFit, EnsureOwnTurnFit
     DEF ClaudeSpeaks, ClaudeRetries, ClaudeBlocks, ClaudeCompacts, Fit
<1>6. ASSUME NEW a \in Agents, ClaudeStartsAgent(a) \/ ClaudeEndsAgent(a) PROVE session'.injections = session.injections
  BY <1>1, <1>6, OnTaskFit DEF ClaudeStartsAgent, ClaudeEndsAgent, Fit
<1>7. CASE ClaudeResult \/ ClaudeInterrupted
  BY <1>1, <1>7, OnResultFit DEF ClaudeResult, ClaudeInterrupted, Fit
<1> QED  BY <1>2, <1>3, <1>4, <1>5, <1>6, <1>7 DEF Streams

-----------------------------------------------------------------------------
(* The queue is served. *)

LEMMA OpenTurnDeferredServes ==
  ASSUME NEW s \in Session, NEW id \in Messages
  PROVE  /\ Served(OpenTurnDeferred(s, id)) /\ OpenTurnDeferred(s, id).turn \in Turn
         /\ OpenTurnDeferred(s, id).turn.id = id /\ OpenTurnDeferred(s, id).turn # None
         /\ ~OpenTurnDeferred(s, id).turn.resultSeen /\ ~OpenTurnDeferred(s, id).turn.waiting
<1> DEFINE turn == [id |-> id, resultSeen |-> FALSE, interrupted |-> FALSE, waiting |-> FALSE, limit |-> FALSE]
<1>1. turn \in Turn /\ OpenTurnDeferred(s, id).turn = turn
  BY DEF Turn, TurnIds, OpenTurnDeferred, NewTurn, Session
<1>2. turn.id = id /\ ~turn.resultSeen /\ ~turn.waiting
  OBVIOUS
<1> HIDE DEF turn
<1>3. OpenTurnDeferred(s, id).turn # None
  BY <1>1, NoneIsNoTurn
<1>4. Served(OpenTurnDeferred(s, id))
  BY <1>1, <1>2, <1>3 DEF Served
<1> QED  BY <1>1, <1>2, <1>3, <1>4

LEMMA ResumeStartServes == ASSUME IInv, NEW c, ResumeStart(c) PROVE Served(session')
<1>1. PICK s : /\ ResumedAt(s, c) /\ Fit(s, session.injections) /\ Leaves(session, s)
               /\ s.turn # None => s = session /\ ~session.turn.waiting
  BY ResumeStartFrom
<1> DEFINE gone == [s EXCEPT !.calls = @ \ {c}]
<1>2. gone \in Session /\ gone.turn = s.turn /\ c.id \in Messages
  <2>1. gone \in Session /\ gone.turn = s.turn
    BY <1>1 DEF Fit, Session
  <2>2. c \in Call
    BY <1>1 DEF ResumedAt, IInv, Fit, Session
  <2> QED  BY <2>1, <2>2 DEF Call
<1> HIDE DEF gone
<1>3. CASE s.turn # None /\ session' = [gone EXCEPT !.pendingInputs = @ \cup {c.id}]
  <2>1. session'.turn = session.turn /\ session.turn # None /\ ~session.turn.waiting
    BY <1>1, <1>2, <1>3 DEF Session
  <2> QED  BY <2>1 DEF Served
<1>4. CASE \E i : session' = [gone EXCEPT !.delegating = ~@, !.injections = @ \cup {i}, !.calls = @ \cup {NoteCall(c.id, i)}]
  <2>1. PICK i : session' = [gone EXCEPT !.delegating = ~@, !.injections = @ \cup {i}, !.calls = @ \cup {NoteCall(c.id, i)}]
    BY <1>4
  <2>2. NoteCall(c.id, i) \in session'.calls /\ NoteCall(c.id, i).at = "note"
    BY <1>2, <2>1 DEF Session, NoteCall
  <2> QED  BY <2>2 DEF Served
<1>5. CASE session' = OpenTurnDeferred(gone, c.id)
  BY <1>2, <1>5, OpenTurnDeferredServes
<1> QED  BY <1>1, <1>3, <1>4, <1>5 DEF ResumeStart, ResumedAt, gone

LEMMA ClientsServe ==
  ASSUME IInv, Served(session), Clients PROVE Served(session')
<1>1. session \in Session /\ session.queued \in Seq(Messages)
  BY DEF IInv, Fit, Session
<1>2. ASSUME NEW m \in Messages, Steer(m) \/ QueueAdd(m) \/ \E ultra \in UltraChoices : StartTurn(m, ultra)
      PROVE  Served(session')
  <2>1. CASE QueueAdd(m) /\ session.turn # None /\ ~session.turn.waiting
    <3>1. session'.turn = session.turn
      BY <1>1, <2>1 DEF QueueAdd, Session
    <3> QED  BY <2>1, <3>1 DEF Served
  <2>2. CASE ~(QueueAdd(m) /\ session.turn # None /\ ~session.turn.waiting)
    <3>1. session'.turn = session.turn /\ session'.queued = session.queued /\ session.calls \subseteq session'.calls
      <4>1. ASSUME NEW ultra, StartTurn(m, ultra)
            PROVE  session'.turn = session.turn /\ session'.queued = session.queued /\ session.calls \subseteq session'.calls
        BY <1>1, <4>1 DEF StartTurn, Session
      <4>2. ASSUME Steer(m)
            PROVE  session'.turn = session.turn /\ session'.queued = session.queued /\ session.calls \subseteq session'.calls
        BY <1>1, <4>2 DEF Steer, Session
      <4>3. ASSUME QueueAdd(m)
            PROVE  session'.turn = session.turn /\ session'.queued = session.queued /\ session.calls \subseteq session'.calls
        <5>1. session' = [session EXCEPT !.calls = @ \cup {StartCall(m)}]
          BY <2>2, <4>3 DEF QueueAdd
        <5> QED  BY <1>1, <5>1 DEF Session
      <4> QED  BY <1>2, <4>1, <4>2, <4>3
    <3> QED  BY <3>1 DEF Served
  <2> QED  BY <2>1, <2>2
<1>3. ASSUME NEW k \in DOMAIN session.queued, QueueStart(k) PROVE Served(session')
  <2> DEFINE m == session.queued[k]
             rest == [session EXCEPT !.queued = WithoutEntry(@, k)]
  <2>1. session.queued # <<>> /\ ~(session.turn # None /\ session.turn.waiting)
    BY <1>1, WithoutEntryType DEF IInv, Fit
  <2>2. rest.turn = session.turn /\ rest.calls = session.calls
    BY <1>1 DEF Session
  <2>3. CASE session.turn = None
    <3>1. session' = [rest EXCEPT !.calls = @ \cup {StartCall(m)}]
      BY <1>3, <2>3 DEF QueueStart
    <3>2. rest = [session EXCEPT !.queued = rest.queued] /\ session \in Session
      BY <1>1 DEF Session
    <3> HIDE DEF rest, m
    <3>3. session'.calls = rest.calls \cup {StartCall(m)}
      BY <3>1, <3>2 DEF Session
    <3>4. StartCall(m) \in session'.calls /\ StartCall(m).at = "settings"
      BY <3>3 DEF StartCall
    <3> QED  BY <3>4 DEF Served
  <2>4. CASE session.turn # None
    <3>1. session'.turn = session.turn
      BY <1>1, <1>3, <2>1, <2>4 DEF QueueStart, Session
    <3> QED  BY <2>1, <2>4, <3>1 DEF Served
  <2> QED  BY <2>3, <2>4
<1>4. ASSUME NEW k \in DOMAIN session.queued, QueueDelete(k) PROVE Served(session')
  <2>1. session'.turn = session.turn /\ session'.calls = session.calls /\ session.queued # <<>>
    BY <1>1, <1>4, WithoutEntryType DEF QueueDelete, Session
  <2> QED  BY <2>1 DEF Served
<1>5. ASSUME NEW order \in [DOMAIN session.queued -> Elements(session.queued)], QueueReorder(order)
      PROVE  Served(session')
  <2>1. session'.turn = session.turn /\ session'.calls = session.calls /\ session.queued # <<>>
    BY <1>1, <1>5, ReorderType DEF QueueReorder, Session
  <2> QED  BY <2>1 DEF Served
<1>6. ASSUME NEW i \in Injections, Inject(i) PROVE Served(session')
  <2>1. session'.turn = session.turn /\ session'.queued = session.queued /\ session'.calls = session.calls
    BY <1>1, <1>6 DEF Inject, Session
  <2> QED  BY <2>1 DEF Served
<1>7. ASSUME NEW awaited \in BOOLEAN, Interrupt(awaited) PROVE Served(session')
  BY <1>7, InterruptSettles DEF Settles
<1> QED  BY <1>2, <1>3, <1>4, <1>5, <1>6, <1>7 DEF Clients

LEMMA NextServed == ASSUME ~Failing, ~Rejecting PROVE IInv /\ Served(session) /\ [Next]_vars => Served(session)'
<1> SUFFICES ASSUME IInv, Served(session), [Next]_vars PROVE Served(session')
  OBVIOUS
<1>1. CASE UNCHANGED vars
  BY <1>1 DEF vars
<1>2. CASE Immediates
  <2>1. session'.turn = session.turn /\ session'.queued = session.queued /\ session'.calls = session.calls
    BY <1>2 DEF Immediates, Deliver, Announce, IInv, Fit, Session
  <2> QED  BY <2>1 DEF Served
<1>3. CASE Clients
  BY <1>3, ClientsServe
<1>4. CASE Resumes
  <2>1. ASSUME NEW c, ResumeTold(c) PROVE Served(session')
    <3>1. [session EXCEPT !.calls = @ \ {c}] \in Session /\ c.id \in Messages
      BY <2>1 DEF IInv, Fit, Session, Call, ResumeTold
    <3> QED  BY <2>1, <3>1, OpenTurnDeferredServes DEF ResumeTold
  <2>2. ASSUME NEW c, ResumeSteer(c) PROVE Served(session')
    <3>1. session'.turn = session.turn /\ session'.queued = session.queued /\ session'.calls = session.calls \ {c}
          /\ c.at \in {"steer", "lost"}
      BY <2>2 DEF ResumeSteer, IInv, Fit, Session
    <3> QED  BY <3>1 DEF Served
  <2> QED  BY <1>4, <2>1, <2>2, ResumeStartServes, ReturnsSettle DEF Resumes, CallOf, Returns, Settles
<1>5. CASE ClaudeActs
  <2>1. ASSUME NEW id, Completes(id) PROVE Served(session')
    BY <2>1, OnCompletedDoes DEF Completes, IInv, Settles
  <2>2. CompletesNothing => Served(session')
    BY DEF CompletesNothing, ClaudeCompletes
  <2> QED  BY <1>5, <2>1, <2>2, ClaudeActsAre, StreamsSettle DEF Settles
<1>6. CASE Sweep
  <2>1. session'.queued = <<>>
    BY <1>6 DEF Sweep, Quiet, IInv, Fit, Session
  <2> QED  BY <2>1 DEF Served
<1>7. ~ClaudeDies /\ ~\E c : FailStart(c)
  BY DEF ClaudeDies, FailStart
<1> QED  BY <1>1, <1>2, <1>3, <1>4, <1>5, <1>6, <1>7 DEF Next

\* As long as Claude's process does not die and no prompt fails before its turn opens, a queued message always has a turn
\* to wait for or a message ahead of it about to open one (completeTurn starts one at a time, thread/queue/start and
\* thread/queue/add; Stop and the sweep included).
THEOREM QueueIsServed == ASSUME ~Failing, ~Rejecting PROVE Spec => []QueueServed
<1>1. Init => Served(session)
  BY DEF Init, Served
<1>2. Served(session) => QueueServed
  BY DEF Served, QueueServed
<1>3. Spec => [](IInv /\ Served(session))
  BY <1>1, InitIInv, NextIInv, NextServed, PTL DEF Spec
<1> QED  BY <1>2, <1>3, PTL

-----------------------------------------------------------------------------
(* A prompt is dropped when it is sent now at a usage limit, and no other way. *)

LEMMA NothingInterrupts == ASSUME stop = <<>> PROVE ~InterruptReturns /\ ~ClaudeInterrupted
BY EmptyInbox DEF InterruptReturns, ClaudeInterrupted

\* With no Stop there is no interrupt() under way, and with no process that ends no call lost its inbox.
NoLoss == stop = <<>> /\ history.dropped \subseteq history.refused /\ \A c \in session.calls : c.at # "lost"

LEMMA HandsOnLoses ==
  ASSUME NoLoss, HandsOn(session, session'), UNCHANGED stop, SameLosses PROVE NoLoss'
BY DEF NoLoss, HandsOn, SameLosses

LEMMA WorksNoLoss ==
  ASSUME ~Stopping, IInv, NoLoss, Immediates \/ Returns \/ Streams PROVE NoLoss'
<1>1. ~ClaudeInterrupted /\ ~InterruptReturns /\ \A awaited \in BOOLEAN : ~Interrupt(awaited)
  BY NothingInterrupts DEF NoLoss, Interrupt
<1>2. CASE Immediates
  <2>1. session'.calls = session.calls /\ UNCHANGED <<stop, history>>
    BY <1>2 DEF Immediates, Deliver, Announce, IInv, Fit, Session
  <2> QED  BY <2>1 DEF NoLoss
<1>3. CASE Returns
  <2>1. HandsOn(session, session')
    BY <1>3, ReturnsSettle DEF Settles
  <2>2. UNCHANGED <<stop, history>>
    BY <1>1, <1>3 DEF Returns, RunningTimer, PeerRead
  <2> QED  BY <2>1, <2>2, HandsOnLoses DEF SameLosses
<1>4. CASE Streams
  <2>1. HandsOn(session, session')
    BY <1>4, StreamsSettle DEF Settles
  <2>2. SameLosses
    <3>1. CASE ClaudeTakes \/ ClaudeFolds
      BY <3>1 DEF ClaudeTakes, ClaudeFolds, Taken, IInv, History, SameLosses
    <3>2. CASE UNCHANGED history
      BY <3>2 DEF SameLosses
    <3> QED  BY <1>1, <1>4, <3>1, <3>2
            DEF Streams, ClaudeRuns, ClaudeWakes, ClaudeStartsOwn, ClaudeGoesOn, ClaudeSpeaks, ClaudeRetries, ClaudeCompacts, ClaudeBlocks,
                ClaudeStartsAgent, ClaudeEndsAgent, ClaudeResult, ClaudeIdles
  <2>3. UNCHANGED stop
    BY <1>1, <1>4 DEF Streams, ClaudeRuns, ClaudeWakes, ClaudeTakes, ClaudeFolds, ClaudeStartsOwn, ClaudeGoesOn, ClaudeSpeaks,
       ClaudeRetries, ClaudeCompacts, ClaudeBlocks, ClaudeStartsAgent, ClaudeEndsAgent, ClaudeResult, ClaudeIdles
  <2> QED  BY <2>1, <2>2, <2>3, HandsOnLoses
<1> QED  BY <1>2, <1>3, <1>4

LEMMA CompletesNoLoss ==
  ASSUME IInv, NoLoss, NEW id, Completes(id) PROVE NoLoss'
<1> DEFINE r == [session EXCEPT !.injections = @ \ {id}, !.calls = Told(@, id)]
<1>1. Fit(session, session.injections) /\ session.calls \in SUBSET Call
  BY DEF IInv, Fit, Session
<1>2. r.calls = Told(session.calls, id) /\ Settles(r, OnCompleted(session, id))
  BY <1>1, OnCompletedDoes DEF r
<1> HIDE DEF r
<1>3. ASSUME NEW c \in r.calls PROVE c.at # "lost"
  <2>1. c.at # "told" => c \in session.calls
    BY <1>1, <1>2, ToldCalls
  <2> QED  BY <2>1 DEF NoLoss
<1>4. \A c \in session'.calls : c.at # "lost"
  BY <1>2, <1>3 DEF Completes, Settles, HandsOn
<1> QED  BY <1>4 DEF NoLoss, Completes

LEMMA ClientsNoLoss == ASSUME ~Stopping, IInv, NoLoss, Clients PROVE NoLoss'
BY ClientsAsk DEF Asks, NoLoss, Interrupt

LEMMA ResumeStartCalls ==
  ASSUME IInv, NEW c, ResumeStart(c)
  PROVE  /\ UNCHANGED <<stop, history>>
         /\ \A d \in session'.calls : d \in session.calls \/ d.at \in {"settings", "note"}
<1>1. PICK s : /\ ResumedAt(s, c) /\ Fit(s, session.injections) /\ Leaves(session, s)
               /\ UNCHANGED <<stop, history>> /\ Goes(s, c)
  BY ResumeStartGoes
<1> DEFINE gone == Gone(s, c)
<1>2. gone \in Session /\ gone.calls \subseteq s.calls
  BY <1>1, GoneFields DEF Fit
<1>3. \A d \in s.calls : d \in session.calls \/ d.at = "settings"
  BY <1>1 DEF Leaves, HandsOn
<1>4. \/ session' = [gone EXCEPT !.pendingInputs = @ \cup {c.id}]
      \/ \E i : session' = [gone EXCEPT !.delegating = ~@, !.injections = @ \cup {i}, !.calls = @ \cup {NoteCall(c.id, i)}]
      \/ session' = OpenTurnDeferred(gone, c.id)
  BY <1>1 DEF Goes
<1> HIDE DEF gone
<1>5. CASE session' = [gone EXCEPT !.pendingInputs = @ \cup {c.id}]
  BY <1>1, <1>2, <1>3, <1>5 DEF Session
<1>6. CASE \E i : session' = [gone EXCEPT !.delegating = ~@, !.injections = @ \cup {i}, !.calls = @ \cup {NoteCall(c.id, i)}]
  <2>1. PICK i : session'.calls = gone.calls \cup {NoteCall(c.id, i)} /\ NoteCall(c.id, i).at = "note"
    BY <1>2, <1>6 DEF Session, NoteCall
  <2> QED  BY <1>1, <1>2, <1>3, <2>1
<1>7. CASE session' = OpenTurnDeferred(gone, c.id)
  <2>1. session'.calls = gone.calls
    BY <1>2, <1>7 DEF OpenTurnDeferred, NewTurn, Session
  <2> QED  BY <1>1, <1>2, <1>3, <2>1
<1> QED  BY <1>1, <1>4, <1>5, <1>6, <1>7

LEMMA NextNoLoss ==
  ASSUME ~Stopping, ~Failing, ~Rejecting, ~Sweeping PROVE IInv /\ NoLoss /\ [Next]_vars => NoLoss'
<1> SUFFICES ASSUME IInv, NoLoss, [Next]_vars PROVE NoLoss'
  OBVIOUS
<1>1. CASE UNCHANGED vars
  BY <1>1 DEF vars, NoLoss
<1>2. CASE Immediates \/ Returns \/ Streams
  BY <1>2, WorksNoLoss
<1>3. CASE Clients
  BY <1>3, ClientsNoLoss
<1>4. ASSUME NEW c, ResumeStart(c) PROVE NoLoss'
  BY <1>4, ResumeStartCalls DEF NoLoss
<1>5. ASSUME NEW c, ResumeTold(c) \/ ResumeSteer(c) PROVE NoLoss'
  <2>1. session'.calls = session.calls \ {c}
    BY <1>5 DEF ResumeTold, ResumeSteer, OpenTurnDeferred, NewTurn, IInv, Fit, Session
  <2>2. UNCHANGED <<stop, history>>
    BY <1>5 DEF ResumeTold, ResumeSteer, NoLoss
  <2> QED  BY <2>1, <2>2 DEF NoLoss
<1>6. CASE ClaudeActs
  <2>1. CompletesNothing => NoLoss'
    BY DEF CompletesNothing, ClaudeCompletes, NoLoss
  <2> QED  BY <1>2, <1>6, <2>1, ClaudeActsAre, CompletesNoLoss
<1>7. ~Sweep /\ ~ClaudeDies /\ ~\E c \in session.calls : FailStart(c)
  BY DEF Sweep, ClaudeDies, FailStart
<1>8. Resumes => Returns \/ \E c : ResumeStart(c) \/ ResumeTold(c) \/ ResumeSteer(c)
  BY DEF Resumes, CallOf, Returns
<1> QED  BY <1>1, <1>2, <1>3, <1>4, <1>5, <1>6, <1>7, <1>8 DEF Next

\* As long as nobody presses Stop, no process ends and no call fails, whatever way a prompt was sent, queued, sent at once
\* or steered into a turn, one thing alone loses it: it is sent now from the queue while Claude waits for a usage limit's
\* reset.  Sent now at a turn that waits for sub-agents it is not lost: nothing is queued then (startTurn, steer,
\* thread/queue/start, completeTurn).
THEOREM NoPromptLost == ASSUME ~Stopping, ~Failing, ~Rejecting, ~Sweeping PROVE Spec => []NothingDropped
<1>1. Init => NoLoss
  BY DEF Init, NoLoss
<1>2. NoLoss => NothingDropped
  BY DEF NoLoss, NothingDropped
<1>3. Spec => [](IInv /\ NoLoss)
  BY <1>1, InitIInv, NextIInv, NextNoLoss, PTL DEF Spec
<1> QED  BY <1>2, <1>3, PTL

-----------------------------------------------------------------------------
(* What clients are told of turns. *)

\* Between two polls either what clients were told is true, or the turn that just opened is announced next.  With no client
\* that asks for `ultra`, startTurn() never waits for a note, so it opens a turn right after it saw there is none.
TurnsKnown ==
  /\ ~session.ultra /\ ~session.delegating
  /\ \A c \in session.calls : c.at \notin {"note", "told"}
  /\ session.deferred = {} => Truthful(session)
  /\ session.deferred # {} => session.turn # None /\ session.deferred = {session.turn.id} /\ session.open = {}

LEMMA TurnsStay ==
  ASSUME TurnsKnown, session.deferred = {}, session'.deferred = session.deferred,
         session'.ultra = session.ultra, session'.delegating = session.delegating,
         Truthful(session) => Truthful(session'),
         \A c \in session'.calls : c \in session.calls \/ c.at \notin {"note", "told"}
  PROVE  TurnsKnown'
BY DEF TurnsKnown

LEMMA SettlesTurns ==
  ASSUME TurnsKnown, session.deferred = {}, Settles(session, session') PROVE TurnsKnown'
BY TurnsStay DEF Settles, HandsOn

LEMMA SameTurns ==
  ASSUME TurnsKnown, session.deferred = {}, session'.deferred = session.deferred,
         session'.ultra = session.ultra, session'.delegating = session.delegating,
         session'.turn = session.turn, session'.open = session.open, session'.active = session.active,
         \A c \in session'.calls : c \in session.calls \/ c.at \notin {"note", "told"}
  PROVE  TurnsKnown'
<1>1. Truthful(session) => Truthful(session')
  BY DEF Truthful, Current
<1> QED  BY <1>1, TurnsStay

LEMMA DeliverTurns == ASSUME IInv, TurnsKnown, NEW m \in session.deferred, Deliver(m) PROVE TurnsKnown'
<1>1. session.turn # None /\ session.deferred = {session.turn.id} /\ session.open = {} /\ m = session.turn.id
  BY DEF TurnsKnown
<1>2. /\ session'.deferred = {} /\ session'.open = {m} /\ session'.active = TRUE /\ session'.turn = session.turn
      /\ session'.ultra = session.ultra /\ session'.delegating = session.delegating /\ session'.calls = session.calls
  BY <1>1 DEF Deliver, Announce, IInv, Fit, Session
<1>3. Truthful(session')
  BY <1>1, <1>2 DEF Truthful, Current
<1> QED  BY <1>2, <1>3 DEF TurnsKnown

LEMMA CompletesTurns ==
  ASSUME IInv, TurnsKnown, session.deferred = {}, NEW id, Completes(id) PROVE TurnsKnown'
<1> DEFINE r == [session EXCEPT !.injections = @ \ {id}, !.calls = Told(@, id)]
<1>1. Fit(session, session.injections) /\ session.calls \in SUBSET Call
  BY DEF IInv, Fit, Session
<1>2. r.calls = Told(session.calls, id) /\ Recalls(session, r) /\ Settles(r, session')
  BY <1>1, OnCompletedDoes DEF r, Completes
<1> HIDE DEF r
<1>3. ASSUME NEW c \in r.calls PROVE c.at \notin {"note", "told"}
  <2>1. \A d : d \in Told(session.calls, id) /\ d.at # "told" => d \in session.calls
    BY <1>1, ToldCalls
  <2>2. \A d \in Told(session.calls, id) : d.at = "told" => \E e \in session.calls : e.at \in {"note", "told"}
    <3> HIDE DEF Told
    <3> QED  BY <1>1, ToldCalls
  <2>3. c.at = "told" => \E e \in session.calls : e.at \in {"note", "told"}
    BY <1>2, <1>3, <2>2
  <2>4. c.at # "told" => c \in session.calls
    BY <1>2, <1>3, <2>1
  <2> QED  BY <2>3, <2>4 DEF TurnsKnown
<1>4. \A c \in session'.calls : c.at \notin {"note", "told"}
  BY <1>2, <1>3 DEF Settles, HandsOn
<1>5. Truthful(session) => Truthful(session')
  BY <1>2, RecallsKeeps DEF Settles
<1>6. /\ session'.deferred = session.deferred /\ session'.ultra = session.ultra
      /\ session'.delegating = session.delegating
  BY <1>2 DEF Recalls, Settles, HandsOn
<1> QED  BY <1>4, <1>5, <1>6, TurnsStay

LEMMA ClientsTurns ==
  ASSUME TRUE \notin UltraChoices, IInv, TurnsKnown, session.deferred = {}, Clients PROVE TurnsKnown'
<1>1. ASSUME NEW awaited \in BOOLEAN, Interrupt(awaited) PROVE TurnsKnown'
  BY <1>1, InterruptSettles, SettlesTurns
<1>2. ASSUME Asks PROVE TurnsKnown'
  <2>1. session.ultra = FALSE /\ \A ultra \in UltraChoices : ultra = FALSE
    BY SwitchesAreBoolean DEF TurnsKnown, IInv, Fit, Session
  <2> QED  BY <1>2, <2>1, SameTurns DEF Asks
<1> QED  BY <1>1, <1>2, ClientsAsk

LEMMA ResumeStartTurns ==
  ASSUME IInv, TurnsKnown, session.deferred = {}, NEW c, ResumeStart(c) PROVE TurnsKnown'
<1>1. PICK s : /\ ResumedAt(s, c) /\ Fit(s, session.injections) /\ Leaves(session, s)
               /\ s.turn # None => s = session /\ ~session.turn.waiting
               /\ c.id \in Messages /\ Goes(s, c)
  BY ResumeStartGoes
<1> DEFINE gone == Gone(s, c)
<1>2. /\ gone \in Session /\ gone.calls = s.calls \ {c} /\ gone.turn = s.turn /\ gone.open = s.open
      /\ gone.active = s.active /\ gone.deferred = s.deferred /\ gone.ultra = s.ultra /\ gone.delegating = s.delegating
  BY <1>1, GoneFields DEF Fit
<1>3. c.id \in Messages
  BY <1>1
<1>4. /\ s.deferred = {} /\ ~s.ultra /\ ~s.delegating
      /\ \A d \in s.calls : d \in session.calls \/ d.at \notin {"note", "told"}
  BY <1>1 DEF TurnsKnown, Leaves, HandsOn
<1>5. /\ s.turn # None => session' = [gone EXCEPT !.pendingInputs = @ \cup {c.id}]
      /\ s.turn = None => session' = OpenTurnDeferred(gone, c.id)
  <2>1. s.ultra = s.delegating
    BY <1>1, <1>4 DEF Fit, Session
  <2> HIDE DEF gone
  <2> QED  BY <1>1, <2>1 DEF Goes, gone
<1> HIDE DEF gone
<1>6. CASE s.turn # None
  <2>1. /\ session'.deferred = gone.deferred /\ session'.ultra = gone.ultra
        /\ session'.delegating = gone.delegating /\ session'.turn = gone.turn
        /\ session'.open = gone.open /\ session'.active = gone.active /\ session'.calls = gone.calls
    BY <1>2, <1>5, <1>6 DEF Session
  <2> QED  BY <1>1, <1>2, <1>6, <2>1, SameTurns
<1>7. CASE s.turn = None
  <2>1. s.open = {}
    BY <1>1, <1>7 DEF TurnsKnown, Leaves, Truthful, HalfTruthful, Current
  <2>2. session'.turn.id = c.id /\ session'.turn # None
    BY <1>2, <1>3, <1>5, <1>7, OpenTurnDeferredServes
  <2>3. /\ session'.deferred = gone.deferred \cup {c.id} /\ session'.ultra = gone.ultra
        /\ session'.delegating = gone.delegating /\ session'.open = gone.open /\ session'.calls = gone.calls
    BY <1>2, <1>5, <1>7 DEF OpenTurnDeferred, NewTurn, Session
  <2> QED  BY <1>2, <1>4, <2>1, <2>2, <2>3 DEF TurnsKnown
<1> QED  BY <1>6, <1>7

LEMMA NextTurns ==
  ASSUME ~SamePoll, TRUE \notin UltraChoices
  PROVE  IInv /\ PromptsInv /\ TurnsKnown /\ [Next]_vars => TurnsKnown'
<1> SUFFICES ASSUME IInv, PromptsInv, TurnsKnown, [Next]_vars PROVE TurnsKnown'
  OBVIOUS
<1>1. CASE UNCHANGED vars
  BY <1>1 DEF vars, TurnsKnown
<1>2. CASE Immediates
  BY <1>2, DeliverTurns DEF Immediates
<1>3. CASE session.deferred = {} /\ Next /\ ~Immediates
  <2>1. ASSUME NEW C, session' = [session EXCEPT !.calls = C], \A c \in C : c \in session.calls \/ c.at \notin {"note", "told"}
        PROVE  TurnsKnown'
    <3>1. session \in Session
      BY DEF IInv, Fit
    <3> QED  BY <1>3, <2>1, <3>1, SameTurns DEF Session
  <2>2. CASE Clients
    BY <1>3, <2>2, ClientsTurns
  <2>3. CASE Resumes
    <3>1. ASSUME NEW c, ResumeSteer(c) PROVE TurnsKnown'
      BY <2>1, <3>1 DEF ResumeSteer
    <3>2. \A c : ~ResumeTold(c)
      BY DEF ResumeTold, TurnsKnown
    <3> QED  BY <1>3, <2>3, <3>1, <3>2, ResumeStartTurns, ReturnsSettle, SettlesTurns DEF Resumes, CallOf, Returns
  <2>4. CASE ClaudeActs
    <3>1. CompletesNothing => TurnsKnown'
      BY DEF CompletesNothing, ClaudeCompletes, TurnsKnown
    <3> QED  BY <1>3, <2>4, <3>1, ClaudeActsAre, StreamsSettle, SettlesTurns, CompletesTurns
  <2>5. ASSUME NEW c, FailStart(c) PROVE TurnsKnown'
    BY <2>1, <2>5 DEF FailStart
  <2>6. CASE Sweep
    <3>1. \A c \in LoseInbox(session.calls) : c \in session.calls \/ c.at = "lost"
      BY LostCalls DEF IInv, Fit, Session
    <3> QED  BY <2>1, <2>6, <3>1 DEF Sweep
  <2>7. CASE ClaudeDies
    <3>1. session' = OnGone(session) /\ Once(session) /\ Fit(session, session.injections)
      BY <2>7 DEF ClaudeDies, PromptsInv, IInv
    <3> QED  BY <1>3, <3>1, OnGoneDoes, TurnsStay
  <2> QED  BY <1>3, <2>2, <2>3, <2>4, <2>5, <2>6, <2>7 DEF Next
<1> QED  BY <1>1, <1>2, <1>3 DEF Next

LEMMA TurnsAreKnown == ASSUME ~SamePoll, TRUE \notin UltraChoices PROVE Spec => []TurnsKnown
<1>1. Init => TurnsKnown
  BY DEF Init, TurnsKnown, Truthful, Current
<1> QED  BY <1>1, InitIInv, NextIInv, InitPrompts, NextPrompts, NextTurns, PTL DEF Spec

\* As long as openTurn's setImmediate runs before the next event and no client asks for `ultra`, clients see at most the turn
\* the object works on in progress, over Stop, failures and the sweep.
THEOREM OneTurnIsOpen == ASSUME ~SamePoll, TRUE \notin UltraChoices PROVE Spec => []OneOpenTurn
<1>1. TurnsKnown => OneOpenTurn
  BY DEF TurnsKnown, Truthful, OneOpenTurn, CurrentTurn, Current
<1> QED  BY <1>1, TurnsAreKnown, PTL

\* Under the same conditions, the status clients were last told says whether a turn runs.
THEOREM StatusIsTruthful == ASSUME ~SamePoll, TRUE \notin UltraChoices PROVE Spec => []StatusTruthful
<1>1. TurnsKnown => StatusTruthful
  BY DEF TurnsKnown, Truthful, StatusTruthful
<1> QED  BY <1>1, TurnsAreKnown, PTL

-----------------------------------------------------------------------------
(* A turn has a process to end it. *)

LEMMA OnGoneStops == ASSUME NEW s, NEW I, Fit(s, I) PROVE OnGone(s).running = FALSE
<1> DEFINE noted == {c \in s.calls : c.at = "note"}
           off == [s EXCEPT !.injections = {}, !.calls = LoseInbox(@ \ noted), !.running = FALSE, !.agents = {}]
           seen == [off EXCEPT !.turn.resultSeen = TRUE]
<1>1. s.calls \ noted \in SUBSET Call
  BY DEF Fit, Session
<1>2. Fit(off, {}) /\ off.running = FALSE
  BY <1>1, CallTypes DEF Fit, Session
<1>3. OnGone(s) = IF off.turn = None THEN off ELSE MaybeComplete(seen)
  BY DEF OnGone
<1> HIDE DEF off
<1>4. off.turn # None => Fit(seen, {}) /\ seen.running = FALSE
  BY <1>2 DEF Fit, Session, Turn
<1> HIDE DEF seen
<1>5. off.turn # None => MaybeComplete(seen).running = FALSE
  BY <1>4, CompleteTurnRuns DEF MaybeComplete
<1> QED  BY <1>2, <1>3, <1>5

\* Without a process Claude does not run, and a turn is one whose message is pushed next: it has no result yet.
Processed ==
  /\ session.running => loaded
  /\ ~loaded => claude.folded = {}
  /\ session.turn # None /\ ~loaded =>
       session.turn.id \in session.deferred /\ ~session.turn.resultSeen /\ ~session.turn.waiting

LEMMA ProcessUp == ASSUME loaded' PROVE Processed'
BY DEF Processed

LEMMA ProcessSame ==
  ASSUME Processed, UNCHANGED claude, session'.running = session.running,
         session'.turn = None \/ (session'.turn = session.turn /\ session'.deferred = session.deferred)
  PROVE  Processed'
BY DEF Processed, loaded

LEMMA PushesLoad == ASSUME claude \in Claude, EnsureQuery PROVE loaded'
BY DEF EnsureQuery, loaded, Claude

LEMMA OpensProcess ==
  ASSUME Processed, UNCHANGED claude, NEW s \in Session, s.running = session.running,
         NEW id \in Messages, session' = OpenTurnDeferred(s, id)
  PROVE  Processed'
<1>1. /\ session'.turn.id = id /\ ~session'.turn.resultSeen /\ ~session'.turn.waiting
  BY OpenTurnDeferredServes
<1>2. session'.deferred = s.deferred \cup {id} /\ session'.running = s.running
  BY DEF OpenTurnDeferred, NewTurn, Session
<1> QED  BY <1>1, <1>2 DEF Processed, loaded

LEMMA ClientsProcess == ASSUME IInv, Processed, Clients PROVE Processed'
<1>1. ASSUME Asks PROVE Processed'
  BY <1>1, ProcessSame, PushesLoad, ProcessUp DEF Asks, IInv
<1>2. ASSUME NEW awaited \in BOOLEAN, Interrupt(awaited) PROVE Processed'
  <2>1. UNCHANGED claude
    BY <1>2 DEF Interrupt
  <2>2. CASE loaded
    BY <2>1, <2>2, ProcessUp DEF loaded
  <2>3. CASE ~loaded
    <3> DEFINE asked == Asked(awaited)
    <3>1. Fit(asked, session.injections) /\ asked.running = session.running
      BY <1>2, InterruptIs, AskedFit
    <3>2. session' = CompleteTurn(asked, FALSE) /\ session'.turn = None
      BY <1>2, <2>3, InterruptSettles, InterruptIs
    <3> HIDE DEF asked
    <3>3. session'.running = session.running
      BY <3>1, <3>2, CompleteTurnRuns
    <3> QED  BY <2>1, <3>2, <3>3, ProcessSame
  <2> QED  BY <2>2, <2>3
<1> QED  BY <1>1, <1>2, ClientsAsk

LEMMA ResumesProcess == ASSUME IInv, Processed, Resumes PROVE Processed'
<1>1. session \in Session /\ claude \in Claude /\ Fit(session, session.injections)
  BY DEF IInv, Fit
<1>2. ASSUME NEW m \in Messages, NEW c, c.id = m, ResumeStart(c) PROVE Processed'
  <2>1. CASE \E id : Push(id)
    BY <1>1, <2>1, PushesLoad, ProcessUp DEF Push
  <2>2. CASE ~\E id : Push(id)
    <3> DEFINE s == IF session.turn # None /\ session.turn.waiting THEN CompleteTurn(session, TRUE) ELSE session
               gone == [s EXCEPT !.calls = @ \ {c}]
    <3>1. Fit(s, session.injections) /\ s.running = session.running
      BY <1>1, CompleteTurnFit, CompleteTurnRuns
    <3>2. gone \in Session /\ gone.running = s.running
      BY ZenonT(80), <3>1 DEF Fit, Session
    <3>3. session' = OpenTurnDeferred(gone, m) /\ UNCHANGED claude
      BY <1>2, <2>2 DEF ResumeStart
    <3> HIDE DEF s, gone
    <3> QED  BY <3>1, <3>2, <3>3, OpensProcess
  <2> QED  BY <2>1, <2>2
<1>3. ASSUME NEW m \in Messages, NEW c, c.id = m, ResumeTold(c) PROVE Processed'
  <2>1. [session EXCEPT !.calls = @ \ {c}] \in Session /\ [session EXCEPT !.calls = @ \ {c}].running = session.running
    BY <1>1 DEF Session
  <2> QED  BY <1>3, <2>1, OpensProcess DEF ResumeTold
<1>4. ASSUME NEW c, ResumeSteer(c) PROVE Processed'
  BY <1>1, <1>4, ProcessSame DEF ResumeSteer, Session
<1>5. CASE InterruptReturns
  <2> DEFINE s == [session EXCEPT !.pendingInputs = @ \ Head(stop).cancelled, !.agents = {}]
             seen == [s EXCEPT !.turn.resultSeen = TRUE]
  <2>1. Fit(s, session.injections) /\ s.running = session.running
    BY <1>1 DEF Fit, Session
  <2>2. session' = (IF s.turn # None /\ (~s.running \/ s.turn.waiting) THEN CompleteTurn(seen, FALSE) ELSE s) /\ UNCHANGED claude
    BY <1>5 DEF InterruptReturns
  <2> HIDE DEF s
  <2>3. s.turn # None => Fit(seen, session.injections) /\ seen.running = session.running
    BY <2>1 DEF Fit, Session, Turn
  <2> HIDE DEF seen
  <2>4. session'.running = session.running
    BY <2>1, <2>2, <2>3, CompleteTurnRuns
  <2>5. session'.turn = None \/ session.running
    BY <1>5, InterruptReturnsSettles
  <2>6. loaded \/ session'.turn = None
    BY <2>5 DEF Processed
  <2> QED  BY <2>2, <2>4, <2>6, ProcessSame, ProcessUp DEF loaded
<1>6. CASE RunningTimer
  <2> DEFINE s == [session EXCEPT !.timer = FALSE]
  <2>1. s.running = session.running /\ s.turn = session.turn /\ s.deferred = session.deferred
    BY <1>1 DEF Session
  <2>2. session' = (IF s.running THEN EnsureOwnTurn(s) ELSE s) /\ UNCHANGED claude
    BY <1>6 DEF RunningTimer
  <2> HIDE DEF s
  <2>3. loaded => Processed'
    BY <2>2, ProcessUp DEF loaded
  <2>4. ~loaded => session' = s
    BY <2>1, <2>2 DEF Processed
  <2> QED  BY <2>1, <2>2, <2>3, <2>4, ProcessSame
<1>7. ASSUME NEW id \in OwnIds, NEW found \in BOOLEAN, PeerRead(id, found) PROVE Processed'
  <2>1. claude'.phase = claude.phase /\ claude'.folded = claude.folded
    BY <1>1, <1>7 DEF PeerRead, Claude
  <2>2. loaded => Processed'
    BY <2>1, ProcessUp DEF loaded
  <2>3. ASSUME ~loaded PROVE Processed'
    <3>1. ~(session.turn # None /\ session.turn.resultSeen)
      BY <2>3 DEF Processed
    <3>2. session' = [session EXCEPT !.peers = @ \ {id}]
      BY <1>7, <3>1 DEF PeerRead
    <3>3. session'.running = session.running /\ session'.turn = session.turn /\ session'.deferred = session.deferred
      BY <1>1, <3>2 DEF Session
    <3> QED  BY <2>1, <3>3 DEF Processed, loaded
  <2> QED  BY <2>2, <2>3
<1> QED  BY <1>2, <1>3, <1>4, <1>5, <1>6, <1>7 DEF Resumes, CallOf

LEMMA ClaudeProcess == ASSUME IInv, Processed, ClaudeActs PROVE Processed'
<1>1. session \in Session /\ claude \in Claude
  BY DEF IInv, Fit
<1>2. ASSUME NEW a, ClaudeEndsAgent(a) PROVE Processed'
  <2>1. claude'.phase = claude.phase /\ claude'.folded = claude.folded
    BY <1>1, <1>2 DEF ClaudeEndsAgent, Claude
  <2>2. session'.running = session.running /\ session'.turn = session.turn /\ session'.deferred = session.deferred
    BY <1>1, <1>2 DEF ClaudeEndsAgent, OnTaskEnded, Session
  <2> QED  BY <2>1, <2>2 DEF Processed, loaded
<1>3. ASSUME NEW id, ClaudeCompletesFolded(id) PROVE loaded'
  BY <1>1, <1>3 DEF ClaudeCompletesFolded, Processed, loaded, Claude
<1>4. ASSUME ClaudeRuns \/ ClaudeWakes \/ ClaudeIdles \/ ClaudeTakes \/ ClaudeFolds PROVE loaded'
  BY <1>1, <1>4 DEF ClaudeRuns, ClaudeWakes, ClaudeIdles, ClaudeTakes, ClaudeFolds, loaded, Claude
<1>5. ASSUME NEW origin, ClaudeStartsOwn(origin) \/ ClaudeGoesOn(origin) PROVE loaded'
  BY <1>1, <1>5 DEF ClaudeStartsOwn, ClaudeGoesOn, loaded, Claude
<1>6. ASSUME ClaudeSpeaks \/ ClaudeRetries \/ ClaudeCompacts \/ \E block \in {"block", "answer"} : ClaudeBlocks(block) PROVE loaded'
  BY <1>1, <1>6 DEF ClaudeSpeaks, ClaudeRetries, ClaudeCompacts, ClaudeBlocks, Working, loaded
<1>7. ASSUME NEW a, ClaudeStartsAgent(a) PROVE loaded'
  BY <1>1, <1>7 DEF ClaudeStartsAgent, Working, loaded, Claude
<1>8. ASSUME ClaudeResult \/ ClaudeCompletes \/ ClaudeInterrupted PROVE loaded'
  BY <1>1, <1>8 DEF ClaudeResult, ClaudeCompletes, ClaudeInterrupted, loaded, Claude
<1> QED  BY <1>2, <1>3, <1>4, <1>5, <1>6, <1>7, <1>8, ProcessUp DEF ClaudeActs

LEMMA NextProcess == ASSUME ~Sweeping PROVE IInv /\ PromptsInv /\ Processed /\ [Next]_vars => Processed'
<1> SUFFICES ASSUME IInv, PromptsInv, Processed, [Next]_vars PROVE Processed'
  OBVIOUS
<1>1. CASE UNCHANGED vars
  BY <1>1 DEF vars, Processed, loaded
<1>2. CASE Immediates
  BY <1>2, PushesLoad, ProcessUp DEF Immediates, Deliver, Push, IInv
<1>3. CASE Clients \/ Resumes \/ ClaudeActs
  BY <1>3, ClientsProcess, ResumesProcess, ClaudeProcess
<1>4. ASSUME NEW c, FailStart(c) PROVE Processed'
  BY <1>4, ProcessSame DEF FailStart, IInv, Fit, Session
<1>5. CASE ClaudeDies
  <2>1. session' = OnGone(session) /\ claude' = Closed(claude)
    BY <1>5 DEF ClaudeDies
  <2>2. session'.turn = None /\ session'.running = FALSE
    BY <2>1, OnGoneDoes, OnGoneStops DEF IInv, PromptsInv
  <2>3. claude'.folded = {}
    BY <2>1 DEF Closed, IInv, Claude
  <2> QED  BY <2>2, <2>3 DEF Processed
<1> QED  BY <1>1, <1>2, <1>3, <1>4, <1>5 DEF Next, Sweep

\* As long as the sweep closes no process, a turn in progress has one, or has its message pushed to a new one next: over Stop,
\* the process's end and calls that fail (consume, openTurn, ensureQuery).
THEOREM TurnsHaveProcess == ASSUME ~Sweeping PROVE Spec => []TurnHasProcess
<1>1. Init => Processed
  BY DEF Init, Processed
<1>2. Processed => TurnHasProcess
  BY DEF Processed, TurnHasProcess, CurrentTurn
<1>3. Spec => [](IInv /\ PromptsInv /\ Processed)
  BY <1>1, InitIInv, NextIInv, InitPrompts, NextPrompts, NextProcess, PTL DEF Spec
<1> QED  BY <1>2, <1>3, PTL

-----------------------------------------------------------------------------
(* Context somebody waits for is with Claude. *)

\* With no Stop, what Claude has of it leaves only when it completes.
WithClaude ==
  /\ stop = <<>>
  /\ claude.phase \notin {"busy", "answered"} => claude.cmd = None
  /\ InjectionsWithClaude

LEMMA ContextCarried ==
  ASSUME IInv, WithClaude, UNCHANGED stop,
         claude'.phase \notin {"busy", "answered"} => claude'.cmd = None,
         Elements(inbox) \cup claude.folded \cup {claude.cmd} \subseteq Elements(inbox') \cup claude'.folded \cup {claude'.cmd, None},
         session'.injections \subseteq session.injections \cup Elements(inbox')
  PROVE  WithClaude'
<1>1. None \notin session.injections
  BY IdsDisjoint DEF IInv, Fit, Session
<1> QED  BY <1>1 DEF WithClaude, InjectionsWithClaude

LEMMA ContextKept ==
  ASSUME IInv, WithClaude, UNCHANGED <<inbox, stop>>, UNCHANGED claude \/ EnsureQuery,
         session'.injections = session.injections
  PROVE  WithClaude'
<1>1. claude'.folded = claude.folded /\ claude'.cmd = claude.cmd
  BY EnsureQueryKeeps DEF IInv
<1>2. claude'.phase = claude.phase \/ (claude.phase = "off" /\ claude'.phase = "idle")
  BY DEF EnsureQuery, loaded, IInv, Claude
<1> QED  BY <1>1, <1>2, ContextCarried DEF WithClaude

LEMMA ContextQueued ==
  ASSUME IInv, WithClaude, UNCHANGED stop, NEW id \in Messages \cup Injections, inbox' = Append(inbox, id),
         UNCHANGED claude \/ EnsureQuery, session'.injections \subseteq session.injections \cup {id}
  PROVE  WithClaude'
<1>1. claude'.folded = claude.folded /\ claude'.cmd = claude.cmd
  BY EnsureQueryKeeps DEF IInv
<1>2. claude'.phase = claude.phase \/ (claude.phase = "off" /\ claude'.phase = "idle")
  BY DEF EnsureQuery, loaded, IInv, Claude
<1>3. Elements(inbox') = Elements(inbox) \cup {id}
  BY ElementsAppend DEF IInv
<1> QED  BY <1>1, <1>2, <1>3, ContextCarried DEF WithClaude

LEMMA ClientsContext == ASSUME ~Stopping, IInv, WithClaude, Clients PROVE WithClaude'
<1>1. Asks
  BY ClientsAsk DEF Interrupt
<1>2. ASSUME NEW i \in FreeInjections, inbox' = Append(inbox, i), session'.injections = session.injections \cup {i}
      PROVE  WithClaude'
  BY <1>1, <1>2, ContextQueued DEF Asks, FreeInjections
<1> QED  BY <1>1, <1>2, ContextKept DEF Asks

LEMMA ResumesContext == ASSUME IInv, WithClaude, Resumes PROVE WithClaude'
<1>1. session \in Session /\ Fit(session, session.injections)
  BY DEF IInv, Fit
<1>2. ASSUME NEW c, c.id \in Messages, ResumeStart(c) PROVE WithClaude'
  <2>1. PICK s : Fit(s, session.injections) /\ UNCHANGED <<stop, history>> /\ Goes(s, c)
    BY <1>2, ResumeStartGoes
  <2> DEFINE gone == Gone(s, c)
  <2>2. gone \in Session /\ gone.injections = session.injections
    BY <2>1, GoneFields DEF Fit
  <2> HIDE DEF gone
  <2>3. CASE session' = [gone EXCEPT !.pendingInputs = @ \cup {c.id}] /\ Push(c.id)
    <3>1. session'.injections = session.injections
      BY <2>2, <2>3 DEF Session
    <3> QED  BY <1>2, <2>1, <2>3, <3>1, ContextQueued DEF Push
  <2>4. ASSUME NEW i \in FreeInjections, Push(i),
               session' = [gone EXCEPT !.delegating = ~@, !.injections = @ \cup {i}, !.calls = @ \cup {NoteCall(c.id, i)}]
        PROVE  WithClaude'
    <3>1. session'.injections = session.injections \cup {i} /\ i \in Injections
      BY <2>2, <2>4 DEF Session, FreeInjections
    <3> QED  BY <2>1, <2>4, <3>1, ContextQueued DEF Push
  <2>5. CASE session' = OpenTurnDeferred(gone, c.id) /\ UNCHANGED <<inbox, claude>>
    <3>1. session'.injections = session.injections
      BY <1>2, <2>2, <2>5, OpenTurnDeferredFit DEF Fit
    <3> QED  BY <2>1, <2>5, <3>1, ContextKept
  <2> QED  BY <2>1, <2>3, <2>4, <2>5 DEF Goes, gone
<1>3. ASSUME NEW c, c.id \in Messages, ResumeTold(c) PROVE WithClaude'
  <2> DEFINE gone == [session EXCEPT !.calls = @ \ {c}]
  <2>1. gone \in Session /\ gone.injections = session.injections
    BY <1>1 DEF Session
  <2>2. session' = OpenTurnDeferred(gone, c.id) /\ UNCHANGED <<inbox, stop, claude>>
    BY <1>3 DEF ResumeTold
  <2> HIDE DEF gone
  <2>3. session'.injections = session.injections
    BY <1>3, <2>1, <2>2, OpenTurnDeferredFit DEF Fit
  <2> QED  BY <2>2, <2>3, ContextKept
<1>4. ASSUME NEW c, c.id \in Messages, ResumeSteer(c) PROVE WithClaude'
  <2>1. session'.injections = session.injections /\ UNCHANGED <<stop, claude>>
    BY <1>1, <1>4 DEF ResumeSteer, Session
  <2>2. inbox' = Append(inbox, c.id) \/ UNCHANGED inbox
    BY <1>4 DEF ResumeSteer
  <2> QED  BY <1>4, <2>1, <2>2, ContextQueued, ContextKept
<1>5. ~InterruptReturns
  BY NothingInterrupts DEF WithClaude
<1>6. CASE RunningTimer
  BY <1>6, ReturnsInjections, ContextKept DEF RunningTimer, Returns
<1>7. ASSUME NEW id \in OwnIds, NEW found \in BOOLEAN, PeerRead(id, found) PROVE WithClaude'
  <2>1. session'.injections = session.injections
    BY <1>7, ReturnsInjections DEF Returns
  <2>2. claude'.folded = claude.folded /\ claude'.cmd = claude.cmd /\ claude'.phase = claude.phase
    BY <1>7 DEF PeerRead, IInv, Claude
  <2> QED  BY <1>7, <2>1, <2>2, ContextCarried DEF WithClaude, PeerRead
<1> QED  BY <1>2, <1>3, <1>4, <1>5, <1>6, <1>7 DEF Resumes, CallOf

LEMMA ClaudeContext == ASSUME IInv, WithClaude, ClaudeActs PROVE WithClaude'
<1>1. claude \in Claude /\ Fit(session, session.injections)
  BY DEF IInv
<1>2. ASSUME Streams, UNCHANGED <<inbox, stop>>, claude'.folded = claude.folded,
             claude'.cmd = claude.cmd \/ claude.cmd = None,
             claude'.phase \notin {"busy", "answered"} => claude'.cmd = None
      PROVE  WithClaude'
  BY <1>2, StreamsInjections, ContextCarried
<1>3. ASSUME ClaudeRuns \/ ClaudeWakes \/ ClaudeIdles PROVE WithClaude'
  <2>1. UNCHANGED <<inbox, stop>> /\ claude'.folded = claude.folded /\ claude'.cmd = claude.cmd /\ claude'.cmd = None
    BY <1>1, <1>3 DEF ClaudeRuns, ClaudeWakes, ClaudeIdles, WithClaude, Claude
  <2> QED  BY <1>2, <1>3, <2>1 DEF Streams
<1>4. ASSUME ClaudeTakes \/ ClaudeFolds PROVE WithClaude'
  <2>1. inbox # <<>> /\ inbox' = Tail(inbox) /\ UNCHANGED stop
    BY <1>4 DEF ClaudeTakes, ClaudeFolds
  <2>2. Elements(inbox) = Elements(inbox') \cup {Head(inbox)}
    BY <2>1, HeadAndTail DEF IInv
  <2>3. claude.folded \cup {claude.cmd, Head(inbox)} \subseteq claude'.folded \cup {claude'.cmd, None} /\ claude'.phase = "busy"
    <3>1. CASE ClaudeTakes
      BY <1>1, <3>1 DEF ClaudeTakes, WithClaude, Claude
    <3>2. CASE ClaudeFolds
      BY <1>1, <3>2 DEF ClaudeFolds, Claude
    <3> QED  BY <1>4, <3>1, <3>2
  <2>4. session'.injections = session.injections
    BY <1>4, StreamsInjections DEF Streams
  <2> QED  BY <2>1, <2>2, <2>3, <2>4, ContextCarried
<1>5. ASSUME NEW origin \in {"peer", "task"}, ClaudeStartsOwn(origin) \/ ClaudeGoesOn(origin) PROVE WithClaude'
  <2>1. UNCHANGED <<inbox, stop>> /\ claude.cmd = None /\ claude'.folded = claude.folded /\ claude'.phase = "busy"
    BY <1>1, <1>5 DEF ClaudeStartsOwn, ClaudeGoesOn, GoesOnAlone, WithClaude, Claude
  <2> QED  BY <1>2, <1>5, <2>1 DEF Streams
<1>6. ASSUME ClaudeSpeaks \/ ClaudeRetries \/ ClaudeCompacts \/ \E block \in {"block", "answer"} : ClaudeBlocks(block) PROVE WithClaude'
  <2>1. UNCHANGED <<inbox, stop, claude>>
    BY <1>6 DEF ClaudeSpeaks, ClaudeRetries, ClaudeBlocks, ClaudeCompacts
  <2> QED  BY <1>2, <1>6, <2>1 DEF Streams, WithClaude
<1>7. ASSUME ClaudeResult \/ \E a \in Agents : ClaudeStartsAgent(a) \/ ClaudeEndsAgent(a) PROVE WithClaude'
  <2>1. /\ UNCHANGED <<inbox, stop>> /\ claude'.folded = claude.folded /\ claude'.cmd = claude.cmd
        /\ claude'.phase = claude.phase \/ claude'.phase = "answered"
    BY <1>1, <1>7 DEF ClaudeResult, ClaudeStartsAgent, ClaudeEndsAgent, Claude
  <2> QED  BY <1>2, <1>7, <2>1 DEF Streams, WithClaude
<1>8. ASSUME NEW id \in Commands, ClaudeCompletesFolded(id) PROVE WithClaude'
  <2>1. session'.injections = session.injections \ {id} /\ UNCHANGED <<inbox, stop>>
    BY <1>1, <1>8, OnCompletedFit DEF ClaudeCompletesFolded, Fit
  <2>2. claude'.folded = claude.folded \ {id} /\ claude'.cmd = claude.cmd /\ claude'.phase = claude.phase
    BY <1>1, <1>8 DEF ClaudeCompletesFolded, Claude
  <2> QED  BY <2>1, <2>2 DEF WithClaude, InjectionsWithClaude
<1>9. CASE ClaudeCompletes
  <2>1. session'.injections = session.injections \ {claude.cmd} /\ UNCHANGED <<inbox, stop>>
    <3>1. claude.cmd = None => session.injections \ {claude.cmd} = session.injections
      BY IdsDisjoint DEF IInv, Fit, Session
    <3> QED  BY <1>1, <1>9, <3>1, OnCompletedFit DEF ClaudeCompletes, Fit
  <2>2. claude'.folded = claude.folded /\ claude'.cmd = None
    BY <1>1, <1>9 DEF ClaudeCompletes, Claude
  <2> QED  BY <2>1, <2>2 DEF WithClaude, InjectionsWithClaude
<1>10. ~ClaudeInterrupted
  BY NothingInterrupts DEF WithClaude
<1> QED  BY <1>2, <1>3, <1>4, <1>5, <1>6, <1>7, <1>8, <1>9, <1>10 DEF ClaudeActs

LEMMA NextWithClaude == ASSUME ~Stopping PROVE IInv /\ WithClaude /\ [Next]_vars => WithClaude'
<1> SUFFICES ASSUME IInv, WithClaude, [Next]_vars PROVE WithClaude'
  OBVIOUS
<1>1. CASE UNCHANGED vars
  BY <1>1, ContextKept DEF vars
<1>2. ASSUME NEW m \in session.deferred, Deliver(m) PROVE WithClaude'
  <2>1. session'.injections = session.injections /\ m \in Messages
    BY <1>2 DEF Deliver, Announce, IInv, Fit, Session
  <2> QED  BY <1>2, <2>1, ContextQueued DEF Deliver, Push
<1>3. CASE Clients \/ Resumes \/ ClaudeActs
  BY <1>3, ClientsContext, ResumesContext, ClaudeContext
<1>4. ASSUME NEW c, FailStart(c) PROVE WithClaude'
  BY <1>4, ContextKept DEF FailStart, IInv, Fit, Session
<1>5. ASSUME Sweep \/ ClaudeDies PROVE WithClaude'
  <2>1. session'.injections = {}
    <3>1. CASE Sweep
      BY <3>1 DEF Sweep, Quiet, IInv, Fit, Session
    <3>2. CASE ClaudeDies
      BY <3>2, OnGoneFit DEF ClaudeDies, IInv, Fit
    <3> QED  BY <1>5, <3>1, <3>2
  <2>2. claude'.cmd = None /\ UNCHANGED stop
    BY <1>5 DEF Sweep, ClaudeDies, Closed, IInv, Claude
  <2> QED  BY <2>1, <2>2 DEF WithClaude, InjectionsWithClaude
<1> QED  BY <1>1, <1>2, <1>3, <1>4, <1>5 DEF Next, Immediates

\* As long as nobody presses Stop, whoever waits for injected context waits for something Claude still has: the sweep and the
\* process's end included (quietly, quiet, consume's end).
THEOREM ContextIsWithClaude == ASSUME ~Stopping PROVE Spec => []InjectionsWithClaude
<1>1. Init => WithClaude
  BY DEF Init, WithClaude, InjectionsWithClaude
<1>2. WithClaude => InjectionsWithClaude
  BY DEF WithClaude
<1>3. Spec => [](IInv /\ WithClaude)
  BY <1>1, InitIInv, NextIInv, NextWithClaude, PTL DEF Spec
<1> QED  BY <1>2, <1>3, PTL

-----------------------------------------------------------------------------
(* `delegating` is what Claude was told. *)

\* The delegation notes Claude has not taken: each turns what it was told, so it will know what the object thinks it knows
\* exactly if an odd number of them is on the way when the two differ.
NotesUnread == {i \in Elements(inbox) : IsNote(i)}
Telling ==
  /\ stop = <<>>
  /\ \A c \in session.calls : c.at = "note" => c.note \in session.injections
  /\ session.delegating # history.told <=> Cardinality(NotesUnread) % 2 = 1

LEMMA NotesFinite == ASSUME IInv PROVE IsFiniteSet(NotesUnread) /\ Cardinality(NotesUnread) \in Nat
<1>1. IsFiniteSet(Elements(inbox)) /\ NotesUnread \in SUBSET Elements(inbox)
  BY DistinctCounts DEF IInv, NotesUnread
<1>2. IsFiniteSet(NotesUnread)
  BY <1>1, FS_Subset
<1> QED  BY <1>2, FS_CardinalityType

LEMMA Parity == ASSUME NEW n \in Nat PROVE (n + 1) % 2 = 1 <=> n % 2 # 1
OBVIOUS

\* Steps that leave the calls waiting for a note alone, and the notes in the inbox.
LEMMA NotesKept ==
  ASSUME Telling, UNCHANGED stop, session'.delegating = session.delegating, history'.told = history.told,
         session.injections \subseteq session'.injections,
         \A c : c \in session'.calls /\ c.at = "note" <=> c \in session.calls /\ c.at = "note",
         Elements(inbox') \cap session.injections = Elements(inbox) \cap session.injections
  PROVE  Telling'
<1>1. NotesUnread' = NotesUnread
  BY DEF Telling, NotesUnread, IsNote
<1> QED  BY <1>1 DEF Telling

LEMMA AsksTells == ASSUME IInv, Telling, Asks PROVE Telling'
<1>1. \A c : c \in session'.calls /\ c.at = "note" <=> c \in session.calls /\ c.at = "note"
  BY DEF Asks
<1>2. CASE UNCHANGED inbox /\ session'.injections = session.injections
  BY <1>1, <1>2, NotesKept DEF Asks
<1>3. ASSUME NEW i \in FreeInjections, inbox' = Append(inbox, i), session'.injections = session.injections \cup {i}
      PROVE  Telling'
  <2>1. Elements(inbox') = Elements(inbox) \cup {i} /\ i \notin session.injections
    BY <1>3, ElementsAppend DEF IInv, FreeInjections
  <2> QED  BY <1>1, <1>3, <2>1, NotesKept DEF Asks
<1> QED  BY <1>2, <1>3 DEF Asks

LEMMA HandsOnTells ==
  ASSUME IInv, Telling, HandsOn(session, session'), session'.injections = session.injections, UNCHANGED <<inbox, stop, history>>
  PROVE  Telling'
<1>1. \A c : c \in session'.calls /\ c.at = "note" <=> c \in session.calls /\ c.at = "note"
  BY DEF HandsOn
<1> QED  BY <1>1, NotesKept DEF HandsOn

\* Claude takes a message: what it was told turns exactly if the message is a note.
LEMMA TakesTells == ASSUME IInv, Telling, ClaudeTakes \/ ClaudeFolds PROVE Telling'
<1> DEFINE id == Head(inbox)
<1>1. inbox # <<>> /\ inbox' = Tail(inbox) /\ UNCHANGED stop /\ Taken(id)
  BY DEF ClaudeTakes, ClaudeFolds
<1>2. inbox \in Seq(Messages \cup Injections) /\ history \in History /\ session \in Session
  BY DEF IInv, Fit
<1>3. Elements(inbox) = Elements(inbox') \cup {id}
  BY <1>1, <1>2, HeadAndTail
<1>4. id \in Injections => id \notin Elements(inbox')
  <2>1. /\ id = inbox[1] /\ 1 \in DOMAIN inbox /\ DOMAIN inbox' = 1..(Len(inbox) - 1) /\ Len(inbox) \in Nat
        /\ \A i \in DOMAIN inbox' : inbox'[i] = inbox[i + 1] /\ i + 1 \in DOMAIN inbox
    BY <1>1, <1>2, ElementsTail
  <2>2. ASSUME id \in Injections, NEW i \in DOMAIN inbox' PROVE inbox'[i] # id
    <3>1. i + 1 # 1 /\ i + 1 \in DOMAIN inbox
      BY <2>1
    <3> QED  BY <2>1, <2>2, <3>1 DEF IInv, ContextKnown
  <2> QED  BY <2>2 DEF Elements
<1> HIDE DEF id
<1>5. HandsOn(session, session') /\ session'.injections = session.injections
  BY StreamsSettle, StreamsInjections DEF Streams, Settles
<1>6. \A c : c \in session'.calls /\ c.at = "note" <=> c \in session.calls /\ c.at = "note"
  BY <1>5 DEF HandsOn
<1>7. NotesUnread \subseteq Injections
  BY <1>2 DEF NotesUnread, IsNote, Telling, Session
<1>8. NotesUnread' = NotesUnread \ {id}
  <2>1. \A i : IsNote(i)' <=> IsNote(i)
    BY <1>6 DEF IsNote
  <2> QED  BY <1>3, <1>4, <1>7, <2>1 DEF NotesUnread
<1>9. session'.delegating = session.delegating /\ \A c \in session'.calls : c.at = "note" => c.note \in session'.injections
  BY <1>5, <1>6 DEF HandsOn, Telling
<1>10. CASE id \in NotesUnread
  <2>1. history'.told = ~history.told
    BY <1>1, <1>2, <1>10 DEF Taken, NotesUnread, History
  <2>2. Cardinality(NotesUnread') = Cardinality(NotesUnread) - 1 /\ Cardinality(NotesUnread') \in Nat
    <3>1. IsFiniteSet(NotesUnread') /\ Cardinality(NotesUnread') = Cardinality(NotesUnread) - 1
      BY <1>8, <1>10, NotesFinite, FS_RemoveElement
    <3> QED  BY <3>1, FS_CardinalityType
  <2>3. Cardinality(NotesUnread') % 2 = 1 <=> Cardinality(NotesUnread) % 2 # 1
    BY <2>2, NotesFinite, Parity
  <2>4. session'.delegating # history'.told <=> session.delegating = history.told
    BY <1>2, <1>9, <2>1 DEF Session, History
  <2> QED  BY <1>1, <1>9, <2>3, <2>4 DEF Telling
<1>11. CASE id \notin NotesUnread
  <2>1. NotesUnread' = NotesUnread
    BY <1>8, <1>11
  <2>2. history'.told = history.told
    BY <1>1, <1>2, <1>3, <1>11 DEF Taken, NotesUnread, History
  <2> QED  BY <1>1, <1>9, <2>1, <2>2 DEF Telling
<1> QED  BY <1>10, <1>11

LEMMA CompletesTells == ASSUME IInv, Telling, NEW id, Completes(id) PROVE Telling'
<1> DEFINE r == [session EXCEPT !.injections = @ \ {id}, !.calls = Told(@, id)]
<1>1. Fit(session, session.injections) /\ session.calls \in SUBSET Call /\ session \in Session
  BY DEF IInv, Fit, Session
<1>2. r.calls = Told(session.calls, id) /\ Recalls(session, r) /\ Settles(r, session')
  BY <1>1, OnCompletedDoes DEF r, Completes
<1> HIDE DEF r
<1>3. \A c : c \in Told(session.calls, id) /\ c.at # "told" => c \in session.calls /\ ~(c.at = "note" /\ c.note = id)
  BY <1>1, ToldCalls
<1>4. \A c \in session.calls : c.at = "note" /\ c.note # id => c \in Told(session.calls, id)
  BY <1>1, ToldCalls
<1>5. \A c : c \in session'.calls /\ c.at = "note" <=> c \in session.calls /\ c.at = "note" /\ c.note # id
  BY <1>2, <1>3, <1>4 DEF Settles, HandsOn
<1>6. session'.injections = session.injections \ {id}
  BY <1>1, OnCompletedFit DEF Completes, Fit
<1>7. id \in session.injections => id \notin Elements(inbox)
  BY <1>1 DEF IInv, ContextKnown, Completes, Elements, Session
<1>8. NotesUnread' = NotesUnread
  BY <1>5, <1>7 DEF NotesUnread, IsNote, Telling, Completes
<1>9. session'.delegating = session.delegating
  BY <1>2 DEF Settles, HandsOn, Recalls
<1> QED  BY <1>5, <1>6, <1>8, <1>9 DEF Telling, Completes

LEMMA PushedTells ==
  ASSUME IInv, Telling, NEW m \in Messages, UNCHANGED inbox \/ inbox' = Append(inbox, m),
         UNCHANGED <<stop, history>>, session'.delegating = session.delegating, session'.injections = session.injections,
         \A c : c \in session'.calls /\ c.at = "note" <=> c \in session.calls /\ c.at = "note"
  PROVE  Telling'
<1>1. Elements(inbox') \subseteq Elements(inbox) \cup {m} /\ Elements(inbox) \subseteq Elements(inbox')
  <2>1. inbox \in Seq(Messages \cup Injections) /\ m \in Messages \cup Injections
    BY DEF IInv
  <2>2. Elements(Append(inbox, m)) = Elements(inbox) \cup {m}
    BY <2>1, ElementsAppend
  <2> QED  BY <2>2
<1>2. m \notin session.injections
  BY IdsDisjoint DEF IInv, Fit, Session
<1> QED  BY <1>1, <1>2, NotesKept

\* startTurn() behind a note: one more is on the way, and the object thinks otherwise than before.
LEMMA ResumeStartTells == ASSUME IInv, Telling, NEW c, ResumeStart(c) PROVE Telling'
<1>1. PICK s : /\ ResumedAt(s, c) /\ Fit(s, session.injections) /\ Leaves(session, s)
               /\ UNCHANGED <<stop, history>> /\ c.id \in Messages /\ Goes(s, c)
  BY ResumeStartGoes
<1> DEFINE gone == Gone(s, c)
<1>2. /\ gone \in Session /\ gone.calls = s.calls \ {c} /\ gone.delegating = session.delegating
      /\ gone.injections = session.injections
  BY <1>1, GoneFields DEF Fit, Leaves, HandsOn
<1>3. \A d : d \in gone.calls /\ d.at = "note" <=> d \in session.calls /\ d.at = "note"
  BY <1>1, <1>2 DEF ResumedAt, Leaves, HandsOn
<1> HIDE DEF gone
<1>4. CASE session' = [gone EXCEPT !.pendingInputs = @ \cup {c.id}] /\ Push(c.id)
  <2>1. session'.delegating = gone.delegating /\ session'.injections = gone.injections /\ session'.calls = gone.calls
    BY <1>2, <1>4 DEF Session
  <2> QED  BY <1>1, <1>2, <1>3, <1>4, <2>1, PushedTells DEF Push
<1>5. CASE session' = OpenTurnDeferred(gone, c.id) /\ UNCHANGED inbox
  <2>1. session'.delegating = gone.delegating /\ session'.injections = gone.injections /\ session'.calls = gone.calls
    BY <1>2, <1>5 DEF OpenTurnDeferred, NewTurn, Session
  <2> QED  BY <1>1, <1>2, <1>3, <1>5, <2>1, PushedTells
<1>6. ASSUME NEW i \in FreeInjections, Push(i),
             session' = [gone EXCEPT !.delegating = ~@, !.injections = @ \cup {i}, !.calls = @ \cup {NoteCall(c.id, i)}]
      PROVE  Telling'
  <2> DEFINE n == NoteCall(c.id, i)
  <2>1. n.at = "note" /\ n.note = i
    BY DEF NoteCall
  <2> HIDE DEF n
  <2>2. /\ session'.calls = gone.calls \cup {n} /\ session'.injections = session.injections \cup {i}
        /\ session'.delegating = ~session.delegating
    BY <1>2, <1>6 DEF n, Session
  <2>3. i \notin session.injections /\ i \notin Elements(inbox) /\ Elements(inbox') = Elements(inbox) \cup {i}
    BY <1>6, ElementsAppend DEF FreeInjections, Push, IInv
  <2>4. \A d : d \in session'.calls /\ d.at = "note" <=> (d \in session.calls /\ d.at = "note") \/ d = n
    BY <1>3, <2>1, <2>2
  <2>5. \A d \in session'.calls : d.at = "note" => d.note \in session'.injections
    BY <2>1, <2>2, <2>4 DEF Telling
  <2>6. NotesUnread' = NotesUnread \cup {i} /\ i \notin NotesUnread
    <3>1. ASSUME NEW j PROVE IsNote(j)' <=> IsNote(j) \/ j = i
      BY <2>1, <2>4 DEF IsNote
    <3>2. ~IsNote(i)
      BY <2>3 DEF IsNote, Telling
    <3> QED  BY <2>3, <3>1, <3>2 DEF NotesUnread
  <2>7. Cardinality(NotesUnread') = Cardinality(NotesUnread) + 1
    BY <2>6, NotesFinite, FS_AddElement
  <2>8. Cardinality(NotesUnread') % 2 = 1 <=> Cardinality(NotesUnread) % 2 # 1
    BY <2>7, NotesFinite, Parity
  <2>9. session'.delegating # history'.told <=> session.delegating = history.told
    BY <1>1, <2>2 DEF IInv, Fit, Session, History
  <2> QED  BY <1>1, <2>5, <2>8, <2>9 DEF Telling
<1> QED  BY <1>1, <1>4, <1>5, <1>6 DEF Goes, gone

LEMMA NextTells == ASSUME ~Stopping, ~Failing PROVE IInv /\ Telling /\ [Next]_vars => Telling'
<1> SUFFICES ASSUME IInv, Telling, [Next]_vars PROVE Telling'
  OBVIOUS
<1>1. session \in Session
  BY DEF IInv, Fit
<1>2. CASE UNCHANGED vars
  BY <1>2, NotesKept DEF vars
<1>3. ASSUME NEW m \in session.deferred, Deliver(m) PROVE Telling'
  <2>1. session'.delegating = session.delegating /\ session'.injections = session.injections /\ session'.calls = session.calls
    BY <1>1, <1>3 DEF Deliver, Announce, Session
  <2>2. m \in Messages
    BY <1>1, <1>3 DEF Session
  <2> QED  BY <1>3, <2>1, <2>2, PushedTells DEF Deliver, Push
<1>4. CASE Clients
  BY <1>4, ClientsAsk, AsksTells DEF Interrupt
<1>5. ASSUME NEW c, c.id \in Messages, ResumeTold(c) \/ ResumeSteer(c) \/ FailStart(c) PROVE Telling'
  <2>1. /\ session'.delegating = session.delegating /\ session'.injections = session.injections
        /\ session'.calls = session.calls \ {c}
    <3>1. CASE ResumeTold(c)
      <4> DEFINE gone == Gone(session, c)
      <4>1. /\ gone \in Session /\ gone.calls = session.calls \ {c} /\ gone.delegating = session.delegating
            /\ gone.injections = session.injections /\ session' = OpenTurnDeferred(gone, c.id)
        BY <1>1, <3>1, GoneFields DEF ResumeTold, Gone
      <4> HIDE DEF gone
      <4> QED  BY <4>1 DEF OpenTurnDeferred, NewTurn, Session
    <3>2. CASE ResumeSteer(c) \/ FailStart(c)
      BY <1>1, <3>2 DEF ResumeSteer, FailStart, Session
    <3> QED  BY <1>5, <3>1, <3>2
  <2>2. c.at # "note" /\ UNCHANGED stop
    BY <1>5 DEF ResumeTold, ResumeSteer, FailStart
  <2>3. history'.told = history.told
    BY <1>5 DEF ResumeTold, ResumeSteer, FailStart, IInv, History
  <2>4. UNCHANGED inbox \/ inbox' = Append(inbox, c.id)
    BY <1>5 DEF ResumeTold, ResumeSteer, FailStart
  <2>5. Elements(inbox') \cap session.injections = Elements(inbox) \cap session.injections
    <3>1. Elements(Append(inbox, c.id)) = Elements(inbox) \cup {c.id} /\ c.id \notin session.injections
      BY <1>1, <1>5, ElementsAppend, IdsDisjoint DEF IInv, Session
    <3> QED  BY <2>4, <3>1
  <2> QED  BY <2>1, <2>2, <2>3, <2>5, NotesKept
<1>6. ASSUME NEW c \in session.calls PROVE c.id \in Messages
  BY <1>1 DEF Session, Call
<1>7. CASE Resumes
  <2>1. ~InterruptReturns
    BY NothingInterrupts DEF Telling
  <2>2. ASSUME RunningTimer \/ \E id \in OwnIds, found \in BOOLEAN : PeerRead(id, found) PROVE Telling'
    <3>1. Returns /\ UNCHANGED <<inbox, stop, history>>
      BY <2>2 DEF Returns, RunningTimer, PeerRead
    <3> QED  BY <3>1, ReturnsSettle, ReturnsInjections, HandsOnTells DEF Settles
  <2> QED  BY <1>5, <1>7, <2>1, <2>2, ResumeStartTells DEF Resumes, CallOf
<1>8. CASE ClaudeActs
  <2>1. CASE CompletesNothing
    BY <2>1, NotesKept DEF CompletesNothing, ClaudeCompletes
  <2>2. CASE Streams /\ ~(ClaudeTakes \/ ClaudeFolds)
    <3>1. ~ClaudeInterrupted
      BY NothingInterrupts DEF Telling
    <3>2. UNCHANGED <<inbox, stop, history>>
      BY <2>2, <3>1 DEF Streams, ClaudeRuns, ClaudeWakes, ClaudeStartsOwn, ClaudeGoesOn, ClaudeSpeaks, ClaudeRetries, ClaudeCompacts,
         ClaudeBlocks, ClaudeStartsAgent, ClaudeEndsAgent, ClaudeResult, ClaudeIdles
    <3> QED  BY <2>2, <3>2, StreamsSettle, StreamsInjections, HandsOnTells DEF Settles
  <2> QED  BY <1>8, <2>1, <2>2, ClaudeActsAre, TakesTells, CompletesTells
<1>9. CASE Sweep
  <2>1. session.injections = {} /\ session'.injections = session.injections /\ session'.calls = LoseInbox(session.calls)
        /\ session'.delegating = session.delegating /\ UNCHANGED stop
    BY <1>1, <1>9 DEF Sweep, Quiet, Session
  <2>2. \A c : c \in session'.calls /\ c.at = "note" <=> c \in session.calls /\ c.at = "note"
    <3>1. \A c : c \in LoseInbox(session.calls) /\ c.at # "lost" <=> c \in session.calls /\ c.at \notin {"lost", "steer"}
      BY <1>1, LostCalls DEF Session
    <3> QED  BY <2>1, <3>1
  <2>3. history'.told = history.told
    BY <1>9 DEF Sweep, IInv, History
  <2> QED  BY <2>1, <2>2, <2>3, NotesKept
<1>10. ~ClaudeDies
  BY DEF ClaudeDies
<1>11. ASSUME NEW c \in session.calls, FailStart(c) PROVE Telling'
  BY <1>5, <1>6, <1>11
<1> QED  BY <1>2, <1>3, <1>4, <1>7, <1>8, <1>9, <1>10, <1>11 DEF Next, Immediates

\* As long as nobody presses Stop and Claude's process does not die, Claude is told of every change of `delegating` before the
\* prompt that asked for it is delivered: if the two differ, a startTurn() still waits for a note (startTurn, onCommand).
THEOREM DelegationIsTold == ASSUME ~Stopping, ~Failing PROVE Spec => []DelegatingAsTold
<1>1. Init => Telling
  <2>1. Init => NotesUnread = {}
    BY EmptyInbox DEF Init, NotesUnread
  <2>2. 0 % 2 # 1
    OBVIOUS
  <2>3. Init => Cardinality(NotesUnread) % 2 # 1
    BY <2>1, <2>2, FS_EmptySet
  <2>4. Init => stop = <<>> /\ session.calls = {} /\ session.delegating = FALSE /\ history.told = FALSE
    BY DEF Init
  <2> QED  BY <2>3, <2>4 DEF Telling
<1>2. IInv /\ Telling => DelegatingAsTold
  <2>1. ASSUME IInv, Telling, session.delegating # history.told PROVE \E c \in session.calls : c.at = "note"
    <3>1. Cardinality(NotesUnread) % 2 = 1
      BY <2>1 DEF Telling
    <3>2. 0 % 2 # 1
      OBVIOUS
    <3>3. NotesUnread # {}
      BY <3>1, <3>2, FS_EmptySet
    <3> QED  BY <3>3 DEF NotesUnread, IsNote
  <2> QED  BY <2>1 DEF DelegatingAsTold
<1>3. Spec => [](IInv /\ Telling)
  BY <1>1, InitIInv, NextIInv, NextTells, PTL DEF Spec
<1> QED  BY <1>2, <1>3, PTL

=============================================================================
