---------------------------- MODULE ClaudeSession ----------------------------
(***************************************************************************)
(* One live Claude chat: src/src/claude/session.ts, class ClaudeSession.   *)
(*                                                                         *)
(* The object keeps one streaming query (Claude's process), turns Claude's *)
(* messages into turn notifications for the clients, and takes prompts     *)
(* from them.  Between two awaits its methods run to the end, so here a    *)
(* handler of the event loop is one operator on the object's state and the *)
(* places where a method waits are program points (calls, deferred, stop). *)
(*                                                                         *)
(* Claude is the environment: its process takes messages from the inbox,   *)
(* streams, runs sub-agents, wakes up by itself, and can die at any time.  *)
(***************************************************************************)
EXTENDS Naturals, Sequences, FiniteSets

CONSTANTS
  Messages,    \* prompts clients send, each at most once; a prompt's uuid is the id of the turn it opens
  Injections,  \* uuids of messages pushed with no reply (context, `/goal clear`, delegation notes)
  OwnIds,      \* ids of turns and prompts Claude starts by itself, reused once nothing refers to them
  Agents,      \* Claude's background sub-agents
  UltraChoices,\* the efforts prompts come with: TRUE is `ultra` (proactive delegation)
  Injecting,   \* clients inject context (thread/inject_items, a provider switch, `/goal clear`)
  Stopping,    \* clients press Stop (turn/interrupt, a goal edited or cleared)
  Awaiting,    \* a goal edited or a provider switch waits for the turn it stops (turnDone)
  Sweeping,    \* the sweep closes a quiet chat's process (more than MAX_PROCESSES run)
  SamePoll,    \* other events of the same poll phase run before a setImmediate
  Failing,     \* Claude's process dies
  Rejecting,   \* a prompt can fail before it opens its turn
  Limiting,    \* Claude meets a usage limit and waits for its reset
  MaxStops,    \* bound: interrupt() calls that wait for Claude at once
  Late,        \* a read-back or the running timer settles after Claude's result, a Stop lands as Claude starts or ends
  None         \* no turn, no message

ASSUME IdsDisjoint ==
  /\ Messages \cap Injections = {}
  /\ Messages \cap OwnIds = {}
  /\ Injections \cap OwnIds = {}
  /\ None \notin Messages \cup Injections \cup OwnIds
ASSUME SwitchesAreBoolean ==
  /\ UltraChoices \subseteq BOOLEAN
  /\ {Injecting, Stopping, Awaiting, Sweeping, SamePoll, Failing, Rejecting, Limiting, Late} \subseteq BOOLEAN
ASSUME StopsCounted == MaxStops \in Nat
ASSUME IdsFinite == IsFiniteSet(Messages) /\ IsFiniteSet(OwnIds) /\ OwnIds # {}

VARIABLES
  session,  \* the ClaudeSession object and the turn notifications it emitted
  inbox,    \* pushed to Claude, not taken by it yet
  stop,     \* the interrupt() calls under way, in the order Claude gets them
  claude,   \* Claude's process
  history   \* what happened to each prompt, and what Claude was told of delegation

vars == <<session, inbox, stop, claude, history>>

TurnIds == Messages \cup OwnIds
Commands == Messages \cup Injections \cup OwnIds

Turn == [id: TurnIds, resultSeen: BOOLEAN, interrupted: BOOLEAN, waiting: BOOLEAN,
         limit: BOOLEAN] \* retry?.limit: Claude waits for the usage limit's reset
ASSUME NoneIsNoTurn == None \notin Turn

\* A call at one of its awaits.  startTurn(): the settings and content, or the delegation note Claude has to take.
\* steer(): the content ("lost": the process whose inbox it holds is gone).
Call == [id: Messages, at: {"settings", "note", "told", "steer", "lost"}, note: Injections \cup {None}]

Session == [
  turn: Turn \cup {None},          \* this.turn
  queued: Seq(Messages),           \* this.queued
  agents: SUBSET Agents,           \* this.agents
  pendingInputs: SUBSET Messages,  \* this.pendingInputs
  injections: SUBSET Injections,   \* this.injections
  waiters: SUBSET TurnIds,         \* this.turnWaiters: the turns it has a resolver for, one each
  unheard: BOOLEAN,                \* a turnDone() waits whose resolver the next one's took the place of
  peers: SUBSET OwnIds,            \* showPeerMessage() calls reading the transcript
  calls: SUBSET Call,              \* startTurn() calls at an await
  deferred: SUBSET Messages,       \* openTurn's setImmediate: announce, then push
  running: BOOLEAN,                \* this.state # "idle"
  timer: BOOLEAN,                  \* this.runningTimer is set
  afterResult: BOOLEAN,            \* this.afterResult
  notified: BOOLEAN,               \* this.notified
  response: BOOLEAN,               \* this.response: a message of Claude's is streaming into the turn
  lastBlock: {"none", "block", "answer"}, \* this.lastBlock ("answer": a text of ANSWER_CHARS or more)
  ultra: BOOLEAN,                  \* this.settings.effort is `ultra`
  delegating: BOOLEAN,             \* this.delegating
  open: SUBSET TurnIds,            \* turn/started emitted, turn/completed not yet
  active: BOOLEAN ]                \* the last thread/status/changed said "active"

\* Claude's process: off, or what its loop does.  The transcript outlives it: its last prompt record, and the messages of
\* other agents in it that showPeerMessage() still looks for.
Claude == [
  phase: {"off", "idle", "awake", "woken", "busy", "answered", "after"},
  cmd: Commands \cup {None},
  aborted: BOOLEAN,
  folded: SUBSET Commands,
  agents: SUBSET Agents,
  ended: SUBSET Agents,            \* ended, their task_notification not sent yet
  prompt: [id: Commands \cup {None}, origin: {"human"}] \cup [id: OwnIds, origin: {"peer", "task"}],
  peers: SUBSET OwnIds ]

\* interrupt() waits for Claude ("asked": not acted on yet); the messages it cancelled.
Stop == [at: {"asked", "acted"}, cancelled: SUBSET Messages]

History == [
  sent: SUBSET Messages,           \* accepted from a client
  taken: SUBSET Messages,          \* taken by Claude
  dropped: SUBSET Messages,        \* lost to Stop, to a process that died or to a call that failed
  refused: SUBSET Messages,        \* of these, sent now from the queue at a usage limit
  told: BOOLEAN ]                  \* Claude was last told to delegate

TypeOK ==
  /\ session \in Session
  /\ inbox \in Seq(Messages \cup Injections)
  /\ stop \in Seq(Stop)
  /\ claude \in Claude
  /\ history \in History

Closed(c) == [c EXCEPT !.phase = "off", !.cmd = None, !.aborted = FALSE, !.folded = {}, !.agents = {}, !.ended = {}]
loaded == claude.phase # "off"
Elements(s) == {s[i] : i \in DOMAIN s}

Init ==
  /\ session = [turn |-> None, queued |-> <<>>, agents |-> {}, pendingInputs |-> {}, injections |-> {},
                waiters |-> {}, unheard |-> FALSE, peers |-> {}, calls |-> {}, deferred |-> {}, running |-> FALSE, timer |-> FALSE,
                afterResult |-> FALSE, notified |-> FALSE, response |-> FALSE, lastBlock |-> "none",
                ultra |-> FALSE, delegating |-> FALSE, open |-> {}, active |-> FALSE]
  /\ inbox = <<>>
  /\ stop = <<>>
  /\ claude = [phase |-> "off", cmd |-> None, aborted |-> FALSE, folded |-> {}, agents |-> {}, ended |-> {},
               prompt |-> [id |-> None, origin |-> "human"], peers |-> {}]
  /\ history = [sent |-> {}, taken |-> {}, dropped |-> {}, refused |-> {}, told |-> FALSE]

-----------------------------------------------------------------------------
(* Turn bookkeeping: methods that run within one handler, on the object's state s. *)

\* An id no turn, prompt record or read-back in use has (randomUUID, continuationTurnId); any, once the bound is hit.
UnusedOwn(s) ==
  OwnIds \ (s.open \cup s.peers \cup {claude.cmd, claude.prompt.id}
            \cup IF s.turn = None THEN {} ELSE {s.turn.id})
FreshOwn(s) == CHOOSE id \in OwnIds : UnusedOwn(s) # {} => id \in UnusedOwn(s)

\* openTurn()'s announce
Announce(s, id) == [s EXCEPT !.open = @ \cup {id}, !.active = TRUE]

\* openTurn() without `deliver`, and with it (announced and pushed in a setImmediate)
NewTurn(s, id) ==
  [s EXCEPT !.turn = [id |-> id, resultSeen |-> FALSE, interrupted |-> FALSE, waiting |-> FALSE,
                      limit |-> FALSE],
            !.afterResult = FALSE, !.notified = FALSE, !.lastBlock = "none"]
OpenTurn(s, id) == Announce(NewTurn(s, id), id)
\* Mutant: the turn is announced and its message forgotten.
Undelivered(s, id) == OpenTurn(s, id)
OpenTurnDeferred(s, id) == [NewTurn(s, id) EXCEPT !.deferred = @ \cup {id}]

\* Mutant: the waiting turn still waits for a result.
WaitUnseen(s) == [OpenTurn(s, FreshOwn(s)) EXCEPT !.turn.waiting = TRUE, !.afterResult = TRUE]
WaitForAgents(s) ==
  LET opened == OpenTurn(s, FreshOwn(s))
  IN  [opened EXCEPT !.turn.resultSeen = TRUE, !.turn.waiting = TRUE, !.afterResult = TRUE]

StartCall(id) == [id |-> id, at |-> "settings", note |-> None]
\* Mutant: startTurn() does not wait for Claude to take the note.
NoteNotAwaited(id, note) == [id |-> id, at |-> "told", note |-> note]
NoteCall(id, note) == [id |-> id, at |-> "note", note |-> note]
SteerCall(id) == [id |-> id, at |-> "steer", note |-> None]

\* The inbox is closed or dropped: what steer() pushes to it after its await, Claude never reads.
LoseInbox(calls) == {IF c.at = "steer" THEN [c EXCEPT !.at = "lost"] ELSE c : c \in calls}

\* Mutant: whoever waits in turnDone() is left waiting.
CloseUntold(s) == [s EXCEPT !.turn = None, !.response = FALSE, !.open = @ \ {s.turn.id}]

\* completeTurn(): the message streaming into it is cut off, turn/completed, and whoever waits in turnDone() is told.
Close(s) == [s EXCEPT !.turn = None, !.response = FALSE, !.open = @ \ {s.turn.id}, !.waiters = @ \ {s.turn.id}]

\* Mutants: the wait for sub-agents comes before the queue; the queue is forgotten; no idle status after a Stop.
AgentsFirst(s, interrupted) ==
  IF ~interrupted /\ s.agents # {} THEN WaitForAgents(s)
  ELSE IF s.queued # <<>>
  THEN [s EXCEPT !.queued = Tail(@), !.calls = @ \cup {StartCall(Head(s.queued))}, !.active = FALSE]
  ELSE [s EXCEPT !.active = FALSE]
QueueForgotten(s, interrupted) ==
  IF ~interrupted /\ s.agents # {} THEN WaitForAgents(s) ELSE [s EXCEPT !.active = FALSE]
StoppedUntold(s, interrupted) ==
  IF s.queued # <<>>
  THEN [s EXCEPT !.queued = Tail(@), !.calls = @ \cup {StartCall(Head(s.queued))}, !.active = FALSE]
  ELSE IF interrupted THEN s ELSE IF s.agents # {} THEN WaitForAgents(s) ELSE [s EXCEPT !.active = FALSE]

\* The rest of completeTurn() unless the work goes on in another turn: the next queued message, or the wait for sub-agents.
AfterTurn(s, interrupted) ==
  IF s.queued # <<>>
  THEN [s EXCEPT !.queued = Tail(@), !.calls = @ \cup {StartCall(Head(s.queued))}, !.active = FALSE]
  ELSE IF ~interrupted /\ s.agents # {} THEN WaitForAgents(s) ELSE [s EXCEPT !.active = FALSE]

CompleteTurn(s, continued) ==
  IF s.turn = None THEN s
  ELSE IF continued THEN Close(s) ELSE AfterTurn(Close(s), s.turn.interrupted)

\* Claude stays running while its background sub-agents work: the turn ends at its answer.
MaybeComplete(s) ==
  IF \/ s.turn = None
     \/ ~s.turn.resultSeen
     \/ IF s.agents # {} THEN s.turn.waiting ELSE s.running
  THEN s ELSE CompleteTurn(s, FALSE)

\* Mutant: a turn that runs is replaced.
ReplaceTurn(s, id) == OpenTurn([s EXCEPT !.pendingInputs = @ \ {id}], id)
EnsureTurn(s, id) ==
  IF s.turn # None THEN s ELSE OpenTurn([s EXCEPT !.pendingInputs = @ \ {id}], id)
EnsureOwnTurn(s) == IF s.turn # None THEN s ELSE EnsureTurn(s, FreshOwn(s))

ContinueTurn(s) == EnsureOwnTurn(CompleteTurn(s, TRUE))

\* continued(): Claude answers again after a result; the transcript's last prompt tells what it took.
Continued(s, prompt) ==
  LET seen == [s EXCEPT !.afterResult = FALSE]
  IN  IF \/ prompt.id = None
         \/ s.turn = None
         \/ s.turn.id = prompt.id
         \/ s.queued # <<>>
         \/ prompt.origin = "human"
         \/ prompt.origin = "task" /\ s.lastBlock = "none"
      THEN seen
      ELSE IF prompt.origin = "task" THEN ContinueTurn(seen)
      ELSE EnsureTurn(CompleteTurn(seen, s.turn.waiting), prompt.id)

-----------------------------------------------------------------------------
(* Claude's messages: handle() and what it calls, on the object's state s. *)

\* handle(), a stream_event or assistant message: after a result Claude may have gone on by itself, waiting it woke up,
\* and it waits for no limit any more.
Woken(s, prompt) ==
  LET resumed == IF s.afterResult THEN Continued(s, prompt) ELSE s
  IN  IF resumed.turn = None THEN resumed
      ELSE [resumed EXCEPT !.turn.resultSeen = @ /\ ~resumed.turn.waiting, !.turn.waiting = FALSE, !.turn.limit = FALSE]

\* showRetry(): a request of Claude's is retried, at a usage limit's reset or soon.
OnRetry(s, limit) == IF s.turn = None THEN s ELSE [s EXCEPT !.turn.limit = limit]

\* onStream, message_start
OnMessage(s, prompt) == [EnsureOwnTurn(Woken(s, prompt)) EXCEPT !.response = TRUE]

\* blockStart: more work after a message of an answer's length ends its turn; the response goes on in the next one.
OnBlock(s, prompt, block) ==
  LET woken == Woken(s, prompt)
      split == IF woken.lastBlock = "answer" THEN ContinueTurn(woken) ELSE woken
  IN  IF woken.response THEN [split EXCEPT !.response = TRUE, !.lastBlock = block] ELSE woken

\* onCommand, state "started": a pushed message reached the model, or Claude started a command by itself.
OnStarted(s, id) ==
  LET pending == id \in s.pendingInputs
      silent  == id \in s.injections
      ended   == IF s.turn # None /\ s.turn.waiting /\ ~silent /\ (pending \/ ~s.notified)
                 THEN CompleteTurn(s, TRUE) ELSE s
  IN  IF silent THEN ended
      ELSE IF pending THEN [EnsureTurn(ended, id) EXCEPT !.pendingInputs = @ \ {id}]
      ELSE LET own == [ended EXCEPT !.timer = FALSE]
           IN  IF own.turn = None /\ own.notified THEN EnsureTurn(own, FreshOwn([own EXCEPT !.peers = @ \cup {id}]))
               ELSE [EnsureTurn(own, id) EXCEPT !.peers = @ \cup ({id} \cap OwnIds)]

\* onCommand, state "completed"
OnCompleted(s, id) ==
  LET settled == [s EXCEPT !.injections = @ \ {id},
                           !.calls = {IF c.at = "note" /\ c.note = id THEN [c EXCEPT !.at = "told"] ELSE c : c \in @}]
  IN  IF settled.turn # None /\ settled.turn.id = id /\ ~settled.turn.resultSeen
      THEN MaybeComplete([settled EXCEPT !.turn.resultSeen = TRUE]) ELSE settled

OnResult(s, interrupted) ==
  IF s.turn = None THEN s
  ELSE MaybeComplete([s EXCEPT !.turn.resultSeen = TRUE, !.turn.interrupted = @ \/ interrupted, !.afterResult = TRUE])

\* onSystem, session_state_changed
OnRunning(s) == [s EXCEPT !.running = TRUE, !.timer = @ \/ (s.injections = {} /\ s.turn = None)]
\* Mutant: going idle ends no turn.
IdleOnly(s) == [s EXCEPT !.running = FALSE]
OnIdle(s) == MaybeComplete([s EXCEPT !.running = FALSE])

\* onSystem, task_started and task_notification of a sub-agent
OnTaskStarted(s, a) == [s EXCEPT !.agents = @ \cup {a}]
OnTaskEnded(s, a) ==
  [s EXCEPT !.agents = @ \ {a}, !.notified = @ \/ s.turn = None \/ s.turn.waiting]

\* Mutant: only the process's own state is reset.
GoneUnnoticed(s) == [s EXCEPT !.running = FALSE, !.agents = {}]
\* The end of consume(): Claude's process is gone.
OnGone(s) ==
  LET noted == {c \in s.calls : c.at = "note"}
      off   == [s EXCEPT !.injections = {}, !.calls = LoseInbox(@ \ noted), !.running = FALSE, !.agents = {}]
  IN  IF off.turn = None THEN off ELSE MaybeComplete([off EXCEPT !.turn.resultSeen = TRUE])

-----------------------------------------------------------------------------
(* Clients, and the calls they start. *)

\* ensureQuery(): a process of its own for the query, resuming the session from disk.
EnsureQuery == claude' = IF loaded THEN claude ELSE [claude EXCEPT !.phase = "idle"]
Push(id) == EnsureQuery /\ inbox' = Append(inbox, id)

FreeInjections ==
  Injections \ (session.injections \cup Elements(inbox) \cup claude.folded \cup {claude.cmd, claude.prompt.id})
Unsent == Messages \ history.sent

\* turn/start: startTurn() up to its first await (applyTurnSettings sets the settings before it).
StartTurn(m, ultra) ==
  /\ m \in Unsent
  /\ session' = [session EXCEPT !.calls = @ \cup {StartCall(m)}, !.ultra = ultra]
  /\ history' = [history EXCEPT !.sent = @ \cup {m}]
  /\ UNCHANGED <<inbox, stop, claude>>

\* startTurn() after its content is ready: into the running turn, behind a delegation note, or a turn of its own.
ResumeStart(c) ==
  /\ c \in session.calls
  /\ c.at = "settings"
  /\ LET s == IF session.turn # None /\ session.turn.waiting THEN CompleteTurn(session, TRUE) ELSE session
         gone == [s EXCEPT !.calls = @ \ {c}]
     IN  IF s.turn # None
         THEN /\ session' = [gone EXCEPT !.pendingInputs = @ \cup {c.id}]
              /\ Push(c.id)
         ELSE IF s.ultra # s.delegating
         THEN \E i \in FreeInjections :
                /\ session' = [gone EXCEPT !.delegating = ~@, !.injections = @ \cup {i},
                                           !.calls = @ \cup {NoteCall(c.id, i)}]
                /\ Push(i)
         ELSE /\ session' = OpenTurnDeferred(gone, c.id)
              /\ UNCHANGED <<inbox, claude>>
  /\ UNCHANGED <<stop, history>>

\* startTurn() once Claude took the delegation note.
ResumeTold(c) ==
  /\ c \in session.calls
  /\ c.at = "told"
  /\ session' = OpenTurnDeferred([session EXCEPT !.calls = @ \ {c}], c.id)
  /\ UNCHANGED <<inbox, stop, claude, history>>

\* applyTurnSettings or claudeContent rejects: the client is told, a queued message is only logged.
FailStart(c) ==
  /\ Rejecting
  /\ c \in session.calls
  /\ c.at = "settings"
  /\ session' = [session EXCEPT !.calls = @ \ {c}]
  /\ history' = [history EXCEPT !.dropped = @ \cup {c.id}]
  /\ UNCHANGED <<inbox, stop, claude>>

\* openTurn's setImmediate: the turn is announced, then Claude gets the message.
Deliver(m) ==
  /\ m \in session.deferred
  /\ session' = Announce([session EXCEPT !.deferred = @ \ {m}], m)
  /\ Push(m)
  /\ UNCHANGED <<stop, history>>

\* steer() refuses with no turn, one that only waits for sub-agents, and one that waits for the usage limit.
Steerable == session.turn # None /\ ~session.turn.waiting /\ ~session.turn.limit

\* turn/steer: steer() up to its await (its inbox is read before it), and the push after it.
Steer(m) ==
  /\ m \in Unsent
  /\ Steerable
  /\ session' = [session EXCEPT !.pendingInputs = @ \cup {m}, !.calls = @ \cup {SteerCall(m)}]
  /\ EnsureQuery
  /\ history' = [history EXCEPT !.sent = @ \cup {m}]
  /\ UNCHANGED <<inbox, stop>>

ResumeSteer(c) ==
  /\ c \in session.calls
  /\ c.at \in {"steer", "lost"}
  /\ session' = [session EXCEPT !.calls = @ \ {c}]
  /\ IF c.at = "steer" THEN inbox' = Append(inbox, c.id) /\ UNCHANGED history
     ELSE history' = [history EXCEPT !.dropped = @ \cup {c.id}] /\ UNCHANGED inbox
  /\ UNCHANGED <<stop, claude>>

\* thread/queue/add
QueueAdd(m) ==
  /\ m \in Unsent
  /\ session' = IF session.turn # None /\ ~session.turn.waiting
                THEN [session EXCEPT !.queued = Append(@, m)]
                ELSE [session EXCEPT !.calls = @ \cup {StartCall(m)}]
  /\ history' = [history EXCEPT !.sent = @ \cup {m}]
  /\ UNCHANGED <<inbox, stop, claude>>

\* Mutants: the first entry goes, whichever was named; the entry leaves a hole.
WithoutFirst(queue, k) == Tail(queue)
WithHole(queue, k) == [queue EXCEPT ![k] = None]
WithoutEntry(queue, k) == [j \in 1..(Len(queue) - 1) |-> IF j < k THEN queue[j] ELSE queue[j + 1]]

\* thread/queue/start: "send now", into the running turn like a steer, which may refuse what has left the queue.
QueueStart(k) ==
  /\ k \in DOMAIN session.queued
  /\ LET m == session.queued[k]
         rest == [session EXCEPT !.queued = WithoutEntry(@, k)]
     IN  IF session.turn = None
         THEN /\ session' = [rest EXCEPT !.calls = @ \cup {StartCall(m)}]
              /\ UNCHANGED <<claude, history>>
         ELSE IF ~Steerable
         THEN /\ session' = rest
              /\ history' = [history EXCEPT !.dropped = @ \cup {m},
                                           !.refused = IF session.turn.waiting THEN @ ELSE @ \cup {m}]
              /\ UNCHANGED claude
         ELSE /\ session' = [rest EXCEPT !.pendingInputs = @ \cup {m}, !.calls = @ \cup {SteerCall(m)}]
              /\ EnsureQuery
              /\ UNCHANGED history
  /\ UNCHANGED <<inbox, stop>>

\* thread/queue/delete: the client has its message back; thread/queue/reorder: sorted as the client asks.
QueueDelete(k) ==
  /\ k \in DOMAIN session.queued
  /\ session' = [session EXCEPT !.queued = WithoutEntry(@, k)]
  /\ history' = [history EXCEPT !.sent = @ \ {session.queued[k]}]
  /\ UNCHANGED <<inbox, stop, claude>>

QueueReorder(order) ==
  /\ order # session.queued
  /\ Elements(order) = Elements(session.queued)
  /\ session' = [session EXCEPT !.queued = order]
  /\ UNCHANGED <<inbox, stop, claude, history>>

\* inject(), quietly()
Inject(i) ==
  /\ Injecting
  /\ i \in FreeInjections
  /\ session' = [session EXCEPT !.injections = @ \cup {i}]
  /\ Push(i)
  /\ UNCHANGED <<stop, history>>

\* interrupt() up to its first await; `awaited`: goal() or a provider switch waits for the turn's end (turnDone), and the
\* resolver of another one that waits for the same turn is gone.
Interrupt(awaited) ==
  /\ Stopping
  /\ awaited => Awaiting
  /\ session.turn # None
  /\ LET id == session.turn.id
         asked == [session EXCEPT !.turn.interrupted = TRUE,
                                  !.waiters = IF awaited THEN @ \cup {id} ELSE @,
                                  !.unheard = @ \/ (awaited /\ id \in session.waiters)]
     IN  IF loaded
         THEN /\ Len(stop) < MaxStops
              /\ session' = asked
              /\ stop' = Append(stop, [at |-> "asked", cancelled |-> {}])
         ELSE /\ session' = CompleteTurn(asked, FALSE)
              /\ UNCHANGED stop
  /\ UNCHANGED <<inbox, claude, history>>

\* interrupt() once Claude answered (or is gone).
InterruptReturns ==
  /\ stop # <<>>
  /\ Head(stop).at = "acted" \/ ~loaded
  /\ LET s == [session EXCEPT !.pendingInputs = @ \ Head(stop).cancelled, !.agents = {}]
     IN  session' = IF s.turn # None /\ (~s.running \/ s.turn.waiting)
                    THEN CompleteTurn([s EXCEPT !.turn.resultSeen = TRUE], FALSE) ELSE s
  /\ stop' = Tail(stop)
  /\ UNCHANGED <<inbox, claude, history>>

\* Claude said it runs with no turn here: 100 ms later it gets one, unless the command it runs opened it.
RunningTimer ==
  /\ session.timer
  /\ LET s == [session EXCEPT !.timer = FALSE]
     IN  session' = IF s.running THEN EnsureOwnTurn(s) ELSE s
  /\ UNCHANGED <<inbox, stop, claude, history>>

\* showPeerMessage() gave up, or found the record: another agent's message Claude took as a prompt of its own right after
\* a turn's result starts a turn, as in history.
PeerRead(id, found) ==
  /\ id \in session.peers
  /\ LET s == session
         read == IF /\ found
                    /\ id \in claude.peers
                    /\ s.turn # None /\ s.turn.id # id /\ s.turn.resultSeen
                    /\ s.queued = <<>>
                 THEN EnsureTurn(CompleteTurn(s, s.turn.waiting), id) ELSE s
     IN  session' = [read EXCEPT !.peers = @ \ {id}]
  /\ claude' = [claude EXCEPT !.peers = @ \ {id}]
  /\ UNCHANGED <<inbox, stop, history>>

\* ClaudeThreads.sweep: more than MAX_PROCESSES run and this chat is quiet(now, 0); unload() closes its process.
\* Mutant: context Claude has still to take does not count.
QuietTurns == session.turn = None /\ session.queued = <<>>
Quiet == session.turn = None /\ session.queued = <<>> /\ session.injections = {}
Sweep ==
  /\ Sweeping
  /\ loaded
  /\ Quiet
  /\ claude' = Closed(claude)
  /\ inbox' = <<>>
  /\ session' = [session EXCEPT !.calls = LoseInbox(@)]
  /\ history' = [history EXCEPT !.dropped = @ \cup (Messages \cap Elements(inbox))]
  /\ UNCHANGED stop

-----------------------------------------------------------------------------
(* Claude's process, as its messages show it (the SDK's query and the CLI behind it). *)

Silent(id) == id \in Injections
IsNote(id) == \E c \in session.calls : c.at = "note" /\ c.note = id
Taken(id) ==
  history' = [history EXCEPT !.taken = @ \cup ({id} \cap Messages), !.told = IF IsNote(id) THEN ~@ ELSE @]

\* Bound: Claude starts nothing by itself while fewer ids are left than one of its messages can use.
OwnIdsLeft == Cardinality(UnusedOwn(session)) > 2

\* session_state_changed "running": it has a message to take, or woke up by itself.
ClaudeRuns ==
  /\ claude.phase = "idle"
  /\ inbox # <<>>
  /\ claude' = [claude EXCEPT !.phase = "awake"]
  /\ session' = OnRunning(session)
  /\ UNCHANGED <<inbox, stop, history>>

ClaudeWakes ==
  /\ claude.phase = "idle"
  /\ OwnIdsLeft
  /\ claude' = [claude EXCEPT !.phase = "woken"]
  /\ session' = OnRunning(session)
  /\ UNCHANGED <<inbox, stop, history>>

\* Takes the next message as a prompt of its own, from idle or right after a result.
ClaudeTakes ==
  /\ claude.phase \in {"awake", "after"}
  /\ inbox # <<>>
  /\ LET id == Head(inbox)
     IN  /\ claude' = [claude EXCEPT !.phase = "busy", !.cmd = id, !.prompt = [id |-> id, origin |-> "human"]]
         /\ session' = OnStarted(session, id)
         /\ Taken(id)
  /\ inbox' = Tail(inbox)
  /\ UNCHANGED stop

\* Takes a message into the prompt it works on.
ClaudeFolds ==
  /\ claude.phase = "busy"
  /\ inbox # <<>>
  /\ LET id == Head(inbox)
     IN  /\ claude' = [claude EXCEPT !.folded = @ \cup {id}]
         /\ session' = OnStarted(session, id)
         /\ Taken(id)
  /\ inbox' = Tail(inbox)
  /\ UNCHANGED stop

GoesOnAlone == claude.phase = "woken" \/ (claude.phase = "after" /\ OwnIdsLeft)

\* Runs a command of its own: another agent's message, or a finished task's notification.
ClaudeStartsOwn(origin) ==
  /\ GoesOnAlone
  /\ LET id == FreshOwn(session)
     IN  /\ claude' = [claude EXCEPT !.phase = "busy", !.cmd = id, !.prompt = [id |-> id, origin |-> origin],
                                     !.peers = @ \cup (IF origin = "peer" THEN {id} ELSE {})]
         /\ session' = OnStarted(session, id)
  /\ UNCHANGED <<inbox, stop, history>>

\* A sub-agent ended or sent a message: Claude goes on with no command in the stream, only the transcript tells.
ClaudeGoesOn(origin) ==
  /\ GoesOnAlone
  /\ Agents # {}
  /\ claude' = [claude EXCEPT !.phase = "busy", !.cmd = None, !.prompt = [id |-> FreshOwn(session), origin |-> origin]]
  /\ UNCHANGED <<session, inbox, stop, history>>

Working == claude.phase = "busy" /\ ~Silent(claude.cmd) /\ ~claude.aborted

ClaudeSpeaks ==
  /\ Working
  /\ session' = OnMessage(session, claude.prompt)
  /\ UNCHANGED <<inbox, stop, claude, history>>

ClaudeBlocks(block) ==
  /\ Working
  /\ session' = OnBlock(session, claude.prompt, block)
  /\ UNCHANGED <<inbox, stop, claude, history>>

\* api_retry: at a usage limit Claude waits for its reset, again and again; otherwise it tries again soon.
ClaudeRetries ==
  /\ Limiting
  /\ Working
  /\ \E limit \in BOOLEAN : session' = OnRetry(session, limit)
  /\ UNCHANGED <<inbox, stop, claude, history>>

\* compact_boundary
ClaudeCompacts ==
  /\ Working
  /\ session' = EnsureOwnTurn(session)
  /\ UNCHANGED <<inbox, stop, claude, history>>

ClaudeStartsAgent(a) ==
  /\ Working
  /\ a \notin claude.agents \cup claude.ended
  /\ claude' = [claude EXCEPT !.agents = @ \cup {a}]
  /\ session' = OnTaskStarted(session, a)
  /\ UNCHANGED <<inbox, stop, history>>

ClaudeEndsAgent(a) ==
  /\ a \in claude.agents \cup claude.ended
  /\ claude' = [claude EXCEPT !.agents = @ \ {a}, !.ended = @ \ {a}]
  /\ session' = OnTaskEnded(session, a)
  /\ UNCHANGED <<inbox, stop, history>>

ClaudeResult ==
  /\ claude.phase = "busy"
  /\ Late \/ (session.peers = {} /\ ~session.timer)
  /\ claude' = [claude EXCEPT !.phase = "answered", !.aborted = FALSE]
  /\ session' = OnResult(session, claude.aborted)
  /\ UNCHANGED <<inbox, stop, history>>

\* command_lifecycle "completed", of a message folded in and of the prompt itself.
ClaudeCompletesFolded(id) ==
  /\ id \in claude.folded
  /\ claude' = [claude EXCEPT !.folded = @ \ {id}]
  /\ session' = OnCompleted(session, id)
  /\ UNCHANGED <<inbox, stop, history>>

ClaudeCompletes ==
  /\ claude.phase = "answered"
  /\ claude.folded = {}
  /\ claude' = [claude EXCEPT !.phase = "after", !.cmd = None]
  /\ session' = IF claude.cmd = None THEN session ELSE OnCompleted(session, claude.cmd)
  /\ UNCHANGED <<inbox, stop, history>>

\* session_state_changed "idle"
ClaudeIdles ==
  /\ claude.phase = "after" \/ (claude.phase = "awake" /\ inbox = <<>>)
  /\ claude.agents \cup claude.ended = {}
  /\ claude' = [claude EXCEPT !.phase = "idle"]
  /\ session' = OnIdle(session)
  /\ UNCHANGED <<inbox, stop, history>>

\* Claude takes an interrupt: what it runs ends, its sub-agents too, messages it has not taken are dropped.
ClaudeInterrupted ==
  /\ loaded
  /\ Late \/ claude.phase \in {"idle", "woken", "busy"}
  /\ LET cancelled == Messages \cap Elements(inbox)
     IN  /\ \E k \in DOMAIN stop :
               /\ stop[k].at = "asked"
               /\ \A j \in 1..(k - 1) : stop[j].at = "acted"
               /\ stop' = [stop EXCEPT ![k] = [at |-> "acted", cancelled |-> cancelled]]
         /\ history' = [history EXCEPT !.dropped = @ \cup cancelled]
  /\ inbox' = <<>>
  /\ claude' = [claude EXCEPT !.aborted = claude.phase = "busy", !.agents = {}, !.ended = @ \cup claude.agents]
  /\ UNCHANGED session

\* The stream ends: the process died, or never came up.
ClaudeDies ==
  /\ Failing
  /\ loaded
  /\ claude' = Closed(claude)
  /\ inbox' = <<>>
  /\ session' = OnGone(session)
  /\ history' = [history EXCEPT !.dropped = @ \cup (Messages \cap Elements(inbox))
                                              \cup {c.id : c \in {d \in session.calls : d.at = "note"}}]
  /\ UNCHANGED stop

-----------------------------------------------------------------------------

Clients ==
  \/ \E m \in Messages :
       \/ \E ultra \in UltraChoices : StartTurn(m, ultra)
       \/ Steer(m)
       \/ QueueAdd(m)
  \/ \E k \in DOMAIN session.queued : QueueStart(k) \/ QueueDelete(k)
  \/ \E order \in [DOMAIN session.queued -> Elements(session.queued)] : QueueReorder(order)
  \/ \E i \in Injections : Inject(i)
  \/ \E awaited \in BOOLEAN : Interrupt(awaited)

Immediates == \E m \in session.deferred : Deliver(m)

CallOf(m) == \E c \in session.calls : c.id = m /\ (ResumeStart(c) \/ ResumeTold(c) \/ ResumeSteer(c))

Resumes ==
  \/ \E m \in Messages : CallOf(m)
  \/ InterruptReturns
  \/ RunningTimer
  \/ \E id \in OwnIds, found \in BOOLEAN : PeerRead(id, found)

ClaudeActs ==
  \/ ClaudeRuns
  \/ ClaudeWakes
  \/ ClaudeTakes
  \/ ClaudeFolds
  \/ \E origin \in {"peer", "task"} : ClaudeStartsOwn(origin) \/ ClaudeGoesOn(origin)
  \/ \E block \in {"block", "answer"} : ClaudeBlocks(block)
  \/ ClaudeSpeaks
  \/ ClaudeRetries
  \/ ClaudeCompacts
  \/ \E a \in Agents : ClaudeStartsAgent(a) \/ ClaudeEndsAgent(a)
  \/ ClaudeResult
  \/ \E id \in Commands : ClaudeCompletesFolded(id)
  \/ ClaudeCompletes
  \/ ClaudeIdles
  \/ ClaudeInterrupted

\* setImmediate runs once the poll phase under way is over: before any event that was not ready with it.
Next ==
  \/ Immediates
  \/ /\ SamePoll \/ session.deferred = {}
     /\ \/ Clients
        \/ Resumes
        \/ ClaudeActs
        \/ \E c \in session.calls : FailStart(c)
        \/ Sweep
        \/ ClaudeDies

\* The event loop: awaits settle, immediates and timers fire.
LoopFairness ==
  /\ WF_vars(Immediates)
  /\ \A m \in Messages : WF_vars(CallOf(m))
  /\ WF_vars(InterruptReturns)
  /\ WF_vars(RunningTimer)
  /\ \A id \in OwnIds : WF_vars(\E found \in BOOLEAN : PeerRead(id, found))

\* A process that is up answers what it runs, and neither its own commands nor new sub-agents keep it from a pushed
\* message or from going idle for ever.
ClaudeFairness ==
  /\ WF_vars(ClaudeRuns)
  /\ SF_vars(ClaudeTakes)
  /\ WF_vars(\E origin \in {"peer", "task"} : claude.phase = "woken" /\ ClaudeStartsOwn(origin))
  /\ WF_vars(ClaudeResult)
  /\ \A id \in Commands : WF_vars(ClaudeCompletesFolded(id))
  /\ WF_vars(ClaudeCompletes)
  /\ \A a \in Agents : WF_vars(ClaudeEndsAgent(a))
  /\ SF_vars(ClaudeIdles)
  /\ WF_vars(ClaudeInterrupted)

Spec == Init /\ [][Next]_vars
FairSpec == Spec /\ LoopFairness /\ ClaudeFairness

-----------------------------------------------------------------------------
(* What a client and the daemon rely on. *)

CurrentTurn == IF session.turn = None THEN {} ELSE {session.turn.id}
Ids(calls) == {c.id : c \in calls}

\* Clients see at most one turn of a chat in progress, and it is the one the object works on: every other turn/started had
\* its turn/completed (openTurn, completeTurn, and every path that opens a turn by itself).
OneOpenTurn == session.open \subseteq CurrentTurn

\* Once what a handler announced is out, the chat's last thread/status/changed says whether a turn runs (openTurn,
\* completeTurn: "continued" leaves it active because another turn follows in the same handler).
StatusTruthful == session.deferred = {} => (session.active <=> session.turn # None)

\* A turn that only waits for sub-agents ended for the client: nothing is queued behind it (nothing would start it, and
\* "send now" would lose it, as it does at a usage limit), and Claude's result is in (waitForAgents, thread/queue/add, thread/queue/start).
WaitingTurnIsOver ==
  session.turn # None /\ session.turn.waiting => session.queued = <<>> /\ session.turn.resultSeen

\* A queued message has a turn to wait for, or a message ahead of it about to open one (completeTurn starts one at a time).
QueueServed ==
  session.queued # <<>> =>
    \/ session.turn # None /\ ~session.turn.waiting
    \/ \E c \in session.calls : c.at \in {"settings", "note", "told"}

\* A prompt a client sent is in exactly one place: queued, in a call, announced but not pushed, in Claude's inbox, taken, or
\* dropped with a reason.  It is never run twice and never vanishes (startTurn, steer, completeTurn's shift, queue/start).
Places ==
  << Elements(session.queued), Ids(session.calls), session.deferred, Messages \cap Elements(inbox),
     history.taken, history.dropped >>
OnePlace ==
  /\ history.sent = UNION Elements(Places)
  /\ \A i, j \in DOMAIN Places : i # j => Places[i] \cap Places[j] = {}
  /\ Cardinality(Elements(session.queued)) = Len(session.queued)
  /\ Cardinality(Elements(inbox)) = Len(inbox)

\* With no Stop, no process that ends and no call that fails, whatever way a prompt was sent, one thing alone loses it:
\* a client sends it now from the queue while Claude waits for a usage limit's reset (thread/queue/start takes it out,
\* then steer() refuses).  With the sweep on, it is what quiet() says of closing a process: "closing its process loses
\* nothing".
NothingDropped == history.dropped \subseteq history.refused

\* A turn in progress has a process to end it: Claude's end ends the turn with it (consume), a turn that opens starts one.
TurnHasProcess == CurrentTurn \subseteq session.deferred \/ loaded

\* Whoever waits for injected context waits for something Claude still has: in its inbox or being worked on.  Otherwise the
\* wait never ends, and the chat is never quiet again (quietly, consume: "Context Claude never took fails whoever waits").
InjectionsWithClaude ==
  session.injections \subseteq Elements(inbox) \cup claude.folded \cup {claude.cmd}

\* `delegating` is what Claude was last told, unless a startTurn() waits for the note that tells it.
DelegatingAsTold ==
  session.delegating # history.told => \E c \in session.calls : c.at = "note"

\* Every turn ends: Claude's result and its going idle, its sub-agents' end, or its process's end complete it.
TurnsEnd == \A id \in TurnIds : id \in CurrentTurn ~> id \notin CurrentTurn

\* Every prompt a client sent and did not take back is read by Claude in the end, or known to be dropped.
MessagesSettle ==
  \A m \in Messages : m \in history.sent ~> m \in history.taken \cup history.dropped \/ m \notin history.sent

\* turnDone() resolves for who asked last: a goal's edit and a provider switch wait for it before they go on, over every
\* Stop, answer and end of the process.  (Who asked for the same turn before is `unheard`: nothing tells it.)
WaitersResolve == \A id \in TurnIds : id \in session.waiters ~> id \notin session.waiters
=============================================================================
