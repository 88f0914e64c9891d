# A model of ccodex

ccodex lets the Codex clients (the TUI, Codex Desktop, the phone) talk to Claude Code: a gateway speaks the
app-server protocol to them, passes Codex threads on to the stock app-server, and runs Claude threads itself. These
modules model its concurrent core in TLA+, TLC checks them on small instances, and TLAPS proves the invariants that
matter most for every instance. All paths below are relative to the repository.

How to run it, in this directory:

    tlc -workers 2 -config session_prompts.cfg MCClaudeSession     # any run: its .cfg with its MC module
    tlapm Daemon_proofs.tla                                        # any proof module

## The system and its parts

| Part | Source | State it keeps | What happens to it | What is hard | Modelled in |
| --- | --- | --- | --- | --- | --- |
| **Claude chat session** | `src/claude/session.ts` | the query (Claude's process) and its inbox, the running turn, the queue, prompts and context Claude has not read, sub-agents, who waits for a turn's end | prompts, steers, Stop, context injections; every message of Claude's stream; a timer; the process's end | Claude starts work by itself, folds prompts into its own, answers late; methods wait in the middle and go on with what they read before | `ClaudeSession`, `Items` (what it shows) |
| **Claude threads registry** | `src/claude/threads.ts`, `processes.ts`, `peers.ts`, `modelSelection.ts` | live sessions, rollback leaves, the queue's requests, which processes run | open, prewarm, fork, roll back, archive, delete; the sweep that closes quiet processes | whoever waits for a process to end, while others open or close it | `Registry` |
| **Requests to clients** | `src/gateway/server.ts`, `connection.ts`, `socket.ts` | connections, who is subscribed to which thread, approvals that wait for an answer | subscribe, ask, the first answer, cancel, a client that comes late or goes | two answers; an answer against a Stop; a dialog nobody takes away | `Requests` |
| **Stock connection** | `src/gateway/stock.ts` | the stock process, requests under way | forward, answer, the process's end | internal turns with a timeout | `Requests`, `Titles` |
| **Provider switch lineages** | `src/gateway/lineage.ts`, `src/meta.ts` | for each visible thread its segments (one per provider it ran on) | switch provider, roll a failed switch back, fork, roll turns back, prune, rename | several awaits, any of which may fail, around a record that must not lose a segment | `Lineages`, `Chats` |
| **Merged thread list** | `src/gateway/catalog.ts` | stock's pages read so far | one sorted list out of Codex's and Claude's | a page cut from part of one list and all of the other | `MergedList` |
| **Native session catalog** | `src/claude/native/catalog.ts`, `summary.ts`, `search.ts` | summaries of Claude's transcripts, how far each was read | refresh (one at a time, one more queued), watch, scan on, the cache | a transcript that grows or is replaced during a scan | `SessionCatalog` |
| **Projection and paging** | `src/claude/native/projector.ts`, `records.ts`, `history.ts`, `pages.ts`, `src/protocol/turnPagination.ts`, ... | windows, places and pages read before | transcripts to turns, pages of turns and items | pages of a file that grows, compacts, is rolled back; ids that must be those shown live | `Pages`, `Items` |
| **Titles** | `src/gateway/titles.ts` | titles being written | an internal turn writes a title; the user names the thread | the user's name against the late title | `Titles` |
| **Daemon lifecycle** | `src/daemon/supervisor.ts`, `daemon.ts`, `probe.ts`, `settings.ts` | the operation lock, the pid record, the running gateway | start, stop, restart, bootstrap, remote control on or off; a lock or record whose process was killed | several processes, only files between them, each killed anywhere | `DaemonLock`, `Endpoint` |
| **Socket ownership** | `src/daemon/ownership.ts` | who owns the socket's path | claim, probe, take over, release | a gateway on its way out against the one that follows | `Endpoint` |
| **Desktop stdio frontend** | `src/desktop/stdioFrontend.ts` | lines between Desktop and the daemon | connect, relay, pause and resume, end | a slow side, an end at any moment | `StdioFrontend` |
| **Remote control, relay** | `src/gateway/remote.ts`, `src/relay` | the relay process | start, stop, its death | serial operations | - |
| **Command line, management, MCP server, status skill, launch of Desktop** | `src/cli`, `src/management`, `src/mcp`, `src/gateway/status.ts`, `src/desktop/launch*.ts` | files they write once | sequential | nothing concurrent | - |

How they interact: a client's request comes in on a connection; a Codex thread's goes on to the stock process, a
Claude thread's to the registry and its session; the session's notifications go back to every subscribed connection.
A session pushes prompts into an inbox Claude's process reads when it likes, and learns what Claude does only from
the stream it sends back, and afterwards from the transcript, which the catalog summarizes and the pages are read
of. A provider switch stops the session's turn, waits for its end, injects the conversation so far into the other
side and changes the lineage. The sweep, timers and the process's end come from outside any request. Commands and
gateways are processes of their own that meet in files of the daemon's state directory and on one socket's pathname;
the App's frontend is one more, with a pipe on one side and that socket on the other.

What makes each part correct is written at its properties; `PROJECT.json` lists the hazards, each at its line, with
the properties that would catch it going wrong or why none does.

## Modules and runs

| Run | Module | Composes | States | Checks |
| --- | --- | --- | --- | --- |
| `session_prompts` | `MCClaudeSession` | `ClaudeSession` | 2.12 M | `OnePlace NothingDropped QueueServed WaitingTurnIsOver DelegatingAsTold` |
| `session_stop` | | | 1.47 M | `OneOpenTurn StatusTruthful TurnHasProcess` |
| `session_ends` | | | 0.17 M | `InjectionsWithClaude` |
| `session_live` | | | 0.12 M | `TurnsEnd MessagesSettle WaitersResolve` |
| `lineages` | `MCLineages` | `Lineages` (with `Chats`), `MergedList` | 0.33 M | `RowListed OneChatEach SegmentsHold KeepsPromise`; `ListIsWhole` |
| `daemon` | `MCDaemon` | `DaemonLock`, `Endpoint`, `StdioFrontend` | 1.05 M | `MutualExclusion OneRecovery LockFreed`; `DaemonOnRecord OtherSpared EndpointStays`; `RelayGoesOn` |
| `gateway` | `MCGateway` | `Requests`, `Titles` | 0.25 M | `ClientsSeeWhatIsAsked OneDecision DialogsGoAway`; `TitleGivesWay NamingEnds` |
| `transcripts` | `MCTranscripts` | `Registry`, `SessionCatalog`, `Pages`, `Items` | 1.29 M | `OneWriter GoesOnFromKept`; `SummaryIsWhole RefreshSees`; `PagesAreHistory`; `HistoryIsShown` |
| `find_ultra_turn`, `find_prune`, `find_takeover`, `find_list_ends` | as above | | | fail: see Divergences |

The parts an MC module puts together share no state in the model (nor, at this grain, in the code: what one needs of
another is an environment action of it). A behaviour of a composed run is one of one part, chosen at the start by
`part`; the others stay where they begin, and none of the fair actions of a part that has not begun is enabled, so
the liveness properties mean what they mean for each part alone. One type invariant per run joins those of its
modules.

## ClaudeSession: one chat (`src/claude/session.ts`)

The code is single-threaded: between two awaits a method runs to its end. So a handler is one operator on the
object's state (`OnResult`, `OnStarted`, `CompleteTurn`, ..., in the order of the code, each calling the others as
the methods do), an action applies one handler, and a method that waits is split at its awaits: `calls` holds the
`startTurn()` and `steer()` calls at theirs, `deferred` the turns that `openTurn()` announces in a `setImmediate`,
`stop` the `interrupt()` calls under way, which Claude answers in order.

| In the model | In the code |
| --- | --- |
| `session.turn`, `queued`, `agents`, `pendingInputs`, `injections`, `waiters` | `this.turn`, `queued`, `agents`, `pendingInputs`, `injections`, `turnWaiters` |
| `afterResult`, `notified`, `lastBlock`, `delegating`, `timer`, `running` | the fields of those names; `runningTimer` is set, `state` is not `idle` |
| `turn.limit` | `this.turn.retry?.limit`: Claude waits for a usage limit's reset, and `steer()` refuses |
| `unheard` | a `turnDone()` whose resolver another one's replaced in `turnWaiters`, which holds one per turn |
| `open`, `active` | what the notifications told the clients: turns started and not completed, the last status |
| `inbox` | `Inbox`, the prompts Claude's process has not taken |
| `claude` | the SDK's query and the CLI behind it, as far as its stream shows (external) |
| `history` | ghost: what was sent, taken, dropped, which of it was refused at a usage limit, and what Claude was last told of delegation |

Clients act through `StartTurn`, `Steer`, `QueueAdd/Start/Delete/Reorder`, `Inject` and `Interrupt`. Claude takes a
prompt from idle, right after a result or into the prompt it works on; wakes up by itself, for another agent's
message or a finished task; streams; runs sub-agents that end when they like; answers, completes commands, goes
idle; waits for a usage limit's reset (`ClaudeRetries`); takes an interrupt; and dies. The transcript, which the code reads to tell what Claude took, is
`claude.prompt` and `claude.peers`.

Data is abstracted to what decides control: a prompt is its uuid, a text is an answer or shorter (`ANSWER_CHARS`),
settings are whether the effort is `ultra`. Bounds: each prompt is sent at most once; ids Claude makes up are reused
once nothing refers to them, and it starts nothing of its own while fewer are left than one of its messages can use
(`OwnIdsLeft`). Everything else is unbounded: turns, wakeups, stops and deaths recur for ever, and the state space
is still finite.

### Runs

| Run | Instance | Question |
| --- | --- | --- |
| `session_prompts` | 2 prompts of either effort, 1 context, 1 sub-agent, 3 own ids, usage limits | is every prompt in exactly one place, is none lost but one sent now at a usage limit, does the queue move, does nothing queue behind a turn that only waits, does `delegating` follow what Claude was told? |
| `session_stop` | 1 prompt, 1 sub-agent, 4 own ids, two Stops at once, death | do clients see one turn and a truthful status, does no turn outlive its process? |
| `session_ends` | 2 prompts, 1 context, 3 own ids, failing prompts, deaths, the sweep, events before a `setImmediate` | do the types hold with every way a process can end, does whoever waits for context wait for something Claude has? |
| `session_live` | 1 prompt, 1 context, 3 own ids, Stop with and without `turnDone()`, death | does every turn end, every prompt settle, the `turnDone()` that was called last for a turn resolve? |
| `find_ultra_turn` | 2 prompts, `ultra` | fails: see Divergences |

Two prompts are what the interesting cases take: one that runs, one that queues, steers or arrives in the middle;
the symmetry of prompts is used where no temporal property is checked. With four ids of its own Claude can have a
turn running, a prompt in the transcript, a command and a read-back of another agent's message in use at once and
still open a new turn. One sub-agent is enough to wait for; the code only asks whether there is any.

A queued message that a client sends now while Claude waits for a usage limit is lost: `thread/queue/start` takes it
out of the queue (`threads.ts` L1375) before `steer()` refuses (`session.ts` L470), and nothing puts it back.
`NothingDropped` therefore says that this is the only way to lose one. The same refusal of a turn that only waits for
sub-agents (L469) would lose one, too; `WaitingTurnIsOver` is why it cannot come.

`turnDone()` keeps one resolver per turn. A second caller for the same turn (two edits of a goal, or one and a
provider switch) takes the first one's place, and the first waits for ever. `WaitersResolve` is about who asked last;
`~session.unheard` as an invariant of `session_live` gives the trace in which somebody is never told. `MaxStops`
bounds the `interrupt()` calls that wait for Claude at once: two in `session_stop`; one in `session_live`, where a
second caller asks once the first one's interrupt has returned and the turn still runs.

What each switch keeps out of a run, and why: `Stopping`, `Failing`, `Sweeping` lose prompts by design, so
`NothingDropped` is asked without them; `Limiting` is on where it is asked. `Rejecting` (a queued prompt whose settings fail) leaves the rest of the
queue waiting for the next turn, so `QueueServed` is asked without it. With `ultra` prompts and Claude's own turns
two turns can overlap (see Divergences), so `OneOpenTurn` is asked with one effort. `SamePoll` lets any event come
before `openTurn`'s `setImmediate`; the event loop only lets those of the same poll phase, so the runs without it
cover what happens in separate phases. `Injecting` starts
Claude before any prompt in `session_prompts`, so both can queue behind a turn of its own; `session_stop` has no use
for it. `Awaiting` is on
only where somebody's wait for a turn's end is asked about (`session_live`): nothing but `waiters` and `unheard`
depends on who waits. `Late = FALSE` in `session_live` is named under fairness.

### Fairness

`session_live` assumes weak fairness of the event loop (awaits settle, immediates and timers fire) and of Claude: it
answers what it runs, completes its commands, its sub-agents end; strong fairness of taking a pushed message and of
going idle, as its own commands and new sub-agents could otherwise keep it from both for ever. Nothing is assumed of
clients, and a process need not die. `Late = FALSE` assumes that a read-back of the transcript (at most a second)
and the 100 ms timer settle before the result of the work they belong to, and that a Stop lands while Claude is
idle, waking up or busy. Without it a turn can be opened for work that is already over, which nothing ends until the
next prompt: a real gap of the code, listed as a hazard.

### Proofs (`ClaudeSession_proofs`)

Every invariant the four runs check is a theorem, for any prompts, contexts, ids and sub-agents. The switches each
one assumes to be off are those its run has off, and every other switch may be on:

| Theorem | Property | Inductive invariant | Assumes off |
| --- | --- | --- | --- |
| `TypeCorrect`, `WaitingTurnsAreOver` | `TypeOK`, `WaitingTurnIsOver` | `IInv` | nothing |
| `EachInOnePlace` | `OnePlace` | `IInv`, `PromptsInv` | nothing |
| `QueueIsServed` | `QueueServed` | `IInv`, `Served` | `Failing`, `Rejecting` |
| `NoPromptLost` | `NothingDropped` (all that is dropped was refused at a usage limit) | `IInv`, `NoLoss` | `Stopping`, `Failing`, `Rejecting`, `Sweeping` |
| `OneTurnIsOpen`, `StatusIsTruthful` | `OneOpenTurn`, `StatusTruthful` | `IInv`, `TurnsKnown` | `SamePoll`, `ultra` prompts |
| `TurnsHaveProcess` | `TurnHasProcess` | `IInv`, `Processed` | `Sweeping` |
| `ContextIsWithClaude` | `InjectionsWithClaude` | `IInv`, `WithClaude` | `Stopping` |
| `DelegationIsTold` | `DelegatingAsTold` | `IInv`, `Telling` | `Stopping`, `Failing` |

- `IInv`: `Fit` ties the types of the object to `WaitingTurnIsOver`, and is what every handler keeps: a queued
  prompt is always a prompt, and no handler makes a turn wait while something is queued. `ContextKnown` says that a
  context in Claude's inbox, folded in or being worked on is one the object knows as context, or else an id that no
  turn can take: otherwise `onCommand` would take it for a command of Claude's own and open a turn with an id that
  is no turn's.
- What handlers do is stated once. Each one `HandsOn` the prompts it finds: those of the object stay the same, none
  is held twice, and new calls are only of prompts taken from the queue. Beyond that a part of a handler `Leaves` a
  turn ended or as it was, a handler `Settles` what clients know and what serves the queue, or `Opens` a turn that
  makes both good again. One lemma per operator says which; a handler that completes one turn and opens the next is
  a `Leaves` followed by an `Opens`. A client's step is one of `Asks`, a resumed `startTurn()` one of `Goes`: it
  joins the running turn, goes behind a note, or opens a turn.
- `PromptsInv`: the places of a prompt are apart and together are all that was sent, and the queue, the calls and
  the inbox each hold it once.
- `TurnsKnown`: between two polls either clients know the turn there is, or the one that just opened is announced
  next. With `ultra` prompts `startTurn()` waits between its test and its opening (`find_ultra_turn`); with
  `SamePoll` an event may end the turn before it is announced.
- `Processed`: a turn without a process is one whose message is pushed next. The sweep breaks it: `quiet()` asks for
  no turn, but not for the 100 ms timer, which opens one for the process that has just been closed. TLC shows it
  with `Sweeping` on.
- `Telling`: a note turns what Claude was told, so that `delegating` is what it will have been told exactly if an odd
  number of notes is unread when the two differ; and who waits for a note waits for one that is unread.

The liveness properties are model-checked only.

## Items: what a chat shows, live and read again (`session.ts`, `src/claude/native/projector.ts`, `records.ts`)

A client is shown a turn's items as Claude streams, and reads them again later from the transcript. Both sides name
turns and items by ids of their own making, and a client that joins the two keeps what has the same id. `ItemsNext`
is Claude at work on one chat: it writes the transcript (`log`) and streams, and the session's handlers run on what
it streams; `ProjectTurns` is the projector on the transcript.

| In the model | In the code |
| --- | --- |
| `log` | the transcript's records: prompts, blocks, tool results, queue operations, boundaries |
| `model` | Claude (external): its phase, what it queued, the calls and background commands that are open |
| `shown` | the turns and items the session has told its clients |
| `chat` | `this.turn`, `pendingInputs`, `afterResult`, `notified`, `lastBlock`, `background` |

`Ask`, `AskCompact`, `Steer` are the user's; `StartMessage`, `Block`, `StopMessage`, `ToolReturns`, `Fold`,
`AutoCompact`, `Result`, `TakeNext`, `GoIdle`, `TaskEnds` Claude's, each with the handler that runs on it:
`OnBlock`, `OnToolResult`, `OnResult`, `OnTaken`, `OnTaskEnded`. `HistoryIsShown` says that whenever the chat is
quiet the projection is what was shown: turns, items, their order and ids, and how each call ended. Two prompts,
three blocks and one background command at a time are what it takes for a steer to be folded in or go on after the
result, for an answer to be followed by more work, and for a task to end in a later turn.

`Allow` keeps out of the run three cases in which the two differ: `LateSteers` (a steer between Claude's last record
and its result), `LateCompactions` (a compaction between a notification taken right after a result and the answer to
it) and `SteeredCompactions` (a steer while a `/compact` runs). See Divergences.

## Registry: who writes a transcript (`src/claude/threads.ts`, and the process side of `session.ts`)

| In the model | In the code |
| --- | --- |
| `sessions`, `leaves` | `ClaudeThreads.sessions`, `ClaudeThreads.leaves` |
| `serves`, `resumeAt` | a `ClaudeSession`'s `threadId` and `resumeAt` |
| `sdk`, `dying`, `warm`, `busy` | its query that takes prompts; one that was closed and has not ended; a process started ahead; `turn` |
| `warmSession`, `warmTimer` | `warmSession`, `warmTimer` |
| `unloading` | `truncate()` or `discard()` between `unload()` and what follows it |
| `records`, `tip`, `undone` | the transcript as a tree of turns, the turn a process is at (external); ghost: turns rolled back |

Actions: `StartThread`, `OpenChat` (which may start a process ahead), `StartTurn`, `AskAside` (a side question or
injected context, which starts a process without a turn), `BeginTruncate` and
`FinishTruncate` (rollback), `BeginDiscard` and `FinishDiscard` (deletion), `Fork`, `SweepChat`, the timers
`WarmTimer` and `WarmExpires`, and a process's `TurnWritten`, `ProcessBreaks`, `ProcessGone`. `OneWriter`: no two
processes take prompts for one transcript. `GoesOnFromKept`: nothing is written below a turn that was rolled back.
Two chats are a chat and its fork; two sessions a session and the one that follows it; three turns two to begin
with, of which some are rolled back, and one written after. `Racing` lets requests come while a session is being
unloaded, `Breaking` lets a process started at a leaf end before it has written its turn, or be started there for a side
question, with no turn to write; both are off in the run,
as each breaks a property (see Divergences).

`OneWriter` and `GoesOnFromKept` are proved (`WritersAlone` with `Racing` off, `GoesOn` with both off) for any chats,
sessions and lengths of transcripts; see Proofs.

## SessionCatalog: summaries of transcripts (`src/claude/native/catalog.ts`, `summary.ts`)

| In the model | In the code |
| --- | --- |
| `disk`, `written` | the transcript, which file it is (its `mtimeMs` and first bytes tell) and how long |
| `entry`, `cache`, `cacheTimer` | the catalog's entry, the cache file, the timer that writes it |
| `scan` | the scan in flight: `discover`, `summarize` (head checked, records read, head hashed), and what it publishes |
| `inFlight`, `queued` | who awaits `refreshInFlight`, and `refreshQueued` after it |
| `changed` | the watch's timer |
| `deleting` | `truncate()` or `discard()` after the file went and until its refresh has returned |

A line is written in two halves (`AppendHalf`); a scan reads on from where the last one stopped, up to the size it
found; `Delete` and the next `AppendHalf` put a new file in the old one's place; `Restart` comes at any point and
goes on from the cache. A summary is modelled as the set of lines it was reduced from, which tells a line left out,
read twice or of another file: `SummaryIsWhole`. `RefreshSees`: who awaits `refresh()` finds what was on disk when
it asked, or something newer. One caller beside the start, the watch and the deletion, two lines, two files and one
restart are enough for a scan to be overtaken by a half line, a deletion and a new file, and its callers by a queued
scan.

## Pages: reading a history page by page (`src/claude/native/pages.ts`, `history.ts`, `src/protocol/turnPagination.ts`)

A transcript is a sequence of records, each with its parent; the history is the path to a leaf, over compactions.
`TranscriptPages` keeps a window of the newest records, places of turns read before and a few windows elsewhere, and
serves pages from the smallest part of the file that does. `file` and `leaf` are the transcript; `pagers` the
caches, one pager per leaf as `NativeSessionCatalog.pages()` has them; `asking` and `answer` the last request and
what was served. `WritePrompt`, `WriteReply`, `WriteBoundary`, `WriteSummary`, `RollBack` and `DropPages` change the
file, `Request` serves any of `Questions`: a page of turns in either direction from any cursor (with the running
turn or before it), a turn's items, the boundary of a turn. `PagesAreHistory` compares each answer with the same
page cut from the whole transcript read anew. Five records are two turns with a compaction or a rollback between
them; the second of two reads meets what the first one left; `KeptTurns` 1, `RecentWindows` 2 and `Limit` 1 let
every cache overflow with them. Chunks are of one record, so that a window can end anywhere.

## Requests: approvals and the clients that answer them (`src/gateway/server.ts`, `connection.ts`, `stock.ts`, `canUseTool` of `session.ts`)

| In the model | In the code |
| --- | --- |
| `subscriptions`, `serverRequests` | `Gateway.subscriptions`, `serverRequests` |
| `ready`, `backlog` | `Gateway.ready`, the messages held back until then |
| `calls` | a connection's handlers between two awaits, stock's answers under way |
| `toGateway`, `toClient` | the two directions of a websocket |
| `closed`, `down` | connections that closed, the gateway's `stop()` |
| `asked`, `outcome` | all approvals asked, and what Claude's callback got |
| `views`, `dialogs` | the client (external): chats it views, approvals it shows |

`ServerRequest` asks; `OnClientText` and `DispatchBacklog` dispatch an answer (`ResolveServerRequest`), a resume
(`Resume`, which subscribes and shows what is asked), a start or a forward (`Wait` and `Finish`), an unsubscribe or
a Stop (`Interrupt`); `CloseConnection` and `StopGateway` come at any moment. `ClientsSeeWhatIsAsked` relates what a
client shows, with what is on its way to it, to what is pending; `OneDecision` says Claude is told once;
`DialogsGoAway` that a settled dialog goes from every client. Two clients are two answers, or one and a Stop; one
room and one approval are enough for that; three messages are a Stop, an answer and a resume, or a leave and a
return.

## Titles: the generated title against the user's (`src/gateway/titles.ts`, internal turns of `server.ts`)

`writer` is where `Titles.generate` is, `internal` the entry in `internalTurns`, `frames` what stock sent for it,
`stockTurn` the turn as stock runs it (external); `renaming` the renames on their way to the chat's owner,
`pendingName` and `summarized` Claude's side, where a name waits until the catalog knows the transcript.
`FirstTurn`, `OpenThread`, `SetTitle`, `TitleSet` are the title turn; `StockStarts`, `StockRuns`, `InternalFrame`
and `InternalTimeout` its answers, late ones and its timeout; `NameSet` a client's `thread/name/set`, the prefix
Desktop proposes included. `TitleGivesWay`: a name the user gives while the title is written is not overwritten by
it. `NamingEnds`: naming ends. Two names let one come before and one after any step. It is assumed that stock
answers `turn/start` within the internal turn's own timeout.

## Lineages: chats that switch provider (`src/gateway/lineage.ts`, `src/meta.ts`)

A chat that changes provider goes on in a new native thread; its lineage in `meta.json` lists the threads
(segments). A fork lists the older segments of its source, so chats share threads, and the code decides from the
lineages alone what may be deleted, what is listed under which id and what a rollback cuts.

| In the model | In the code |
| --- | --- |
| `lineages` (its part `lineages`) | `Meta.data.lineages`, written through (`save()` in every setter), so a restart finds it |
| `newBackends` | `Lineages.newBackends`, gone with a restart |
| `native`, `provider` | the threads stock and Claude keep, their turns (external) |
| `calls` | requests between two awaits, with the `segments` they took when they came in (L180) |
| `noops` | turns of compactions that compacted nothing, which leave the history (L566-575) |
| `turns`, `cleaned`, `run` | history: turns said, threads Claude cleaned up, starts of the gateway |

A request is one action per stretch between awaits: `AskSwitch`, `CreateBackend`, `SetLineage`, `StartSwitched` (or
`FailSwitch`); `AskFork`, `CopyThread`, `ListFork`; `AskRevert`, `RevertThread`, `RevertLineage`, one `Discard` for
each dropped backend; `AskDelete`, one `DeleteSegment` for each, `DeleteLineage`. `CleanUp` is Claude's own removal
of old transcripts, `Restart` the start with `prune()`, in any order of the lineages. A turn is its number; a fork
or a rollback names it by segment and place, the switch marker of a Claude segment as place 0.

**`Chats`** is the abstract specification, what `docs/details.md` promises ("one chat with one history; edits and
forks across the switch work"): each listed chat is one sequence of turns; a turn is appended to one chat; a fork is
a new chat of the turns asked for, a rollback a prefix, a deletion takes one chat; a cleanup takes turns and no
chat; a restart keeps each chat's history, maybe under another id. Segments do not exist there. `KeepsPromise` is
the refinement, with `SeenChats` (the stitched history of each chat that is listed) as the mapping.

| Run | Instance | Question |
| --- | --- | --- |
| `lineages` (its part `lineages`) | 3 threads, 2 requests, 3 turns, 2 runs of the gateway | does it implement `Chats`; does every lineage list its own row, no two chats go on in one thread, no lineage list a thread that was deleted under it? |
| `find_prune` | 4 threads, 1 request, `Collisions`, `LateFailures` | fails: see Divergences |

Three threads are a chat that switched and its fork, or a chat that switched twice; two requests are what it takes
for one chat's to run in the middle of another's; three turns let each segment have one, or one have a turn to cut;
two runs are one restart at any point. Thread ids are never used twice. Stopping is allowed: turns and ids run out.

The code does not keep the promise in every case. `Allow` names the cases kept out of `lineages`, and what happens
with each (found with the same instance, `LostRows` with five and six threads):

| Flag | Case | With it |
| --- | --- | --- |
| `Overlap` | two requests on one chat at once | the later `setLineage()` overwrites the other's: `KeepsPromise` |
| `SharedEdits` | a rollback inside a shared segment, deleting a one-segment chat whose thread a fork lists | turns go from the fork's history: `SegmentsHold` |
| `TwinDrops` | two chats that share a segment deleted or rolled back at once | each leaves the shared thread to the other, it is listed again: `KeepsPromise` |
| `LateFailures` | a switch fails after its lineage was set | the chat is not where it was told (`StaysOnClaude`), or its backend is discarded (`SegmentsHold`) |
| `TornCrashes` | the gateway ends in the middle of a rollback or deletion | the chat comes back in part: `KeepsPromise` |
| `EmptyChats` | no last turn to name in a chat without turns | more turns than asked for: `KeepsPromise` |
| `Collisions` | a fork's own thread is cleaned up while it shares an older segment | pruning puts it in another chat's place: `PruneKeepsChats` |
| `LostRows` | a fork's own thread is cleaned up before its older segments, or all that is before a thread forks list | turns of another chat show, or the chat disappears: `KeepsPromise` |

`RowListed`, `OneChatEach`, `SegmentsHold` and, within one run, `KeepsPromise` are also proved (see Proofs), each with
the flags it allows. No liveness, as nothing in this part has to happen. Left out: pages of the history (`Stitched`
is the whole of it), `pending` (the model chosen ahead of the turn), a chat without a message that changes provider
under its own id (it settles in `Begin`), names, goals, archive flags and sections.

## MergedList: the list of chats (`src/gateway/catalog.ts`)

A row is the number it sorts by. `stock` and `claude` are the two lists (external, unchanged while they are listed);
`caches` is `stockCache` and the older ones lists under way still read into; `lists` holds each client's
`thread/list`: the cache it reads, how far it is, and the rows it has been given. `Ask` begins a list or its next
page, `Load` takes the cache's turn (`loading`), `Request` and `Receive` read one page of stock, or `Refused` fails,
`Show` answers the page of what is `Final`: the rows no unread one can come before. `ListIsWhole`: the pages a
client follows are, in order, the merge of the whole lists, and a list that ends is all of it. Two clients share a
cache or have one each (`MaxCaches` 2); four rows of stock and two of Claude's over pages of two give pages that are
cut anywhere, three pages of a list, and a last one of any length. It is a part of the run `lineages`, and of
`find_list_ends` with pages of one.

`Odd` names what is kept out of `lineages`: `ManyHidden` (a page's worth of stock's rows hidden, `find_list_ends`),
`Ties` (rows of the same time) and `Moved` (a switched chat's row that shows a newer time than it is listed by); see
Divergences.

## DaemonLock: the operation lock (`src/daemon/supervisor.ts`)

Commands and a gateway the App starts take turns by `mkdir`; `owner.json` in the directory says whose it is. A
waiter removes a lock whose owner is gone, or that has had no owner for `START_TIMEOUT_MS`, behind a marker
directory that is itself removed when old. Each call to the file system is an action; `Die` kills a process between
any two; `FailOwner` is a full disk. `AgeLock` and `AgeMarker` are the ages `mtimeMs` gives.

Two switches name what the lock relies on. `Racing` off: a recovery is not overtaken between what it reads and what
it does about it, i.e. the owner it read does not both let go and exit within that moment, and an old marker is
removed before another is made. `Suspending` off: `START_TIMEOUT_MS` do not pass while a process is between two
synchronous steps.

| Run | Instance | Question |
| --- | --- | --- |
| `daemon` (its part `lock`) | 3 processes, both switches off | do operations and recoveries run one at a time, is a lock left behind freed while somebody waits? |

Three processes are one that held the lock, one that recovers it and one that takes it meanwhile. A killed process
does not come back (its start time is part of its identity), so at most three deaths happen in a run, enough for one
in the operation, one in the recovery and one in the recovery of that. Deadlock is not checked as all may be killed.
Fairness: a process that runs goes on, and time passes; nobody has to call, to be killed or to run into the
deadline. Each process waits at most `LOCK_TIMEOUT_MS` (75 s), longer than both ages take, so `LockFreed` excuses
only those who gave up.

Proved in `Daemon_proofs`, for any set of processes, with both switches off: `OperationsTakeTurns` (mutual
exclusion), `RecoveriesTakeTurns`, `LockTypeCorrect`. The inductive invariant says that a holder's directory is
there with its name in it, save while it makes or removes it; that the owner named in a lock holds it or was killed;
and, the heart of it, `VerdictStands`: once a recovery has seen a killed owner, or found the lock old, nobody holds
the lock until the recovery acts, as nobody can take a lock whose directory is there and only a recovery removes one
that is not its own. `Racing` breaks exactly that, and `MutualExclusion` with it (see Divergences).

## Endpoint: the daemon's commands and who has the socket (`src/daemon/daemon.ts`, `supervisor.ts`, `ownership.ts`, `probe.ts`, `src/gateway/socket.ts`)

| In the model | In the code |
| --- | --- |
| `cmd` | the `HybridDaemon` command that holds the lock, `pc` the await it is at |
| `pidFile` | `gateway.pid`: none, a reservation, a record |
| `ownerFile`, `path`, `bound` | the owner record; whom the pathname leads to; who has a socket bound to it, unlinked since or not |
| `kind`, `state`, `told` | the processes (external): what they are, how far each is, those sent SIGTERM |

Commands are `start`, a start by another install (`switch`), `restart`, `settings` (remote control on or off),
`stop`. Each of their probes, looks at files, signals and waits is an action, and the command itself may be killed
(`Return` at any point; the lock's recovery is `DaemonLock`'s). Between any two of them:

- a child looks at its reservation (`ReadReservation`) and writes its record over whatever the file has become
  (`PublishRecord`), during another command, too, if its own was killed; reservations grow old (`Age`);
- the App launches a gateway of its own behind the daemon's lock (`AppLaunches`);
- a gateway takes the startup lock and asks whether somebody serves behind the pathname (`ProbePath`), gives up if so
  (`NotStarted`), unlinks it (`Prepare`), and listens (`Listen`) or cannot (`ListenFails`): then it has no gateway to
  stop, drops its records, and stays behind with its stock, `stranded`;
- one stops by itself, as its stock exits or it is signalled (`StopsItself`); one told to stop closes its server
  (`CloseServer`), and removes the pathname and its records later (`Leave`); any process crashes (`Ends`);
- stock or another program takes the pathname (`OtherBinds`).

`DaemonOnRecord`: a daemon that runs is the one on record, and a stop that reports success leaves none. It excepts
what `overtaken` notes: a killed command's child looks at its reservation while another command runs, or has looked
as that begins. It then writes over the other's record or is written over, and one of two daemons is unknown to every
later command: a gap of the code, which nothing between L202 and L217 of `supervisor.ts` closes. `OtherSpared`: what
is not an app server is never signalled. `EndpointStays`: a pathname that leads to a serving process is not taken
away. Three processes are a daemon, one that takes its place and one that takes the path meanwhile; two commands are
one that was killed and the next.

Two switches name what the code does not keep apart. Both are off in the run, and a trace with either on is a few
steps:

- `Slow`: a gateway that still shuts down while the next one listens (`find_takeover`).
- `Unfenced`: another program binds the pathname while a gateway has probed it or shuts down (`daemon.ts` L235
  expects it to); a gateway ends by itself while another has a socket on the pathname; two gateways are in the
  startup lock, whose recovery takes one that was created and not yet written for nobody's (`socket.ts` L25, L44).
  With it `EndpointStays` is violated (the unlink in `Prepare` or `Leave` cuts off who bound in between), and
  `OtherSpared`.

`DaemonOnRecord` and the types hold with both on, which is proved.

## StdioFrontend: the App's relay (`src/desktop/stdioFrontend.ts`)

The lines of a direction keep their order, so a direction is four counters (written, read, taken out of the queue,
sent) and two flags (one being sent, reading paused). `run` and `socket` are the state of `run()` and its websocket;
`eof`, `ended`, `failed` the end of stdin, `inputEnded`, `outputFailed`. `ReadInput`, `Sent`, `InputEnds` are one
way, `Receive`, `Drained`, `OutputFails` the other; `OpenSocket`, `NotOpen`, `DeadlinePasses`, `Serve` the tries to
connect; `SocketCloses` the end. `RelayGoesOn`: however slow either side is, everything that was written is sent in
the end unless the relay is over, what had been read for the App is written even then, and it is over once the App
closes stdin. Three lines with a high water of 2 and a low one of 1 are one being sent, a full queue, and a pause
that must be undone. `Hasty` (stdin ends just as the socket is being opened) is off in the run; see Divergences.

## Bounds, and why they are enough

Each section says what its numbers make possible. They share one rule: every bound leaves room for the thing that is
protected, the one that disturbs it, and one that comes after both (a chat, its fork and another; a killed command,
its child and the next command; a page, what is written after it, and the page that follows). Counters that would
grow for ever are cut by a constant in the guard of the action that makes them grow (`MaxTurns`, `MaxAsked`,
`MaxSent`, `MaxNames`, `MaxCommands`, `MaxFiles`, `MaxRestarts`, `MaxCalls`, `MaxReads`, `MaxRecords`, `MaxPrompts`,
`MaxBlocks`, `MaxTurn`, `MaxRun`); nothing else stops. Deadlock is not checked in any run: a chat, a list or a relay
really may have nothing more to do, and all commands may be killed. Symmetry is used for prompts, thread ids,
request slots, listers and chats, which are interchangeable, and in no run with a liveness property.

## Fairness

Liveness is stated in `session_live`, `daemon` and `gateway` only. Each formula names what goes on by itself, and no
client, user or crash is in any of them:

- `FairSpec` of `ClaudeSession`: see there.
- `Fairness` of `DaemonLock`: each process that runs goes on, and time passes (`AgeLock`, `AgeMarker`).
- `FrontendFairness`: the event loop reads stdin and notes its end, sends what it holds, receives; the App reads its
  pipe or is gone (`Drained` or `OutputFails`); the tries to connect end in a connection or at the deadline; a
  websocket told to close does.
- `TitlesFairness`: the internal turn's timer fires; the gateway's steps, the owner's renames and stock's answers to
  `thread/start` and `turn/start` come. The turn itself need never answer: that is what the timeout is for.
- `RequestsFairness`: per client, it reads what it is sent or the gateway goes on with what it sent. A connection
  that closes shows nothing any more.

## Proofs

Eight modules hold proofs, checked by tlapm for every value of the constants under the assumptions named in the
modules:

| Module | Theorems | Assuming |
| --- | --- | --- |
| `ClaudeSession_proofs` | ten, one for each invariant of its runs | see there |
| `Daemon_proofs` | `OperationsTakeTurns`, `RecoveriesTakeTurns`, `LockTypeCorrect`, `DaemonTypeCorrect` | `Racing`, `Suspending` off |
| | `DaemonsOnRecord`, `EndpointTyped` | nothing more (also with `Slow`, `Unfenced`) |
| | `OthersSpared` | `Unfenced` off |
| | `PathKept` | `Slow`, `Unfenced` off: `find_takeover` shows why |
| `Requests_proofs` | `DecidedOnce`, `RequestsTyped`, `ViewersSee` | nothing more |
| `Gateway_proofs` | `UserNameStays`, `GatewayTypeCorrect` | nothing more |
| `Registry_proofs` | `WritersAlone` | `Racing` off |
| | `GoesOn` | `Racing`, `Breaking` off |
| `SessionCatalog_proofs` | `SummariesAreWhole`, `RefreshesSee` | nothing more |
| `Lineages_proofs` | `ChatsKeepTheirRow` | `Overlap`, `SharedEdits` not in `Allow` |
| | `ChatsKeepApart` | nor `Collisions`, `LateFailures`, `TornCrashes` |
| | `HistoryIsKept` | `Overlap`, `SharedEdits`, `LateFailures`, `TornCrashes` not in `Allow` |
| `Chats_proofs` | `HistoryIsPromised` | all of `Allow` off but `LostRows`, and one run of the gateway |

Each follows the same line: an invariant that is inductive, one lemma per action or group of actions that keep it in
the same way, one for the whole of `Next`, and the theorem by temporal logic. The invariants of `ClaudeSession` and
`DaemonLock` are described in their sections. The others:

- **`DaemonTypeCorrect`**, **`GatewayTypeCorrect`**: a step of the whole is one of a part, and the other stutters, so
  the parts' invariants together are inductive. For the App's relay that invariant counts the lines of each
  direction (`FrontendTypeOK`): a line is sent after it was read, in order and once, whatever closes meanwhile.

- **`DaemonsOnRecord`**: `AllOnRecord` (a daemon past its publication is the one on record) is not inductive alone:
  a command that spawns writes over the record. `NoneBeside` says why it may: once past the end of the daemon on
  record, and until it has a child of its own, a command has no daemon beside it. That holds because only the child
  a reservation names publishes itself, and, between its look at the reservation and its record, no command but its
  own runs (`Reading`); a step that breaks this sets `overtaken`. `BornAwaited` says that a command's target that
  has not published itself is the child it awaits, `RecordsHold` ties a record to a process that has.
- **`OthersSpared`**, **`PathKept`**: `PathInv` adds to that invariant who has the pathname. What is no app server
  keeps the pathname as long as it has its socket, so an owner that answered as an app server is still the same
  process when it is signalled (`OutsidersAlone`, `TargetsSpared`); one gateway at a time is between its probe and
  its socket, and the pathname it found free is free until it unlinks it (`OneStarts`); only who has been told to
  end shuts down (`ToldAreServers`), and nobody else has the endpoint while a gateway does (`ToldAlone`). `Unfenced`
  breaks all of these, `Slow` the last.
- **`DecidedOnce`**: as long as the gateway runs, what is pending (`serverRequests`) has no outcome, and only
  pending approvals are given one; the gateway's end gives them all one at once and leaves the table, but handles
  nothing after that.
- **`ViewersSee`**: what a client will show depends on all that is under way between it and the gateway, in order.
  `Stands` relates how a client stands to a chat (not there, opening, viewing, leaving) to its messages and the
  replies on their way: a chat is opened once, by one client, subscribed when that is answered, and left in order.
  `Shown` relates an approval to those: no frame shows it after one that takes it away, a settled one is not
  pending, none comes before the reply that opens the chat or after the one that leaves it, and a viewer that is
  subscribed shows it, will, or has answered it, just while it is pending. Both speak of sequences only through
  `Meets`, `Followed`, `Preceded`, `NoneAfter` and `Once`, with one lemma each for what `Append` and `Tail` do to
  them; and an action only through what it reads and sends (`Reads`, `Effect`, `NoteEffect`, `Moves`).
- **`UserNameStays`**: once a user's name came in, the title is nowhere: not the chat's name, not waiting for the
  transcript, not in a rename on its way; and nobody writes it there, as the writer has yielded and does not begin
  again (`TitlesInv`).
- **`WritersAlone`**: a session whose process takes prompts is the one its chat is registered with
  (`WritersRegistered`), so two of one chat are the same. The steps that put another session in its place are a new
  session, a deletion and the end of a rollback; `UnloadingSilent` says that a chat that waits for its session's end
  has no process that takes prompts, which is what `Racing` breaks.
- **`GoesOn`**: `KeptInv` says of each chat that its transcript is a tree, that what was kept is closed under
  parents, and that all of it leads to the turn the next one is written under (`Whole`): where its process is, or
  the leaf its next process will start at. `Writing` and `Resuming` say that a process has taken up the leaf and a
  session without one will, `GoingBack` that a rollback under way goes to a turn on that path. The ancestors of a
  turn are a recursive function, so what they are is shown by induction over the transcript: `Climbing` (a set of
  numbers that has 0 and with each number the next is all of them) follows from the least element of a set of
  numbers, which the library proves well founded, and takes no operator as a parameter. With it `UpwardUnfolds`
  shows that the function is what its definition says, `UpwardStays` that turns appended later change no path, and
  `UpwardClosed` that a path stays within what is closed under parents.
- **`SummariesAreWhole`**: a summary's lines are the first of the file its head tells (`Kept`), and what a scan has
  read so far is of the file it found (`ScanIsWhole`). Reading on is safe because that file is the one on disk, or
  was deleted with no other in its place (`ScanOfFile`): a transcript is only written anew after the refresh that
  follows its deletion has returned, and that refresh waits for the scan in flight and one more (`DeletionAwaits`).
- **`RefreshesSee`**, an action property: the step that ends a caller's wait ends a scan which began after the caller
  asked, so what it publishes shows what was written by then (`Shows`), or a file that took its place.

- **`ChatsKeepTheirRow`**: that a lineage lists its own row is kept by the steps that write one because of what the
  request took. `ListedInv` says of each request under way that the segments it took are still its chat's, but for
  the last turn of the one a switch leaves (`AsTaken`); that the thread it has made is in nobody's lineage and no
  other request's segments until it lists it (`MadeNew`, `Apart`); that its chat, when it has no lineage, is in
  nobody else's (`ChatFree`); and that a thread that is being rolled back is no one else's (`RolledAlone`), so that
  the turns other requests count are still there (`Counted`). `Overlap` breaks the first, `SharedEdits` the last.
  Each action is a change of one request (`CallsStep`) in front of a change of the threads (`Spared`) or of one
  lineage (`Framed`), which the other requests do not notice. The restart is by induction over the two loops of
  `prune()`: `ExistingInOrder` says what the filter keeps, in which order, and that the last segment is among it;
  `PrunedIsFrom` that every entry afterwards is the kept part of one lineage from before, under an id it lists.
- **`ChatsKeepApart`**: that no two chats go on in one thread is not inductive, as the start may list a chat under
  another id and go on in what is now its last segment. `OwnApart` says more: a chat's own segments, its row and
  those after it, are no other's own. Requests keep that because a new list has what its chat had, what the request
  made (`MadeNew`), and what it shares before the row. The start keeps it because of `LostAlone`: a chat whose own
  thread is gone, so that it may be listed under its oldest segment kept, shares none, and so takes nobody's place
  (`PrunedPart`, `PrunedOnce`: every entry after `prune()` is part of one lineage from before, and of a different one
  each). `ForksLive` says that a fork not yet listed is there. `Collisions` breaks the second, `LateFailures` and
  `TornCrashes` leave chats whose own thread is gone in front of a shared one.
- **`HistoryIsKept`**: every segment of a chat that has several counts, or is just being rolled back by a request
  that will say so in the lineage (`SegmentsCount`); for the second to be one segment, a lineage lists a thread once.
  A native change then is of one of three kinds, and `SegmentsStay` takes each: the thread keeps its turns or is
  cleaned up (`ThreadKept`), goes with the chat that is being deleted (`Parted`), or is cut by the rollback
  (`RolledBack`). New lineages count because of what the requests took: the segment that a switch leaves
  (`SourceCounts`), a thread that its provider deletes without asking the lineages, which is no one else's
  (`DeletedAlone`), and backends that a rollback is still to discard, which no chat goes on in meanwhile
  (`DroppedApart`). The start keeps of each lineage a part in its order, in which what counted counts. `SharedEdits`
  breaks `DeletedAlone`, `LateFailures` deletes a backend that is listed, and `TornCrashes` leaves a rollback that
  nobody will note.
- **`HistoryIsPromised`**, the refinement: every step of `Lineages` is one of `Chats`, or changes nothing that is
  seen (`StepPromises`, one lemma per action). What the module's two loops over sequences compute is brought to one
  operator, `Joined`, and `View` is the stitched history of a list of segments, given what each says: how it grows,
  is cut, parted and emptied is one lemma each (`ViewAppend`, `ViewParted`, `ViewEmptied`), all from
  `LoopExists`, an induction over the length of a loop. `ShowsInv` says what a request that is under way needs for
  its answer to be what was asked: a chat goes on in a thread that is there (`LastLive`), its own finished segments
  say all that their threads do (`Tails`), the thread a switch has made is empty and the one it leaves complete
  (`SwitchShows`), a fork's copy has the turns asked for (`ForkShows`), what a rollback cuts is what the user counted
  (`RevertShows`), and a deletion leaves only what others list (`DeleteShows`); no turn is said twice (`HeardOnce`).
  What a chat is seen as (`Seen`) is put in terms of that (`Visible`, `SeenIs`), and what a step leaves of another
  chat is that its threads are the `Same` or a segment of it is `Frozen` up to the turn it counts to (`StillAs`,
  `OtherAlike`).

Only model-checked:

- All liveness: fairness and ENABLED are out of the prover's reach.
- `KeepsPromise` over restarts: `HistoryIsPromised` is of one run (`MaxRun = 1`), the `lineages` run has two.
- `ListIsWhole`, `PagesAreHistory` and `HistoryIsShown`, which compare what two computations make of a whole list,
  file or log: sorting and flattening of sequences, recursive operators (`Pages`), folds over the transcript
  (`Items`). Each would take an induction of its own per operator.
- `ChatsTypeOK` and `TranscriptsTypeOK`, which join type invariants of modules that have no other theorem.

## Divergences

Runs that fail, each on one property; `PROJECT.json` quotes the comment or test that says otherwise:

- `find_ultra_turn`: `startTurn()` tests `this.turn`, waits for the delegation note, and opens its turn without
  testing again; a turn opened meanwhile is replaced and never gets its `turn/completed`.
- `find_prune`: `prune()` can put one chat's lineage in the place of another's whose id is its oldest segment.
- `find_takeover`: a gateway that was taken over still waits for its chats to stop when the new daemon binds the
  pathname, and then removes it (`server.ts` L413): the new daemon serves a socket nobody can reach.
- `find_list_ends`: when a page's worth of stock's rows in a row are hidden backends and no Claude chat falls
  between, the page is empty, has no cursor, and the list ends there (`gateway/catalog.ts` L179).

Others, with the constants that show them; in each case the shipped run keeps them out by the switch named:

| Where | What happens | Shown by |
| --- | --- | --- |
| `session.ts` L522 | a second `turnDone()` for a turn replaces the first one's resolver, though L520 says it "resolves with the final status once the turn completes" | `~session.unheard`, `session_live` |
| `threads.ts` L1375-1378, `session.ts` L470 | a queued message sent now while Claude waits for a usage limit's reset is lost | `history.dropped = {}`, `session_prompts` |
| `supervisor.ts` L202-217, L238 | a killed command's child writes its record over another command's, or is written over: a daemon runs unknown | `DaemonOnRecord` without `~overtaken`, `daemon` |
| `gateway/socket.ts` L71-72 | a pathname bound between the probe and the unlink is cut off | `EndpointStays`, `daemon` with `Unfenced` |
| `gateway/server.ts` L398, `cli/main.ts` L66 | a gateway that cannot listen stays behind with its stock, off the record | `ListenFails` (`stranded`), `daemon` |
| `session.ts` L540 | Stop cancels injected context that Claude has not taken; nobody tells who waits for it (L396 does, as the process ends), and its entry keeps the chat from being quiet | `InjectionsWithClaude`, `session_ends` with `Stopping` and `Injecting` |
| `session.ts` L267 | the sweep closes a process whose inbox holds a prompt not read yet | `NothingDropped` with `Sweeping` |
| `session.ts` L449 | `delegating` stays flipped when the process dies before it takes the note | `DelegatingAsTold` with `Failing` |
| `lineage.ts` L670 | a switch towards Codex that fails after `setLineage()` leaves the chat on Codex, though L578 says it stays on Claude | `StaysOnClaude`, `lineages` with `Allow = {"LateFailures"}` |
| `supervisor.ts` L346 | a recovery removes the lock of who took it after the owner it judged by had let go and exited, though the test at `tests/daemon/supervisor.test.ts` L117 has one operation at a time | `MutualExclusion`, `daemon` with `Racing` |
| `meta.ts` L102 | cleanup leaves a chat only its own thread, and `prune()` drops its lineage, though a fork lists that thread: `reindex()` hides it, and the chat is gone from the list. A rollback keeps the lineage "unless forks still list that thread" (`lineage.ts` L505) | `KeepsPromise`, `Lineages` with `Allow = {"LostRows"}`, from a chat, its fork and a fork of that which went on to Claude |
| `meta.ts` L99-100 | a fork is listed under its source's thread after its own was cleaned up; a rollback to the part it shares makes that thread current, with all turns the source had said in it before it was deleted | the same, from a fork whose source went on alone and was deleted |
| `gateway/catalog.ts` L167-168 | rows of equal times, or a switched chat's row that shows a newer time: a row is shown twice or left out at a page's end | `ListIsWhole`, `lineages` with `Odd = {"Ties"}`, `{"Moved"}` |
| `pages.ts` L217, L219 | the place of a turn read while it ran ends where it ended then; a rollback or a fork at it (`threads.ts` L1279, L1297) cuts the rest of the turn off | `AnchorsAreLast`, `transcripts` |
| `stdioFrontend.ts` L90-93, L123 | stdin that ends while the socket is being opened closes nothing, and the relay never ends | `RelayGoesOn`, `daemon` with `Hasty` |
| `session.ts`, `projector.ts` | a steer after Claude's last record, a compaction between a notification and its answer, a steer while `/compact` runs: turns or items differ from those shown | `HistoryIsShown`, `transcripts` with `Allow` |
| `threads.ts` L1314 | a turn started while a rollback waits for the process to end opens a second process on the transcript | `OneWriter`, `transcripts` with `Racing` |
| `threads.ts` L667 | a process started at a rollback's leaf that ends before its turn is written: the leaf is forgotten, and the next goes on from what was rolled back | `GoesOnFromKept`, `transcripts` with `Breaking` |

Seen in the code while it was modelled, outside of what the models tell apart:

- The result of a silent query that took injected context is taken for that of the turn just opened (`onResult`); a
  message steered in with an image still being read is pushed after Claude acted on a Stop, and runs after it
  (`steer`).
- Settings are saved before the daemon that should take them is replaced (`daemon.ts` L345), so a replacement that
  fails leaves them saved.
- A scan that fails loses what the watch told of (`native/catalog.ts` L259-266), until the next change; and a file
  written between the directory's reading and its watch gets no event.
- A name given before the first prompt is overwritten by the title (`titles.ts` L44-50), though `docs/details.md`
  L99-100 says manual names always win.
- `thread/queue/update` of an entry that was taken meanwhile writes `queued[-1]` (`threads.ts` L1362-1365).
- Two `/compact` in a row, an answer followed by more text and a tool call, a background command that ends after a
  `/compact` turn, and a folded steer with the text of an earlier one are shown differently live and from the
  transcript.

## Not modelled

- **Sessions**: what an API retry shows (that it refuses a steer is modelled), the plan list, goals (that one stops
  the turn and waits is modelled), side chats, what an item says (tool mapping, formatting, truncation).
- **Registry**: archive flags, sections, sub-agents' own threads, processes adopted from another daemon.
- **Lineages**: `pending`, the model chosen ahead of the next turn (nothing in the repository says what becomes of
  it over a rollback or another client's switch); pages stitched over segments (`Pages` covers one segment's);
  names; goals.
- **Gateway**: handlers that only read and answer; the rewriting of stock's frames; starting and stopping the stock
  process; search, the list of loaded threads, and sections' order.
- **Catalog**: search, the index of sub-agents' messages; several transcripts at once (a scan treats each by
  itself).
- **Daemon**: the saved settings, a corrupt pid file, the wait for Desktop's pipe, how the system lists sockets and
  processes.
- **Remote control and the relay**: operations run one after another on a chain of promises around one process; the
  relay forwards bytes.
- **Status skill, command line, management, MCP server, launch of Desktop**: sequential; they parse, format, and
  write files once.
- What Claude's CLI and the stock app-server do inside: they are environment, as free as the code that deals with
  them has to expect.
