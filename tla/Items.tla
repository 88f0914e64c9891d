-------------------------------- MODULE Items --------------------------------
(* The turns and items of a Claude chat twice: as the session shows them      *)
(* while Claude streams (session.ts), and as the projector makes them of the  *)
(* transcript afterwards (projector.ts).  Clients join both by their ids.     *)
(*                                                                            *)
(* Claude is external: it writes a record as a block is complete, and what it *)
(* streams is handled as it comes.  Idle, it takes at once what it is sent;   *)
(* at work, it queues it, and folds it into its turn between two requests or  *)
(* takes it after the result.  A message's text comes before its tool calls.  *)
(* An item is its id and, of a tool call, whether it is over; reasoning has   *)
(* as many parts as thinking blocks.                                          *)
EXTENDS Naturals, Sequences, FiniteSets, SequencesExt

CONSTANTS
    MaxPrompts,  \* prompts and steers
    MaxBlocks,   \* blocks Claude writes
    Allow        \* what may happen besides

\* A steer may come between Claude's last record and its result; a compaction
\* between a notification taken right after a result and the answer to it; a
\* steer while a /compact runs.
ASSUME ItemsAssumption ==
    /\ MaxPrompts \in Nat /\ MaxBlocks \in Nat
    /\ Allow \subseteq {"LateSteers", "LateCompactions", "SteeredCompactions"}

VARIABLES
    log,       \* the transcript
    model,     \* Claude: its phase, queue, message, calls and background commands
    shown,     \* the turns as clients saw them
    chat       \* the rest of the session's state

itemsVars == <<log, model, shown, chat>>

\* Ids: of prompts, blocks (and the calls and tasks they start), the turns gone
\* on in after a block, compactions, notifications of a task.
PromptId(n) == <<"prompt", n, 0>>
Continuation(block) == <<"continued", block[2], block[3]>>
NoBlock == <<"none", 0, 0>>
Blocks == {"text", "answer", "thinking", "tool", "stop"}

Item(id) == [id |-> id, is |-> "done"]
Compactions(items) == Cardinality({ k \in DOMAIN items : items[k].id[1] = "compaction" })
CompactionItem(turnId, items) == Item(<<"compaction", turnId, Compactions(items)>>)

\* A response's thinking blocks are parts of one item, where the first was.
Reasoning(m, i) == [id |-> <<"reasoning", m, i>>, is |-> "done", parts |-> 1]
WithThinking(items, m, i) ==
    LET of == { k \in DOMAIN items : items[k].id[1] = "reasoning" /\ items[k].id[2] = m }
    IN IF of = {} THEN Append(items, Reasoning(m, i))
       ELSE LET k == CHOOSE k \in of : TRUE IN [items EXCEPT ![k].parts = @ + 1]

-----------------------------------------------------------------------------
(* projector.ts *)

\* Prompts Claude took while a turn was running: what was still queued as Claude
\* or a user (not a finished task) spoke has waited.
\* Mutant: everything that was queued has.
QueuedAtAll(entries) == [k \in DOMAIN entries |-> [entries[k] EXCEPT !.waited = TRUE]]
Queued(entries) == entries

SteeredStep(acc, r) ==
    CASE r.type = "enqueue" -> [acc EXCEPT !.queue = Queued(Append(@, [id |-> r.id, waited |-> FALSE]))]
      [] r.type = "dequeue" ->
            [acc EXCEPT !.queue = Tail(@), !.taken = IF Head(acc.queue).waited THEN @ \cup {Head(acc.queue).id} ELSE @]
      [] r.type = "user" /\ r.id \in acc.taken ->
            [acc EXCEPT !.taken = @ \ {r.id}, !.steered = IF r.id[1] = "prompt" THEN @ \cup {r.id} ELSE @]
      [] r.type \in {"block", "result", "summary"} \/ (r.type = "user" /\ r.id \notin acc.taken /\ r.id[1] = "prompt") ->
            [acc EXCEPT !.queue = [k \in DOMAIN @ |-> [@[k] EXCEPT !.waited = TRUE]]]
      [] OTHER -> acc
SteeredPrompts == FoldLeft(SteeredStep, [queue |-> <<>>, taken |-> {}, steered |-> {}], log).steered

\* turnStarts: prompts start turns; more work after an answer, and what a
\* notification brings after a block, goes on in turns named after the block.
GoOn(acc, k) == [acc EXCEPT !.starts = Append(@, [at |-> k, id |-> Continuation(acc.last), prompt |-> FALSE]), !.last = NoBlock]

TurnStarts(steered) ==
    LET Step(acc, k) ==
            LET r == log[k] IN
            CASE r.type = "block" /\ acc.starts # <<>> ->
                    [(IF acc.answer THEN GoOn(acc, k) ELSE acc) EXCEPT !.last = r.id, !.answer = (r.kind = "answer")]
              [] r.type = "user" /\ r.id[1] = "prompt" /\ r.id \notin steered ->
                    [starts |-> Append(acc.starts, [at |-> k, id |-> r.id, prompt |-> TRUE]), last |-> NoBlock, answer |-> FALSE]
              [] r.type = "user" /\ r.id[1] = "note" /\ acc.last # NoBlock -> [GoOn(acc, k) EXCEPT !.answer = FALSE]
              [] OTHER -> acc
    IN FoldLeft(Step, [starts |-> <<>>, last |-> NoBlock, answer |-> FALSE], [k \in DOMAIN log |-> k]).starts

\* toolCompletions, backgroundEnds, projectTool: a call as its result left it; a
\* background command as its notification or a stop of it tells.
ResultOf(id) == CHOOSE r \in { log[k] : k \in DOMAIN log } : r.type = "result" /\ r.id = id
HasResult(id) == \E k \in DOMAIN log : log[k].type = "result" /\ log[k].id = id
HasEnd(task) ==
    \E k \in DOMAIN log : \/ log[k].type = "enqueue" /\ log[k].id = <<"note", task[2], task[3]>>
                          \/ log[k].type = "result" /\ log[k].is = "stopped" /\ log[k].stops = task
ProjectTool(id) ==
    [id |-> id, is |-> CASE ~HasResult(id) -> "inProgress"
                         [] HasResult(id) /\ ResultOf(id).is = "background" -> IF HasEnd(id) THEN "ended" ELSE "failed"
                         [] OTHER -> ResultOf(id).is]

ProjectRecord(items, r, turnId, steered) ==
    CASE r.type = "block" /\ r.kind \in {"text", "answer"} -> Append(items, Item(r.id))
      [] r.type = "block" /\ r.kind = "thinking" -> WithThinking(items, r.id[2], r.id[3])
      [] r.type = "block" /\ (r.kind = "tool" \/ (r.kind = "stop" /\ ResultOf(r.id).is # "stopped")) ->
            Append(items, ProjectTool(r.id))
      [] r.type = "attachment" /\ r.id[1] = "prompt" -> Append(items, Item(r.id))
      [] r.type = "user" /\ r.id \in steered -> Append(items, Item(r.id))
      [] r.type = "boundary" -> Append(items, CompactionItem(turnId, items))
      [] OTHER -> items

\* A /compact's boundary stands before its prompt: the turn with nothing else
\* in it takes it from the one before.
\* Mutant: it is left there.
LeaveCompactions(turns) == turns
MoveCompactions(turns) ==
    LET Takes(k) == k > 1 /\ turns[k].items = <<>> /\ turns[k - 1].items # <<>> /\ Last(turns[k - 1].items).id[1] = "compaction"
    IN [k \in DOMAIN turns |->
          [turns[k] EXCEPT !.items =
              IF Takes(k) THEN <<CompactionItem(turns[k].id, <<>>)>>
              ELSE IF k < Len(turns) /\ Takes(k + 1) THEN Front(@) ELSE @]]

ProjectTurns ==
    LET steered == SteeredPrompts
        starts == TurnStarts(steered)
        End(j) == IF j = Len(starts) THEN Len(log) ELSE starts[j + 1].at - 1
        First(j) == IF starts[j].prompt /\ ~log[starts[j].at].hidden THEN <<Item(starts[j].id)>> ELSE <<>>
        Items(j) == FoldLeft(LAMBDA items, r : ProjectRecord(items, r, starts[j].id, steered), First(j),
                             SubSeq(log, IF starts[j].prompt THEN starts[j].at + 1 ELSE starts[j].at, End(j)))
    IN MoveCompactions([j \in DOMAIN starts |-> [id |-> starts[j].id, items |-> Items(j)]])

-----------------------------------------------------------------------------
(* session.ts: v is the view, its turns and the rest of its state *)

View == [turns |-> shown, chat |-> chat]
Become(v) == shown' = v.turns /\ chat' = v.chat

OpenTurn(v, id, hidden) ==
    [turns |-> Append(v.turns, [id |-> id, items |-> IF hidden THEN <<>> ELSE <<Item(id)>>]),
     chat |-> [v.chat EXCEPT !.open = TRUE, !.afterResult = FALSE, !.notified = FALSE, !.last = NoBlock, !.answer = FALSE]]
CompleteTurn(v) == [v EXCEPT !.chat.open = FALSE]
ContinueTurn(v) == OpenTurn(CompleteTurn(v), Continuation(v.chat.last), TRUE)
EnsureTurn(v) == IF v.chat.open THEN v ELSE OpenTurn(v, Continuation(v.chat.last), TRUE)
Show(v, item) == [v EXCEPT !.turns[Len(v.turns)].items = Append(@, item)]
Current(v) == v.turns[Len(v.turns)]

\* continued: the first frame after a result; the transcript tells what was taken.
Continued(v, prompt) ==
    LET seen == [v EXCEPT !.chat.afterResult = FALSE] IN
    IF v.chat.afterResult /\ prompt[1] = "note" /\ v.chat.last # NoBlock THEN ContinueTurn(seen) ELSE seen

\* Mutant: a turn ends at an answer only as the next request starts.
SplitNever(v) == v
\* More work after an answer: it ends its turn.
SplitAfterAnswer(v) == IF v.chat.answer THEN ContinueTurn(v) ELSE v

\* blockStart and what shows of the block.
OnBlock(v, m, i, kind) ==
    LET split == SplitAfterAnswer(v)
        told == [split EXCEPT !.chat.last = <<"block", m, i>>, !.chat.answer = (kind = "answer")]
    IN CASE kind \in {"text", "answer"} -> Show(told, Item(<<"block", m, i>>))
         [] kind = "thinking" -> [told EXCEPT !.turns[Len(told.turns)].items = WithThinking(@, m, i)]
         [] kind = "tool" -> Show(told, [id |-> <<"block", m, i>>, is |-> "inProgress"])
         [] kind = "stop" -> told

\* itemCompleted: in the current turn, where it stands or as another item.
Completed(v, item) ==
    LET at == { k \in DOMAIN Current(v).items : Current(v).items[k].id = item.id } IN
    IF at = {} THEN Show(v, item)
    ELSE [v EXCEPT !.turns[Len(v.turns)].items[CHOOSE k \in at : TRUE] = item]

\* endBackground: in the turn it started in.
EndBackground(v, task) ==
    [v EXCEPT !.chat.background = { b \in @ : b.task # task },
              !.turns = [k \in DOMAIN @ |->
                  IF [task |-> task, turn |-> k] \in v.chat.background
                  THEN [@[k] EXCEPT !.items = [j \in DOMAIN @ |-> IF @[j].id = task THEN [@[j] EXCEPT !.is = "ended"] ELSE @[j]]]
                  ELSE @[k]]]

\* onUser: a command goes on in the background, a stop is shown on what it
\* stops or, it stops nothing, as a call; any other call is over.
OnToolResult(v, r) ==
    CASE r.is = "background" -> [v EXCEPT !.chat.background = @ \cup {[task |-> r.id, turn |-> Len(v.turns)]}]
      [] r.is = "stopped" -> EndBackground(v, r.stops)
      [] OTHER -> Completed(v, [id |-> r.id, is |-> r.is])

OnResult(v) == [v EXCEPT !.chat.afterResult = TRUE]
OnTaskEnded(v, task) == EndBackground([v EXCEPT !.chat.notified = @ \/ ~v.chat.open], task)

\* onCommand: a prompt Claude takes joins the running turn, or opens one.
OnTaken(v, id) ==
    CASE id[1] = "note" -> IF ~v.chat.open /\ v.chat.notified THEN EnsureTurn(v) ELSE v
      [] id[1] = "prompt" /\ id \in v.chat.pending -> Show([v EXCEPT !.chat.pending = @ \ {id}], Item(id))
      [] OTHER -> v

-----------------------------------------------------------------------------
(* Claude, and the clients *)

Entry(type, id) == [type |-> type, id |-> id]
UserRecord(id, hidden) == [type |-> "user", id |-> id, hidden |-> hidden]
Note(task) == <<"note", task[2], task[3]>>
LastPrompt == Last(SelectSeq(log, LAMBDA r : r.type = "user")).id
Sent == Cardinality({ k \in DOMAIN log : log[k].type = "enqueue" /\ log[k].id[1] = "prompt" })
Written == Cardinality({ k \in DOMAIN log : log[k].type = "block" })
Waited(id) == LET k == CHOOSE k \in DOMAIN log : log[k].type = "enqueue" /\ log[k].id = id
              IN \E j \in k + 1 .. Len(log) : log[j].type \in {"block", "result"}

ItemsInit ==
    /\ log = <<>> /\ shown = <<>>
    /\ model = [phase |-> "idle", queue |-> <<>>, m |-> 0, i |-> 0, calls |-> {}, tasks |-> {}, tools |-> FALSE]
    /\ chat = [open |-> FALSE, pending |-> {}, last |-> NoBlock, answer |-> FALSE, afterResult |-> FALSE,
               notified |-> FALSE, background |-> {}]

\* turn/start: Claude, idle, takes it at once.
Ask(id) ==
    /\ Sent < MaxPrompts /\ id = PromptId(Sent + 1) /\ model.phase = "idle"
    /\ log' = log \o <<Entry("enqueue", id), Entry("dequeue", id), UserRecord(id, FALSE)>>
    /\ model' = [model EXCEPT !.phase = "busy"]
    /\ Become(OnTaken(OpenTurn(View, id, FALSE), id))

\* turn/start of a /compact: the boundary is written before the command, and no
\* request follows.  (Bound: no command runs in the background, and something
\* was said since the last one.)
AskCompact(id) ==
    /\ Sent < MaxPrompts /\ id = PromptId(Sent + 1) /\ model.phase = "idle" /\ log # <<>> /\ model.tasks = {}
    /\ log[Len(log)].type = "block"
    /\ log' = log \o <<Entry("enqueue", id), Entry("dequeue", id)>>
    /\ model' = [model EXCEPT !.phase = "compacting"]
    /\ Become(OpenTurn(View, id, TRUE))

Compacted ==
    /\ model.phase = "compacting"
    /\ LET id == Last(SelectSeq(log, LAMBDA r : r.type = "enqueue" /\ r.id \notin chat.pending)).id IN
       log' = log \o <<Entry("boundary", id), Entry("summary", id), UserRecord(id, TRUE)>>
    /\ model' = [model EXCEPT !.phase = "after"]
    /\ Become(OnResult(Show(View, CompactionItem(Current(View).id, Current(View).items))))

\* turn/steer: while the turn runs Claude queues it.
Steer(id) ==
    /\ Sent < MaxPrompts /\ id = PromptId(Sent + 1) /\ chat.open
    /\ \/ model.phase \in {"busy", "message"}
       \/ "LateSteers" \in Allow /\ model.phase = "after"
       \/ "SteeredCompactions" \in Allow /\ model.phase = "compacting"
    /\ log' = Append(log, Entry("enqueue", id))
    /\ model' = [model EXCEPT !.queue = Append(@, id)]
    /\ chat' = [chat EXCEPT !.pending = @ \cup {id}] /\ UNCHANGED shown

\* Claude's next request: its answer starts.
StartMessage ==
    /\ model.phase = "busy" /\ model.calls = {} /\ Written < MaxBlocks
    /\ model' = [model EXCEPT !.phase = "message", !.m = @ + 1, !.i = 0, !.tools = FALSE]
    /\ Become(EnsureTurn(Continued(View, LastPrompt))) /\ UNCHANGED log

Block(kind) ==
    /\ model.phase = "message" /\ Written < MaxBlocks
    /\ kind \in {"text", "answer", "thinking"} => ~model.tools
    /\ kind = "stop" => model.tasks # {} /\ ~model.tools
    /\ LET id == <<"block", model.m, model.i>> IN
       /\ log' = Append(log, [type |-> "block", id |-> id, kind |-> kind])
       /\ model' = [model EXCEPT !.i = @ + 1, !.tools = @ \/ kind \in {"tool", "stop"},
                                 !.calls = IF kind \in {"tool", "stop"} THEN @ \cup {[id |-> id, kind |-> kind]} ELSE @]
    /\ Become(OnBlock(View, model.m, model.i, kind))

StopMessage ==
    /\ model.phase = "message" /\ model.i > 0
    /\ model' = [model EXCEPT !.phase = "busy"] /\ UNCHANGED <<log, shown, chat>>

\* A call returns, or goes on in the background (one at a time); a stop has
\* stopped a command, or fails as it finds none.
ToolReturns(call, is, task) ==
    /\ model.phase = "busy" /\ call \in model.calls
    /\ IF call.kind = "tool" THEN (is = "completed" \/ (is = "background" /\ model.tasks = {})) /\ task = NoBlock
       ELSE \/ is = "stopped" /\ task \in model.tasks
            \/ is = "failed" /\ model.tasks = {} /\ task = NoBlock
    /\ LET r == [type |-> "result", id |-> call.id, is |-> is, stops |-> task] IN
       log' = Append(log, r) /\ Become(OnToolResult(View, r))
    /\ model' = [model EXCEPT !.calls = @ \ {call},
                              !.tasks = IF is = "background" THEN @ \cup {call.id} ELSE @ \ {task}]

\* Between two requests Claude folds what is queued into its turn.
Fold ==
    /\ model.phase = "busy" /\ model.tools /\ model.calls = {} /\ model.queue # <<>>
    /\ log' = log \o <<Entry("dequeue", Head(model.queue)), Entry("attachment", Head(model.queue))>>
    /\ model' = [model EXCEPT !.queue = Tail(@)]
    /\ Become(IF Head(model.queue)[1] = "prompt" THEN OnTaken(View, Head(model.queue)) ELSE View)

\* Claude compacts before its next request.  (Bound: once.)
AutoCompact ==
    /\ model.phase = "busy" /\ model.calls = {} /\ model.m > 0 /\ Written < MaxBlocks
    /\ \A k \in DOMAIN log : log[k].type = "boundary" => log[k].id # NoBlock
    /\ "LateCompactions" \in Allow \/ ~(chat.afterResult /\ LastPrompt[1] = "note")
    /\ log' = log \o <<Entry("boundary", NoBlock), Entry("summary", NoBlock)>>
    /\ Become(Show(View, CompactionItem(Current(View).id, Current(View).items))) /\ UNCHANGED model

Result ==
    /\ model.phase = "busy" /\ model.calls = {} /\ ~model.tools /\ model.i > 0
    /\ log[Len(log)].type \in {"block", "enqueue"}
    /\ "LateSteers" \in Allow \/ \A k \in DOMAIN model.queue : model.queue[k][1] = "prompt" => Waited(model.queue[k])
    /\ model' = [model EXCEPT !.phase = "after"] /\ Become(OnResult(View)) /\ UNCHANGED log

TakeNext ==
    /\ model.phase = "after" /\ model.queue # <<>>
    /\ LET id == Head(model.queue) IN
       log' = log \o <<Entry("dequeue", id), UserRecord(id, FALSE)>> /\ Become(OnTaken(View, id))
    /\ model' = [model EXCEPT !.phase = "busy", !.queue = Tail(@), !.i = 0, !.tools = FALSE]

GoIdle ==
    /\ model.phase = "after" /\ model.queue = <<>>
    /\ model' = [model EXCEPT !.phase = "idle"] /\ Become(CompleteTurn(View)) /\ UNCHANGED log

\* A background command ends: idle, Claude takes the notification at once.
TaskEnds(task) ==
    /\ task \in model.tasks /\ model.phase # "compacting"
    /\ LET idle == model.phase = "idle" IN
       /\ log' = log \o (<<Entry("enqueue", Note(task))>>
                         \o IF idle THEN <<Entry("dequeue", Note(task)), UserRecord(Note(task), FALSE)>> ELSE <<>>)
       /\ model' = [model EXCEPT !.tasks = @ \ {task}, !.phase = IF idle THEN "busy" ELSE @,
                                 !.queue = IF idle THEN @ ELSE Append(@, Note(task)),
                                 !.i = IF idle THEN 0 ELSE @, !.tools = IF idle THEN FALSE ELSE @]
       /\ Become(IF idle THEN OnTaken(OnTaskEnded(View, task), Note(task)) ELSE OnTaskEnded(View, task))

ItemsNext ==
    \/ \E n \in 1 .. MaxPrompts : Ask(PromptId(n)) \/ AskCompact(PromptId(n)) \/ Steer(PromptId(n))
    \/ Compacted \/ StartMessage \/ StopMessage \/ Fold \/ AutoCompact \/ Result \/ TakeNext \/ GoIdle
    \/ \E kind \in Blocks : Block(kind)
    \/ \E call \in model.calls, is \in {"completed", "failed", "background", "stopped"}, task \in model.tasks \cup {NoBlock} :
          ToolReturns(call, is, task)
    \/ \E task \in model.tasks : TaskEnds(task)

ItemsTypeOK ==
    /\ model.phase \in {"idle", "busy", "message", "after", "compacting"}
    /\ model.tasks = { b.task : b \in chat.background }
    /\ \A b \in chat.background : b.turn \in DOMAIN shown
    /\ chat.open => shown # <<>>

-----------------------------------------------------------------------------
Settled == model.phase = "idle" /\ model.tasks = {}

\* What a client sees of a chat as it reads it again is what it was shown: the
\* same turns and items under the same ids, each call ended as it did, though
\* prompts joined turns, answers and notifications split them, commands ended
\* turns later and compactions came between.
HistoryIsShown == Settled => ProjectTurns = shown

=============================================================================
