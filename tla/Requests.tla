------------------------------ MODULE Requests ------------------------------
(* The gateway between its clients, its stock process and Claude's approvals *)
(* (server.ts, connection.ts, stock.ts, and the part of session.ts that      *)
(* asks): which client sees which approval, and who settles it.              *)
(*                                                                           *)
(* Frames the gateway sends in one synchronous step travel as one entry of   *)
(* the client's channel, with the set of request ids they are about.  A      *)
(* client's own behaviour is external: it shows the approvals of the chats   *)
(* it views, and resumes a chat again once its unsubscribe was answered.     *)
EXTENDS Naturals, Sequences, FiniteSets

CONSTANTS
    Clients,      \* the websockets of Desktop, the TUI, the relay
    Rooms,        \* Claude chats (threads) the clients view
    MaxAsked,     \* approvals asked in a behaviour
    MaxSent       \* messages the clients send in a behaviour

ASSUME RequestsAssumption == MaxAsked \in Nat /\ MaxSent \in Nat

VARIABLES
    ready,          \* Gateway.ready is settled: the first scan is done
    down,           \* the gateway has stopped
    closed,         \* connections that closed
    toGateway,      \* per client, what it sent and the gateway has not read
    backlog,        \* per client, what it sent before the gateway was ready
    toClient,       \* per client, what the gateway sent and it has not read
    calls,          \* per client, handlers that wait (models, catalog, stock)
    subscriptions,  \* per chat, the connections that get its notifications
    serverRequests, \* ids of the approvals nobody has settled
    asked,          \* all approvals asked, in order: chat, and over the limit
    outcome,        \* what Claude was told of each
    known,          \* chats that exist
    turn,           \* chats with a turn
    loaded,         \* chats with a Claude process
    views,          \* per client, how it stands to each chat
    dialogs,        \* per client, the approvals it shows
    sent            \* how many messages the clients sent

clientSide == <<views, dialogs, sent>>
claudeSide == <<known, turn, loaded>>
requestsVars == <<ready, down, closed, toGateway, backlog, toClient, calls,
    subscriptions, serverRequests, asked, outcome, known, turn, loaded, views, dialogs, sent>>

Ids == 1 .. Len(asked)
Of(r) == { id \in serverRequests : asked[id].room = r }
Small(ids) == { id \in ids : ~asked[id].big }
Decisions == {"accept", "decline", "cancel"}
Outcomes == {"none", "allow", "deny", "interrupt"}
Messages == [type : {"start", "resume", "unsubscribe", "interrupt", "forward"}, room : Rooms]
        \cup [type : {"answer"}, id : 1 .. MaxAsked, decision : Decisions]

\* Every frame goes out only while the connection is open.
Send(channel, c, frame) ==
    [channel EXCEPT ![c] = IF c \in closed THEN @ ELSE Append(@, frame)]

\* Requests over rpc_limit_mb are dropped; nothing is sent about none.
Asking(channel, c, ids) ==
    IF Small(ids) = {} THEN channel ELSE Send(channel, c, [type |-> "ask", ids |-> Small(ids)])

\* An answer over the limit fails instead, so each call is answered.
Respond(channel, c, call) == Send(channel, c, [type |-> "reply", call |-> call])

Emit(r, frame) ==
    [c \in Clients |-> IF c \in subscriptions[r] \ closed THEN Append(toClient[c], frame) ELSE toClient[c]]

\* A behaviour starts with the gateway, or later, with some clients viewing a chat.
RequestsInit ==
    \E viewers \in [Rooms -> SUBSET Clients] :
        /\ ready \in BOOLEAN /\ (\A r \in Rooms : viewers[r] # {} => ready)
        /\ subscriptions = viewers
        /\ known \in SUBSET Rooms /\ (\A r \in Rooms : viewers[r] # {} => r \in known)
        /\ views = [c \in Clients |-> [r \in Rooms |-> IF c \in viewers[r] THEN "viewing" ELSE "no"]]
        /\ down = FALSE /\ closed = {}
        /\ toGateway = [c \in Clients |-> <<>>] /\ backlog = [c \in Clients |-> <<>>]
        /\ toClient = [c \in Clients |-> <<>>] /\ calls = [c \in Clients |-> {}]
        /\ serverRequests = {} /\ asked = <<>> /\ outcome = <<>>
        /\ turn = {} /\ loaded = {}
        /\ dialogs = [c \in Clients |-> {}] /\ sent = 0

-----------------------------------------------------------------------------
(* Claude's side *)

TurnStarts(r) ==
    /\ ~down /\ r \in known /\ turn' = turn \cup {r} /\ loaded' = loaded \cup {r} /\ turn' # turn
    /\ UNCHANGED <<ready, down, closed, toGateway, backlog, toClient, calls,
                   subscriptions, serverRequests, asked, outcome, known, clientSide>>

TurnEnds(r) ==
    /\ r \in turn /\ turn' = turn \ {r}
    /\ UNCHANGED <<ready, down, closed, toGateway, backlog, toClient, calls,
                   subscriptions, serverRequests, asked, outcome, known, loaded, clientSide>>

\* The process ends, and its turn with it; what it asked stays asked.
ProcessEnds(r) ==
    /\ r \in loaded /\ loaded' = loaded \ {r} /\ turn' = turn \ {r}
    /\ UNCHANGED <<ready, down, closed, toGateway, backlog, toClient, calls,
                   subscriptions, serverRequests, asked, outcome, known, clientSide>>

\* Mutant: what was asked is sent and not kept for its answer.
AskOnly(r, big) ==
    /\ ~down /\ r \in loaded /\ Len(asked) < MaxAsked
    /\ asked' = Append(asked, [room |-> r, big |-> big])
    /\ serverRequests' = serverRequests \cup {Len(asked) + 1}
    /\ toClient' = IF big THEN toClient ELSE Emit(r, [type |-> "ask", ids |-> {Len(asked) + 1}])
    /\ UNCHANGED <<ready, down, closed, toGateway, backlog, calls, subscriptions, outcome, claudeSide, clientSide>>

\* A tool, a question or an MCP server needs the user (canUseTool, elicit): a
\* sub-agent's may ask while no turn runs.
ServerRequest(r, big) ==
    /\ ~down /\ r \in loaded /\ Len(asked) < MaxAsked
    /\ asked' = Append(asked, [room |-> r, big |-> big])
    /\ outcome' = Append(outcome, "none")
    /\ serverRequests' = serverRequests \cup {Len(asked) + 1}
    /\ toClient' = IF big THEN toClient ELSE Emit(r, [type |-> "ask", ids |-> {Len(asked) + 1}])
    /\ UNCHANGED <<ready, down, closed, toGateway, backlog, calls, subscriptions, claudeSide, clientSide>>

-----------------------------------------------------------------------------
(* The gateway's handlers *)

DecisionResult(decision) ==
    CASE decision = "accept" -> "allow" [] decision = "decline" -> "deny" [] OTHER -> "interrupt"

\* Mutant: an answer to a request somebody settled is taken once more.
ResolveTwice(c, m) ==
    /\ m.type = "answer"
    /\ serverRequests' = serverRequests \ {m.id}
    /\ outcome' = [outcome EXCEPT ![m.id] = DecisionResult(m.decision)]
    /\ toClient' = Emit(asked[m.id].room, [type |-> "resolved", ids |-> {m.id}])
    /\ UNCHANGED <<calls, subscriptions, turn>>

\* The first answer wins; the others are ignored.
ResolveServerRequest(c, m) ==
    /\ m.type = "answer"
    /\ IF m.id \in serverRequests
       THEN /\ serverRequests' = serverRequests \ {m.id}
            /\ outcome' = [outcome EXCEPT ![m.id] = DecisionResult(m.decision)]
            /\ toClient' = Emit(asked[m.id].room, [type |-> "resolved", ids |-> {m.id}])
       ELSE UNCHANGED <<serverRequests, outcome, toClient>>
    /\ UNCHANGED <<calls, subscriptions, turn>>

\* Mutant: what was asked before a client came is not shown to it.
SubscribeOnly(r, c) ==
    /\ subscriptions' = [subscriptions EXCEPT ![r] = @ \cup {c}]
    /\ toClient' = toClient

\* A new subscriber is shown what the chat asked before it came.
Subscribe(r, c) ==
    /\ subscriptions' = [subscriptions EXCEPT ![r] = @ \cup {c}]
    /\ toClient' = IF c \in subscriptions[r] THEN toClient ELSE Asking(toClient, c, Of(r))

\* thread/resume, turn/start: subscribed at once, answered after the reads.
Resume(c, m) ==
    /\ m.type = "resume" /\ Subscribe(m.room, c)
    /\ calls' = [calls EXCEPT ![c] = @ \cup {m}]
    /\ UNCHANGED <<serverRequests, outcome, turn>>

\* thread/start and thread/fork wait first and subscribe after; what stock
\* answers is only forwarded.
Wait(c, m) ==
    /\ m.type \in {"start", "forward"}
    /\ calls' = [calls EXCEPT ![c] = @ \cup {m}]
    /\ UNCHANGED <<toClient, subscriptions, serverRequests, outcome, turn>>

Unsubscribe(c, m) ==
    /\ m.type = "unsubscribe"
    /\ subscriptions' = [subscriptions EXCEPT ![m.room] = @ \ {c}]
    /\ toClient' = Respond(toClient, c, m)
    /\ UNCHANGED <<calls, serverRequests, outcome, turn>>

\* Mutant: Stop tells Claude, and not the clients, that nothing is asked.
CancelQuietly(r) ==
    /\ serverRequests' = serverRequests \ Of(r)
    /\ outcome' = [id \in Ids |-> IF id \in Of(r) THEN "interrupt" ELSE outcome[id]]
    /\ toClient' = toClient

CancelServerRequests(r) ==
    /\ serverRequests' = serverRequests \ Of(r)
    /\ outcome' = [id \in Ids |-> IF id \in Of(r) THEN "interrupt" ELSE outcome[id]]
    /\ toClient' = IF Of(r) = {} THEN toClient ELSE Emit(r, [type |-> "resolved", ids |-> Of(r)])

\* turn/interrupt: without a turn nothing happens, without a process the turn
\* is over, else what the chat asked is cancelled and Claude is told to stop.
Interrupt(c, m) ==
    /\ m.type = "interrupt"
    /\ IF m.room \in turn /\ m.room \in loaded
       THEN CancelServerRequests(m.room)
       ELSE UNCHANGED <<serverRequests, outcome, toClient>>
    /\ turn' = IF m.room \in loaded THEN turn ELSE turn \ {m.room}
    /\ calls' = [calls EXCEPT ![c] = @ \cup {m}]
    /\ UNCHANGED subscriptions

Dispatch(c, m) ==
    \/ ResolveServerRequest(c, m) \/ Resume(c, m) \/ Wait(c, m)
    \/ Unsubscribe(c, m) \/ Interrupt(c, m)

\* A message arrives: before the gateway is ready it waits in the backlog.
OnClientText(c) ==
    /\ ~down /\ toGateway[c] # <<>>
    /\ toGateway' = [toGateway EXCEPT ![c] = Tail(@)]
    /\ IF ready
       THEN backlog[c] = <<>> /\ Dispatch(c, Head(toGateway[c])) /\ UNCHANGED backlog
       ELSE /\ backlog' = [backlog EXCEPT ![c] = Append(@, Head(toGateway[c]))]
            /\ UNCHANGED <<calls, toClient, subscriptions, serverRequests, outcome, turn>>
    /\ UNCHANGED <<ready, down, closed, asked, known, loaded, clientSide>>

BecomeReady ==
    /\ ~ready /\ ready' = TRUE
    /\ UNCHANGED <<down, closed, toGateway, backlog, toClient, calls, subscriptions,
                   serverRequests, asked, outcome, claudeSide, clientSide>>

\* The backlog goes out in order, that of a connection that closed too.
DispatchBacklog(c) ==
    /\ ~down /\ ready /\ backlog[c] # <<>>
    /\ Dispatch(c, Head(backlog[c]))
    /\ backlog' = [backlog EXCEPT ![c] = Tail(@)]
    /\ UNCHANGED <<ready, down, closed, toGateway, asked, known, loaded, clientSide>>

\* What a handler waited for has come: the rest of it runs and it answers.
Finish(c, call) ==
    /\ ~down /\ call \in calls[c]
    /\ calls' = [calls EXCEPT ![c] = @ \ {call}]
    /\ subscriptions' = IF call.type = "start"
                        THEN [subscriptions EXCEPT ![call.room] = @ \cup {c}] ELSE subscriptions
    /\ known' = IF call.type = "start" THEN known \cup {call.room} ELSE known
    /\ toClient' = Respond(IF call.type = "start" /\ c \notin subscriptions[call.room]
                           THEN Asking(toClient, c, Of(call.room)) ELSE toClient, c, call)
    /\ UNCHANGED <<ready, down, closed, toGateway, backlog, serverRequests, asked,
                   outcome, turn, loaded, clientSide>>

Detach(c) == subscriptions' = [r \in Rooms |-> subscriptions[r] \ {c}]

\* The client or its stock connection closes, and takes the other along.
CloseConnection(c) ==
    /\ c \notin closed /\ closed' = closed \cup {c}
    /\ Detach(c)
    /\ toGateway' = [toGateway EXCEPT ![c] = <<>>]
    /\ toClient' = [toClient EXCEPT ![c] = <<>>]
    /\ calls' = [calls EXCEPT ![c] = { call \in @ : call.type # "forward" }]
    /\ dialogs' = [dialogs EXCEPT ![c] = {}]
    /\ UNCHANGED <<ready, down, backlog, serverRequests, asked, outcome, claudeSide, views, sent>>

\* The daemon ends or the stock process does: clients are closed, approvals
\* rejected, Claude's processes unloaded.
StopGateway ==
    /\ ~down /\ down' = TRUE /\ closed' = Clients
    /\ outcome' = [id \in Ids |-> IF id \in serverRequests THEN "interrupt" ELSE outcome[id]]
    /\ subscriptions' = [r \in Rooms |-> {}]
    /\ loaded' = {} /\ turn' = {}
    /\ toGateway' = [c \in Clients |-> <<>>] /\ toClient' = [c \in Clients |-> <<>>]
    /\ calls' = [c \in Clients |-> {}] /\ dialogs' = [c \in Clients |-> {}]
    /\ UNCHANGED <<ready, backlog, serverRequests, asked, known, views, sent>>

-----------------------------------------------------------------------------
(* The clients *)

Post(c, m) ==
    /\ c \notin closed /\ sent < MaxSent /\ sent' = sent + 1
    /\ toGateway' = [toGateway EXCEPT ![c] = Append(@, m)]
    /\ UNCHANGED <<ready, down, closed, backlog, toClient, calls, subscriptions,
                   serverRequests, asked, outcome, claudeSide>>

OpenRoom(c, r) ==
    /\ r \in known /\ views[c][r] = "no"
    /\ views' = [views EXCEPT ![c][r] = "viewing"]
    /\ Post(c, [type |-> "resume", room |-> r]) /\ UNCHANGED dialogs

\* The client learns the new chat's id from the answer.
NewRoom(c, r) ==
    /\ r \notin known /\ \A d \in Clients : views[d][r] = "no"
    /\ views' = [views EXCEPT ![c][r] = "opening"]
    /\ Post(c, [type |-> "start", room |-> r]) /\ UNCHANGED dialogs

LeaveRoom(c, r) ==
    /\ views[c][r] = "viewing" /\ views' = [views EXCEPT ![c][r] = "leaving"]
    /\ dialogs' = [dialogs EXCEPT ![c] = { id \in @ : asked[id].room # r }]
    /\ Post(c, [type |-> "unsubscribe", room |-> r])

StopTurn(c, r) ==
    /\ views[c][r] = "viewing" /\ Post(c, [type |-> "interrupt", room |-> r])
    /\ UNCHANGED <<views, dialogs>>

\* What is not CCodex's own goes to stock (here only from a client without chats).
AskStock(c, r) ==
    /\ views[c] = [s \in Rooms |-> "no"]
    /\ Post(c, [type |-> "forward", room |-> r]) /\ UNCHANGED <<views, dialogs>>

AnswerDialog(c, id, decision) ==
    /\ id \in dialogs[c] /\ dialogs' = [dialogs EXCEPT ![c] = @ \ {id}]
    /\ Post(c, [type |-> "answer", id |-> id, decision |-> decision])
    /\ UNCHANGED views

ReadFrame(c) ==
    /\ toClient[c] # <<>>
    /\ LET f == Head(toClient[c]) IN
       /\ dialogs' = [dialogs EXCEPT ![c] =
            CASE f.type = "ask" -> @ \cup { id \in f.ids : views[c][asked[id].room] = "viewing" }
              [] f.type = "resolved" -> @ \ f.ids
              [] OTHER -> @]
       /\ views' = IF f.type = "reply" /\ f.call.type \in {"unsubscribe", "start"}
                   THEN [views EXCEPT ![c][f.call.room] =
                            IF f.call.type = "start" THEN "viewing" ELSE "no"]
                   ELSE views
    /\ toClient' = [toClient EXCEPT ![c] = Tail(@)]
    /\ UNCHANGED <<ready, down, closed, toGateway, backlog, calls, subscriptions,
                   serverRequests, asked, outcome, claudeSide, sent>>

GatewayStep(c) ==
    \/ OnClientText(c) \/ DispatchBacklog(c) \/ \E call \in calls[c] : Finish(c, call)

ClientStep(c) ==
    \/ \E r \in Rooms : OpenRoom(c, r) \/ NewRoom(c, r) \/ LeaveRoom(c, r) \/ StopTurn(c, r) \/ AskStock(c, r)
    \/ \E id \in dialogs[c], decision \in Decisions : AnswerDialog(c, id, decision)

RequestsTypeOK ==
    /\ ready \in BOOLEAN /\ down \in BOOLEAN /\ closed \subseteq Clients
    /\ toGateway \in [Clients -> Seq(Messages)] /\ backlog \in [Clients -> Seq(Messages)]
    /\ toClient \in [Clients -> Seq([type : {"ask", "resolved"}, ids : SUBSET (1 .. MaxAsked)]
                                    \cup [type : {"reply"}, call : Messages])]
    /\ calls \in [Clients -> SUBSET Messages]
    /\ subscriptions \in [Rooms -> SUBSET Clients]
    /\ asked \in Seq([room : Rooms, big : BOOLEAN]) /\ serverRequests \subseteq Ids
    /\ outcome \in [Ids -> Outcomes] /\ known \subseteq Rooms /\ turn \subseteq Rooms /\ loaded \subseteq Rooms
    /\ views \in [Clients -> [Rooms -> {"no", "opening", "viewing", "leaving"}]]
    /\ dialogs \in [Clients -> SUBSET Ids] /\ sent \in 0 .. MaxSent

\* What client c will show of chat r once it has read what is on its way.
WillShow(c, r) ==
    LET Said(type, id) == \E i \in DOMAIN toClient[c] :
            toClient[c][i].type = type /\ id \in toClient[c][i].ids
    IN { id \in Ids : /\ asked[id].room = r /\ ~Said("resolved", id)
                      /\ id \in dialogs[c] \/ Said("ask", id) }

\* The approvals a client on its way to show are those that are still to be
\* settled, whoever came late, left, answered or stopped the turn meanwhile; a
\* dialog the client has just answered itself is the one it lacks.
ClientsSeeWhatIsAsked ==
    \A c \in Clients \ closed, r \in Rooms :
        c \in subscriptions[r] /\ views[c][r] = "viewing" =>
            /\ WillShow(c, r) \subseteq Of(r)
            /\ \A id \in Small(Of(r)) \ WillShow(c, r) :
                  \E i \in DOMAIN toGateway[c] :
                      toGateway[c][i].type = "answer" /\ toGateway[c][i].id = id

\* Claude is told once: what an approval came to never changes, though other
\* answers, a Stop and the gateway's own end race the first one.
OneDecision ==
    [][\A id \in Ids : outcome[id] # "none" => outcome'[id] = outcome[id]]_requestsVars

\* A dialog whose approval is settled goes away, at every client.
DialogsGoAway ==
    \A id \in 1 .. MaxAsked, c \in Clients :
        (id \in Ids \ serverRequests /\ id \in dialogs[c]) ~> (id \notin dialogs[c])

RequestsFairness ==
    \A c \in Clients : WF_requestsVars(ReadFrame(c) \/ GatewayStep(c))

RequestsNext ==
    \/ BecomeReady \/ StopGateway
    \/ \E c \in Clients : GatewayStep(c) \/ CloseConnection(c) \/ ReadFrame(c) \/ ClientStep(c)
    \/ \E r \in Rooms : TurnStarts(r) \/ TurnEnds(r) \/ ProcessEnds(r)
                        \/ \E big \in BOOLEAN : ServerRequest(r, big)

RequestsSpec == RequestsInit /\ [][RequestsNext]_requestsVars /\ RequestsFairness

=============================================================================
