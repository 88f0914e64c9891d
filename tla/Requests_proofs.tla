--------------------------- MODULE Requests_proofs ---------------------------
(* An approval is decided once, and who views a chat sees what it asks, for  *)
(* any number of clients, chats, approvals and messages.                     *)
EXTENDS Requests, SequenceTheorems, TLAPS

\* Each approval asked has an outcome; the pending ones have none yet, until
\* the gateway's end rejects them.
RequestsInv ==
    /\ Len(asked) \in Nat /\ asked \in Seq([room : Rooms, big : BOOLEAN])
    /\ outcome \in [Ids -> Outcomes] /\ serverRequests \subseteq Ids
    /\ ~down => \A id \in serverRequests : outcome[id] = "none"

\* What a step may do to the outcomes: the pending ones are settled.
Settles == \A id \in Ids : outcome[id] # "none" => outcome'[id] = outcome[id]

LEMMA RequestsStart == RequestsInit => RequestsInv
BY DEF RequestsInit, RequestsInv, Ids, Outcomes

LEMMA DecisionsSettle == ASSUME NEW d PROVE DecisionResult(d) \in Outcomes
BY DEF DecisionResult, Outcomes

\* An approval that is asked is one more, and pending.
LEMMA AskKeeps ==
  ASSUME RequestsInv, NEW r \in Rooms, NEW big \in BOOLEAN, ServerRequest(r, big)
  PROVE RequestsInv' /\ Settles
<1> DEFINE new == Len(asked) + 1
<1>1. /\ asked' = Append(asked, [room |-> r, big |-> big]) /\ outcome' = Append(outcome, "none")
      /\ serverRequests' = serverRequests \cup {new} /\ ~down /\ down' = down
  BY DEF ServerRequest
<1>2. asked' \in Seq([room : Rooms, big : BOOLEAN]) /\ Len(asked') = new /\ Len(asked') \in Nat
  BY <1>1 DEF RequestsInv
<1>3. outcome \in Seq(Outcomes) /\ Len(outcome) = Len(asked)
  BY DEF RequestsInv, Ids
<1>4. outcome' \in Seq(Outcomes) /\ Len(outcome') = new /\ outcome'[new] = "none"
      /\ \A id \in 1 .. Len(asked) : outcome'[id] = outcome[id]
  BY <1>1, <1>3 DEF Outcomes
<1>5. outcome' \in [Ids' -> Outcomes]
  BY <1>2, <1>4 DEF Ids
<1>6. serverRequests \subseteq 1 .. Len(asked) /\ Len(asked) \in Nat /\ \A id \in serverRequests : outcome[id] = "none"
  BY <1>1 DEF RequestsInv, Ids
<1>7. serverRequests' \subseteq Ids'
  <2>1. Ids' = 1 .. new /\ serverRequests' = serverRequests \cup {new}
    BY <1>1, <1>2 DEF Ids
  <2>2. ASSUME NEW id \in serverRequests \cup {new} PROVE id \in 1 .. new
    BY <1>6
  <2> QED  BY <2>1, <2>2
<1>8. \A id \in serverRequests' : outcome'[id] = "none"
  BY <1>1, <1>4, <1>6
<1> QED  BY <1>2, <1>4, <1>5, <1>7, <1>8 DEF RequestsInv, Settles, Ids

\* A message settles what it answers or cancels, if that is still pending.
LEMMA DispatchKeeps ==
  ASSUME RequestsInv, ~down, NEW c, NEW m, Dispatch(c, m), UNCHANGED <<down, asked>>
  PROVE RequestsInv' /\ Settles
<1>1. ASSUME ResolveServerRequest(c, m) PROVE RequestsInv' /\ Settles
  <2>1. CASE m.id \in serverRequests
    <3>1. /\ serverRequests' = serverRequests \ {m.id} /\ DecisionResult(m.decision) \in Outcomes
          /\ outcome' = [outcome EXCEPT ![m.id] = DecisionResult(m.decision)] /\ outcome[m.id] = "none"
      BY <1>1, <2>1, DecisionsSettle DEF ResolveServerRequest, RequestsInv
    <3>2. RequestsInv'
      BY <3>1 DEF RequestsInv, Ids
    <3> QED  BY <3>1, <3>2 DEF RequestsInv, Settles
  <2>2. CASE m.id \notin serverRequests
    BY <1>1, <2>2 DEF ResolveServerRequest, RequestsInv, Ids, Settles
  <2> QED  BY <2>1, <2>2
<1>2. ASSUME UNCHANGED <<serverRequests, outcome>> PROVE RequestsInv' /\ Settles
  BY <1>2 DEF RequestsInv, Ids, Settles
<1>3. ASSUME NEW r, CancelServerRequests(r) PROVE RequestsInv' /\ Settles
  BY <1>3 DEF CancelServerRequests, Of, RequestsInv, Ids, Settles, Outcomes
<1> QED  BY <1>1, <1>2, <1>3 DEF Dispatch, Resume, Wait, Unsubscribe, Interrupt

LEMMA StopKeeps == ASSUME RequestsInv, StopGateway PROVE RequestsInv' /\ Settles
BY DEF StopGateway, RequestsInv, Ids, Settles, Outcomes

LEMMA GatewayKeeps ==
  ASSUME RequestsInv, NEW c \in Clients, GatewayStep(c) PROVE RequestsInv' /\ Settles
<1>1. ASSUME UNCHANGED <<serverRequests, outcome, asked, down>> PROVE RequestsInv' /\ Settles
  BY <1>1 DEF RequestsInv, Ids, Settles
<1>2. ASSUME OnClientText(c) PROVE RequestsInv' /\ Settles
  <2>1. CASE ready
    BY <1>2, <2>1, DispatchKeeps DEF OnClientText
  <2>2. CASE ~ready
    BY <1>1, <1>2, <2>2 DEF OnClientText
  <2> QED  BY <2>1, <2>2
<1>3. ASSUME DispatchBacklog(c) PROVE RequestsInv' /\ Settles
  BY <1>3, DispatchKeeps DEF DispatchBacklog
<1>4. ASSUME NEW call, Finish(c, call) PROVE RequestsInv' /\ Settles
  BY <1>1, <1>4 DEF Finish
<1> QED  BY <1>2, <1>3, <1>4 DEF GatewayStep

LEMMA RequestsStepKeeps == ASSUME RequestsInv, [RequestsNext]_requestsVars PROVE RequestsInv' /\ Settles
<1>1. ASSUME UNCHANGED <<serverRequests, outcome, asked, down>> PROVE RequestsInv' /\ Settles
  BY <1>1 DEF RequestsInv, Ids, Settles
<1>2. ASSUME NEW c \in Clients, CloseConnection(c) \/ ReadFrame(c) \/ ClientStep(c)
      PROVE UNCHANGED <<serverRequests, outcome, asked, down>>
  BY <1>2 DEF CloseConnection, ReadFrame, ClientStep, OpenRoom, NewRoom, LeaveRoom, StopTurn, AskStock, AnswerDialog, Post
<1>3. ASSUME NEW r \in Rooms, TurnStarts(r) \/ TurnEnds(r) \/ ProcessEnds(r)
      PROVE UNCHANGED <<serverRequests, outcome, asked, down>>
  BY <1>3 DEF TurnStarts, TurnEnds, ProcessEnds
<1> QED
  BY <1>1, <1>2, <1>3, AskKeeps, StopKeeps, GatewayKeeps DEF RequestsNext, BecomeReady, requestsVars

\* Claude is told once of each approval (Gateway.resolveServerRequest,
\* cancelServerRequests, stop): no answer, Stop or end changes it.
THEOREM DecidedOnce == RequestsSpec => OneDecision
<1>1. RequestsInv /\ [RequestsNext]_requestsVars
        => RequestsInv' /\ [\A id \in Ids : outcome[id] # "none" => outcome'[id] = outcome[id]]_requestsVars
  BY RequestsStepKeeps DEF Settles
<1> QED  BY RequestsStart, <1>1, PTL DEF RequestsSpec, OneDecision

-----------------------------------------------------------------------------
(* Types *)

\* A frame that is under way is about approvals that were asked, or an answer.
Notes == [type : {"ask", "resolved"}, ids : SUBSET Ids]
Replies == [type : {"reply"}, call : Messages]
Views == {"no", "opening", "viewing", "leaving"}
GatewaySide ==
    /\ ready \in BOOLEAN /\ down \in BOOLEAN /\ closed \subseteq Clients
    /\ toGateway \in [Clients -> Seq(Messages)] /\ backlog \in [Clients -> Seq(Messages)]
    /\ calls \in [Clients -> SUBSET Messages] /\ subscriptions \in [Rooms -> SUBSET Clients]
    /\ asked \in Seq([room : Rooms, big : BOOLEAN]) /\ Len(asked) <= MaxAsked
    /\ serverRequests \subseteq Ids /\ outcome \in [Ids -> Outcomes]
OtherSides ==
    /\ known \subseteq Rooms /\ turn \subseteq Rooms /\ loaded \subseteq Rooms
    /\ views \in [Clients -> [Rooms -> Views]]
    /\ dialogs \in [Clients -> SUBSET Ids] /\ sent \in 0 .. MaxSent
Typed == GatewaySide /\ OtherSides /\ toClient \in [Clients -> Seq(Notes \cup Replies)]

LEMMA TypedIsTyped == Typed => RequestsTypeOK
<1> SUFFICES ASSUME Typed PROVE RequestsTypeOK
  OBVIOUS
<1> DEFINE Frames == [type : {"ask", "resolved"}, ids : SUBSET (1 .. MaxAsked)] \cup [type : {"reply"}, call : Messages]
<1>1. Len(asked) \in Nat /\ Len(asked) <= MaxAsked /\ MaxAsked \in Nat
  BY RequestsAssumption DEF Typed, GatewaySide
<1>2. Notes \cup Replies \subseteq Frames
  BY <1>1 DEF Notes, Replies, Ids
<1>3. toClient \in [Clients -> Seq(Frames)]
  <2> HIDE DEF Frames
  <2>1. ASSUME NEW c \in Clients PROVE toClient[c] \in Seq(Frames)
    BY <1>2, SeqMonotonic DEF Typed
  <2>2. toClient = [c \in Clients |-> toClient[c]]
    BY DEF Typed
  <2> QED  BY <2>1, <2>2
<1> QED  BY <1>3 DEF Typed, GatewaySide, OtherSides, RequestsTypeOK, Views

LEMMA EmitSends ==
  ASSUME Typed, NEW r \in Rooms, NEW frame \in Notes \cup Replies
  PROVE  /\ Emit(r, frame) \in [Clients -> Seq(Notes \cup Replies)]
         /\ \A c \in Clients : Emit(r, frame)[c] =
              IF c \in subscriptions[r] \ closed THEN Append(toClient[c], frame) ELSE toClient[c]
<1>1. /\ \A c \in Clients : toClient[c] \in Seq(Notes \cup Replies)
      /\ Emit(r, frame) = [c \in Clients |-> IF c \in subscriptions[r] \ closed THEN Append(toClient[c], frame) ELSE toClient[c]]
  BY DEF Typed, Emit
<1>2. \A c \in Clients : Append(toClient[c], frame) \in Seq(Notes \cup Replies)
  BY <1>1, AppendProperties
<1> QED  BY <1>1, <1>2

LEMMA SendSends ==
  ASSUME Typed, NEW d \in Clients, NEW frame \in Notes \cup Replies
  PROVE  /\ Send(toClient, d, frame) \in [Clients -> Seq(Notes \cup Replies)]
         /\ \A c \in Clients : Send(toClient, d, frame)[c] =
              IF c = d /\ d \notin closed THEN Append(toClient[c], frame) ELSE toClient[c]
<1>1. /\ toClient \in [Clients -> Seq(Notes \cup Replies)]
      /\ Send(toClient, d, frame) = [toClient EXCEPT ![d] = IF d \in closed THEN toClient[d] ELSE Append(toClient[d], frame)]
  BY DEF Typed, Send
<1>2. Append(toClient[d], frame) \in Seq(Notes \cup Replies)
  BY <1>1, AppendProperties
<1> QED  BY <1>1, <1>2

LEMMA AskingSends ==
  ASSUME Typed, NEW d \in Clients, NEW r \in Rooms
  PROVE  /\ [type |-> "ask", ids |-> Small(Of(r))] \in Notes
         /\ Asking(toClient, d, Of(r)) \in [Clients -> Seq(Notes \cup Replies)]
         /\ \A c \in Clients : Asking(toClient, d, Of(r))[c] =
              IF c = d /\ d \notin closed /\ Small(Of(r)) # {}
              THEN Append(toClient[c], [type |-> "ask", ids |-> Small(Of(r))]) ELSE toClient[c]
<1>1. Small(Of(r)) \subseteq Ids
  BY DEF Typed, GatewaySide, OtherSides, Small, Of
<1>2. [type |-> "ask", ids |-> Small(Of(r))] \in Notes
  BY <1>1 DEF Notes
<1>3. CASE Small(Of(r)) = {}
  BY <1>2, <1>3 DEF Asking, Typed
<1>4. CASE Small(Of(r)) # {}
  BY <1>2, <1>4, SendSends DEF Asking
<1> QED  BY <1>2, <1>3, <1>4

\* What a message the gateway has not read is: an answer, or about a room.
Msg(type, r) == [type |-> type, room |-> r]
RoomTypes == {"start", "resume", "unsubscribe", "interrupt", "forward"}

LEMMA MessageForms ==
  ASSUME NEW m \in Messages
  PROVE  \/ m.type = "answer" /\ m.id \in 1 .. MaxAsked /\ m.decision \in Decisions
         \/ m.type \in RoomTypes /\ m.room \in Rooms /\ m = Msg(m.type, m.room)
BY DEF Messages, Msg, RoomTypes

LEMMA MessagesOf ==
  ASSUME NEW type \in RoomTypes, NEW r \in Rooms
  PROVE  Msg(type, r) \in Messages /\ Msg(type, r).type = type /\ Msg(type, r).room = r
BY DEF Messages, Msg, RoomTypes

LEMMA DispatchTyped ==
  ASSUME Typed, NEW c \in Clients, NEW m \in Messages, Dispatch(c, m)
  PROVE  /\ toClient' \in [Clients -> Seq(Notes \cup Replies)] /\ calls' \in [Clients -> SUBSET Messages]
         /\ subscriptions' \in [Rooms -> SUBSET Clients] /\ serverRequests' \subseteq Ids
         /\ outcome' \in [Ids -> Outcomes] /\ turn' \subseteq Rooms
<1> DEFINE Good ==
      /\ toClient' \in [Clients -> Seq(Notes \cup Replies)] /\ calls' \in [Clients -> SUBSET Messages]
      /\ subscriptions' \in [Rooms -> SUBSET Clients] /\ serverRequests' \subseteq Ids
      /\ outcome' \in [Ids -> Outcomes] /\ turn' \subseteq Rooms
<1>1. /\ toClient \in [Clients -> Seq(Notes \cup Replies)] /\ calls \in [Clients -> SUBSET Messages]
      /\ subscriptions \in [Rooms -> SUBSET Clients] /\ serverRequests \subseteq Ids
      /\ outcome \in [Ids -> Outcomes] /\ turn \subseteq Rooms /\ \A id \in Ids : asked[id].room \in Rooms
  <2>1. \A id \in Ids : asked[id] \in [room : Rooms, big : BOOLEAN]
    BY ElementOfSeq DEF Typed, GatewaySide, OtherSides, Ids
  <2> QED  BY <2>1 DEF Typed, GatewaySide, OtherSides
<1>2. ASSUME ResolveServerRequest(c, m) PROVE Good
  <2>1. CASE m.id \in serverRequests
    <3>1. {m.id} \subseteq Ids /\ [type |-> "resolved", ids |-> {m.id}] \in Notes /\ asked[m.id].room \in Rooms
      BY <1>1, <2>1 DEF Notes
    <3>2. Emit(asked[m.id].room, [type |-> "resolved", ids |-> {m.id}]) \in [Clients -> Seq(Notes \cup Replies)]
      BY <3>1, EmitSends
    <3>3. toClient' \in [Clients -> Seq(Notes \cup Replies)] /\ serverRequests' \subseteq Ids /\ UNCHANGED <<calls, subscriptions, turn>>
      BY <1>1, <1>2, <2>1, <3>2 DEF ResolveServerRequest
    <3>4. outcome' \in [Ids -> Outcomes]
      BY <1>1, <1>2, <2>1, DecisionsSettle DEF ResolveServerRequest
    <3> QED  BY <1>1, <3>3, <3>4
  <2>2. CASE m.id \notin serverRequests
    BY <1>1, <1>2, <2>2 DEF ResolveServerRequest
  <2> QED  BY <2>1, <2>2
<1>3. ASSUME Resume(c, m) PROVE Good
  <2>1. m.room \in Rooms /\ UNCHANGED <<serverRequests, outcome, turn>> /\ calls' \in [Clients -> SUBSET Messages]
    BY <1>1, <1>3, MessageForms DEF Resume
  <2>2. subscriptions' \in [Rooms -> SUBSET Clients]
    BY <1>1, <1>3 DEF Resume, Subscribe
  <2>3. toClient' = toClient \/ toClient' = Asking(toClient, c, Of(m.room))
    BY <1>3 DEF Resume, Subscribe
  <2> QED  BY <1>1, <2>1, <2>2, <2>3, AskingSends
<1>4. ASSUME Wait(c, m) PROVE Good
  BY <1>1, <1>4 DEF Wait
<1>5. ASSUME Unsubscribe(c, m) PROVE Good
  <2>1. [type |-> "reply", call |-> m] \in Notes \cup Replies
    BY DEF Replies
  <2>2. subscriptions' \in [Rooms -> SUBSET Clients] /\ UNCHANGED <<calls, serverRequests, outcome, turn>>
        /\ toClient' = Send(toClient, c, [type |-> "reply", call |-> m])
    BY <1>1, <1>5 DEF Unsubscribe, Respond
  <2> QED  BY <1>1, <2>1, <2>2, SendSends
<1>6. ASSUME Interrupt(c, m) PROVE Good
  <2>1. m.room \in Rooms /\ UNCHANGED subscriptions /\ turn' \subseteq Rooms /\ calls' \in [Clients -> SUBSET Messages]
    BY <1>1, <1>6, MessageForms DEF Interrupt
  <2>2. CASE CancelServerRequests(m.room)
    <3>1. Of(m.room) \subseteq Ids /\ [type |-> "resolved", ids |-> Of(m.room)] \in Notes
      BY <1>1 DEF Of, Notes
    <3>2. serverRequests' \subseteq Ids /\ outcome' \in [Ids -> Outcomes]
      BY <1>1, <2>2 DEF CancelServerRequests, Outcomes
    <3>3. toClient' = toClient \/ toClient' = Emit(m.room, [type |-> "resolved", ids |-> Of(m.room)])
      BY <2>2 DEF CancelServerRequests
    <3> QED  BY <1>1, <2>1, <3>1, <3>2, <3>3, EmitSends
  <2>3. CASE UNCHANGED <<serverRequests, outcome, toClient>>
    BY <1>1, <2>1, <2>3
  <2> QED  BY <1>6, <2>2, <2>3 DEF Interrupt
<1> QED  BY <1>2, <1>3, <1>4, <1>5, <1>6 DEF Dispatch

LEMMA ReadTyped ==
  ASSUME NEW S, NEW s \in Seq(S), s # <<>>
  PROVE  /\ Head(s) \in S /\ Tail(s) \in Seq(S) /\ Len(s) \in Nat /\ Len(s) >= 1 /\ Head(s) = s[1]
         /\ Len(Tail(s)) = Len(s) - 1 /\ \A i \in 1 .. Len(s) - 1 : Tail(s)[i] = s[i + 1]
BY HeadTailProperties, EmptySeq

LEMMA GatewayTyped == ASSUME Typed, NEW c \in Clients, GatewayStep(c) PROVE Typed'
<1>1. ASSUME OnClientText(c) PROVE Typed'
  <2>1. /\ toGateway[c] \in Seq(Messages) /\ toGateway[c] # <<>> /\ UNCHANGED <<ready, down, closed, asked, known, loaded, clientSide>>
        /\ toGateway' = [toGateway EXCEPT ![c] = Tail(@)]
    BY <1>1 DEF Typed, GatewaySide, OtherSides, OnClientText
  <2>2. Head(toGateway[c]) \in Messages /\ toGateway' \in [Clients -> Seq(Messages)]
    BY <2>1, ReadTyped DEF Typed, GatewaySide, OtherSides
  <2>3. CASE ready
    <3>1. Dispatch(c, Head(toGateway[c])) /\ UNCHANGED backlog
      BY <1>1, <2>3 DEF OnClientText
    <3> QED  BY <2>1, <2>2, <3>1, DispatchTyped DEF Typed, GatewaySide, OtherSides, Ids, Notes, clientSide
  <2>4. CASE ~ready
    <3>1. backlog' \in [Clients -> Seq(Messages)] /\ UNCHANGED <<calls, toClient, subscriptions, serverRequests, outcome, turn>>
      <4>1. backlog[c] \in Seq(Messages) /\ Append(backlog[c], Head(toGateway[c])) \in Seq(Messages)
        BY <2>2, AppendProperties DEF Typed, GatewaySide
      <4>2. /\ backlog' = [backlog EXCEPT ![c] = Append(@, Head(toGateway[c]))]
            /\ UNCHANGED <<calls, toClient, subscriptions, serverRequests, outcome, turn>>
        BY <1>1, <2>4 DEF OnClientText
      <4> QED  BY <4>1, <4>2 DEF Typed, GatewaySide
    <3> QED  BY <2>1, <2>2, <3>1 DEF Typed, GatewaySide, OtherSides, Ids, Notes, clientSide
  <2> QED  BY <2>3, <2>4
<1>2. ASSUME DispatchBacklog(c) PROVE Typed'
  <2>1. /\ backlog[c] \in Seq(Messages) /\ backlog[c] # <<>> /\ UNCHANGED <<ready, down, closed, toGateway, asked, known, loaded, clientSide>>
        /\ backlog' = [backlog EXCEPT ![c] = Tail(@)] /\ Dispatch(c, Head(backlog[c]))
    BY <1>2 DEF Typed, GatewaySide, OtherSides, DispatchBacklog
  <2>2. Head(backlog[c]) \in Messages /\ backlog' \in [Clients -> Seq(Messages)]
    BY <2>1, ReadTyped DEF Typed, GatewaySide, OtherSides
  <2> QED  BY <2>1, <2>2, DispatchTyped DEF Typed, GatewaySide, OtherSides, Ids, Notes, clientSide
<1>3. ASSUME NEW call \in calls[c], Finish(c, call) PROVE Typed'
  <2> DEFINE first == IF call.type = "start" /\ c \notin subscriptions[call.room] THEN Asking(toClient, c, Of(call.room)) ELSE toClient
             reply == [type |-> "reply", call |-> call]
  <2>1. call \in Messages /\ reply \in Replies /\ (call.type = "start" => call.room \in Rooms)
    BY MessageForms DEF Typed, GatewaySide, OtherSides, Replies
  <2>2. first \in [Clients -> Seq(Notes \cup Replies)]
    BY <2>1, AskingSends DEF Typed
  <2>3. toClient' = [first EXCEPT ![c] = IF c \in closed THEN @ ELSE Append(@, reply)]
    BY <1>3 DEF Finish, Respond, Send
  <2>4. toClient' \in [Clients -> Seq(Notes \cup Replies)]
    <3> HIDE DEF first
    <3>1. first[c] \in Seq(Notes \cup Replies) /\ Append(first[c], reply) \in Seq(Notes \cup Replies)
      BY <2>1, <2>2, AppendProperties
    <3> QED  BY <2>2, <2>3, <3>1
  <2>5. /\ calls' = [calls EXCEPT ![c] = @ \ {call}]
        /\ subscriptions' = IF call.type = "start" THEN [subscriptions EXCEPT ![call.room] = @ \cup {c}] ELSE subscriptions
        /\ known' = IF call.type = "start" THEN known \cup {call.room} ELSE known
        /\ UNCHANGED <<ready, down, closed, toGateway, backlog, serverRequests, asked, outcome, turn, loaded, clientSide>>
    BY <1>3 DEF Finish
  <2>6. calls' \in [Clients -> SUBSET Messages] /\ subscriptions' \in [Rooms -> SUBSET Clients] /\ known' \subseteq Rooms
    BY <2>1, <2>5 DEF Typed, GatewaySide, OtherSides
  <2> QED  BY <2>4, <2>5, <2>6 DEF Typed, GatewaySide, OtherSides, Ids, Notes, clientSide
<1> QED  BY <1>1, <1>2, <1>3 DEF GatewayStep

\* A message a client sends is one of Messages.
LEMMA PostTyped ==
  ASSUME Typed, NEW c \in Clients, NEW m \in Messages, Post(c, m),
         views' \in [Clients -> [Rooms -> Views]],
         dialogs' \in [Clients -> SUBSET Ids]
  PROVE  Typed'
<1>1. sent' \in 0 .. MaxSent
  BY RequestsAssumption DEF Post, Typed, OtherSides
<1>2. toGateway' \in [Clients -> Seq(Messages)]
  <2>1. toGateway[c] \in Seq(Messages) /\ Append(toGateway[c], m) \in Seq(Messages)
    BY AppendProperties DEF Typed, GatewaySide
  <2> QED  BY <2>1 DEF Post, Typed, GatewaySide
<1> QED  BY <1>1, <1>2 DEF Post, Typed, GatewaySide, OtherSides, claudeSide, Ids, Notes

LEMMA ClientTyped == ASSUME Typed, NEW c \in Clients, ClientStep(c) PROVE Typed'
<1>1. ASSUME NEW r \in Rooms, OpenRoom(c, r) \/ NewRoom(c, r) \/ LeaveRoom(c, r) \/ StopTurn(c, r) \/ AskStock(c, r) PROVE Typed'
  <2>1. \E type \in RoomTypes : Post(c, Msg(type, r))
    <3> DEFINE posted(type) == Post(c, [type |-> type, room |-> r])
    <3>1. posted("resume") \/ posted("start") \/ posted("unsubscribe") \/ posted("interrupt") \/ posted("forward")
      <4>1. OpenRoom(c, r) => posted("resume")
        BY DEF OpenRoom
      <4>2. NewRoom(c, r) => posted("start")
        BY DEF NewRoom
      <4>3. LeaveRoom(c, r) => posted("unsubscribe")
        BY DEF LeaveRoom
      <4>4. StopTurn(c, r) => posted("interrupt")
        BY DEF StopTurn
      <4>5. AskStock(c, r) => posted("forward")
        BY DEF AskStock
      <4> QED  BY <1>1, <4>1, <4>2, <4>3, <4>4, <4>5
    <3> HIDE DEF posted
    <3>2. \E type \in RoomTypes : posted(type)
      BY <3>1 DEF RoomTypes
    <3> QED  BY <3>2 DEF posted, Msg
  <2>2. views' \in [Clients -> [Rooms -> Views]]
    <3>1. \/ UNCHANGED views
          \/ \E view \in {"viewing", "opening", "leaving"} : views' = [views EXCEPT ![c][r] = view]
      BY <1>1 DEF OpenRoom, NewRoom, LeaveRoom, StopTurn, AskStock
    <3>2. views \in [Clients -> [Rooms -> Views]]
      BY DEF Typed, OtherSides
    <3>3. ASSUME NEW view \in Views PROVE [views EXCEPT ![c][r] = view] \in [Clients -> [Rooms -> Views]]
      <4>1. [views[c] EXCEPT ![r] = view] \in [Rooms -> Views]
        BY <3>2
      <4> QED  BY <3>2, <4>1
    <3>4. Views = {"no", "opening", "viewing", "leaving"}
      BY DEF Views
    <3> QED  BY <3>1, <3>2, <3>3, <3>4
  <2>3. dialogs' \in [Clients -> SUBSET Ids]
    BY <1>1 DEF OpenRoom, NewRoom, LeaveRoom, StopTurn, AskStock, Typed, OtherSides
  <2> QED  BY <2>1, <2>2, <2>3, PostTyped, MessagesOf
<1>2. ASSUME NEW id \in dialogs[c], NEW decision \in Decisions, AnswerDialog(c, id, decision) PROVE Typed'
  <2>1. id \in 1 .. MaxAsked
    BY RequestsAssumption DEF Typed, GatewaySide, OtherSides, Ids
  <2>2. [type |-> "answer", id |-> id, decision |-> decision] \in Messages
    BY <2>1 DEF Messages
  <2>3. dialogs' \in [Clients -> SUBSET Ids] /\ UNCHANGED views
    BY <1>2 DEF AnswerDialog, Typed, OtherSides
  <2> QED  BY <1>2, <2>2, <2>3, PostTyped DEF AnswerDialog, Typed, OtherSides
<1> QED  BY <1>1, <1>2 DEF ClientStep

\* A frame is a note about approvals that were asked, or an answer to a message.
LEMMA FrameForms ==
  ASSUME NEW f \in Notes \cup Replies
  PROVE  \/ f.type \in {"ask", "resolved"} /\ f \in Notes /\ f.ids \subseteq Ids
         \/ f.type = "reply" /\ f \in Replies /\ f.call \in Messages /\ f = [type |-> "reply", call |-> f.call]
BY DEF Notes, Replies

LEMMA ReadFrameTyped == ASSUME Typed, NEW c \in Clients, ReadFrame(c) PROVE Typed'
<1> DEFINE f == Head(toClient[c])
<1>1. /\ toClient[c] \in Seq(Notes \cup Replies) /\ toClient[c] # <<>>
      /\ dialogs' = [dialogs EXCEPT ![c] =
            CASE f.type = "ask" -> @ \cup { id \in f.ids : views[c][asked[id].room] = "viewing" }
              [] f.type = "resolved" -> @ \ f.ids
              [] OTHER -> @]
      /\ views' = IF f.type = "reply" /\ f.call.type \in {"unsubscribe", "start"}
                   THEN [views EXCEPT ![c][f.call.room] = IF f.call.type = "start" THEN "viewing" ELSE "no"]
                   ELSE views
      /\ toClient' = [toClient EXCEPT ![c] = Tail(@)]
      /\ UNCHANGED <<ready, down, closed, toGateway, backlog, calls, subscriptions,
                   serverRequests, asked, outcome, claudeSide, sent>>
  BY DEF ReadFrame, Typed
<1>2. f \in Notes \cup Replies /\ toClient' \in [Clients -> Seq(Notes \cup Replies)]
  BY <1>1, ReadTyped DEF Typed
<1>3. dialogs' \in [Clients -> SUBSET Ids]
  BY <1>1, <1>2, FrameForms DEF Typed, OtherSides
<1>4. views' \in [Clients -> [Rooms -> Views]]
  <2>1. f.type = "reply" /\ f.call.type \in {"unsubscribe", "start"} => f.call.room \in Rooms
    BY <1>2, FrameForms, MessageForms DEF RoomTypes
  <2> HIDE DEF f
  <2> QED  BY <1>1, <2>1 DEF Typed, OtherSides, Views
<1> QED  BY <1>1, <1>2, <1>3, <1>4 DEF Typed, GatewaySide, OtherSides, claudeSide, Ids, Notes

LEMMA AskTyped == ASSUME Typed, NEW r \in Rooms, NEW big \in BOOLEAN, ServerRequest(r, big) PROVE Typed'
<1> DEFINE new == Len(asked) + 1
           frame == [type |-> "ask", ids |-> {new}]
<1>1. /\ asked' = Append(asked, [room |-> r, big |-> big]) /\ outcome' = Append(outcome, "none")
      /\ serverRequests' = serverRequests \cup {new} /\ Len(asked) < MaxAsked
      /\ toClient' = IF big THEN toClient ELSE Emit(r, frame)
      /\ UNCHANGED <<ready, down, closed, toGateway, backlog, calls, subscriptions, claudeSide, clientSide>>
  BY DEF ServerRequest
<1>2. /\ asked' \in Seq([room : Rooms, big : BOOLEAN]) /\ Len(asked) \in Nat /\ Len(asked') = new /\ Len(asked') <= MaxAsked
      /\ Ids = 1 .. Len(asked) /\ Ids' = 1 .. new
  BY <1>1, RequestsAssumption DEF Typed, GatewaySide, Ids
<1>3. Ids \subseteq Ids' /\ new \in Ids'
  BY <1>2
<1>4. outcome' \in [Ids' -> Outcomes]
  <2>1. outcome \in Seq(Outcomes) /\ Len(outcome) = Len(asked)
    <3>1. outcome \in [1 .. Len(asked) -> Outcomes] /\ Len(asked) \in Nat
      BY <1>2 DEF Typed, GatewaySide
    <3> QED  BY <3>1
  <2>2. outcome' \in Seq(Outcomes) /\ Len(outcome') = new
    <3>1. "none" \in Outcomes /\ outcome' = Append(outcome, "none")
      BY <1>1 DEF Outcomes
    <3> QED  BY <2>1, <3>1, AppendProperties
  <2> QED  BY <1>2, <2>2
<1>5. serverRequests' \subseteq Ids'
  BY <1>1, <1>3 DEF Typed, GatewaySide
<1>6. toClient' \in [Clients -> Seq((Notes \cup Replies)')]
  <2>1. Notes \cup Replies \subseteq (Notes \cup Replies)' /\ frame \in (Notes \cup Replies)'
    BY <1>3 DEF Notes, Replies
  <2>2. ASSUME NEW c \in Clients PROVE toClient[c] \in Seq((Notes \cup Replies)')
    BY <2>1, SeqMonotonic DEF Typed
  <2>3. ASSUME NEW c \in Clients PROVE Append(toClient[c], frame) \in Seq((Notes \cup Replies)')
    BY <2>1, <2>2, AppendProperties
  <2>4. toClient = [c \in Clients |-> toClient[c]]
    BY DEF Typed
  <2>5. CASE big
    BY <1>1, <2>2, <2>4, <2>5
  <2>6. CASE ~big
    <3>1. toClient' = [c \in Clients |-> IF c \in subscriptions[r] \ closed THEN Append(toClient[c], frame) ELSE toClient[c]]
      BY <1>1, <2>6 DEF Emit
    <3> HIDE DEF frame
    <3> QED  BY <2>2, <2>3, <3>1
  <2> QED  BY <2>5, <2>6
<1>7. dialogs' \in [Clients -> SUBSET (Ids')]
  BY <1>1, <1>3 DEF Typed, OtherSides, clientSide
<1>8. GatewaySide'
  BY <1>1, <1>2, <1>4, <1>5 DEF Typed, GatewaySide
<1>9. OtherSides'
  BY <1>1, <1>7 DEF Typed, OtherSides, claudeSide, clientSide
<1> QED  BY <1>6, <1>8, <1>9 DEF Typed

LEMMA StopTyped == ASSUME Typed, StopGateway PROVE Typed'
<1>1. outcome' \in [Ids -> Outcomes] /\ UNCHANGED <<ready, backlog, serverRequests, asked, known, views, sent>>
  BY DEF StopGateway, Typed, GatewaySide, Outcomes
<1>2. toGateway' = [c \in Clients |-> <<>>] /\ toClient' = [c \in Clients |-> <<>>]
      /\ calls' = [c \in Clients |-> {}] /\ dialogs' = [c \in Clients |-> {}] /\ subscriptions' = [r \in Rooms |-> {}]
      /\ down' = TRUE /\ closed' = Clients /\ loaded' = {} /\ turn' = {}
  BY DEF StopGateway
<1>3. toGateway' \in [Clients -> Seq(Messages)] /\ toClient' \in [Clients -> Seq(Notes \cup Replies)]
      /\ calls' \in [Clients -> SUBSET Messages] /\ dialogs' \in [Clients -> SUBSET Ids]
      /\ subscriptions' \in [Rooms -> SUBSET Clients]
  BY <1>2
<1> QED  BY <1>1, <1>2, <1>3 DEF Typed, GatewaySide, OtherSides, Ids, Notes

LEMMA CloseTyped == ASSUME Typed, NEW c \in Clients, CloseConnection(c) PROVE Typed'
<1>1. toGateway' \in [Clients -> Seq(Messages)] /\ toClient' \in [Clients -> Seq(Notes \cup Replies)]
  <2>1. /\ toGateway' = [toGateway EXCEPT ![c] = <<>>] /\ toClient' = [toClient EXCEPT ![c] = <<>>]
        /\ toGateway \in [Clients -> Seq(Messages)] /\ toClient \in [Clients -> Seq(Notes \cup Replies)]
    BY DEF CloseConnection, Typed, GatewaySide
  <2>2. <<>> \in Seq(Messages) /\ <<>> \in Seq(Notes \cup Replies)
    BY EmptySeq
  <2> QED  BY <2>1, <2>2
<1>2. calls' \in [Clients -> SUBSET Messages] /\ dialogs' \in [Clients -> SUBSET Ids]
      /\ subscriptions' \in [Rooms -> SUBSET Clients]
  BY DEF CloseConnection, Detach, Typed, GatewaySide, OtherSides
<1> QED  BY <1>1, <1>2 DEF CloseConnection, Typed, GatewaySide, OtherSides, claudeSide, Ids, Notes

LEMMA StepTyped == ASSUME Typed, [RequestsNext]_requestsVars PROVE Typed'
<1>1. ASSUME NEW r \in Rooms, TurnStarts(r) \/ TurnEnds(r) \/ ProcessEnds(r) PROVE Typed'
  BY <1>1 DEF TurnStarts, TurnEnds, ProcessEnds, Typed, GatewaySide, OtherSides, clientSide, Ids, Notes
<1>2. ASSUME BecomeReady PROVE Typed'
  BY <1>2 DEF BecomeReady, Typed, GatewaySide, OtherSides, claudeSide, clientSide, Ids, Notes
<1>3. ASSUME UNCHANGED requestsVars PROVE Typed'
  BY <1>3 DEF requestsVars, Typed, GatewaySide, OtherSides, Ids, Notes
<1> QED
  BY <1>1, <1>2, <1>3, GatewayTyped, CloseTyped, ReadFrameTyped, ClientTyped, AskTyped, StopTyped DEF RequestsNext

LEMMA StartTyped == ASSUME RequestsInit PROVE Typed
<1>1. PICK viewers \in [Rooms -> SUBSET Clients] :
        /\ ready \in BOOLEAN /\ subscriptions = viewers /\ known \in SUBSET Rooms
        /\ views = [c \in Clients |-> [r \in Rooms |-> IF c \in viewers[r] THEN "viewing" ELSE "no"]]
  BY DEF RequestsInit
<1>2. toGateway \in [Clients -> Seq(Messages)] /\ backlog \in [Clients -> Seq(Messages)]
      /\ toClient \in [Clients -> Seq(Notes \cup Replies)] /\ calls \in [Clients -> SUBSET Messages]
  BY DEF RequestsInit
<1>3. asked \in Seq([room : Rooms, big : BOOLEAN]) /\ Len(asked) = 0 /\ Len(asked) <= MaxAsked
      /\ serverRequests \subseteq Ids /\ outcome \in [Ids -> Outcomes] /\ dialogs \in [Clients -> SUBSET Ids]
  BY RequestsAssumption DEF RequestsInit, Ids
<1>4. views \in [Clients -> [Rooms -> Views]]
  <2>1. ASSUME NEW c \in Clients, NEW r \in Rooms
        PROVE (IF c \in viewers[r] THEN "viewing" ELSE "no") \in {"no", "opening", "viewing", "leaving"}
    OBVIOUS
  <2> QED  BY <1>1, <2>1 DEF Views
<1>5. down = FALSE /\ closed = {} /\ turn = {} /\ loaded = {} /\ sent = 0 /\ 0 \in 0 .. MaxSent
  BY RequestsAssumption DEF RequestsInit
<1>6. GatewaySide
  BY <1>1, <1>2, <1>3, <1>5 DEF GatewaySide
<1>7. OtherSides
  BY <1>1, <1>3, <1>4, <1>5 DEF OtherSides
<1> QED  BY <1>2, <1>6, <1>7 DEF Typed

\* Channels, subscriptions, approvals and views keep their types: a frame is
\* about approvals that were asked, whoever comes, goes or closes meanwhile.
THEOREM RequestsTyped == RequestsSpec => []RequestsTypeOK
<1>1. RequestsInit => Typed
  BY StartTyped
<1>2. Typed /\ [RequestsNext]_requestsVars => Typed'
  BY StepTyped
<1> QED  BY <1>1, <1>2, TypedIsTyped, PTL DEF RequestsSpec

-----------------------------------------------------------------------------
(* What is under way, in its order: messages to the gateway, frames to a     *)
(* client.  Both are read at the front and sent at the end.                  *)

In(s, x) == \E i \in DOMAIN s : s[i] = x
Once(s, x) == \A i, j \in DOMAIN s : s[i] = x /\ s[j] = x => i = j
Meets(s, A) == \E i \in DOMAIN s : s[i] \in A

\* Each x is followed by a y; each of A comes after an x; none of A comes after one of X.
Followed(s, x, y) == \A j \in DOMAIN s : s[j] = x => \E i \in DOMAIN s : j < i /\ s[i] = y
Preceded(s, A, x) == \A j \in DOMAIN s : s[j] \in A => \E i \in DOMAIN s : i < j /\ s[i] = x
NoneAfter(s, X, A) == \A i, j \in DOMAIN s : s[i] \in X /\ s[j] \in A => j < i

LEMMA AppendInOrder ==
  ASSUME NEW S, NEW s \in Seq(S), NEW m \in S
  PROVE  /\ \A x : In(Append(s, m), x) <=> In(s, x) \/ m = x
         /\ \A A : Meets(Append(s, m), A) <=> Meets(s, A) \/ m \in A
         /\ \A x : (Once(s, x) /\ (m = x => ~In(s, x))) => Once(Append(s, m), x)
         /\ \A x, y : (Followed(s, x, y) /\ m # x) => Followed(Append(s, m), x, y)
         /\ \A x : x # m => Followed(Append(s, m), x, m)
         /\ \A A, x : (Preceded(s, A, x) /\ (m \in A => In(s, x))) => Preceded(Append(s, m), A, x)
         /\ \A X, A : (NoneAfter(s, X, A) /\ (m \in A => m \notin X /\ ~Meets(s, X))) => NoneAfter(Append(s, m), X, A)
<1> DEFINE t == Append(s, m)
           n == Len(s)
<1>1. /\ n \in Nat /\ DOMAIN s = 1 .. n /\ DOMAIN t = 1 .. n + 1
      /\ t[n + 1] = m /\ \A i \in 1 .. n : t[i] = s[i]
  BY AppendProperties, LenProperties
<1> HIDE DEF t, n
<1>2. \A i \in 1 .. n + 1 : i \in 1 .. n \/ i = n + 1
  BY <1>1
<1>3. ASSUME NEW x PROVE In(t, x) <=> In(s, x) \/ m = x
  BY <1>1, <1>2 DEF In
<1>4. ASSUME NEW A PROVE Meets(t, A) <=> Meets(s, A) \/ m \in A
  BY <1>1, <1>2 DEF Meets
<1>5. ASSUME NEW x PROVE (Once(s, x) /\ (m = x => ~In(s, x))) => Once(t, x)
  BY <1>1, <1>2 DEF Once, In
<1>6. ASSUME NEW x, NEW y PROVE (Followed(s, x, y) /\ m # x) => Followed(t, x, y)
  BY <1>1, <1>2 DEF Followed
<1>7. ASSUME NEW x PROVE x # m => Followed(t, x, m)
  BY <1>1, <1>2 DEF Followed
<1>8. ASSUME NEW A, NEW x PROVE (Preceded(s, A, x) /\ (m \in A => In(s, x))) => Preceded(t, A, x)
  BY <1>1, <1>2 DEF Preceded, In
<1>9. ASSUME NEW X, NEW A PROVE (NoneAfter(s, X, A) /\ (m \in A => m \notin X /\ ~Meets(s, X))) => NoneAfter(t, X, A)
  BY <1>1, <1>2 DEF NoneAfter, Meets
<1> QED  BY <1>3, <1>4, <1>5, <1>6, <1>7, <1>8, <1>9 DEF t

LEMMA TailInOrder ==
  ASSUME NEW S, NEW s \in Seq(S), s # <<>>
  PROVE  /\ \A x : In(s, x) <=> Head(s) = x \/ In(Tail(s), x)
         /\ \A A : Meets(s, A) <=> Head(s) \in A \/ Meets(Tail(s), A)
         /\ \A x : Once(s, x) => Once(Tail(s), x) /\ (Head(s) = x => ~In(Tail(s), x))
         /\ \A x, y : Followed(s, x, y) => Followed(Tail(s), x, y) /\ (Head(s) = x => In(Tail(s), y))
         /\ \A A, x : Preceded(s, A, x) => Head(s) \notin A /\ (Head(s) # x => Preceded(Tail(s), A, x))
         /\ \A X, A : NoneAfter(s, X, A) => NoneAfter(Tail(s), X, A) /\ (Head(s) \in X => ~Meets(Tail(s), A))
<1> DEFINE t == Tail(s)
           h == Head(s)
           n == Len(s)
<1>1. /\ n \in Nat /\ n >= 1 /\ DOMAIN s = 1 .. n /\ DOMAIN t = 1 .. n - 1
      /\ h = s[1] /\ \A i \in 1 .. n - 1 : t[i] = s[i + 1]
  BY ReadTyped, LenProperties
<1> HIDE DEF t, h, n
<1>2. /\ 1 \in DOMAIN s /\ s[1] = h
      /\ \A i \in DOMAIN s : i = 1 \/ \E k \in DOMAIN t : i = k + 1 /\ s[i] = t[k]
  <2>1. ASSUME NEW i \in 1 .. n, i # 1 PROVE i - 1 \in 1 .. n - 1 /\ i = (i - 1) + 1 /\ s[i] = t[i - 1]
    BY <1>1, <2>1
  <2>2. 1 \in 1 .. n
    BY <1>1
  <2> QED  BY <1>1, <2>1, <2>2
<1>3. \A k \in DOMAIN t : k \in Nat /\ k >= 1 /\ k + 1 \in DOMAIN s /\ s[k + 1] = t[k]
  BY <1>1
<1>4. ASSUME NEW x PROVE In(s, x) <=> h = x \/ In(t, x)
  BY <1>2, <1>3 DEF In
<1>5. ASSUME NEW A PROVE Meets(s, A) <=> h \in A \/ Meets(t, A)
  BY <1>2, <1>3 DEF Meets
<1>6. ASSUME NEW x PROVE Once(s, x) => Once(t, x) /\ (h = x => ~In(t, x))
  BY <1>2, <1>3 DEF Once, In
<1>7. ASSUME NEW x, NEW y PROVE Followed(s, x, y) => Followed(t, x, y) /\ (h = x => In(t, y))
  BY <1>2, <1>3 DEF Followed, In
<1>8. ASSUME NEW A, NEW x PROVE Preceded(s, A, x) => h \notin A /\ (h # x => Preceded(t, A, x))
  BY <1>2, <1>3 DEF Preceded
<1>9. ASSUME NEW X, NEW A PROVE NoneAfter(s, X, A) => NoneAfter(t, X, A) /\ (h \in X => ~Meets(t, A))
  BY <1>2, <1>3 DEF NoneAfter, Meets
<1> QED  BY <1>4, <1>5, <1>6, <1>7, <1>8, <1>9 DEF t, h

-----------------------------------------------------------------------------
(* How a client stands to a chat, and what is under way about it             *)

Pending(c) == backlog[c] \o toGateway[c]
Reply(type, r) == [type |-> "reply", call |-> Msg(type, r)]
Waits(c, type, r) == In(Pending(c), Msg(type, r))
Replied(c, type, r) == In(toClient[c], Reply(type, r))

\* Approvals are of chats that exist.
RoomsKnown == loaded \subseteq known /\ \A id \in Ids : asked[id].room \in known

\* Before the gateway is ready nobody is answered, so no answer waits in a
\* backlog; what is read at once is answered at once.
Early ==
    /\ ~ready => /\ \A r \in Rooms : subscriptions[r] = {}
                 /\ \A c \in Clients : dialogs[c] = {} /\ toClient[c] = <<>> /\ calls[c] = {}
                 /\ \A c \in Clients : \A i \in DOMAIN toGateway[c] : toGateway[c][i].type # "answer"
    /\ \A c \in Clients : \A i \in DOMAIN backlog[c] : backlog[c][i].type # "answer"
    /\ \A c \in Clients : \A call \in calls[c] : call.type # "unsubscribe"
    /\ \A c \in closed : toClient[c] = <<>>

\* A new chat is opened by one client, once, until its thread/start is done.
OpensOnce(c, r) ==
    /\ Once(Pending(c), Msg("start", r))
    /\ Waits(c, "start", r) => Msg("start", r) \notin calls[c]
    /\ (Waits(c, "start", r) \/ Msg("start", r) \in calls[c]) =>
          r \notin known /\ views[c][r] = "opening" /\ \A d \in Clients \ {c} : views[d][r] = "no"

\* A client that opens a chat is subscribed when it is answered; one that
\* leaves it is not, once it is, and asks for nothing in between.
Stands(c, r) ==
    /\ Once(toClient[c], Reply("start", r)) /\ Once(toClient[c], Reply("unsubscribe", r))
    /\ Once(Pending(c), Msg("unsubscribe", r))
    /\ Replied(c, "start", r) =>
          /\ views[c][r] = "opening" /\ c \in subscriptions[r]
          /\ ~Waits(c, "start", r) /\ Msg("start", r) \notin calls[c]
    /\ (views[c][r] = "opening" /\ c \in subscriptions[r]) => Replied(c, "start", r)
    /\ (Waits(c, "unsubscribe", r) \/ Replied(c, "unsubscribe", r)) => views[c][r] = "leaving"
    /\ Waits(c, "unsubscribe", r) => ~Replied(c, "unsubscribe", r)
    /\ views[c][r] # "viewing" => Followed(Pending(c), Msg("resume", r), Msg("unsubscribe", r))
    /\ (views[c][r] = "leaving" /\ c \in subscriptions[r]) => Waits(c, "unsubscribe", r)
    /\ views[c][r] = "no" => c \notin subscriptions[r]

RoomsInv ==
    /\ RoomsKnown /\ Early
    /\ \A c \in Clients, r \in Rooms : OpensOnce(c, r) /\ (c \notin closed => Stands(c, r))

\* The frames that show an approval, and that take it away.
Asks(id) == [type : {"ask"}, ids : { ids \in SUBSET (1 .. MaxAsked) : id \in ids }]
Settlings(id) == [type : {"resolved"}, ids : { ids \in SUBSET (1 .. MaxAsked) : id \in ids }]

Answering(c, id) == \E i \in DOMAIN toGateway[c] : toGateway[c][i].type = "answer" /\ toGateway[c][i].id = id

\* An approval at a client that is open: a client learns of it after it has
\* opened the chat and not after it has left; who views the chat and is
\* subscribed is on its way to show it just when it is still to be settled.
Shown(c, id) ==
    LET frames == toClient[c]
        r == asked[id].room
    IN  /\ NoneAfter(frames, Settlings(id), Asks(id))
        /\ Meets(frames, Settlings(id)) => id \notin serverRequests
        /\ views[c][r] = "opening" => Preceded(frames, Asks(id) \cup Settlings(id), Reply("start", r))
        /\ NoneAfter(frames, {Reply("unsubscribe", r)}, Asks(id) \cup Settlings(id))
        /\ (views[c][r] \in {"no", "viewing"} /\ c \notin subscriptions[r]) => ~Meets(frames, Asks(id) \cup Settlings(id))
        /\ (views[c][r] # "viewing" \/ c \notin subscriptions[r]) => id \notin dialogs[c]
        /\ (views[c][r] \in {"opening", "viewing"} /\ c \in subscriptions[r]) =>
              /\ (~Meets(frames, Settlings(id)) /\ (id \in dialogs[c] \/ Meets(frames, Asks(id)))) => id \in serverRequests
              /\ (id \in serverRequests /\ ~asked[id].big) =>
                    id \in dialogs[c] \/ Meets(frames, Asks(id)) \/ Answering(c, id)

ShownInv == \A c \in Clients, id \in Ids : c \notin closed => Shown(c, id)

-----------------------------------------------------------------------------
(* The messages that wait, through the backlog or not, are read in order.    *)

LEMMA PendingTyped == ASSUME Typed, NEW c \in Clients PROVE Pending(c) \in Seq(Messages)
BY ConcatProperties DEF Typed, GatewaySide, Pending

\* The same messages wait when the first one moves to the end of the backlog.
LEMMA MoveHead ==
  ASSUME NEW S, NEW b \in Seq(S), NEW t \in Seq(S), t # <<>>
  PROVE  Append(b, Head(t)) \o Tail(t) = b \o t
<1>1. /\ Head(t) \in S /\ Tail(t) \in Seq(S) /\ Len(t) \in Nat /\ Len(t) >= 1 /\ Head(t) = t[1]
      /\ Len(Tail(t)) = Len(t) - 1 /\ \A i \in 1 .. Len(t) - 1 : Tail(t)[i] = t[i + 1]
  BY ReadTyped
<1> DEFINE a == Append(b, Head(t))
<1>2. /\ a \in Seq(S) /\ Len(b) \in Nat /\ Len(a) = Len(b) + 1 /\ a[Len(b) + 1] = t[1]
      /\ \A i \in 1 .. Len(b) : a[i] = b[i]
  BY <1>1, AppendProperties, LenProperties
<1> HIDE DEF a
<1>3. /\ a \o Tail(t) \in Seq(S) /\ Len(a \o Tail(t)) = Len(a) + Len(Tail(t))
      /\ \A i \in 1 .. Len(a) + Len(Tail(t)) : (a \o Tail(t))[i] = IF i <= Len(a) THEN a[i] ELSE Tail(t)[i - Len(a)]
  BY <1>1, <1>2, ConcatProperties
<1>4. /\ b \o t \in Seq(S) /\ Len(b \o t) = Len(b) + Len(t)
      /\ \A i \in 1 .. Len(b) + Len(t) : (b \o t)[i] = IF i <= Len(b) THEN b[i] ELSE t[i - Len(b)]
  BY ConcatProperties
<1>5. Len(a \o Tail(t)) = Len(b \o t)
  BY <1>1, <1>2, <1>3, <1>4
<1>6. ASSUME NEW i \in 1 .. Len(a \o Tail(t)) PROVE (a \o Tail(t))[i] = (b \o t)[i]
  <2>1. i \in 1 .. Len(b) + Len(t) /\ i \in 1 .. Len(a) + Len(Tail(t))
    BY <1>1, <1>2, <1>3
  <2>2. CASE i <= Len(b)
    BY <1>2, <1>3, <1>4, <2>1, <2>2
  <2>3. CASE i = Len(b) + 1
    BY <1>1, <1>2, <1>3, <1>4, <2>1, <2>3
  <2>4. CASE i > Len(b) + 1
    <3>1. i - Len(a) \in 1 .. Len(t) - 1 /\ (i - Len(a)) + 1 = i - Len(b)
      BY <1>1, <1>2, <2>1, <2>4
    <3>2. (a \o Tail(t))[i] = Tail(t)[i - Len(a)] /\ (b \o t)[i] = t[i - Len(b)]
      BY <1>2, <1>3, <1>4, <2>1, <2>4
    <3> QED  BY <1>1, <3>1, <3>2
  <2> QED  BY <1>2, <2>1, <2>2, <2>3, <2>4
<1>7. a \o Tail(t) = b \o t
  BY <1>3, <1>4, <1>5, <1>6, SeqEqual
<1> QED  BY <1>7 DEF a

LEMMA AppendBehind ==
  ASSUME NEW S, NEW b \in Seq(S), NEW t \in Seq(S), NEW m \in S
  PROVE  b \o Append(t, m) = Append(b \o t, m)
<1>1. Append(t, m) = t \o <<m>> /\ <<m>> \in Seq(S) /\ b \o t \in Seq(S)
  BY AppendIsConcat, ConcatProperties
<1>2. Append(b \o t, m) = (b \o t) \o <<m>>
  BY <1>1, AppendIsConcat
<1> QED  BY <1>1, <1>2, ConcatAssociative

LEMMA TailBehind ==
  ASSUME NEW S, NEW b \in Seq(S), NEW t \in Seq(S), b # <<>>
  PROVE  b \o t # <<>> /\ Head(b \o t) = Head(b) /\ Tail(b) \o t = Tail(b \o t)
<1>1. /\ Tail(b) \in Seq(S) /\ Len(b) \in Nat /\ Len(b) >= 1 /\ Head(b) = b[1]
      /\ Len(Tail(b)) = Len(b) - 1 /\ \A i \in 1 .. Len(b) - 1 : Tail(b)[i] = b[i + 1]
  BY ReadTyped
<1>2. /\ b \o t \in Seq(S) /\ Len(b \o t) = Len(b) + Len(t) /\ Len(t) \in Nat
      /\ \A i \in 1 .. Len(b) + Len(t) : (b \o t)[i] = IF i <= Len(b) THEN b[i] ELSE t[i - Len(b)]
  BY ConcatProperties, LenProperties
<1>3. b \o t # <<>>
  BY <1>1, ConcatEqualIffEmpty
<1>4. /\ Tail(b \o t) \in Seq(S) /\ Head(b \o t) = (b \o t)[1] /\ Len(Tail(b \o t)) = Len(b \o t) - 1
      /\ \A i \in 1 .. Len(b \o t) - 1 : Tail(b \o t)[i] = (b \o t)[i + 1]
  BY <1>2, <1>3, ReadTyped
<1>5. /\ Tail(b) \o t \in Seq(S) /\ Len(Tail(b) \o t) = Len(Tail(b)) + Len(t)
      /\ \A i \in 1 .. Len(Tail(b)) + Len(t) : (Tail(b) \o t)[i] = IF i <= Len(Tail(b)) THEN Tail(b)[i] ELSE t[i - Len(Tail(b))]
  BY <1>1, ConcatProperties
<1>6. Head(b \o t) = Head(b)
  BY <1>1, <1>2, <1>4
<1>7. ASSUME NEW i \in 1 .. Len(Tail(b) \o t) PROVE (Tail(b) \o t)[i] = Tail(b \o t)[i]
  <2>1. /\ i \in 1 .. Len(Tail(b)) + Len(t) /\ i \in 1 .. Len(b \o t) - 1 /\ i + 1 \in 1 .. Len(b) + Len(t)
        /\ Tail(b \o t)[i] = (b \o t)[i + 1]
    BY <1>1, <1>2, <1>4, <1>5
  <2>2. CASE i <= Len(b) - 1
    BY <1>1, <1>2, <1>5, <2>1, <2>2
  <2>3. CASE i > Len(b) - 1
    <3>1. i - Len(Tail(b)) = (i + 1) - Len(b)
      BY <1>1, <2>1
    <3>2. (Tail(b) \o t)[i] = t[i - Len(Tail(b))] /\ (b \o t)[i + 1] = t[(i + 1) - Len(b)]
      BY <1>1, <1>2, <1>5, <2>1, <2>3
    <3> QED  BY <2>1, <3>1, <3>2
  <2> QED  BY <1>1, <2>1, <2>2, <2>3
<1>8. Tail(b) \o t = Tail(b \o t)
  BY <1>1, <1>2, <1>4, <1>5, <1>7, SeqEqual
<1> QED  BY <1>3, <1>6, <1>8

\* What a handler reads is the first message that waits.
Reads(c, m) ==
    /\ Pending(c) # <<>> /\ m = Head(Pending(c)) /\ Pending(c)' = Tail(Pending(c))
    /\ \A d \in Clients \ {c} : Pending(d)' = Pending(d)
    /\ toGateway' = toGateway \/ (toGateway[c] # <<>> /\ m = Head(toGateway[c]) /\ toGateway' = [toGateway EXCEPT ![c] = Tail(@)])

Handles(c, m) ==
    /\ Reads(c, m) /\ Dispatch(c, m) /\ ~down /\ ready /\ m \in Messages
    /\ UNCHANGED <<ready, down, closed, asked, known, loaded, clientSide>>

LEMMA TextHandled ==
  ASSUME Typed, NEW c \in Clients, OnClientText(c), ready
  PROVE  Handles(c, Head(toGateway[c])) /\ UNCHANGED backlog
<1>1. /\ toGateway[c] # <<>> /\ toGateway' = [toGateway EXCEPT ![c] = Tail(@)] /\ backlog[c] = <<>> /\ backlog' = backlog
      /\ Dispatch(c, Head(toGateway[c])) /\ ~down /\ UNCHANGED <<ready, down, closed, asked, known, loaded, clientSide>>
  BY DEF OnClientText
<1>2. toGateway[c] \in Seq(Messages) /\ Tail(toGateway[c]) \in Seq(Messages) /\ toGateway \in [Clients -> Seq(Messages)]
      /\ Head(toGateway[c]) \in Messages
  BY <1>1, ReadTyped DEF Typed, GatewaySide
<1>3. <<>> \o toGateway[c] = toGateway[c] /\ <<>> \o Tail(toGateway[c]) = Tail(toGateway[c])
  BY <1>2, ConcatEmptySeq
<1>4. Pending(c) = toGateway[c] /\ Pending(c)' = Tail(toGateway[c])
  BY <1>1, <1>2, <1>3 DEF Pending
<1>5. \A d \in Clients \ {c} : Pending(d)' = Pending(d)
  BY <1>1, <1>2 DEF Pending
<1> QED  BY <1>1, <1>2, <1>4, <1>5 DEF Handles, Reads

LEMMA BacklogHandled ==
  ASSUME Typed, NEW c \in Clients, DispatchBacklog(c)
  PROVE  Handles(c, Head(backlog[c])) /\ UNCHANGED toGateway /\ backlog' = [backlog EXCEPT ![c] = Tail(@)] /\ backlog[c] # <<>>
<1>1. /\ backlog[c] # <<>> /\ backlog' = [backlog EXCEPT ![c] = Tail(@)] /\ toGateway' = toGateway
      /\ Dispatch(c, Head(backlog[c])) /\ ~down /\ ready /\ UNCHANGED <<ready, down, closed, asked, known, loaded, clientSide>>
  BY DEF DispatchBacklog
<1>2. /\ backlog[c] \in Seq(Messages) /\ toGateway[c] \in Seq(Messages) /\ backlog \in [Clients -> Seq(Messages)]
      /\ Head(backlog[c]) \in Messages
  BY <1>1, ReadTyped DEF Typed, GatewaySide
<1>3. /\ backlog[c] \o toGateway[c] # <<>> /\ Head(backlog[c] \o toGateway[c]) = Head(backlog[c])
      /\ Tail(backlog[c]) \o toGateway[c] = Tail(backlog[c] \o toGateway[c])
  BY <1>1, <1>2, TailBehind
<1>4. Pending(c) # <<>> /\ Head(Pending(c)) = Head(backlog[c]) /\ Pending(c)' = Tail(Pending(c))
  BY <1>1, <1>2, <1>3 DEF Pending
<1>5. \A d \in Clients \ {c} : Pending(d)' = Pending(d)
  BY <1>1, <1>2 DEF Pending
<1> QED  BY <1>1, <1>2, <1>4, <1>5 DEF Handles, Reads

\* Before the gateway is ready a message only moves to the backlog.
LEMMA TextKept ==
  ASSUME Typed, NEW c \in Clients, OnClientText(c), ~ready
  PROVE  /\ \A d \in Clients : Pending(d)' = Pending(d)
         /\ UNCHANGED <<ready, down, closed, toClient, calls, subscriptions, serverRequests, asked, outcome, claudeSide, clientSide>>
<1>1. /\ toGateway[c] # <<>> /\ toGateway' = [toGateway EXCEPT ![c] = Tail(@)]
      /\ backlog' = [backlog EXCEPT ![c] = Append(@, Head(toGateway[c]))]
      /\ UNCHANGED <<calls, toClient, subscriptions, serverRequests, outcome, turn>>
      /\ UNCHANGED <<ready, down, closed, asked, known, loaded, clientSide>>
  BY DEF OnClientText
<1>2. /\ backlog[c] \in Seq(Messages) /\ toGateway[c] \in Seq(Messages)
      /\ backlog \in [Clients -> Seq(Messages)] /\ toGateway \in [Clients -> Seq(Messages)]
  BY DEF Typed, GatewaySide
<1>3. Append(backlog[c], Head(toGateway[c])) \o Tail(toGateway[c]) = backlog[c] \o toGateway[c]
  BY <1>1, <1>2, MoveHead
<1>4. Pending(c)' = Pending(c)
  BY <1>1, <1>2, <1>3 DEF Pending
<1>5. \A d \in Clients \ {c} : Pending(d)' = Pending(d)
  BY <1>1, <1>2 DEF Pending
<1> QED  BY <1>1, <1>4, <1>5 DEF claudeSide

LEMMA PostWaits ==
  ASSUME Typed, NEW c \in Clients, NEW m \in Messages, Post(c, m)
  PROVE  Pending(c)' = Append(Pending(c), m) /\ \A d \in Clients \ {c} : Pending(d)' = Pending(d)
<1>1. /\ toGateway' = [toGateway EXCEPT ![c] = Append(@, m)] /\ backlog' = backlog
      /\ backlog[c] \in Seq(Messages) /\ toGateway[c] \in Seq(Messages) /\ toGateway \in [Clients -> Seq(Messages)]
  BY DEF Post, Typed, GatewaySide
<1>2. backlog[c] \o Append(toGateway[c], m) = Append(backlog[c] \o toGateway[c], m)
  <2>1. \A b \in Seq(Messages), t \in Seq(Messages), x \in Messages : b \o Append(t, x) = Append(b \o t, x)
    BY AppendBehind
  <2>2. backlog[c] \in Seq(Messages) /\ toGateway[c] \in Seq(Messages)
    BY <1>1
  <2> QED  BY <2>1, <2>2
<1>3. Pending(c)' = Append(Pending(c), m)
  <2>1. toGateway'[c] = Append(toGateway[c], m)
    BY <1>1
  <2> QED  BY <1>1, <1>2, <2>1 DEF Pending
<1>4. \A d \in Clients \ {c} : Pending(d)' = Pending(d)
  BY <1>1 DEF Pending
<1> QED  BY <1>3, <1>4

-----------------------------------------------------------------------------
(* Chats are opened once, and left when the client is told.                  *)

LEMMA EmptyInOrder ==
  /\ \A x : ~In(<<>>, x) /\ Once(<<>>, x)
  /\ \A A : ~Meets(<<>>, A)
  /\ \A x, y : Followed(<<>>, x, y)
  /\ \A A, x : Preceded(<<>>, A, x)
  /\ \A X, A : NoneAfter(<<>>, X, A)
BY DEF In, Once, Meets, Followed, Preceded, NoneAfter

LEMMA RoomsStart == ASSUME RequestsInit PROVE RoomsInv
<1>1. PICK viewers \in [Rooms -> SUBSET Clients] :
        /\ \A r \in Rooms : viewers[r] # {} => ready
        /\ subscriptions = viewers
        /\ views = [c \in Clients |-> [r \in Rooms |-> IF c \in viewers[r] THEN "viewing" ELSE "no"]]
  BY DEF RequestsInit
<1>2. /\ closed = {} /\ asked = <<>> /\ loaded = {} /\ Ids = {}
      /\ \A c \in Clients : toGateway[c] = <<>> /\ backlog[c] = <<>> /\ toClient[c] = <<>> /\ calls[c] = {} /\ dialogs[c] = {}
  BY DEF RequestsInit, Ids
<1>3. RoomsKnown /\ Early
  BY <1>1, <1>2 DEF RoomsKnown, Early
<1>4. ASSUME NEW c \in Clients, NEW r \in Rooms PROVE OpensOnce(c, r) /\ Stands(c, r)
  <2>1. Pending(c) = <<>> /\ toClient[c] = <<>> /\ calls[c] = {}
    BY <1>2, ConcatEmptySeq, EmptySeq DEF Pending
  <2>2. \A x, y : ~In(<<>>, x) /\ Once(<<>>, x) /\ Followed(<<>>, x, y)
    BY EmptyInOrder
  <2>3. IF c \in subscriptions[r] THEN views[c][r] = "viewing" ELSE views[c][r] = "no"
    BY <1>1
  <2>4. OpensOnce(c, r)
    BY <2>1, <2>2 DEF OpensOnce, Waits
  <2> QED  BY <2>1, <2>2, <2>3, <2>4 DEF Stands, Waits, Replied
<1> QED  BY <1>3, <1>4 DEF RoomsInv

\* What a step leaves of the answers on their way to a client.
SameReplies(c) ==
    \A type \in RoomTypes, r \in Rooms :
        /\ Replied(c, type, r)' <=> Replied(c, type, r)
        /\ Once(toClient[c], Reply(type, r)) => Once(toClient'[c], Reply(type, r))

LEMMA FrameIsNoReply ==
  ASSUME NEW c \in Clients, NEW S, toClient[c] \in Seq(S), NEW f \in S, f.type # "reply",
         toClient'[c] = toClient[c] \/ toClient'[c] = Append(toClient[c], f)
  PROVE  SameReplies(c)
<1>1. ASSUME NEW type, NEW r PROVE f # Reply(type, r)
  BY DEF Reply
<1>2. ASSUME NEW s \in Seq(S), NEW x, f # x
      PROVE  /\ In(Append(s, f), x) <=> In(s, x)
             /\ Once(s, x) => Once(Append(s, f), x)
  BY <1>2, AppendInOrder
<1>3. ASSUME NEW type \in RoomTypes, NEW r \in Rooms
      PROVE  /\ Replied(c, type, r)' <=> Replied(c, type, r)
             /\ Once(toClient[c], Reply(type, r)) => Once(toClient'[c], Reply(type, r))
  <2>1. f # Reply(type, r)
    BY <1>1
  <2> HIDE DEF Reply
  <2>2. /\ In(Append(toClient[c], f), Reply(type, r)) <=> In(toClient[c], Reply(type, r))
        /\ Once(toClient[c], Reply(type, r)) => Once(Append(toClient[c], f), Reply(type, r))
    BY <1>2, <2>1
  <2> QED  BY <2>2 DEF Replied, Reply, Msg
<1> QED  BY <1>3 DEF SameReplies

LEMMA NoteIsNoReply ==
  ASSUME Typed, NEW c \in Clients, NEW f \in Notes, toClient'[c] = toClient[c] \/ toClient'[c] = Append(toClient[c], f)
  PROVE  SameReplies(c)
<1>1. toClient[c] \in Seq(Notes \cup Replies) /\ f \in Notes \cup Replies /\ f.type # "reply"
  BY DEF Typed, Notes
<1> QED  BY <1>1, FrameIsNoReply

LEMMA SettledReplies ==
  ASSUME Typed, NEW r \in Rooms, NEW ids \in SUBSET Ids,
         toClient' = Emit(r, [type |-> "resolved", ids |-> ids])
  PROVE  \A d \in Clients : SameReplies(d)
<1>1. [type |-> "resolved", ids |-> ids] \in Notes
  BY DEF Notes
<1>2. ASSUME NEW d \in Clients
      PROVE  toClient'[d] = toClient[d] \/ toClient'[d] = Append(toClient[d], [type |-> "resolved", ids |-> ids])
  BY <1>1, EmitSends
<1> QED  BY <1>1, <1>2, NoteIsNoReply

LEMMA AskedReplies ==
  ASSUME Typed, NEW c \in Clients, NEW r \in Rooms, toClient' = Asking(toClient, c, Of(r))
  PROVE  \A d \in Clients : SameReplies(d)
<1> DEFINE f == [type |-> "ask", ids |-> Small(Of(r))]
<1>1. f \in Notes /\ \A d \in Clients : toClient'[d] = toClient[d] \/ toClient'[d] = Append(toClient[d], f)
  BY AskingSends
<1> HIDE DEF f
<1> QED  BY <1>1, NoteIsNoReply

LEMMA UntouchedReplies == ASSUME NEW c \in Clients, toClient'[c] = toClient[c] PROVE SameReplies(c)
BY DEF SameReplies, Replied, Reply, Msg

\* What a handler does that bears on who stands how to which chat.
Effect(c, m) ==
    /\ \/ m.type # "unsubscribe" /\ \A d \in Clients : SameReplies(d)
       \/ m.type = "unsubscribe" /\ toClient' = Send(toClient, c, Reply("unsubscribe", m.room))
    /\ \/ UNCHANGED subscriptions /\ m.type \notin {"resume", "unsubscribe"}
       \/ m.type = "resume" /\ subscriptions' = [subscriptions EXCEPT ![m.room] = @ \cup {c}]
       \/ m.type = "unsubscribe" /\ subscriptions' = [subscriptions EXCEPT ![m.room] = @ \ {c}]
    /\ \/ UNCHANGED calls
       \/ m.type # "unsubscribe" /\ calls' = [calls EXCEPT ![c] = @ \cup {m}]

LEMMA DispatchEffect ==
  ASSUME Typed, NEW c \in Clients, NEW m \in Messages, Dispatch(c, m)
  PROVE  Effect(c, m)
<1>1. ASSUME ResolveServerRequest(c, m) PROVE Effect(c, m)
  <2>1. m.type = "answer" /\ UNCHANGED <<calls, subscriptions>>
    BY <1>1 DEF ResolveServerRequest
  <2>2. CASE m.id \in serverRequests
    <3>1. m.id \in Ids /\ {m.id} \in SUBSET Ids
      BY <2>2 DEF Typed, GatewaySide
    <3>2. asked[m.id].room \in Rooms
      <4>1. asked[m.id] \in [room : Rooms, big : BOOLEAN]
        BY <3>1, ElementOfSeq DEF Typed, GatewaySide, Ids
      <4> QED  BY <4>1
    <3>3. toClient' = Emit(asked[m.id].room, [type |-> "resolved", ids |-> {m.id}])
      BY <1>1, <2>2 DEF ResolveServerRequest
    <3> QED  BY <2>1, <3>1, <3>2, <3>3, SettledReplies DEF Effect
  <2>3. CASE m.id \notin serverRequests
    BY <1>1, <2>1, <2>3, UntouchedReplies DEF ResolveServerRequest, Effect
  <2> QED  BY <2>2, <2>3
<1>2. ASSUME Resume(c, m) PROVE Effect(c, m)
  <2>1. /\ m.type = "resume" /\ m.room \in Rooms /\ calls' = [calls EXCEPT ![c] = @ \cup {m}]
        /\ subscriptions' = [subscriptions EXCEPT ![m.room] = @ \cup {c}]
        /\ toClient' = toClient \/ toClient' = Asking(toClient, c, Of(m.room))
    BY <1>2, MessageForms DEF Resume, Subscribe
  <2>2. \A d \in Clients : SameReplies(d)
    BY <2>1, AskedReplies, UntouchedReplies
  <2> QED  BY <2>1, <2>2 DEF Effect
<1>3. ASSUME Wait(c, m) PROVE Effect(c, m)
  BY <1>3, UntouchedReplies DEF Wait, Effect
<1>4. ASSUME Unsubscribe(c, m) PROVE Effect(c, m)
  <2>1. m.type = "unsubscribe" /\ m = Msg("unsubscribe", m.room)
    BY <1>4, MessageForms DEF Unsubscribe
  <2>2. /\ UNCHANGED calls /\ subscriptions' = [subscriptions EXCEPT ![m.room] = @ \ {c}]
        /\ toClient' = Send(toClient, c, [type |-> "reply", call |-> m])
    BY <1>4 DEF Unsubscribe, Respond
  <2>3. [type |-> "reply", call |-> m] = Reply("unsubscribe", m.room)
    BY <2>1 DEF Reply
  <2> QED  BY <2>1, <2>2, <2>3 DEF Effect
<1>5. ASSUME Interrupt(c, m) PROVE Effect(c, m)
  <2>1. m.type = "interrupt" /\ m.room \in Rooms /\ UNCHANGED subscriptions /\ calls' = [calls EXCEPT ![c] = @ \cup {m}]
    BY <1>5, MessageForms DEF Interrupt
  <2>2. toClient' = toClient \/ toClient' = Emit(m.room, [type |-> "resolved", ids |-> Of(m.room)])
    BY <1>5 DEF Interrupt, CancelServerRequests
  <2>3. Of(m.room) \in SUBSET Ids
    BY DEF Of, Typed, GatewaySide
  <2>4. \A d \in Clients : SameReplies(d)
    BY <2>1, <2>2, <2>3, SettledReplies, UntouchedReplies
  <2> QED  BY <2>1, <2>4 DEF Effect
<1> QED  BY <1>1, <1>2, <1>3, <1>4, <1>5 DEF Dispatch

LEMMA MessagesDiffer ==
  ASSUME NEW type, NEW other, NEW r, NEW q
  PROVE  /\ (Msg(type, r) = Msg(other, q)) => type = other /\ r = q
         /\ (Reply(type, r) = Reply(other, q)) => type = other /\ r = q
<1>1. ASSUME Msg(type, r) = Msg(other, q) PROVE type = other /\ r = q
  <2>1. Msg(type, r).type = type /\ Msg(type, r).room = r /\ Msg(other, q).type = other /\ Msg(other, q).room = q
    BY DEF Msg
  <2> QED  BY <1>1, <2>1
<1>2. (Reply(type, r) = Reply(other, q)) => Msg(type, r) = Msg(other, q)
  <2>1. Reply(type, r).call = Msg(type, r) /\ Reply(other, q).call = Msg(other, q)
    BY DEF Reply
  <2> QED  BY <2>1
<1> QED  BY <1>1, <1>2

\* The first message is taken out, the others wait as they did.
LEMMA ReadOrder ==
  ASSUME Typed, NEW c \in Clients, NEW m, Reads(c, m)
  PROVE  /\ \A x : In(Pending(c), x) <=> m = x \/ In(Pending(c)', x)
         /\ \A x : Once(Pending(c), x) => Once(Pending(c)', x) /\ (m = x => ~In(Pending(c)', x))
         /\ \A x, y : Followed(Pending(c), x, y) => Followed(Pending(c)', x, y) /\ (m = x => In(Pending(c)', y))
<1>1. /\ Pending(c) \in Seq(Messages) /\ Pending(c) # <<>> /\ m = Head(Pending(c))
      /\ Pending(c)' = Tail(Pending(c))
  BY PendingTyped DEF Reads
<1> QED  BY <1>1, TailInOrder

LEMMA HandledOpens ==
  ASSUME Typed, NEW c \in Clients, NEW m, Handles(c, m),
         NEW d \in Clients, NEW r \in Rooms, OpensOnce(d, r)
  PROVE  OpensOnce(d, r)'
<1> DEFINE s == Msg("start", r)
<1>1. m \in Messages /\ UNCHANGED <<known, views>> /\ Effect(c, m) /\ Reads(c, m)
  BY DispatchEffect DEF Handles, clientSide
<1>2. calls \in [Clients -> SUBSET Messages]
  BY DEF Typed, GatewaySide
<1>3. s' = s
  BY DEF Msg
<1> HIDE DEF s
<1>4. CASE d # c
  <2>1. Pending(d)' = Pending(d) /\ calls'[d] = calls[d]
    BY <1>1, <1>2, <1>4 DEF Reads, Effect
  <2> QED  BY <1>1, <1>3, <2>1 DEF OpensOnce, Waits, s
<1>5. CASE d = c
  <2>1. calls'[c] = calls[c] \/ calls'[c] = calls[c] \cup {m}
    BY <1>1, <1>2 DEF Effect
  <2>2. Once(Pending(c), s) /\ (In(Pending(c), s) => s \notin calls[c])
        /\ ((In(Pending(c), s) \/ s \in calls[c]) =>
             r \notin known /\ views[c][r] = "opening" /\ \A e \in Clients \ {c} : views[e][r] = "no")
    BY <1>5 DEF OpensOnce, Waits, s
  <2>3. Once(Pending(c)', s) /\ (m = s => ~In(Pending(c)', s)) /\ (In(Pending(c), s) <=> m = s \/ In(Pending(c)', s))
    BY <1>1, <2>2, ReadOrder
  <2>4. Once(Pending(c)', s) /\ (In(Pending(c)', s) => s \notin calls'[c])
        /\ ((In(Pending(c)', s) \/ s \in calls'[c]) =>
             r \notin known /\ views[c][r] = "opening" /\ \A e \in Clients \ {c} : views[e][r] = "no")
    BY <2>1, <2>2, <2>3
  <2> QED  BY <1>1, <1>3, <1>5, <2>4 DEF OpensOnce, Waits, s
<1> QED  BY <1>4, <1>5

LEMMA AnsweredReplies ==
  ASSUME Typed, NEW c \in Clients, c \notin closed, NEW other \in RoomTypes, NEW q \in Rooms,
         toClient'[c] = Append(toClient[c], Reply(other, q)), NEW type \in RoomTypes, NEW r \in Rooms
  PROVE  /\ Replied(c, type, r)' <=> (Replied(c, type, r) \/ (type = other /\ r = q))
         /\ (Once(toClient[c], Reply(type, r)) /\ ((type = other /\ r = q) => ~Replied(c, type, r)))
              => Once(toClient'[c], Reply(type, r))
<1> DEFINE f == Reply(other, q)
           x == Reply(type, r)
<1>1. toClient[c] \in Seq(Notes \cup Replies) /\ f \in Notes \cup Replies
  <2>1. Msg(other, q) \in Messages
    BY MessagesOf
  <2> QED  BY <2>1 DEF Typed, Reply, Replies
<1>2. (f = x) <=> (type = other /\ r = q)
  BY MessagesDiffer
<1>3. x' = x
  BY DEF Reply, Msg
<1>4. toClient'[c] = Append(toClient[c], f)
  OBVIOUS
<1> HIDE DEF f, x
<1>5. /\ In(toClient'[c], x) <=> In(toClient[c], x) \/ f = x
      /\ (Once(toClient[c], x) /\ (f = x => ~In(toClient[c], x))) => Once(toClient'[c], x)
  BY <1>1, <1>4, AppendInOrder
<1> QED  BY <1>2, <1>3, <1>5 DEF Replied, x

LEMMA HandledStands ==
  ASSUME Typed, NEW c \in Clients, NEW m, Handles(c, m),
         NEW d \in Clients, NEW r \in Rooms, d \notin closed, Stands(d, r)
  PROVE  Stands(d, r)'
<1> DEFINE start == Msg("start", r)
           unsub == Msg("unsubscribe", r)
           resume == Msg("resume", r)
<1>1. m \in Messages /\ UNCHANGED views /\ Effect(c, m) /\ Reads(c, m)
  BY DispatchEffect DEF Handles, clientSide
<1>2. calls \in [Clients -> SUBSET Messages] /\ subscriptions \in [Rooms -> SUBSET Clients]
      /\ toClient \in [Clients -> Seq(Notes \cup Replies)]
  BY DEF Typed, GatewaySide
<1>3. start' = start /\ unsub' = unsub /\ resume' = resume /\ "start" \in RoomTypes /\ "unsubscribe" \in RoomTypes
      /\ start.type = "start" /\ resume.type = "resume" /\ unsub.type = "unsubscribe" /\ unsub.room = r /\ resume.room = r
  BY DEF Msg, RoomTypes
<1>4. (m.type = "resume" => m.room \in Rooms /\ m = Msg("resume", m.room))
      /\ (m.type = "unsubscribe" => m.room \in Rooms /\ m = Msg("unsubscribe", m.room))
  BY <1>1, MessageForms
<1>5. CASE d # c
  <2>1. Pending(d)' = Pending(d) /\ calls'[d] = calls[d] /\ (d \in subscriptions'[r] <=> d \in subscriptions[r])
    <3>1. Pending(d)' = Pending(d)
      BY <1>1, <1>5 DEF Reads
    <3>2. calls'[d] = calls[d]
      BY <1>1, <1>2, <1>5 DEF Effect
    <3>3. d \in subscriptions'[r] <=> d \in subscriptions[r]
      <4>1. \/ subscriptions' = subscriptions
            \/ m.room \in Rooms /\ subscriptions' = [subscriptions EXCEPT ![m.room] = @ \cup {c}]
            \/ m.room \in Rooms /\ subscriptions' = [subscriptions EXCEPT ![m.room] = @ \ {c}]
        BY <1>1, <1>4 DEF Effect
      <4> QED  BY <1>2, <1>5, <4>1
    <3> QED  BY <3>1, <3>2, <3>3
  <2>2. SameReplies(d)
    <3>1. CASE m.type # "unsubscribe"
      BY <1>1, <3>1 DEF Effect
    <3>2. CASE m.type = "unsubscribe"
      <4>1. toClient'[d] = toClient[d]
        BY <1>1, <1>2, <1>5, <3>2 DEF Effect, Send
      <4> QED  BY <4>1, UntouchedReplies
    <3> QED  BY <3>1, <3>2
  <2>3. /\ Replied(d, "start", r)' <=> Replied(d, "start", r)
        /\ Replied(d, "unsubscribe", r)' <=> Replied(d, "unsubscribe", r)
        /\ Once(toClient[d], Reply("start", r)) => Once(toClient'[d], Reply("start", r))
        /\ Once(toClient[d], Reply("unsubscribe", r)) => Once(toClient'[d], Reply("unsubscribe", r))
    BY <1>3, <2>2 DEF SameReplies
  <2> QED  BY <1>1, <2>1, <2>3 DEF Stands, Waits, Reply, Msg
<1>6. CASE d = c
  <2>1. /\ \A x : In(Pending(c), x) <=> m = x \/ In(Pending(c)', x)
        /\ \A x : Once(Pending(c), x) => Once(Pending(c)', x) /\ (m = x => ~In(Pending(c)', x))
        /\ \A x, y : Followed(Pending(c), x, y) => Followed(Pending(c)', x, y) /\ (m = x => In(Pending(c)', y))
    BY <1>1, ReadOrder
  <2>2. calls'[c] = calls[c] \/ calls'[c] = calls[c] \cup {m}
    BY <1>1, <1>2 DEF Effect
  <2>3. /\ c \in subscriptions'[r] => c \in subscriptions[r] \/ m = resume
        /\ c \in subscriptions[r] => c \in subscriptions'[r] \/ m = unsub
        /\ m = unsub => c \notin subscriptions'[r]
    BY <1>1, <1>2, <1>3, <1>4 DEF Effect
  <2>4. /\ Replied(c, "start", r)' <=> Replied(c, "start", r)
        /\ Once(toClient[c], Reply("start", r)) => Once(toClient'[c], Reply("start", r))
        /\ Replied(c, "unsubscribe", r)' <=> Replied(c, "unsubscribe", r) \/ m = unsub
        /\ (Once(toClient[c], Reply("unsubscribe", r)) /\ (m = unsub => ~Replied(c, "unsubscribe", r)))
             => Once(toClient'[c], Reply("unsubscribe", r))
    <3>1. CASE m.type # "unsubscribe"
      BY <1>1, <1>3, <3>1 DEF Effect, SameReplies
    <3>2. CASE m.type = "unsubscribe"
      <4>1. toClient'[c] = Append(toClient[c], Reply("unsubscribe", m.room)) /\ m.room \in Rooms
        BY <1>1, <1>2, <1>4, <1>6, <3>2 DEF Effect, Send
      <4>2. m = unsub <=> m.room = r
        BY <1>3, <1>4, <3>2
      <4>3. ASSUME NEW type \in RoomTypes
            PROVE  /\ Replied(c, type, r)' <=> (Replied(c, type, r) \/ (type = "unsubscribe" /\ r = m.room))
                   /\ (Once(toClient[c], Reply(type, r)) /\ ((type = "unsubscribe" /\ r = m.room) => ~Replied(c, type, r)))
                        => Once(toClient'[c], Reply(type, r))
        BY <1>3, <1>6, <4>1, AnsweredReplies
      <4> HIDE DEF unsub
      <4> QED  BY <1>3, <4>2, <4>3
    <3> QED  BY <3>1, <3>2
  <2> DEFINE P == Pending(c)
             v == views[c][r]
  <2>5. /\ Once(toClient[c], Reply("start", r)) /\ Once(toClient[c], Reply("unsubscribe", r)) /\ Once(P, unsub)
        /\ Replied(c, "start", r) => v = "opening" /\ c \in subscriptions[r] /\ ~In(P, start) /\ start \notin calls[c]
        /\ (v = "opening" /\ c \in subscriptions[r]) => Replied(c, "start", r)
        /\ (In(P, unsub) \/ Replied(c, "unsubscribe", r)) => v = "leaving"
        /\ In(P, unsub) => ~Replied(c, "unsubscribe", r)
        /\ v # "viewing" => Followed(P, resume, unsub)
        /\ (v = "leaving" /\ c \in subscriptions[r]) => In(P, unsub)
        /\ v = "no" => c \notin subscriptions[r]
    BY <1>6 DEF Stands, Waits
  <2>6. start # unsub /\ resume # unsub /\ start # resume
    BY <1>3
  <2> HIDE DEF start, unsub, resume, v
  <2>7. /\ Once(toClient'[c], Reply("start", r)) /\ Once(toClient'[c], Reply("unsubscribe", r)) /\ Once(P', unsub)
    BY <2>1, <2>4, <2>5
  <2>8. Replied(c, "start", r)' => v = "opening" /\ c \in subscriptions'[r] /\ ~In(P', start) /\ start \notin calls'[c]
    BY <2>1, <2>2, <2>3, <2>4, <2>5
  <2>9. (v = "opening" /\ c \in subscriptions'[r]) => Replied(c, "start", r)'
    BY <2>1, <2>3, <2>4, <2>5
  <2>10. /\ (In(P', unsub) \/ Replied(c, "unsubscribe", r)') => v = "leaving"
         /\ In(P', unsub) => ~Replied(c, "unsubscribe", r)'
    BY <2>1, <2>4, <2>5
  <2>11. v # "viewing" => Followed(P', resume, unsub)
    BY <2>1, <2>5
  <2>12. (v = "leaving" /\ c \in subscriptions'[r]) => In(P', unsub)
    BY <2>1, <2>3, <2>5
  <2>13. v = "no" => c \notin subscriptions'[r]
    BY <2>1, <2>3, <2>5
  <2>14. v' = v
    BY <1>1 DEF v
  <2> HIDE DEF P
  <2> QED
    BY <1>3, <1>6, <2>7, <2>8, <2>9, <2>10, <2>11, <2>12, <2>13, <2>14 DEF Stands, Waits, P, v, start, unsub, resume, Reply, Msg
<1> QED  BY <1>5, <1>6

\* What a handler does to the approvals: nothing, or some of a chat are
\* settled and its subscribers told, or a client is subscribed or answered.
NoteEffect(c, m) ==
    \/ UNCHANGED <<serverRequests, toClient, subscriptions>> /\ (m.type = "answer" => m.id \notin serverRequests)
    \/ \E r \in Rooms : \E ids \in SUBSET Of(r) :
          /\ serverRequests' = serverRequests \ ids /\ UNCHANGED subscriptions
          /\ toClient' = Emit(r, [type |-> "resolved", ids |-> ids])
          /\ m.type = "answer" => m.id \in ids
    \/ /\ m.type = "resume" /\ m.room \in Rooms /\ UNCHANGED serverRequests
       /\ subscriptions' = [subscriptions EXCEPT ![m.room] = @ \cup {c}]
       /\ toClient' = IF c \in subscriptions[m.room] THEN toClient ELSE Asking(toClient, c, Of(m.room))
    \/ /\ m.type = "unsubscribe" /\ m.room \in Rooms /\ UNCHANGED serverRequests
       /\ subscriptions' = [subscriptions EXCEPT ![m.room] = @ \ {c}]
       /\ toClient' = Send(toClient, c, Reply("unsubscribe", m.room))

LEMMA DispatchNotes ==
  ASSUME Typed, NEW c \in Clients, NEW m \in Messages, Dispatch(c, m)
  PROVE  NoteEffect(c, m)
<1>1. ASSUME ResolveServerRequest(c, m) PROVE NoteEffect(c, m)
  <2>1. CASE m.id \in serverRequests
    <3>1. m.id \in Ids /\ asked[m.id].room \in Rooms
      <4>1. m.id \in Ids
        BY <2>1 DEF Typed, GatewaySide
      <4>2. asked[m.id] \in [room : Rooms, big : BOOLEAN]
        BY <4>1, ElementOfSeq DEF Typed, GatewaySide, Ids
      <4> QED  BY <4>1, <4>2
    <3>2. {m.id} \in SUBSET Of(asked[m.id].room)
      BY <2>1 DEF Of
    <3>3. /\ serverRequests' = serverRequests \ {m.id} /\ UNCHANGED subscriptions /\ m.id \in {m.id}
          /\ toClient' = Emit(asked[m.id].room, [type |-> "resolved", ids |-> {m.id}])
      BY <1>1, <2>1 DEF ResolveServerRequest
    <3> QED  BY <3>1, <3>2, <3>3 DEF NoteEffect
  <2>2. CASE m.id \notin serverRequests
    BY <1>1, <2>2 DEF ResolveServerRequest, NoteEffect
  <2> QED  BY <2>1, <2>2
<1>2. ASSUME Resume(c, m) PROVE NoteEffect(c, m)
  <2>1. m.type = "resume" /\ m.room \in Rooms /\ UNCHANGED serverRequests
    BY <1>2, MessageForms DEF Resume
  <2> QED  BY <1>2, <2>1 DEF Resume, Subscribe, NoteEffect
<1>3. ASSUME Wait(c, m) PROVE NoteEffect(c, m)
  BY <1>3 DEF Wait, NoteEffect
<1>4. ASSUME Unsubscribe(c, m) PROVE NoteEffect(c, m)
  <2>1. m.type = "unsubscribe" /\ m.room \in Rooms /\ m = Msg("unsubscribe", m.room) /\ UNCHANGED serverRequests
    BY <1>4, MessageForms DEF Unsubscribe
  <2>2. [type |-> "reply", call |-> m] = Reply("unsubscribe", m.room)
    BY <2>1 DEF Reply
  <2> QED  BY <1>4, <2>1, <2>2 DEF Unsubscribe, Respond, NoteEffect
<1>5. ASSUME Interrupt(c, m) PROVE NoteEffect(c, m)
  <2>1. m.type = "interrupt" /\ m.room \in Rooms /\ UNCHANGED subscriptions
    BY <1>5, MessageForms DEF Interrupt
  <2>2. CASE CancelServerRequests(m.room) /\ Of(m.room) # {}
    <3>1. /\ serverRequests' = serverRequests \ Of(m.room)
          /\ toClient' = Emit(m.room, [type |-> "resolved", ids |-> Of(m.room)])
      BY <2>2 DEF CancelServerRequests
    <3>2. Of(m.room) \in SUBSET Of(m.room)
      OBVIOUS
    <3>3. m.type # "answer"
      BY <2>1
    <3> QED  BY <2>1, <3>1, <3>2, <3>3 DEF NoteEffect
  <2>3. CASE CancelServerRequests(m.room) /\ Of(m.room) = {}
    BY <2>1, <2>3 DEF CancelServerRequests, NoteEffect
  <2>4. CASE UNCHANGED <<serverRequests, outcome, toClient>>
    BY <2>1, <2>4 DEF NoteEffect
  <2> QED  BY <1>5, <2>2, <2>3, <2>4 DEF Interrupt
<1> QED  BY <1>1, <1>2, <1>3, <1>4, <1>5 DEF Dispatch

\* Nothing is sent to a client that is gone.
LEMMA NothingToClosed ==
  ASSUME Typed, NEW c \in Clients, NEW m, NoteEffect(c, m), NEW d \in closed
  PROVE  toClient'[d] = toClient[d]
<1>1. d \in Clients
  BY DEF Typed, GatewaySide
<1>2. ASSUME NEW r \in Rooms, NEW ids \in SUBSET Of(r), toClient' = Emit(r, [type |-> "resolved", ids |-> ids])
      PROVE  toClient'[d] = toClient[d]
  BY <1>1, <1>2 DEF Emit
<1>3. ASSUME NEW r \in Rooms, toClient' = Asking(toClient, c, Of(r)) PROVE toClient'[d] = toClient[d]
  BY <1>1, <1>3, AskingSends
<1>4. ASSUME NEW f, toClient' = Send(toClient, c, f) PROVE toClient'[d] = toClient[d]
  BY <1>1, <1>4 DEF Send, Typed
<1> QED  BY <1>2, <1>3, <1>4 DEF NoteEffect

LEMMA HandledRooms ==
  ASSUME Typed, RoomsInv, NEW c \in Clients, NEW m, Handles(c, m),
         (backlog' = backlog) \/ (backlog[c] # <<>> /\ backlog' = [backlog EXCEPT ![c] = Tail(@)])
  PROVE  RoomsInv'
<1>1. m \in Messages /\ ready' /\ Effect(c, m) /\ NoteEffect(c, m) /\ UNCHANGED <<ready, closed, asked, known, loaded>>
  BY DispatchEffect, DispatchNotes DEF Handles
<1>2. RoomsKnown'
  BY <1>1 DEF RoomsInv, RoomsKnown, Ids
<1>3. Early'
  <2>1. \A d \in Clients : \A i \in DOMAIN backlog'[d] : backlog'[d][i].type # "answer"
    <3>1. CASE backlog' = backlog
      BY <3>1 DEF RoomsInv, Early
    <3>2. CASE backlog[c] # <<>> /\ backlog' = [backlog EXCEPT ![c] = Tail(@)]
      <4>1. backlog \in [Clients -> Seq(Messages)]
        BY DEF Typed, GatewaySide
      <4>2. /\ Len(backlog[c]) \in Nat /\ DOMAIN backlog[c] = 1 .. Len(backlog[c]) /\ Tail(backlog[c]) \in Seq(Messages)
            /\ DOMAIN Tail(backlog[c]) = 1 .. Len(backlog[c]) - 1
            /\ \A i \in 1 .. Len(backlog[c]) - 1 : Tail(backlog[c])[i] = backlog[c][i + 1]
        BY <3>2, <4>1, ReadTyped, LenProperties
      <4>3. \A i \in DOMAIN Tail(backlog[c]) : Tail(backlog[c])[i].type # "answer"
        <5>1. ASSUME NEW i \in DOMAIN Tail(backlog[c]) PROVE i + 1 \in DOMAIN backlog[c] /\ Tail(backlog[c])[i] = backlog[c][i + 1]
          BY <4>2
        <5> QED  BY <5>1 DEF RoomsInv, Early
      <4> QED  BY <3>2, <4>1, <4>3 DEF RoomsInv, Early
    <3> QED  BY <3>1, <3>2
  <2>2. \A d \in Clients : \A call \in calls'[d] : call.type # "unsubscribe"
    <3>1. \A d \in Clients : \A call \in calls[d] : call.type # "unsubscribe"
      BY DEF RoomsInv, Early
    <3>2. calls' = calls \/ (m.type # "unsubscribe" /\ calls' = [calls EXCEPT ![c] = calls[c] \cup {m}])
      BY <1>1 DEF Effect
    <3>3. CASE calls' = calls
      BY <3>1, <3>3
    <3>4. CASE m.type # "unsubscribe" /\ calls' = [calls EXCEPT ![c] = calls[c] \cup {m}]
      <4>1. \A d \in Clients : \A call \in calls'[d] : call \in calls[d] \/ call = m
        BY <3>4 DEF Typed, GatewaySide
      <4> QED  BY <3>1, <3>4, <4>1
    <3> QED  BY <3>2, <3>3, <3>4
  <2>3. \A d \in closed' : toClient'[d] = <<>>
    BY <1>1, NothingToClosed DEF RoomsInv, Early
  <2> QED  BY <1>1, <2>1, <2>2, <2>3 DEF Early
<1>4. \A d \in Clients, r \in Rooms : OpensOnce(d, r)' /\ (d \notin closed' => Stands(d, r)')
  BY <1>1, HandledOpens, HandledStands DEF RoomsInv
<1> QED  BY <1>2, <1>3, <1>4 DEF RoomsInv

\* A chat is new when its thread/start is done, so nothing was asked in it:
\* what is sent then, as after every wait, is the answer.
LEMMA FinishAnswers ==
  ASSUME Typed, RoomsInv, NEW c \in Clients, NEW call \in calls[c], Finish(c, call)
  PROVE  /\ call \in Messages /\ call.type # "unsubscribe" /\ ready
         /\ toClient' = Send(toClient, c, [type |-> "reply", call |-> call])
         /\ call.type = "start" =>
              /\ call.room \in Rooms /\ call = Msg("start", call.room) /\ call.room \notin known
              /\ \A id \in Ids : asked[id].room # call.room
<1>1. call \in Messages /\ call.type # "unsubscribe" /\ ready
  BY DEF Typed, GatewaySide, RoomsInv, Early
<1>2. ASSUME call.type = "start"
      PROVE  /\ call.room \in Rooms /\ call = Msg("start", call.room) /\ call.room \notin known
             /\ \A id \in Ids : asked[id].room # call.room
  <2>1. call.room \in Rooms /\ call = Msg("start", call.room)
    BY <1>1, <1>2, MessageForms
  <2>2. OpensOnce(c, call.room)
    BY <2>1 DEF RoomsInv
  <2>3. call.room \notin known
    BY <2>1, <2>2 DEF OpensOnce
  <2> QED  BY <2>1, <2>3 DEF RoomsInv, RoomsKnown
<1>3. toClient' = Send(toClient, c, [type |-> "reply", call |-> call])
  <2>1. CASE call.type = "start" /\ c \notin subscriptions[call.room]
    <3>1. Small(Of(call.room)) = {}
      BY <1>2, <2>1 DEF Small, Of, Typed, GatewaySide
    <3>2. toClient' = Respond(Asking(toClient, c, Of(call.room)), c, call)
      BY <2>1 DEF Finish
    <3> QED  BY <3>1, <3>2 DEF Asking, Respond
  <2>2. CASE ~(call.type = "start" /\ c \notin subscriptions[call.room])
    <3>1. toClient' = Respond(toClient, c, call)
      BY <2>2 DEF Finish
    <3> QED  BY <3>1 DEF Respond
  <2> QED  BY <2>1, <2>2
<1> QED  BY <1>1, <1>2, <1>3

LEMMA FinishOpens ==
  ASSUME Typed, RoomsInv, NEW c \in Clients, NEW call \in calls[c], Finish(c, call), NEW d \in Clients, NEW r \in Rooms
  PROVE  OpensOnce(d, r)'
<1> DEFINE s == Msg("start", r)
<1>1. /\ calls' = [calls EXCEPT ![c] = @ \ {call}] /\ calls \in [Clients -> SUBSET Messages]
      /\ known' = IF call.type = "start" THEN known \cup {call.room} ELSE known
      /\ UNCHANGED <<toGateway, backlog, views>>
  BY DEF Finish, clientSide, Typed, GatewaySide
<1>2. /\ calls'[d] \subseteq calls[d] /\ (d = c => call \notin calls'[d])
      /\ known' = known \/ (call.type = "start" /\ call = Msg("start", call.room) /\ known' = known \cup {call.room})
  BY <1>1, FinishAnswers
<1>3. Pending(d)' = Pending(d) /\ s' = s
  BY <1>1 DEF Pending, Msg
<1>4. /\ Once(Pending(d), s)
      /\ In(Pending(d), s) => s \notin calls[d]
      /\ (In(Pending(d), s) \/ s \in calls[d]) =>
           r \notin known /\ views[d][r] = "opening" /\ \A e \in Clients \ {d} : views[e][r] = "no"
  BY DEF RoomsInv, OpensOnce, Waits
<1>5. ASSUME In(Pending(d), s) \/ s \in calls'[d] PROVE r \notin known'
  <2>1. r \notin known /\ views[d][r] = "opening" /\ \A e \in Clients \ {d} : views[e][r] = "no"
    BY <1>2, <1>4, <1>5
  <2>2. CASE call.type = "start" /\ call.room = r
    <3>1. call = s
      BY <1>2, <2>2, FinishAnswers
    <3>2. c = d
      <4>1. s \in calls[c] /\ OpensOnce(c, r)
        BY <3>1 DEF RoomsInv
      <4>2. views[c][r] = "opening"
        BY <4>1 DEF OpensOnce
      <4> QED  BY <2>1, <4>2
    <3> QED  BY <1>2, <1>4, <1>5, <3>1, <3>2
  <2>3. CASE ~(call.type = "start" /\ call.room = r)
    BY <1>2, <2>1, <2>3
  <2> QED  BY <2>2, <2>3
<1> HIDE DEF s
<1>6. /\ Once(Pending(d), s)
      /\ In(Pending(d), s) => s \notin calls'[d]
      /\ (In(Pending(d), s) \/ s \in calls'[d]) =>
           r \notin known' /\ views[d][r] = "opening" /\ \A e \in Clients \ {d} : views[e][r] = "no"
  BY <1>2, <1>4, <1>5
<1> QED  BY <1>1, <1>3, <1>6 DEF OpensOnce, Waits, s

LEMMA FinishStands ==
  ASSUME Typed, RoomsInv, NEW c \in Clients, NEW call \in calls[c], Finish(c, call),
         NEW d \in Clients, NEW r \in Rooms, d \notin closed
  PROVE  Stands(d, r)'
<1> DEFINE start == Msg("start", r)
           unsub == Msg("unsubscribe", r)
           resume == Msg("resume", r)
           P == Pending(d)
           v == views[d][r]
<1>1. /\ calls' = [calls EXCEPT ![c] = @ \ {call}] /\ calls \in [Clients -> SUBSET Messages]
      /\ subscriptions' = IF call.type = "start" THEN [subscriptions EXCEPT ![call.room] = @ \cup {c}] ELSE subscriptions
      /\ subscriptions \in [Rooms -> SUBSET Clients] /\ toClient \in [Clients -> Seq(Notes \cup Replies)]
      /\ UNCHANGED <<toGateway, backlog, views>>
  BY DEF Finish, clientSide, Typed, GatewaySide
<1>2. /\ call \in Messages /\ call.type # "unsubscribe"
      /\ toClient' = Send(toClient, c, [type |-> "reply", call |-> call])
      /\ call.type = "start" => call.room \in Rooms /\ call = Msg("start", call.room)
  BY FinishAnswers
<1>3. P' = P /\ start' = start /\ unsub' = unsub /\ resume' = resume /\ v' = v /\ calls'[d] \subseteq calls[d]
      /\ start.type = "start" /\ start.room = r
  BY <1>1 DEF Pending, Msg
<1>4. Stands(d, r) /\ OpensOnce(d, r)
  BY DEF RoomsInv
<1>5. CASE d = c /\ call = start
  <2>1. toClient'[c] = Append(toClient[c], Reply("start", r)) /\ c \in subscriptions'[r] /\ call \notin calls'[c]
    BY <1>1, <1>2, <1>3, <1>5 DEF Send, Reply
  <2>2. /\ v = "opening" /\ ~In(P, start) /\ start \in calls[c]
    BY <1>4, <1>5 DEF OpensOnce, Waits
  <2>3. ~Replied(c, "start", r)
    BY <1>4, <1>5, <2>2 DEF Stands
  <2>4. /\ Replied(c, "start", r)' /\ Once(toClient'[c], Reply("start", r))
        /\ Replied(c, "unsubscribe", r)' <=> Replied(c, "unsubscribe", r)
        /\ Once(toClient[c], Reply("unsubscribe", r)) => Once(toClient'[c], Reply("unsubscribe", r))
    <3>1. ASSUME NEW type \in RoomTypes
          PROVE  /\ Replied(c, type, r)' <=> (Replied(c, type, r) \/ (type = "start" /\ r = r))
                 /\ (Once(toClient[c], Reply(type, r)) /\ ((type = "start" /\ r = r) => ~Replied(c, type, r)))
                       => Once(toClient'[c], Reply(type, r))
      <4>1. "start" \in RoomTypes
        BY DEF RoomTypes
      <4> QED  BY <1>5, <2>1, <4>1, AnsweredReplies
    <3>2. "start" \in RoomTypes /\ "unsubscribe" \in RoomTypes
      BY DEF RoomTypes
    <3>3. Once(toClient[c], Reply("start", r))
      BY <1>4, <1>5 DEF Stands
    <3> QED  BY <2>3, <3>1, <3>2, <3>3
  <2> QED
    BY <1>3, <1>4, <1>5, <2>1, <2>2, <2>4 DEF Stands, Waits, Reply, Msg
<1>6. CASE ~(d = c /\ call = start)
  <2>1. d \in subscriptions'[r] <=> d \in subscriptions[r]
    BY <1>1, <1>2, <1>6
  <2>2. ASSUME NEW type \in {"start", "unsubscribe"}
        PROVE  /\ Replied(d, type, r)' <=> Replied(d, type, r)
               /\ Once(toClient[d], Reply(type, r)) => Once(toClient'[d], Reply(type, r))
    <3> DEFINE f == [type |-> "reply", call |-> call]
               x == Reply(type, r)
    <3>1. x' = x
      BY DEF Reply, Msg
    <3>2. CASE d # c
      <4>1. toClient'[d] = toClient[d]
        BY <1>1, <1>2, <3>2 DEF Send
      <4> QED  BY <3>1, <4>1 DEF Replied
    <3>3. CASE d = c
      <4>1. toClient'[d] = Append(toClient[d], f) /\ toClient[d] \in Seq(Notes \cup Replies) /\ f \in Notes \cup Replies
        BY <1>1, <1>2, <3>3 DEF Send, Replies
      <4>2. f # x
        <5>1. call # Msg(type, r)
          BY <1>2, <1>6, <3>3 DEF Msg
        <5>2. f.call = call /\ x.call = Msg(type, r)
          BY DEF Reply
        <5> QED  BY <5>1, <5>2
      <4> HIDE DEF f, x
      <4>3. /\ In(toClient'[d], x) <=> In(toClient[d], x)
            /\ Once(toClient[d], x) => Once(toClient'[d], x)
        BY <4>1, <4>2, AppendInOrder
      <4> QED  BY <3>1, <4>3 DEF Replied, x
    <3> QED  BY <3>2, <3>3
  <2>3. /\ Replied(d, "start", r)' <=> Replied(d, "start", r)
        /\ Replied(d, "unsubscribe", r)' <=> Replied(d, "unsubscribe", r)
        /\ Once(toClient[d], Reply("start", r)) => Once(toClient'[d], Reply("start", r))
        /\ Once(toClient[d], Reply("unsubscribe", r)) => Once(toClient'[d], Reply("unsubscribe", r))
    BY <2>2
  <2> QED  BY <1>3, <1>4, <2>1, <2>3 DEF Stands, Waits, Reply, Msg
<1> QED  BY <1>5, <1>6

LEMMA FinishRooms ==
  ASSUME Typed, RoomsInv, NEW c \in Clients, NEW call \in calls[c], Finish(c, call)
  PROVE  RoomsInv'
<1>1. /\ calls' = [calls EXCEPT ![c] = @ \ {call}] /\ calls \in [Clients -> SUBSET Messages]
      /\ known \subseteq known' /\ ready /\ toClient' = Send(toClient, c, [type |-> "reply", call |-> call])
      /\ UNCHANGED <<ready, closed, toGateway, backlog, asked, loaded>>
  BY FinishAnswers DEF Finish, Typed, GatewaySide
<1>2. RoomsKnown'
  BY <1>1 DEF RoomsInv, RoomsKnown, Ids
<1>3. Early'
  <2>1. \A d \in Clients : \A x \in calls'[d] : x.type # "unsubscribe"
    BY <1>1 DEF RoomsInv, Early
  <2>2. \A d \in closed' : toClient'[d] = <<>>
    BY <1>1 DEF RoomsInv, Early, Send, Typed, GatewaySide
  <2> QED  BY <1>1, <2>1, <2>2 DEF RoomsInv, Early
<1>4. \A d \in Clients, r \in Rooms : OpensOnce(d, r)' /\ (d \notin closed' => Stands(d, r)')
  BY <1>1, FinishOpens, FinishStands
<1> QED  BY <1>2, <1>3, <1>4 DEF RoomsInv

\* Nothing changes in how clients stand to chats but what they are answered.
LEMMA RoomKept ==
  ASSUME NEW d \in Clients, NEW r \in Rooms, OpensOnce(d, r), d \notin closed' => Stands(d, r) /\ SameReplies(d),
         Pending(d)' = Pending(d), calls'[d] = calls[d], d \in subscriptions'[r] <=> d \in subscriptions[r],
         UNCHANGED <<known, views>>
  PROVE  OpensOnce(d, r)' /\ (d \notin closed' => Stands(d, r)')
<1>1. OpensOnce(d, r)'
  BY DEF OpensOnce, Waits, Msg
<1>2. ASSUME d \notin closed' PROVE Stands(d, r)'
  <2>1. "start" \in RoomTypes /\ "unsubscribe" \in RoomTypes /\ SameReplies(d) /\ Stands(d, r)
    BY <1>2 DEF RoomTypes
  <2>2. /\ Replied(d, "start", r)' <=> Replied(d, "start", r)
        /\ Replied(d, "unsubscribe", r)' <=> Replied(d, "unsubscribe", r)
        /\ Once(toClient[d], Reply("start", r)) => Once(toClient'[d], Reply("start", r))
        /\ Once(toClient[d], Reply("unsubscribe", r)) => Once(toClient'[d], Reply("unsubscribe", r))
    BY <2>1 DEF SameReplies
  <2> QED  BY <2>1, <2>2 DEF Stands, Waits, Reply, Msg
<1> QED  BY <1>1, <1>2

LEMMA AskRooms ==
  ASSUME Typed, Typed', RoomsInv, NEW r \in Rooms, NEW big \in BOOLEAN, ServerRequest(r, big)
  PROVE  RoomsInv'
<1> DEFINE new == Len(asked) + 1
           f == [type |-> "ask", ids |-> {new}]
<1>1. /\ asked' = Append(asked, [room |-> r, big |-> big]) /\ r \in loaded
      /\ toClient' = IF big THEN toClient ELSE Emit(r, f)
      /\ UNCHANGED <<ready, down, closed, toGateway, backlog, calls, subscriptions, known, loaded, views, dialogs>>
  BY DEF ServerRequest, claudeSide, clientSide
<1>2. /\ asked \in Seq([room : Rooms, big : BOOLEAN]) /\ Len(asked) \in Nat /\ Len(asked') = new
      /\ asked'[new] = [room |-> r, big |-> big] /\ \A i \in 1 .. Len(asked) : asked'[i] = asked[i]
  <2>1. asked \in Seq([room : Rooms, big : BOOLEAN]) /\ [room |-> r, big |-> big] \in [room : Rooms, big : BOOLEAN]
    BY DEF Typed, GatewaySide
  <2> QED  BY <1>1, <2>1, AppendProperties, LenProperties
<1>3. \A c \in Clients : toClient'[c] = toClient[c] \/ (c \in subscriptions[r] \ closed /\ toClient'[c] = Append(toClient[c], f))
  BY <1>1 DEF Emit
<1>4. RoomsKnown'
  <2>1. \A id \in Ids' : id \in Ids \/ id = new
    BY <1>2 DEF Ids
  <2> QED  BY <1>1, <1>2, <2>1 DEF RoomsInv, RoomsKnown, Ids
<1>5. Early'
  <2>1. \A c \in Clients : (~ready \/ c \in closed) => toClient'[c] = toClient[c]
    <3> HIDE DEF f
    <3> QED  BY <1>3 DEF RoomsInv, Early
  <2>2. UNCHANGED <<ready, closed, toGateway, backlog, calls, subscriptions, dialogs>> /\ closed \subseteq Clients
    BY <1>1 DEF Typed, GatewaySide
  <2>3. \A c \in closed' : toClient'[c] = <<>>
    BY <2>1, <2>2 DEF RoomsInv, Early
  <2> QED  BY <2>1, <2>2, <2>3 DEF RoomsInv, Early
<1>6. ASSUME NEW d \in Clients PROVE SameReplies(d)
  <2>1. new \in Ids'
    BY <1>2 DEF Ids
  <2>2. f \in (Notes \cup Replies)' /\ f.type # "reply"
    BY <2>1 DEF Notes
  <2>3. toClient[d] \in Seq((Notes \cup Replies)')
    <3>1. Ids \subseteq Ids'
      BY <1>2 DEF Ids
    <3>2. Notes \cup Replies \subseteq (Notes \cup Replies)'
      BY <3>1 DEF Notes, Replies
    <3>3. toClient[d] \in Seq(Notes \cup Replies)
      BY DEF Typed
    <3> QED  BY <3>2, <3>3, SeqMonotonic
  <2> HIDE DEF f
  <2> QED  BY <1>3, <2>2, <2>3, FrameIsNoReply
<1>7. ASSUME NEW d \in Clients, NEW q \in Rooms PROVE OpensOnce(d, q)' /\ (d \notin closed' => Stands(d, q)')
  <2>1. Pending(d)' = Pending(d) /\ OpensOnce(d, q) /\ (d \notin closed' => Stands(d, q))
    BY <1>1 DEF Pending, RoomsInv
  <2> QED  BY <1>1, <1>6, <2>1, RoomKept
<1> QED  BY <1>4, <1>5, <1>7 DEF RoomsInv

\* Messages that are dropped with their connection leave the backlog's alone.
LEMMA DroppedOrder ==
  ASSUME NEW S, NEW b \in Seq(S), NEW t \in Seq(S)
  PROVE  \A x : (In(b \o <<>>, x) => In(b \o t, x)) /\ (Once(b \o t, x) => Once(b \o <<>>, x))
<1>1. /\ b \o <<>> = b /\ DOMAIN b = 1 .. Len(b) /\ Len(b) \in Nat /\ Len(t) \in Nat
      /\ DOMAIN (b \o t) = 1 .. Len(b) + Len(t) /\ \A i \in 1 .. Len(b) + Len(t) : i <= Len(b) => (b \o t)[i] = b[i]
  BY ConcatProperties, ConcatEmptySeq, LenProperties
<1>2. \A i \in DOMAIN b : i \in DOMAIN (b \o t) /\ (b \o t)[i] = b[i]
  BY <1>1
<1> QED  BY <1>1, <1>2 DEF In, Once

LEMMA DroppedOpens ==
  ASSUME Typed, RoomsInv, NEW d \in Clients, NEW r \in Rooms, UNCHANGED <<backlog, known, views>>,
         toGateway'[d] \in {toGateway[d], <<>>}, calls'[d] \subseteq calls[d]
  PROVE  OpensOnce(d, r)'
<1>1. /\ \A x : In(Pending(d)', x) => In(Pending(d), x)
      /\ \A x : Once(Pending(d), x) => Once(Pending(d)', x)
  <2>1. backlog[d] \in Seq(Messages) /\ toGateway[d] \in Seq(Messages)
    BY DEF Typed, GatewaySide
  <2>2. CASE toGateway'[d] = toGateway[d]
    BY <2>2 DEF Pending
  <2>3. CASE toGateway'[d] = <<>>
    BY <2>1, <2>3, DroppedOrder DEF Pending
  <2> QED  BY <2>2, <2>3
<1> DEFINE s == Msg("start", r)
<1>2. s' = s /\ OpensOnce(d, r)
  BY DEF Msg, RoomsInv
<1> QED  BY <1>1, <1>2 DEF OpensOnce, Waits

LEMMA CloseRooms ==
  ASSUME Typed, RoomsInv, NEW c \in Clients, CloseConnection(c)
  PROVE  RoomsInv'
<1>1. /\ closed' = closed \cup {c} /\ subscriptions' = [r \in Rooms |-> subscriptions[r] \ {c}]
      /\ toGateway' = [toGateway EXCEPT ![c] = <<>>] /\ toClient' = [toClient EXCEPT ![c] = <<>>]
      /\ calls' = [calls EXCEPT ![c] = { call \in @ : call.type # "forward" }] /\ dialogs' = [dialogs EXCEPT ![c] = {}]
      /\ UNCHANGED <<ready, backlog, asked, known, loaded, views>>
  BY DEF CloseConnection, Detach, claudeSide
<1>2. /\ closed \subseteq Clients /\ toGateway \in [Clients -> Seq(Messages)] /\ toClient \in [Clients -> Seq(Notes \cup Replies)]
      /\ calls \in [Clients -> SUBSET Messages] /\ dialogs \in [Clients -> SUBSET Ids] /\ subscriptions \in [Rooms -> SUBSET Clients]
  BY DEF Typed, GatewaySide, OtherSides
<1>3. RoomsKnown'
  BY <1>1 DEF RoomsInv, RoomsKnown, Ids
<1>4. Early'
  <2>1. ASSUME NEW d \in Clients
        PROVE  /\ toGateway'[d] = toGateway[d] \/ toGateway'[d] = <<>>
               /\ toClient'[d] = <<>> \/ (d # c /\ toClient'[d] = toClient[d])
               /\ calls'[d] \subseteq calls[d] /\ dialogs'[d] \subseteq dialogs[d]
    BY <1>1, <1>2
  <2>2. ~ready => /\ \A r \in Rooms : subscriptions'[r] = {}
                  /\ \A d \in Clients : dialogs'[d] = {} /\ toClient'[d] = <<>> /\ calls'[d] = {}
    BY <1>1, <2>1 DEF RoomsInv, Early
  <2>3. ~ready => \A d \in Clients : \A i \in DOMAIN toGateway'[d] : toGateway'[d][i].type # "answer"
    BY <2>1 DEF RoomsInv, Early
  <2>4. \A d \in Clients : \A call \in calls'[d] : call.type # "unsubscribe"
    BY <2>1 DEF RoomsInv, Early
  <2>5. \A d \in closed' : toClient'[d] = <<>>
    BY <1>1, <1>2, <2>1 DEF RoomsInv, Early
  <2> QED  BY <1>1, <2>2, <2>3, <2>4, <2>5 DEF RoomsInv, Early
<1>5. ASSUME NEW d \in Clients, NEW r \in Rooms PROVE OpensOnce(d, r)' /\ (d \notin closed' => Stands(d, r)')
  <2>1. CASE d = c
    <3>1. toGateway'[d] = <<>> /\ calls'[d] \subseteq calls[d] /\ d \in closed'
      BY <1>1, <1>2, <2>1
    <3> QED  BY <1>1, <3>1, DroppedOpens
  <2>2. CASE d # c
    <3>1. Pending(d)' = Pending(d)
      BY <1>1, <1>2, <2>2 DEF Pending
    <3>2. toClient'[d] = toClient[d] /\ calls'[d] = calls[d] /\ (d \in subscriptions'[r] <=> d \in subscriptions[r])
      BY <1>1, <1>2, <2>2
    <3>3. OpensOnce(d, r) /\ (d \notin closed' => Stands(d, r) /\ SameReplies(d))
      BY <1>1, <3>2, UntouchedReplies DEF RoomsInv
    <3> QED  BY <1>1, <3>1, <3>2, <3>3, RoomKept
  <2> QED  BY <2>1, <2>2
<1> QED  BY <1>3, <1>4, <1>5 DEF RoomsInv

LEMMA StopRooms ==
  ASSUME Typed, RoomsInv, StopGateway
  PROVE  RoomsInv'
<1>1. /\ closed' = Clients /\ subscriptions' = [r \in Rooms |-> {}] /\ loaded' = {}
      /\ toGateway' = [d \in Clients |-> <<>>] /\ toClient' = [d \in Clients |-> <<>>]
      /\ calls' = [d \in Clients |-> {}] /\ dialogs' = [d \in Clients |-> {}]
      /\ UNCHANGED <<ready, backlog, asked, known, views>>
  BY DEF StopGateway
<1>2. RoomsKnown'
  BY <1>1 DEF RoomsInv, RoomsKnown, Ids
<1>3. Early'
  BY <1>1 DEF RoomsInv, Early
<1>4. ASSUME NEW d \in Clients, NEW r \in Rooms PROVE OpensOnce(d, r)' /\ d \in closed'
  <2>1. toGateway'[d] \in {toGateway[d], <<>>} /\ calls'[d] \subseteq calls[d]
    BY <1>1
  <2> QED  BY <1>1, <2>1, DroppedOpens
<1> QED  BY <1>2, <1>3, <1>4 DEF RoomsInv

\* Steps of Claude, and the end of the first scan, bear on no chat's clients.
LEMMA QuietRooms ==
  ASSUME Typed, RoomsInv, \A d \in Clients : Pending(d)' = Pending(d),
         UNCHANGED <<closed, toClient, calls, subscriptions, asked, known, views, dialogs>>,
         loaded' \subseteq known, ready => ready',
         ~ready' => \A c \in Clients : \A i \in DOMAIN toGateway'[c] : toGateway'[c][i].type # "answer",
         \A c \in Clients : \A i \in DOMAIN backlog'[c] : backlog'[c][i].type # "answer"
  PROVE  RoomsInv'
<1>1. RoomsKnown' /\ Early'
  BY DEF RoomsInv, RoomsKnown, Early, Ids
<1>2. ASSUME NEW d \in Clients, NEW r \in Rooms PROVE OpensOnce(d, r)' /\ (d \notin closed' => Stands(d, r)')
  <2>1. SameReplies(d)
    BY UntouchedReplies
  <2>2. OpensOnce(d, r) /\ (d \notin closed' => Stands(d, r))
    BY DEF RoomsInv
  <2> QED  BY <2>1, <2>2, RoomKept
<1> QED  BY <1>1, <1>2 DEF RoomsInv

\* What a client's message does to how it stands to its chats.
Moves(c, m) ==
    \/ UNCHANGED views /\ m.type \in {"interrupt", "forward", "answer"}
    \/ \E r \in Rooms :
        \/ m = Msg("resume", r) /\ r \in known /\ views[c][r] = "no" /\ views' = [views EXCEPT ![c][r] = "viewing"]
        \/ m = Msg("start", r) /\ r \notin known /\ (\A d \in Clients : views[d][r] = "no")
           /\ views' = [views EXCEPT ![c][r] = "opening"]
        \/ m = Msg("unsubscribe", r) /\ views[c][r] = "viewing" /\ views' = [views EXCEPT ![c][r] = "leaving"]

\* And to what it shows: a dialog goes when it is answered or its chat is left.
Hides(c, m) ==
    \/ UNCHANGED dialogs /\ m.type \notin {"unsubscribe", "answer"}
    \/ m.type = "unsubscribe" /\ dialogs' = [dialogs EXCEPT ![c] = { id \in @ : asked[id].room # m.room }]
    \/ m.type = "answer" /\ m.id \in dialogs[c] /\ dialogs' = [dialogs EXCEPT ![c] = @ \ {m.id}]

LEMMA ClientMoves ==
  ASSUME Typed, NEW c \in Clients, ClientStep(c)
  PROVE  \E m \in Messages : Post(c, m) /\ Moves(c, m) /\ Hides(c, m)
<1>1. \A type \in RoomTypes, r \in Rooms : Msg(type, r) \in Messages /\ Msg(type, r).type = type /\ Msg(type, r).room = r
  BY MessagesOf
<1>2. ASSUME NEW r \in Rooms, OpenRoom(c, r)
      PROVE  Post(c, Msg("resume", r)) /\ Moves(c, Msg("resume", r)) /\ Hides(c, Msg("resume", r))
  BY <1>2 DEF OpenRoom, Moves, Hides, Msg
<1>3. ASSUME NEW r \in Rooms, NewRoom(c, r)
      PROVE  Post(c, Msg("start", r)) /\ Moves(c, Msg("start", r)) /\ Hides(c, Msg("start", r))
  BY <1>3 DEF NewRoom, Moves, Hides, Msg
<1>4. ASSUME NEW r \in Rooms, LeaveRoom(c, r)
      PROVE  Post(c, Msg("unsubscribe", r)) /\ Moves(c, Msg("unsubscribe", r)) /\ Hides(c, Msg("unsubscribe", r))
  BY <1>4 DEF LeaveRoom, Moves, Hides, Msg
<1>5. ASSUME NEW r \in Rooms, StopTurn(c, r)
      PROVE  Post(c, Msg("interrupt", r)) /\ Moves(c, Msg("interrupt", r)) /\ Hides(c, Msg("interrupt", r))
  BY <1>5 DEF StopTurn, Moves, Hides, Msg
<1>6. ASSUME NEW r \in Rooms, AskStock(c, r)
      PROVE  Post(c, Msg("forward", r)) /\ Moves(c, Msg("forward", r)) /\ Hides(c, Msg("forward", r))
  BY <1>6 DEF AskStock, Moves, Hides, Msg
<1>7. ASSUME NEW id \in dialogs[c], NEW decision \in Decisions, AnswerDialog(c, id, decision)
      PROVE  \E m \in Messages : Post(c, m) /\ Moves(c, m) /\ Hides(c, m)
  <2> DEFINE m == [type |-> "answer", id |-> id, decision |-> decision]
  <2>1. id \in 1 .. MaxAsked
    BY RequestsAssumption DEF Typed, GatewaySide, OtherSides, Ids
  <2>2. m \in Messages
    BY <2>1 DEF Messages
  <2>3. Post(c, m) /\ Moves(c, m) /\ Hides(c, m)
    BY <1>7 DEF AnswerDialog, Moves, Hides
  <2> QED  BY <2>2, <2>3
<1>8. {"resume", "start", "unsubscribe", "interrupt", "forward"} \subseteq RoomTypes
  BY DEF RoomTypes
<1> QED  BY <1>1, <1>2, <1>3, <1>4, <1>5, <1>6, <1>7, <1>8 DEF ClientStep

\* The message is one more at the end, after all that wait.
LEMMA PostOrder ==
  ASSUME Typed, NEW c \in Clients, NEW m \in Messages, Post(c, m)
  PROVE  /\ \A x : In(Pending(c)', x) <=> In(Pending(c), x) \/ m = x
         /\ \A x : (Once(Pending(c), x) /\ (m = x => ~In(Pending(c), x))) => Once(Pending(c)', x)
         /\ \A x, y : (Followed(Pending(c), x, y) /\ m # x) => Followed(Pending(c)', x, y)
         /\ \A x : x # m => Followed(Pending(c)', x, m)
<1>1. Pending(c) \in Seq(Messages) /\ Pending(c)' = Append(Pending(c), m)
  BY PendingTyped, PostWaits
<1> QED  BY <1>1, AppendInOrder

\* Nobody opens a chat that another client opens.
LEMMA PostOpens ==
  ASSUME Typed, RoomsInv, NEW c \in Clients, NEW m \in Messages, Post(c, m), Moves(c, m),
         NEW d \in Clients, NEW r \in Rooms
  PROVE  OpensOnce(d, r)'
<1> DEFINE s == Msg("start", r)
           Opening(e) == In(Pending(e), s) \/ s \in calls[e]
<1>1. /\ UNCHANGED <<calls, known>> /\ s' = s /\ views \in [Clients -> [Rooms -> Views]]
      /\ \A e \in Clients \ {c} : Pending(e)' = Pending(e)
  BY PostWaits DEF Post, claudeSide, Msg, Typed, OtherSides
<1>2. \A e \in Clients : /\ Once(Pending(e), s)
                         /\ In(Pending(e), s) => s \notin calls[e]
                         /\ Opening(e) => r \notin known /\ views[e][r] = "opening" /\ \A b \in Clients \ {e} : views[b][r] = "no"
  BY DEF RoomsInv, OpensOnce, Waits
<1>3. /\ \A x : In(Pending(c)', x) <=> In(Pending(c), x) \/ m = x
      /\ (Once(Pending(c), s) /\ (m = s => ~In(Pending(c), s))) => Once(Pending(c)', s)
  BY PostOrder
<1>4. CASE m = s
  <2>1. r \notin known /\ (\A e \in Clients : views[e][r] = "no") /\ views' = [views EXCEPT ![c][r] = "opening"]
    <3>1. m.type = "start" /\ m.room = r
      BY <1>4 DEF Msg
    <3>2. PICK q \in Rooms : m = Msg("start", q) /\ q \notin known /\ (\A e \in Clients : views[e][q] = "no")
                             /\ views' = [views EXCEPT ![c][q] = "opening"]
      BY <3>1 DEF Moves, Msg
    <3>3. q = r
      BY <3>1, <3>2 DEF Msg
    <3> QED  BY <3>2, <3>3
  <2>2. /\ views'[c][r] = "opening" /\ \A e \in Clients \ {c} : views'[e][r] = "no"
    BY <1>1, <2>1
  <2> HIDE DEF s
  <2>3. CASE d = c
    <3>1. ~In(Pending(c), s) /\ s \notin calls[c]
      BY <1>2, <2>1
    <3> QED  BY <1>1, <1>2, <1>3, <2>1, <2>2, <2>3, <3>1 DEF OpensOnce, Waits, s
  <2>4. CASE d # c
    <3>1. ~In(Pending(d), s) /\ s \notin calls[d]
      BY <1>2, <2>1
    <3>2. Pending(d)' = Pending(d) /\ Once(Pending(d), s)
      BY <1>1, <1>2, <2>4
    <3> QED  BY <1>1, <3>1, <3>2 DEF OpensOnce, Waits, s
  <2> QED  BY <2>3, <2>4
<1>5. CASE m # s
  <2>1. ASSUME Opening(d) PROVE \A e \in Clients : views'[e][r] = views[e][r]
    <3>1. r \notin known /\ views[d][r] = "opening" /\ \A e \in Clients : views[e][r] # "viewing"
      BY <1>2, <2>1
    <3>2. \/ UNCHANGED views
          \/ \E q \in Rooms : \E v \in Views : q # r /\ views' = [views EXCEPT ![c][q] = v]
      <4>1. "viewing" \in Views /\ "opening" \in Views /\ "leaving" \in Views
        BY DEF Views
      <4> QED  BY <1>5, <3>1, <4>1 DEF Moves
    <3> QED  BY <1>1, <3>2
  <2> HIDE DEF s
  <2>2. Once(Pending(d)', s) /\ (In(Pending(d)', s) <=> In(Pending(d), s))
    BY <1>1, <1>2, <1>3, <1>5
  <2> QED  BY <1>1, <1>2, <2>1, <2>2 DEF OpensOnce, Waits, s
<1> QED  BY <1>4, <1>5

LEMMA PostStands ==
  ASSUME Typed, RoomsInv, NEW c \in Clients, NEW m \in Messages, Post(c, m), Moves(c, m),
         NEW d \in Clients, NEW r \in Rooms, d \notin closed
  PROVE  Stands(d, r)'
<1> DEFINE start == Msg("start", r)
           unsub == Msg("unsubscribe", r)
           resume == Msg("resume", r)
           P == Pending(d)
           v == views[d][r]
<1>1. /\ UNCHANGED <<calls, known, subscriptions, toClient>> /\ views \in [Clients -> [Rooms -> Views]]
      /\ start' = start /\ unsub' = unsub /\ resume' = resume
      /\ start.type = "start" /\ unsub.type = "unsubscribe" /\ resume.type = "resume"
  BY DEF Post, claudeSide, Msg, Typed, OtherSides
<1>2. Stands(d, r) /\ OpensOnce(d, r)
  BY DEF RoomsInv
<1>3. CASE d # c
  <2>1. P' = P
    BY <1>3, PostWaits
  <2>2. v' = v
    BY <1>1, <1>3 DEF Moves
  <2> QED  BY <1>1, <1>2, <2>1, <2>2 DEF Stands, Waits, Replied, Reply, Msg
<1>4. CASE d = c
  <2>1. /\ \A x : In(P', x) <=> In(P, x) \/ m = x
        /\ \A x : (Once(P, x) /\ (m = x => ~In(P, x))) => Once(P', x)
        /\ \A x, y : (Followed(P, x, y) /\ m # x) => Followed(P', x, y)
        /\ \A x : x # m => Followed(P', x, m)
    BY <1>4, PostOrder
  <2>2. \/ v' = v /\ m # start /\ m # unsub /\ m # resume
        \/ m = resume /\ r \in known /\ v = "no" /\ v' = "viewing"
        \/ m = start /\ v = "no" /\ v' = "opening"
        \/ m = unsub /\ v = "viewing" /\ v' = "leaving"
    <3>1. CASE UNCHANGED views /\ m.type \in {"interrupt", "forward", "answer"}
      BY <1>1, <3>1
    <3> DEFINE moved(q, x) == [views EXCEPT ![c][q] = x]
    <3>5. ASSUME NEW q \in Rooms, NEW x PROVE moved(q, x)[c][r] = IF q = r THEN x ELSE v
      <4>1. views[c] \in [Rooms -> Views]
        BY <1>1
      <4> QED  BY <1>1, <1>4, <4>1
    <3>6. \A type, q : Msg(type, q).type = type /\ Msg(type, q).room = q
      BY DEF Msg
    <3> HIDE DEF moved, v
    <3>7. ASSUME NEW q \in Rooms, NEW x, views' = moved(q, x) PROVE v' = IF q = r THEN x ELSE v
      BY <1>4, <3>5, <3>7 DEF v
    <3>2. ASSUME NEW q \in Rooms, m = Msg("resume", q), q \in known, views[c][q] = "no", views' = [views EXCEPT ![c][q] = "viewing"]
          PROVE  \/ v' = v /\ m # start /\ m # unsub /\ m # resume
                 \/ m = resume /\ r \in known /\ v = "no" /\ v' = "viewing"
      <4>1. views' = moved(q, "viewing")
        BY <3>2 DEF moved
      <4>2. v' = IF q = r THEN "viewing" ELSE v
        BY <3>7, <4>1
      <4> QED  BY <1>4, <3>2, <3>6, <4>2 DEF v
    <3>3. ASSUME NEW q \in Rooms, m = Msg("start", q), \A e \in Clients : views[e][q] = "no", views' = [views EXCEPT ![c][q] = "opening"]
          PROVE  \/ v' = v /\ m # start /\ m # unsub /\ m # resume
                 \/ m = start /\ v = "no" /\ v' = "opening"
      <4>1. views' = moved(q, "opening")
        BY <3>3 DEF moved
      <4>2. v' = IF q = r THEN "opening" ELSE v
        BY <3>7, <4>1
      <4> QED  BY <1>4, <3>3, <3>6, <4>2 DEF v
    <3>4. ASSUME NEW q \in Rooms, m = Msg("unsubscribe", q), views[c][q] = "viewing", views' = [views EXCEPT ![c][q] = "leaving"]
          PROVE  \/ v' = v /\ m # start /\ m # unsub /\ m # resume
                 \/ m = unsub /\ v = "viewing" /\ v' = "leaving"
      <4>1. views' = moved(q, "leaving")
        BY <3>4 DEF moved
      <4>2. v' = IF q = r THEN "leaving" ELSE v
        BY <3>7, <4>1
      <4> QED  BY <1>4, <3>4, <3>6, <4>2 DEF v
    <3> QED  BY <3>1, <3>2, <3>3, <3>4 DEF Moves
  <2>3. /\ Once(toClient[c], Reply("start", r)) /\ Once(toClient[c], Reply("unsubscribe", r)) /\ Once(P, unsub)
        /\ Replied(c, "start", r) => v = "opening" /\ c \in subscriptions[r] /\ ~In(P, start) /\ start \notin calls[c]
        /\ (v = "opening" /\ c \in subscriptions[r]) => Replied(c, "start", r)
        /\ (In(P, unsub) \/ Replied(c, "unsubscribe", r)) => v = "leaving"
        /\ In(P, unsub) => ~Replied(c, "unsubscribe", r)
        /\ v # "viewing" => Followed(P, resume, unsub)
        /\ (v = "leaving" /\ c \in subscriptions[r]) => In(P, unsub)
        /\ v = "no" => c \notin subscriptions[r]
    BY <1>2, <1>4 DEF Stands, Waits
  <2>4. (In(P, start) \/ start \in calls[c]) => v = "opening"
    BY <1>2, <1>4 DEF OpensOnce, Waits
  <2>5. start # unsub /\ resume # unsub /\ start # resume
    BY <1>1
  <2>6. (Replied(c, "start", r)' <=> Replied(c, "start", r)) /\ (Replied(c, "unsubscribe", r)' <=> Replied(c, "unsubscribe", r))
    BY <1>1 DEF Replied, Reply, Msg
  <2> HIDE DEF start, unsub, resume, v, P
  <2>7. Once(P', unsub)
    BY <2>1, <2>2, <2>3, <2>5
  <2>8. Replied(c, "start", r) => v' = "opening" /\ c \in subscriptions[r] /\ ~In(P', start) /\ start \notin calls[c]
    BY <2>1, <2>2, <2>3, <2>4, <2>5
  <2>9. (v' = "opening" /\ c \in subscriptions[r]) => Replied(c, "start", r)
    BY <2>2, <2>3
  <2>10. ((In(P', unsub) \/ Replied(c, "unsubscribe", r)) => v' = "leaving") /\ (In(P', unsub) => ~Replied(c, "unsubscribe", r))
    BY <2>1, <2>2, <2>3, <2>5
  <2>11. v' # "viewing" => Followed(P', resume, unsub)
    BY <2>1, <2>2, <2>3, <2>5
  <2>12. ((v' = "leaving" /\ c \in subscriptions[r]) => In(P', unsub)) /\ (v' = "no" => c \notin subscriptions[r])
    BY <2>1, <2>2, <2>3
  <2>13. UNCHANGED <<toClient, subscriptions, calls>>
    BY <1>1
  <2>14. Once(toClient'[c], Reply("start", r)) /\ Once(toClient'[c], Reply("unsubscribe", r))
    BY <2>3, <2>13
  <2> QED
    BY <1>1, <1>4, <2>6, <2>7, <2>8, <2>9, <2>10, <2>11, <2>12, <2>13, <2>14 DEF Stands, Waits, P, v, start, unsub, resume, Reply, Msg
<1> QED  BY <1>3, <1>4

LEMMA PostRooms ==
  ASSUME Typed, RoomsInv, NEW c \in Clients, NEW m \in Messages, Post(c, m), Moves(c, m), Hides(c, m)
  PROVE  RoomsInv'
<1>1. /\ UNCHANGED <<ready, closed, backlog, toClient, calls, subscriptions, asked, known, loaded>> /\ c \notin closed
      /\ toGateway' = [toGateway EXCEPT ![c] = Append(@, m)] /\ toGateway \in [Clients -> Seq(Messages)]
      /\ dialogs \in [Clients -> SUBSET Ids]
  BY DEF Post, claudeSide, Typed, GatewaySide, OtherSides
<1>2. RoomsKnown'
  BY <1>1 DEF RoomsInv, RoomsKnown, Ids
<1>3. ~ready => m.type # "answer" /\ dialogs' = dialogs
  <2> SUFFICES ASSUME ~ready PROVE m.type # "answer" /\ dialogs' = dialogs
    OBVIOUS
  <2>1. dialogs[c] = {}
    BY DEF RoomsInv, Early
  <2>2. m.type = "unsubscribe" => dialogs' = dialogs
    BY <1>1, <2>1 DEF Hides
  <2> QED  BY <2>1, <2>2 DEF Hides
<1>4. ~ready => \A d \in Clients : \A i \in DOMAIN toGateway'[d] : toGateway'[d][i].type # "answer"
  <2> SUFFICES ASSUME ~ready, NEW d \in Clients, NEW i \in DOMAIN toGateway'[d] PROVE toGateway'[d][i].type # "answer"
    OBVIOUS
  <2>1. \A j \in DOMAIN toGateway[d] : toGateway[d][j].type # "answer"
    BY DEF RoomsInv, Early
  <2>2. CASE d # c
    BY <1>1, <2>1, <2>2
  <2>3. CASE d = c
    <3>1. /\ Len(toGateway[c]) \in Nat /\ DOMAIN toGateway[c] = 1 .. Len(toGateway[c]) /\ toGateway'[c] = Append(toGateway[c], m)
          /\ DOMAIN toGateway'[c] = 1 .. Len(toGateway[c]) + 1 /\ toGateway'[c][Len(toGateway[c]) + 1] = m
          /\ \A j \in 1 .. Len(toGateway[c]) : toGateway'[c][j] = toGateway[c][j]
      BY <1>1, AppendProperties, LenProperties
    <3> QED  BY <1>3, <2>1, <2>3, <3>1
  <2> QED  BY <2>2, <2>3
<1>5. Early'
  BY <1>1, <1>3, <1>4 DEF RoomsInv, Early
<1>6. \A d \in Clients, r \in Rooms : OpensOnce(d, r)' /\ (d \notin closed' => Stands(d, r)')
  BY <1>1, PostOpens, PostStands
<1> QED  BY <1>2, <1>5, <1>6 DEF RoomsInv

\* The first frame is taken out, the others are under way as they were.
LEMMA ReadFrames ==
  ASSUME Typed, NEW c \in Clients, ReadFrame(c)
  PROVE  /\ toClient[c] \in Seq(Notes \cup Replies) /\ toClient[c] # <<>>
         /\ Head(toClient[c]) \in Notes \cup Replies /\ toClient'[c] = Tail(toClient[c])
         /\ \A d \in Clients \ {c} : toClient'[d] = toClient[d]
         /\ UNCHANGED <<ready, down, closed, toGateway, backlog, calls, subscriptions,
                        serverRequests, asked, outcome, known, turn, loaded, sent>>
<1>1. toClient \in [Clients -> Seq(Notes \cup Replies)] /\ toClient[c] # <<>> /\ toClient' = [toClient EXCEPT ![c] = Tail(@)]
  BY DEF Typed, ReadFrame
<1> QED  BY <1>1, ReadTyped DEF ReadFrame, claudeSide

\* What the answer a client reads does to how it stands to its chats.
ViewsRead(c, f) ==
    \/ UNCHANGED views /\ \A r \in Rooms : f # Reply("start", r) /\ f # Reply("unsubscribe", r)
    \/ \E r \in Rooms : \/ f = Reply("start", r) /\ views' = [views EXCEPT ![c][r] = "viewing"]
                        \/ f = Reply("unsubscribe", r) /\ views' = [views EXCEPT ![c][r] = "no"]

LEMMA FrameMoves ==
  ASSUME Typed, NEW c \in Clients, ReadFrame(c)
  PROVE  ViewsRead(c, Head(toClient[c]))
<1> DEFINE f == Head(toClient[c])
<1>1. /\ f \in Notes \cup Replies
      /\ views' = IF f.type = "reply" /\ f.call.type \in {"unsubscribe", "start"}
                  THEN [views EXCEPT ![c][f.call.room] = IF f.call.type = "start" THEN "viewing" ELSE "no"]
                  ELSE views
  BY ReadFrames DEF ReadFrame
<1> HIDE DEF f
<1>2. CASE f.type = "reply" /\ f.call.type \in {"unsubscribe", "start"}
  <2>1. f.call \in Messages /\ f = [type |-> "reply", call |-> f.call]
    BY <1>1, <1>2, FrameForms
  <2>2. f.call.room \in Rooms /\ f.call = Msg(f.call.type, f.call.room)
    BY <1>2, <2>1, MessageForms
  <2>3. f = Reply(f.call.type, f.call.room)
    BY <2>1, <2>2 DEF Reply
  <2> QED  BY <1>1, <1>2, <2>2, <2>3 DEF ViewsRead, f
<1>3. CASE ~(f.type = "reply" /\ f.call.type \in {"unsubscribe", "start"})
  <2>1. \A r \in Rooms : f # Reply("start", r) /\ f # Reply("unsubscribe", r)
    BY <1>3 DEF Reply, Msg
  <2> QED  BY <1>1, <1>3, <2>1 DEF ViewsRead, f
<1> QED  BY <1>2, <1>3

\* A frame that is read moves the client in the chat it answers about, no other.
LEMMA ViewRead ==
  ASSUME Typed, NEW c \in Clients, ReadFrame(c), NEW r \in Rooms
  PROVE  /\ \/ views'[c][r] = views[c][r] /\ Head(toClient[c]) # Reply("start", r) /\ Head(toClient[c]) # Reply("unsubscribe", r)
            \/ Head(toClient[c]) = Reply("start", r) /\ views'[c][r] = "viewing"
            \/ Head(toClient[c]) = Reply("unsubscribe", r) /\ views'[c][r] = "no"
         /\ \A d \in Clients \ {c} : views'[d] = views[d]
<1> DEFINE f == Head(toClient[c])
           moved(q, x) == [views EXCEPT ![c][q] = x]
           v == views[c][r]
<1>1. views \in [Clients -> [Rooms -> Views]] /\ ViewsRead(c, f)
  BY FrameMoves DEF Typed, OtherSides
<1>2. ASSUME NEW q \in Rooms, NEW x PROVE moved(q, x)[c][r] = (IF q = r THEN x ELSE v) /\ \A d \in Clients \ {c} : moved(q, x)[d] = views[d]
  <2>1. views[c] \in [Rooms -> Views]
    BY <1>1
  <2> QED  BY <1>1, <2>1
<1>3. \A type, other, q : (Reply(type, r) = Reply(other, q)) => type = other /\ r = q
  BY MessagesDiffer
<1>4. \/ UNCHANGED views /\ f # Reply("start", r) /\ f # Reply("unsubscribe", r)
      \/ \E q \in Rooms : \/ f = Reply("start", q) /\ views' = moved(q, "viewing")
                          \/ f = Reply("unsubscribe", q) /\ views' = moved(q, "no")
  BY <1>1 DEF ViewsRead
<1> HIDE DEF f, moved, v
<1>5. ASSUME UNCHANGED views PROVE views'[c][r] = v /\ \A d \in Clients \ {c} : views'[d] = views[d]
  BY <1>5 DEF v
<1>6. ASSUME NEW q \in Rooms, f = Reply("start", q), views' = moved(q, "viewing")
      PROVE  /\ \/ views'[c][r] = v /\ f # Reply("start", r) /\ f # Reply("unsubscribe", r)
                \/ f = Reply("start", r) /\ views'[c][r] = "viewing"
             /\ \A d \in Clients \ {c} : views'[d] = views[d]
  BY <1>2, <1>3, <1>6
<1>7. ASSUME NEW q \in Rooms, f = Reply("unsubscribe", q), views' = moved(q, "no")
      PROVE  /\ \/ views'[c][r] = v /\ f # Reply("start", r) /\ f # Reply("unsubscribe", r)
                \/ f = Reply("unsubscribe", r) /\ views'[c][r] = "no"
             /\ \A d \in Clients \ {c} : views'[d] = views[d]
  BY <1>2, <1>3, <1>7
<1> QED  BY <1>4, <1>5, <1>6, <1>7 DEF f, v

LEMMA ReadRooms == ASSUME Typed, RoomsInv, NEW c \in Clients, ReadFrame(c) PROVE RoomsInv'
<1> DEFINE f == Head(toClient[c])
<1>1. /\ UNCHANGED <<ready, closed, toGateway, backlog, calls, subscriptions, asked, known, loaded>>
      /\ toClient[c] # <<>> /\ toClient'[c] = Tail(toClient[c]) /\ toClient[c] \in Seq(Notes \cup Replies)
      /\ \A d \in Clients \ {c} : toClient'[d] = toClient[d]
  BY ReadFrames
<1>2. RoomsKnown'
  BY <1>1 DEF RoomsInv, RoomsKnown, Ids
<1>3. ready /\ c \notin closed
  BY <1>1 DEF RoomsInv, Early
<1>4. Early'
  <2>1. \A d \in closed' : toClient'[d] = <<>>
    BY <1>1, <1>3 DEF RoomsInv, Early, Typed, GatewaySide
  <2> QED  BY <1>1, <1>3, <2>1 DEF RoomsInv, Early
<1>5. /\ \A x : In(toClient[c], x) <=> f = x \/ In(toClient'[c], x)
      /\ \A x : Once(toClient[c], x) => Once(toClient'[c], x) /\ (f = x => ~In(toClient'[c], x))
  BY <1>1, TailInOrder
<1> HIDE DEF f
<1>6. ASSUME NEW r \in Rooms
      PROVE  /\ \/ views'[c][r] = views[c][r] /\ f # Reply("start", r) /\ f # Reply("unsubscribe", r)
                \/ f = Reply("start", r) /\ views'[c][r] = "viewing" /\ views[c][r] = "opening" /\ c \in subscriptions[r]
                   /\ ~Waits(c, "start", r) /\ Msg("start", r) \notin calls[c]
                \/ f = Reply("unsubscribe", r) /\ views'[c][r] = "no" /\ views[c][r] = "leaving"
             /\ \A d \in Clients \ {c} : views'[d] = views[d]
             /\ Stands(c, r)
  <2>1. Stands(c, r)
    BY <1>3 DEF RoomsInv
  <2>2. f = Reply("start", r) => Replied(c, "start", r)
    BY <1>5 DEF Replied
  <2>3. f = Reply("unsubscribe", r) => Replied(c, "unsubscribe", r)
    BY <1>5 DEF Replied
  <2>4. /\ \/ views'[c][r] = views[c][r] /\ f # Reply("start", r) /\ f # Reply("unsubscribe", r)
           \/ f = Reply("start", r) /\ views'[c][r] = "viewing"
           \/ f = Reply("unsubscribe", r) /\ views'[c][r] = "no"
        /\ \A d \in Clients \ {c} : views'[d] = views[d]
    BY ViewRead DEF f
  <2> QED  BY <2>1, <2>2, <2>3, <2>4 DEF Stands
<1>7. ASSUME NEW d \in Clients, NEW r \in Rooms PROVE OpensOnce(d, r)'
  <2> DEFINE s == Msg("start", r)
             Opening == In(Pending(d), s) \/ s \in calls[d]
  <2>1. /\ Once(Pending(d), s)
        /\ In(Pending(d), s) => s \notin calls[d]
        /\ Opening => r \notin known /\ views[d][r] = "opening" /\ \A b \in Clients \ {d} : views[b][r] = "no"
    BY DEF RoomsInv, OpensOnce, Waits
  <2>2. Pending(d)' = Pending(d) /\ s' = s /\ UNCHANGED <<calls, known>>
    BY <1>1 DEF Pending, Msg
  <2>3. Opening => \A b \in Clients : views'[b][r] = views[b][r]
    <3>1. CASE d = c
      BY <1>6, <2>1, <3>1 DEF Waits
    <3>2. CASE d # c
      BY <1>6, <2>1, <3>2
    <3> QED  BY <3>1, <3>2
  <2> HIDE DEF s
  <2> QED  BY <2>1, <2>2, <2>3 DEF OpensOnce, Waits, s
<1>8. ASSUME NEW d \in Clients, NEW r \in Rooms, d \notin closed' PROVE Stands(d, r)'
  <2>1. CASE d # c
    <3>1. Pending(d)' = Pending(d) /\ views'[d] = views[d] /\ toClient'[d] = toClient[d] /\ Stands(d, r)
      BY <1>1, <1>6, <1>8, <2>1 DEF Pending, RoomsInv
    <3> QED  BY <1>1, <3>1 DEF Stands, Waits, Replied, Reply, Msg
  <2>2. CASE d = c
    <3> DEFINE x == Reply("start", r)
               y == Reply("unsubscribe", r)
               start == Msg("start", r)
               unsub == Msg("unsubscribe", r)
               resume == Msg("resume", r)
               P == Pending(c)
               v == views[c][r]
               s == toClient[c]
    <3>1. /\ Once(s, x) /\ Once(s, y) /\ Once(P, unsub)
          /\ In(s, x) => v = "opening" /\ c \in subscriptions[r] /\ ~In(P, start) /\ start \notin calls[c]
          /\ (v = "opening" /\ c \in subscriptions[r]) => In(s, x)
          /\ (In(P, unsub) \/ In(s, y)) => v = "leaving"
          /\ In(P, unsub) => ~In(s, y)
          /\ v # "viewing" => Followed(P, resume, unsub)
          /\ (v = "leaving" /\ c \in subscriptions[r]) => In(P, unsub)
          /\ v = "no" => c \notin subscriptions[r]
      BY <1>6 DEF Stands, Waits, Replied
    <3>2. P' = P /\ x' = x /\ y' = y /\ start' = start /\ unsub' = unsub /\ resume' = resume /\ UNCHANGED <<calls, subscriptions>>
      BY <1>1 DEF Pending, Reply, Msg
    <3>3. /\ \A z : In(s, z) <=> f = z \/ In(s', z)
          /\ \A z : Once(s, z) => Once(s', z) /\ (f = z => ~In(s', z))
      BY <1>5
    <3>4. /\ \/ v' = v /\ f # x /\ f # y
             \/ f = x /\ v' = "viewing"
             \/ f = y /\ v' = "no"
      BY <1>6
    <3>5. x # y
      BY MessagesDiffer
    <3> HIDE DEF x, y, start, unsub, resume, P, v, s
    <3>6. Once(s', x) /\ Once(s', y)
      BY <3>1, <3>3
    <3>7. In(s', x) => v' = "opening" /\ c \in subscriptions[r] /\ ~In(P, start) /\ start \notin calls[c]
      BY <3>1, <3>3, <3>4
    <3>8. (v' = "opening" /\ c \in subscriptions[r]) => In(s', x)
      BY <3>1, <3>3, <3>4
    <3>9. ((In(P, unsub) \/ In(s', y)) => v' = "leaving") /\ (In(P, unsub) => ~In(s', y))
      BY <3>1, <3>3, <3>4
    <3>10. v' # "viewing" => Followed(P, resume, unsub)
      BY <3>1, <3>3, <3>4
    <3>11. ((v' = "leaving" /\ c \in subscriptions[r]) => In(P, unsub)) /\ (v' = "no" => c \notin subscriptions[r])
      BY <3>1, <3>3, <3>4
    <3> QED
      BY <2>2, <3>1, <3>2, <3>6, <3>7, <3>8, <3>9, <3>10, <3>11 DEF Stands, Waits, Replied, x, y, start, unsub, resume, P, v, s
  <2> QED  BY <2>1, <2>2
<1> QED  BY <1>1, <1>2, <1>4, <1>7, <1>8 DEF RoomsInv

LEMMA WaitRooms == ASSUME Typed, RoomsInv, NEW c \in Clients, OnClientText(c), ~ready PROVE RoomsInv'
<1>1. /\ \A d \in Clients : Pending(d)' = Pending(d)
      /\ UNCHANGED <<ready, closed, toClient, calls, subscriptions, asked, known, loaded, views, dialogs>>
  BY TextKept DEF claudeSide, clientSide
<1>2. /\ toGateway[c] \in Seq(Messages) /\ toGateway[c] # <<>> /\ toGateway \in [Clients -> Seq(Messages)]
      /\ backlog \in [Clients -> Seq(Messages)] /\ toGateway' = [toGateway EXCEPT ![c] = Tail(@)]
      /\ backlog' = [backlog EXCEPT ![c] = Append(@, Head(toGateway[c]))]
  BY DEF OnClientText, Typed, GatewaySide
<1>3. /\ \A d \in Clients : \A i \in DOMAIN toGateway[d] : toGateway[d][i].type # "answer"
      /\ \A d \in Clients : \A i \in DOMAIN backlog[d] : backlog[d][i].type # "answer"
  BY DEF RoomsInv, Early
<1>4. /\ Len(toGateway[c]) \in Nat /\ Len(toGateway[c]) >= 1 /\ DOMAIN toGateway[c] = 1 .. Len(toGateway[c])
      /\ Head(toGateway[c]) = toGateway[c][1] /\ Head(toGateway[c]) \in Messages /\ Tail(toGateway[c]) \in Seq(Messages)
      /\ DOMAIN Tail(toGateway[c]) = 1 .. Len(toGateway[c]) - 1
      /\ \A i \in 1 .. Len(toGateway[c]) - 1 : Tail(toGateway[c])[i] = toGateway[c][i + 1]
  BY <1>2, ReadTyped, LenProperties
<1>5. \A d \in Clients : \A i \in DOMAIN toGateway'[d] : toGateway'[d][i].type # "answer"
  <2>1. \A i \in DOMAIN Tail(toGateway[c]) : Tail(toGateway[c])[i].type # "answer"
    <3>1. ASSUME NEW i \in DOMAIN Tail(toGateway[c]) PROVE i + 1 \in DOMAIN toGateway[c] /\ Tail(toGateway[c])[i] = toGateway[c][i + 1]
      BY <1>4
    <3> QED  BY <1>3, <3>1
  <2> QED  BY <1>2, <1>3, <2>1
<1>6. \A d \in Clients : \A i \in DOMAIN backlog'[d] : backlog'[d][i].type # "answer"
  <2>1. Head(toGateway[c]).type # "answer"
    <3>1. 1 \in DOMAIN toGateway[c]
      BY <1>4
    <3> QED  BY <1>3, <1>4, <3>1
  <2>2. /\ Len(backlog[c]) \in Nat /\ DOMAIN backlog[c] = 1 .. Len(backlog[c]) /\ backlog'[c] = Append(backlog[c], Head(toGateway[c]))
        /\ DOMAIN backlog'[c] = 1 .. Len(backlog[c]) + 1 /\ backlog'[c][Len(backlog[c]) + 1] = Head(toGateway[c])
        /\ \A j \in 1 .. Len(backlog[c]) : backlog'[c][j] = backlog[c][j]
    BY <1>2, <1>4, AppendProperties, LenProperties
  <2>3. \A i \in DOMAIN backlog'[c] : backlog'[c][i].type # "answer"
    BY <1>3, <2>1, <2>2
  <2> QED  BY <1>2, <1>3, <2>3
<1>7. loaded' \subseteq known
  BY <1>1 DEF RoomsInv, RoomsKnown
<1> QED  BY <1>1, <1>5, <1>6, <1>7, QuietRooms

LEMMA RoomsStep == ASSUME Typed, Typed', RoomsInv, [RequestsNext]_requestsVars PROVE RoomsInv'
<1>1. ASSUME NEW c \in Clients, OnClientText(c) PROVE RoomsInv'
  <2>1. CASE ready
    BY <1>1, <2>1, TextHandled, HandledRooms
  <2>2. CASE ~ready
    BY <1>1, <2>2, WaitRooms
  <2> QED  BY <2>1, <2>2
<1>2. ASSUME NEW c \in Clients, DispatchBacklog(c) PROVE RoomsInv'
  BY <1>2, BacklogHandled, HandledRooms
<1>3. ASSUME NEW c \in Clients, GatewayStep(c) PROVE RoomsInv'
  BY <1>1, <1>2, <1>3, FinishRooms DEF GatewayStep
<1>4. ASSUME NEW c \in Clients, ClientStep(c) PROVE RoomsInv'
  BY <1>4, ClientMoves, PostRooms
<1>5. /\ ~ready => \A c \in Clients : \A i \in DOMAIN toGateway[c] : toGateway[c][i].type # "answer"
      /\ \A c \in Clients : \A i \in DOMAIN backlog[c] : backlog[c][i].type # "answer"
      /\ loaded \subseteq known
  BY DEF RoomsInv, RoomsKnown, Early
<1>6. ASSUME NEW r \in Rooms, TurnStarts(r) \/ TurnEnds(r) \/ ProcessEnds(r) PROVE RoomsInv'
  <2>1. /\ UNCHANGED <<ready, closed, toGateway, backlog, toClient, calls, subscriptions, asked, known, views, dialogs>>
        /\ loaded' \subseteq known
    BY <1>5, <1>6 DEF TurnStarts, TurnEnds, ProcessEnds, clientSide
  <2>2. \A d \in Clients : Pending(d)' = Pending(d)
    BY <2>1 DEF Pending
  <2> QED  BY <1>5, <2>1, <2>2, QuietRooms
<1>7. ASSUME BecomeReady \/ UNCHANGED requestsVars PROVE RoomsInv'
  <2>1. /\ UNCHANGED <<closed, toGateway, backlog, toClient, calls, subscriptions, asked, known, loaded, views, dialogs>>
        /\ ready' = TRUE \/ ready' = ready
    BY <1>7 DEF BecomeReady, requestsVars, claudeSide, clientSide
  <2>2. \A d \in Clients : Pending(d)' = Pending(d)
    BY <2>1 DEF Pending
  <2> QED  BY <1>5, <2>1, <2>2, QuietRooms
<1> QED
  BY <1>3, <1>4, <1>6, <1>7, AskRooms, CloseRooms, StopRooms, ReadRooms DEF RequestsNext

-----------------------------------------------------------------------------
(* Who views a chat is on its way to show what is still to be settled.       *)

LEMMA FrameAbout ==
  ASSUME Typed, NEW f \in Notes \cup Replies, NEW id \in Ids
  PROVE  /\ f \in Asks(id) <=> f.type = "ask" /\ id \in f.ids
         /\ f \in Settlings(id) <=> f.type = "resolved" /\ id \in f.ids
         /\ f \in Replies => f \notin Asks(id) \cup Settlings(id)
<1>1. Ids \subseteq 1 .. MaxAsked
  BY RequestsAssumption DEF Typed, GatewaySide, Ids
<1>2. CASE f \in Notes
  <2>1. f = [type |-> f.type, ids |-> f.ids] /\ f.ids \subseteq 1 .. MaxAsked /\ f.type \in {"ask", "resolved"} /\ f \notin Replies
    BY <1>1, <1>2 DEF Notes, Replies
  <2>2. /\ f \in Asks(id) <=> f.type = "ask" /\ id \in f.ids
        /\ f \in Settlings(id) <=> f.type = "resolved" /\ id \in f.ids
    BY <2>1 DEF Asks, Settlings
  <2> QED  BY <2>1, <2>2
<1>3. CASE f \in Replies
  BY <1>3 DEF Replies, Asks, Settlings
<1> QED  BY <1>2, <1>3

LEMMA NotMet ==
  /\ \A s, A, R : Meets(s, A \cup R) <=> Meets(s, A) \/ Meets(s, R)
  /\ \A s, x : Meets(s, {x}) <=> In(s, x)
  /\ \A s, X, A : (~Meets(s, A) \/ ~Meets(s, X)) => NoneAfter(s, X, A)
  /\ \A s, A, x : ~Meets(s, A) => Preceded(s, A, x)
BY DEF Meets, In, NoneAfter, Preceded

LEMMA ShownStart == ASSUME RequestsInit PROVE ShownInv
BY DEF RequestsInit, ShownInv, Ids

\* What a step says to a client about other approvals than this one.
LEMMA ShownKept ==
  ASSUME NEW d \in Clients, NEW id, Shown(d, id), NEW S, toClient[d] \in Seq(S),
         toClient'[d] = toClient[d] \/ \E f \in S : f \notin Asks(id) \cup Settlings(id) /\ toClient'[d] = Append(toClient[d], f),
         asked'[id] = asked[id], views'[d] = views[d],
         d \in subscriptions'[asked[id].room] <=> d \in subscriptions[asked[id].room],
         id \in dialogs'[d] <=> id \in dialogs[d], id \in serverRequests' <=> id \in serverRequests,
         (id \in serverRequests' /\ Answering(d, id)) => Answering(d, id)'
  PROVE  Shown(d, id)'
<1> DEFINE s == toClient[d]
           r == asked[id].room
           A == Asks(id)
           R == Settlings(id)
           x == Reply("start", r)
           y == Reply("unsubscribe", r)
<1>1. A' = A /\ R' = R /\ x' = x /\ y' = y /\ r' = r
  BY DEF Asks, Settlings, Reply, Msg
<1>2. /\ Meets(s', A) <=> Meets(s, A)
      /\ Meets(s', R) <=> Meets(s, R)
      /\ Meets(s', A \cup R) <=> Meets(s, A \cup R)
      /\ NoneAfter(s, R, A) => NoneAfter(s', R, A)
      /\ NoneAfter(s, {y}, A \cup R) => NoneAfter(s', {y}, A \cup R)
      /\ Preceded(s, A \cup R, x) => Preceded(s', A \cup R, x)
  <2>1. CASE s' = s
    BY <2>1
  <2>2. ASSUME NEW f \in S, f \notin A \cup R, s' = Append(s, f)
        PROVE  /\ Meets(s', A) <=> Meets(s, A)
               /\ Meets(s', R) <=> Meets(s, R)
               /\ Meets(s', A \cup R) <=> Meets(s, A \cup R)
               /\ NoneAfter(s, R, A) => NoneAfter(s', R, A)
               /\ NoneAfter(s, {y}, A \cup R) => NoneAfter(s', {y}, A \cup R)
               /\ Preceded(s, A \cup R, x) => Preceded(s', A \cup R, x)
    <3> HIDE DEF A, R, x, y
    <3>1. s \in Seq(S)
      OBVIOUS
    <3> HIDE DEF s
    <3>2. /\ \A B : Meets(Append(s, f), B) <=> Meets(s, B) \/ f \in B
          /\ \A B, z : (Preceded(s, B, z) /\ (f \in B => In(s, z))) => Preceded(Append(s, f), B, z)
          /\ \A X, B : (NoneAfter(s, X, B) /\ (f \in B => f \notin X /\ ~Meets(s, X))) => NoneAfter(Append(s, f), X, B)
      BY <3>1, AppendInOrder
    <3> QED  BY <2>2, <3>2
  <2> QED  BY <2>1, <2>2
<1>3. Shown(d, id)
  OBVIOUS
<1> QED  BY <1>1, <1>2, <1>3 DEF Shown

\* A client that views a chat and is subscribed has not been told it has left.
LEMMA NotLeft ==
  ASSUME NEW d \in Clients, NEW r \in Rooms, Stands(d, r)
  PROVE  /\ d \in subscriptions[r] => ~In(toClient[d], Reply("unsubscribe", r))
         /\ (d \in subscriptions[r] /\ views[d][r] = "opening") => In(toClient[d], Reply("start", r))
         /\ views[d][r] # "leaving" => ~In(toClient[d], Reply("unsubscribe", r))
BY DEF Stands, Replied

\* An answer that is read settles what it is about.
LEMMA AnswerKept ==
  ASSUME Typed, NEW c \in Clients, NEW m, Handles(c, m), NoteEffect(c, m), NEW d \in Clients, NEW id \in Ids,
         id \in serverRequests', Answering(d, id)
  PROVE  Answering(d, id)'
<1>1. toGateway' = toGateway \/ (toGateway[c] # <<>> /\ m = Head(toGateway[c]) /\ toGateway' = [toGateway EXCEPT ![c] = Tail(@)])
  BY DEF Handles, Reads
<1>2. ~(m.type = "answer" /\ m.id = id)
  BY DEF NoteEffect
<1>3. toGateway \in [Clients -> Seq(Messages)]
  BY DEF Typed, GatewaySide
<1>4. CASE toGateway'[d] = toGateway[d]
  BY <1>4 DEF Answering
<1>5. CASE d = c /\ toGateway[c] # <<>> /\ m = Head(toGateway[c]) /\ toGateway' = [toGateway EXCEPT ![c] = Tail(@)]
  <2>1. /\ Len(toGateway[c]) \in Nat /\ DOMAIN toGateway[c] = 1 .. Len(toGateway[c]) /\ m = toGateway[c][1]
        /\ toGateway'[c] = Tail(toGateway[c]) /\ Tail(toGateway[c]) \in Seq(Messages)
        /\ DOMAIN toGateway'[c] = 1 .. Len(toGateway[c]) - 1
        /\ \A i \in 1 .. Len(toGateway[c]) - 1 : toGateway'[c][i] = toGateway[c][i + 1]
    BY <1>3, <1>5, ReadTyped, LenProperties
  <2>2. PICK i \in 1 .. Len(toGateway[c]) : toGateway[c][i].type = "answer" /\ toGateway[c][i].id = id
    BY <1>5, <2>1 DEF Answering
  <2>3. i # 1
    BY <1>2, <2>1, <2>2
  <2>4. i - 1 \in 1 .. Len(toGateway[c]) - 1 /\ (i - 1) + 1 = i
    BY <2>1, <2>3
  <2>5. i - 1 \in DOMAIN toGateway'[c] /\ toGateway'[c][i - 1] = toGateway[c][i]
    BY <2>1, <2>4
  <2> QED  BY <1>5, <2>2, <2>5 DEF Answering
<1> QED  BY <1>1, <1>3, <1>4, <1>5

\* Approvals of a chat are settled: its subscribers are told, and show them no more.
LEMMA SettleShown ==
  ASSUME Typed, NEW q \in Rooms, NEW ids \in SUBSET Of(q), serverRequests' = serverRequests \ ids,
         UNCHANGED <<subscriptions, asked, views, dialogs>>, toClient' = Emit(q, [type |-> "resolved", ids |-> ids]),
         NEW d \in Clients, d \notin closed, NEW id \in Ids, Shown(d, id), asked[id].room \in Rooms, Stands(d, asked[id].room),
         (id \in serverRequests' /\ Answering(d, id)) => Answering(d, id)'
  PROVE  Shown(d, id)'
<1> DEFINE f == [type |-> "resolved", ids |-> ids]
           s == toClient[d]
           r == asked[id].room
           A == Asks(id)
           R == Settlings(id)
           x == Reply("start", r)
           y == Reply("unsubscribe", r)
<1>1. /\ f \in Notes \cup Replies /\ f \in Notes /\ f.type = "resolved" /\ f.ids = ids
      /\ \A b \in ids : b \in serverRequests /\ b \in Ids /\ asked[b].room = q
  BY DEF Of, Notes, Typed, GatewaySide
<1>2. s' = IF d \in subscriptions[q] THEN Append(s, f) ELSE s
  BY <1>1, EmitSends
<1>3. (f \in R <=> id \in ids) /\ f \notin A
  BY <1>1, FrameAbout
<1>4. CASE id \notin ids
  <2>1. s \in Seq(Notes \cup Replies)
    BY DEF Typed
  <2>2. s' = s \/ \E g \in Notes \cup Replies : g \notin A \cup R /\ s' = Append(s, g)
    <3> HIDE DEF f
    <3> QED  BY <1>1, <1>2, <1>3, <1>4
  <2>3. /\ asked'[id] = asked[id] /\ views'[d] = views[d] /\ (d \in subscriptions'[r] <=> d \in subscriptions[r])
        /\ (id \in dialogs'[d] <=> id \in dialogs[d]) /\ (id \in serverRequests' <=> id \in serverRequests)
    BY <1>4
  <2> QED  BY <2>1, <2>2, <2>3, ShownKept
<1>5. CASE id \in ids
  <2>1. q = r /\ id \in serverRequests /\ id \notin serverRequests' /\ f \in R
    BY <1>1, <1>3, <1>5
  <2>2. A' = A /\ R' = R /\ x' = x /\ y' = y /\ r' = r
    BY DEF Asks, Settlings, Reply, Msg
  <2>3. d \in subscriptions[r] => ~In(s, y) /\ (views[d][r] = "opening" => In(s, x))
    BY NotLeft
  <2>4. f # y
    BY DEF Reply
  <2>5. s \in Seq(Notes \cup Replies)
    BY DEF Typed
  <2>6. /\ NoneAfter(s, R, A) /\ NoneAfter(s, {y}, A \cup R)
        /\ views[d][r] = "opening" => Preceded(s, A \cup R, x)
        /\ (views[d][r] \in {"no", "viewing"} /\ d \notin subscriptions[r]) => ~Meets(s, A \cup R)
        /\ (views[d][r] # "viewing" \/ d \notin subscriptions[r]) => id \notin dialogs[d]
    BY DEF Shown
  <2>7. CASE d \in subscriptions[r]
    <3>1. s' = Append(s, f)
      BY <1>2, <2>1, <2>7
    <3> HIDE DEF f, s, A, R, x, y
    <3>2. /\ \A B : Meets(Append(s, f), B) <=> Meets(s, B) \/ f \in B
          /\ \A B, z : (Preceded(s, B, z) /\ (f \in B => In(s, z))) => Preceded(Append(s, f), B, z)
          /\ \A X, B : (NoneAfter(s, X, B) /\ (f \in B => f \notin X /\ ~Meets(s, X))) => NoneAfter(Append(s, f), X, B)
      BY <1>1, <2>5, AppendInOrder
    <3>3. ~Meets(s, {y})
      BY <2>3, <2>7, NotMet
    <3>4. NoneAfter(s', R, A) /\ Meets(s', R) /\ NoneAfter(s', {y}, A \cup R) /\ (views[d][r] = "opening" => Preceded(s', A \cup R, x))
      BY <1>3, <2>1, <2>3, <2>4, <2>6, <2>7, <3>1, <3>2, <3>3
    <3> QED  BY <2>1, <2>2, <2>6, <2>7, <3>4 DEF Shown, s, A, R, x, y
  <2>8. CASE d \notin subscriptions[r]
    <3>1. s' = s
      BY <1>2, <2>1, <2>8
    <3> QED  BY <2>1, <2>2, <2>6, <2>8, <3>1 DEF Shown
  <2> QED  BY <2>7, <2>8
<1> QED  BY <1>4, <1>5

\* Who is subscribed anew is shown what the chat asks, and nothing it had
\* shown before is under way to it.
LEMMA ResumeShown ==
  ASSUME Typed, NEW d \in Clients, d \notin closed, NEW id \in Ids, Shown(d, id),
         asked[id].room \in Rooms, Stands(d, asked[id].room), d \notin subscriptions[asked[id].room],
         subscriptions' = [subscriptions EXCEPT ![asked[id].room] = @ \cup {d}],
         toClient' = Asking(toClient, d, Of(asked[id].room)), UNCHANGED <<serverRequests, asked, views, dialogs>>,
         In(Pending(d), Msg("resume", asked[id].room)),
         views[d][asked[id].room] # "viewing" => Waits(d, "unsubscribe", asked[id].room)
  PROVE  Shown(d, id)'
<1> DEFINE r == asked[id].room
           f == [type |-> "ask", ids |-> Small(Of(r))]
           s == toClient[d]
           A == Asks(id)
           R == Settlings(id)
           x == Reply("start", r)
           y == Reply("unsubscribe", r)
           asks == id \in serverRequests /\ ~asked[id].big
<1>1. f \in Notes \cup Replies /\ f.type = "ask" /\ f.ids = Small(Of(r))
      /\ s' = IF Small(Of(r)) # {} THEN Append(s, f) ELSE s
  BY AskingSends
<1>2. (f \in A <=> asks) /\ f \notin R /\ (asks => Small(Of(r)) # {})
  <2>1. id \in Small(Of(r)) <=> asks
    BY DEF Small, Of
  <2> QED  BY <1>1, <2>1, FrameAbout
<1>3. views[d][r] \in {"viewing", "leaving"} /\ ~In(s, y)
  BY DEF Stands, Replied
<1>4. A' = A /\ R' = R /\ x' = x /\ y' = y /\ r' = r /\ d \in subscriptions'[r] /\ f # y /\ s \in Seq(Notes \cup Replies)
  <2>1. subscriptions \in [Rooms -> SUBSET Clients]
    BY DEF Typed, GatewaySide
  <2>2. d \in subscriptions'[r]
    BY <2>1
  <2> QED  BY <2>2 DEF Asks, Settlings, Reply, Msg, Typed
<1>5. /\ NoneAfter(s, R, A) /\ NoneAfter(s, {y}, A \cup R)
      /\ Meets(s, R) => id \notin serverRequests
      /\ views[d][r] = "viewing" => ~Meets(s, A \cup R)
      /\ id \notin dialogs[d]
  BY DEF Shown
<1> HIDE DEF f, s, A, R, x, y
<1>6. /\ \A B : Meets(Append(s, f), B) <=> Meets(s, B) \/ f \in B
      /\ \A X, B : (NoneAfter(s, X, B) /\ (f \in B => f \notin X /\ ~Meets(s, X))) => NoneAfter(Append(s, f), X, B)
  BY <1>1, <1>4, AppendInOrder
<1>7. ~Meets(s, {y}) /\ (views[d][r] = "viewing" => ~Meets(s, A) /\ ~Meets(s, R))
  BY <1>3, <1>5, NotMet
<1>8. NoneAfter(s', R, A) /\ NoneAfter(s', {y}, A \cup R) /\ (Meets(s', R) <=> Meets(s, R))
      /\ (views[d][r] = "viewing" => (Meets(s', A) <=> asks))
  BY <1>1, <1>2, <1>4, <1>5, <1>6, <1>7
<1>9. asked[id].room = r /\ UNCHANGED <<serverRequests, asked, views, dialogs>>
  OBVIOUS
<1> HIDE DEF r
<1>10. (asked'[id].room = r' /\ r' = r)
  BY <1>4, <1>9
<1>11. views'[d][r] # "opening" /\ views'[d][r] # "no" /\ id \notin dialogs'[d]
  BY <1>3, <1>5, <1>9
<1>12. Meets(s', R) => id \notin serverRequests'
  BY <1>5, <1>8, <1>9
<1>13. views'[d][r] = "viewing" => /\ Meets(s', A) => id \in serverRequests'
                                   /\ (id \in serverRequests' /\ ~asked'[id].big) => Meets(s', A)
  BY <1>8, <1>9
<1> QED  BY <1>4, <1>8, <1>9, <1>10, <1>11, <1>12, <1>13 DEF Shown, s, A, R, x, y

\* Who has asked to leave a chat shows none of it; its answer is the last frame
\* about the chat.
LEMMA LeaveShown ==
  ASSUME Typed, NEW d \in Clients, d \notin closed, NEW id \in Ids, Shown(d, id),
         asked[id].room \in Rooms, views[d][asked[id].room] = "leaving",
         toClient' = Send(toClient, d, Reply("unsubscribe", asked[id].room)),
         UNCHANGED <<serverRequests, asked, views, dialogs>>
  PROVE  Shown(d, id)'
<1> DEFINE r == asked[id].room
           s == toClient[d]
           A == Asks(id)
           R == Settlings(id)
           y == Reply("unsubscribe", r)
<1>1. y \in Replies /\ y \in Notes \cup Replies /\ s \in Seq(Notes \cup Replies)
  <2>1. Msg("unsubscribe", r) \in Messages
    BY MessagesOf DEF RoomTypes
  <2> QED  BY <2>1 DEF Reply, Replies, Typed
<1>2. s' = Append(s, y) /\ y \notin A \cup R
  BY <1>1, SendSends, FrameAbout
<1>3. A' = A /\ R' = R /\ y' = y /\ r' = r
  BY DEF Asks, Settlings, Reply, Msg
<1>4. /\ NoneAfter(s, R, A) /\ NoneAfter(s, {y}, A \cup R)
      /\ Meets(s, R) => id \notin serverRequests
      /\ id \notin dialogs[d]
  BY DEF Shown
<1> HIDE DEF s, A, R, y
<1>5. /\ \A B : Meets(Append(s, y), B) <=> Meets(s, B) \/ y \in B
      /\ \A X, B : (NoneAfter(s, X, B) /\ (y \in B => y \notin X /\ ~Meets(s, X))) => NoneAfter(Append(s, y), X, B)
  BY <1>1, AppendInOrder
<1>6. NoneAfter(s', R, A) /\ NoneAfter(s', {y}, A \cup R) /\ (Meets(s', R) => id \notin serverRequests)
  BY <1>2, <1>4, <1>5
<1> QED  BY <1>3, <1>4, <1>6 DEF Shown, s, A, R, y

LEMMA HandledShown ==
  ASSUME Typed, RoomsInv, NEW c \in Clients, NEW m, Handles(c, m),
         NEW d \in Clients, d \notin closed, NEW id \in Ids, Shown(d, id)
  PROVE  Shown(d, id)'
<1> DEFINE r == asked[id].room
           s == toClient[d]
           Kept == /\ s' = s \/ \E f \in Notes \cup Replies : f \notin Asks(id) \cup Settlings(id) /\ s' = Append(s, f)
                   /\ d \in subscriptions'[r] <=> d \in subscriptions[r]
                   /\ serverRequests' = serverRequests
<1>1. /\ m \in Messages /\ Reads(c, m) /\ NoteEffect(c, m) /\ UNCHANGED <<asked, views, dialogs>>
  BY DispatchNotes DEF Handles, clientSide
<1>2. /\ r \in Rooms /\ Stands(d, r) /\ s \in Seq(Notes \cup Replies) /\ subscriptions \in [Rooms -> SUBSET Clients]
  <2>1. asked[id] \in [room : Rooms, big : BOOLEAN]
    BY ElementOfSeq DEF Typed, GatewaySide, Ids
  <2> QED  BY <2>1 DEF RoomsInv, Typed, GatewaySide
<1>3. (id \in serverRequests' /\ Answering(d, id)) => Answering(d, id)'
  BY <1>1, AnswerKept
<1>4. ASSUME Kept PROVE Shown(d, id)'
  BY <1>1, <1>2, <1>3, <1>4, ShownKept
<1>5. CASE UNCHANGED <<serverRequests, toClient, subscriptions>>
  BY <1>4, <1>5
<1>6. ASSUME NEW q \in Rooms, NEW ids \in SUBSET Of(q), serverRequests' = serverRequests \ ids, UNCHANGED subscriptions,
             toClient' = Emit(q, [type |-> "resolved", ids |-> ids])
      PROVE  Shown(d, id)'
  BY <1>1, <1>2, <1>3, <1>6, SettleShown
<1>7. CASE /\ m.type = "resume" /\ m.room \in Rooms /\ UNCHANGED serverRequests
           /\ subscriptions' = [subscriptions EXCEPT ![m.room] = @ \cup {c}]
           /\ toClient' = IF c \in subscriptions[m.room] THEN toClient ELSE Asking(toClient, c, Of(m.room))
  <2> DEFINE f == [type |-> "ask", ids |-> Small(Of(m.room))]
  <2>1. f \in Notes \cup Replies /\ f.ids = Small(Of(m.room)) /\ f.type = "ask" /\ (s' = s \/ (d = c /\ s' = Append(s, f)))
    BY <1>7, AskingSends
  <2>2. CASE d # c \/ c \in subscriptions[m.room]
    <3>1. s' = s
      BY <1>7, <2>1, <2>2
    <3>2. d \in subscriptions'[r] <=> d \in subscriptions[r]
      BY <1>2, <1>7, <2>2
    <3> QED  BY <1>4, <1>7, <3>1, <3>2
  <2>3. CASE m.room # r
    <3>1. id \notin Small(Of(m.room))
      BY <2>3 DEF Small, Of
    <3>2. f \notin Asks(id) \cup Settlings(id)
      BY <2>1, <3>1, FrameAbout
    <3>3. d \in subscriptions'[r] <=> d \in subscriptions[r]
      BY <1>2, <1>7, <2>3
    <3> HIDE DEF f
    <3> QED  BY <1>4, <1>7, <2>1, <3>2, <3>3
  <2>4. CASE d = c /\ m.room = r /\ c \notin subscriptions[r]
    <3>1. m = Msg("resume", r)
      BY <1>1, <1>7, <2>4, MessageForms
    <3>2. /\ In(Pending(c), Msg("resume", r))
          /\ Followed(Pending(c), Msg("resume", r), Msg("unsubscribe", r)) => In(Pending(c)', Msg("unsubscribe", r))
          /\ In(Pending(c)', Msg("unsubscribe", r)) => In(Pending(c), Msg("unsubscribe", r))
      <4> DEFINE a == Msg("resume", r)
                 b == Msg("unsubscribe", r)
      <4> HIDE DEF a, b
      <4>1. m = a
        BY <3>1 DEF a
      <4>2. /\ In(Pending(c), a)
            /\ Followed(Pending(c), a, b) => In(Pending(c)', b)
            /\ In(Pending(c)', b) => In(Pending(c), b)
        BY <1>1, <4>1, ReadOrder
      <4> QED  BY <4>2 DEF a, b
    <3>3. views[c][r] # "viewing" => Waits(c, "unsubscribe", r)
      BY <1>2, <2>4, <3>2 DEF Stands, Waits
    <3>4. /\ subscriptions' = [subscriptions EXCEPT ![r] = @ \cup {d}] /\ toClient' = Asking(toClient, d, Of(r))
      BY <1>7, <2>4
    <3> QED  BY <1>1, <1>2, <1>7, <2>4, <3>2, <3>3, <3>4, ResumeShown
  <2> QED  BY <2>2, <2>3, <2>4
<1>8. CASE /\ m.type = "unsubscribe" /\ m.room \in Rooms /\ UNCHANGED serverRequests
           /\ subscriptions' = [subscriptions EXCEPT ![m.room] = @ \ {c}]
           /\ toClient' = Send(toClient, c, Reply("unsubscribe", m.room))
  <2> DEFINE y == Reply("unsubscribe", m.room)
  <2>1. y \in Replies /\ y \in Notes \cup Replies /\ (s' = s \/ (d = c /\ s' = Append(s, y)))
    <3>1. Msg("unsubscribe", m.room) \in Messages
      BY <1>8, MessagesOf DEF RoomTypes
    <3>2. y \in Replies /\ toClient' = Send(toClient, c, y)
      BY <1>8, <3>1 DEF Reply, Replies
    <3> HIDE DEF y
    <3>3. y \in Notes \cup Replies
      BY <3>2
    <3>4. Send(toClient, c, y)[d] = IF d = c /\ c \notin closed THEN Append(toClient[d], y) ELSE toClient[d]
      BY <3>3, SendSends
    <3> QED  BY <3>2, <3>3, <3>4
  <2>2. CASE d # c \/ m.room # r
    <3>1. y \notin Asks(id) \cup Settlings(id)
      BY <2>1, FrameAbout
    <3>2. d \in subscriptions'[r] <=> d \in subscriptions[r]
      BY <1>2, <1>8, <2>2
    <3> HIDE DEF y
    <3> QED  BY <1>4, <1>8, <2>1, <3>1, <3>2
  <2>3. CASE d = c /\ m.room = r
    <3>1. m = Msg("unsubscribe", r)
      BY <1>1, <1>8, <2>3, MessageForms
    <3>2. In(Pending(c), Msg("unsubscribe", r))
      BY <1>1, <3>1, ReadOrder
    <3>3. views[d][r] = "leaving"
      BY <1>2, <2>3, <3>2 DEF Stands, Waits
    <3>4. toClient' = Send(toClient, d, Reply("unsubscribe", r))
      BY <1>8, <2>3
    <3> QED  BY <1>1, <1>2, <1>8, <3>3, <3>4, LeaveShown
  <2> QED  BY <2>2, <2>3
<1> QED  BY <1>1, <1>5, <1>6, <1>7, <1>8 DEF NoteEffect

LEMMA RoomOf == ASSUME Typed, NEW id \in Ids PROVE asked[id] \in [room : Rooms, big : BOOLEAN] /\ asked[id].room \in Rooms
<1>1. asked[id] \in [room : Rooms, big : BOOLEAN]
  BY ElementOfSeq DEF Typed, GatewaySide, Ids
<1> QED  BY <1>1

LEMMA FinishShown ==
  ASSUME Typed, RoomsInv, NEW c \in Clients, NEW call \in calls[c], Finish(c, call),
         NEW d \in Clients, NEW id \in Ids, Shown(d, id)
  PROVE  Shown(d, id)'
<1> DEFINE f == [type |-> "reply", call |-> call]
           r == asked[id].room
           s == toClient[d]
<1>1. /\ subscriptions' = IF call.type = "start" THEN [subscriptions EXCEPT ![call.room] = @ \cup {c}] ELSE subscriptions
      /\ subscriptions \in [Rooms -> SUBSET Clients]
      /\ UNCHANGED <<toGateway, serverRequests, asked, views, dialogs>>
  BY DEF Finish, clientSide, Typed, GatewaySide
<1>2. /\ call \in Messages /\ toClient' = Send(toClient, c, f)
      /\ call.type = "start" => r # call.room
  BY FinishAnswers
<1>3. f \in Replies /\ f \notin Asks(id) \cup Settlings(id) /\ s \in Seq(Notes \cup Replies)
  <2>1. f \in Replies
    BY <1>2 DEF Replies
  <2> QED  BY <2>1, FrameAbout DEF Typed
<1>4. d \in subscriptions'[r] <=> d \in subscriptions[r]
  BY <1>1, <1>2, RoomOf
<1>5. Answering(d, id)' <=> Answering(d, id)
  BY <1>1 DEF Answering
<1> HIDE DEF f
<1>6. s' = s \/ s' = Append(s, f)
  <2>1. f \in Notes \cup Replies
    BY <1>3
  <2>2. Send(toClient, c, f)[d] = IF d = c /\ c \notin closed THEN Append(toClient[d], f) ELSE toClient[d]
    BY <2>1, SendSends
  <2> QED  BY <1>2, <2>2
<1>7. s' = s \/ \E g \in Notes \cup Replies : g \notin Asks(id) \cup Settlings(id) /\ s' = Append(s, g)
  BY <1>3, <1>6
<1> QED  BY <1>1, <1>3, <1>4, <1>5, <1>7, ShownKept

\* An approval that is new was on its way to nobody.
LEMMA AskShown ==
  ASSUME Typed, RoomsInv, NEW q \in Rooms, NEW big \in BOOLEAN, ServerRequest(q, big),
         NEW d \in Clients, d \notin closed, NEW id \in Ids', id \in Ids => Shown(d, id)
  PROVE  Shown(d, id)'
<1> DEFINE new == Len(asked) + 1
           f == [type |-> "ask", ids |-> {new}]
           s == toClient[d]
           S == (Notes \cup Replies)'
           A == Asks(id)
           R == Settlings(id)
<1>1. /\ asked' = Append(asked, [room |-> q, big |-> big]) /\ serverRequests' = serverRequests \cup {new}
      /\ Len(asked) < MaxAsked /\ toClient' = IF big THEN toClient ELSE Emit(q, f)
      /\ UNCHANGED <<ready, down, closed, toGateway, backlog, calls, subscriptions, known, loaded, views, dialogs>>
  BY DEF ServerRequest, claudeSide, clientSide
<1>2. /\ Len(asked) \in Nat /\ asked'[new] = [room |-> q, big |-> big] /\ \A i \in 1 .. Len(asked) : asked'[i] = asked[i]
      /\ Ids = 1 .. Len(asked) /\ Ids' = 1 .. new
  <2>1. asked \in Seq([room : Rooms, big : BOOLEAN]) /\ [room |-> q, big |-> big] \in [room : Rooms, big : BOOLEAN]
    BY DEF Typed, GatewaySide
  <2>2. Len(asked) \in Nat /\ Len(asked') = new
    BY <1>1, <2>1, AppendProperties, LenProperties
  <2> QED  BY <1>1, <2>1, <2>2, AppendProperties, LenProperties DEF Ids
<1>3. s' = IF ~big /\ d \in subscriptions[q] THEN Append(s, f) ELSE s
  BY <1>1 DEF Emit
<1>4. f \in S /\ s \in Seq(S) /\ s \in Seq(Notes \cup Replies)
  <2>1. Ids \subseteq Ids' /\ {new} \subseteq Ids'
    BY <1>2
  <2>2. Notes \cup Replies \subseteq S /\ f \in S
    BY <2>1 DEF Notes, Replies
  <2>3. s \in Seq(Notes \cup Replies)
    BY DEF Typed
  <2> QED  BY <2>2, <2>3, SeqMonotonic
<1>5. MaxAsked \in Nat /\ new \in 1 .. MaxAsked /\ id \in 1 .. MaxAsked /\ f \notin R /\ (f \in A <=> id = new)
  <2>1. MaxAsked \in Nat /\ new \in 1 .. MaxAsked /\ id \in 1 .. MaxAsked
    BY <1>1, <1>2, RequestsAssumption
  <2> QED  BY <2>1 DEF Asks, Settlings
<1>6. CASE id # new
  <2>1. id \in Ids /\ asked'[id] = asked[id]
    BY <1>2, <1>6
  <2>2. s' = s \/ \E g \in S : g \notin A \cup R /\ s' = Append(s, g)
    <3> HIDE DEF f
    <3> QED  BY <1>3, <1>4, <1>5, <1>6
  <2>3. /\ views'[d] = views[d] /\ (d \in subscriptions'[asked[id].room] <=> d \in subscriptions[asked[id].room])
        /\ (id \in dialogs'[d] <=> id \in dialogs[d]) /\ (id \in serverRequests' <=> id \in serverRequests)
        /\ (Answering(d, id) => Answering(d, id)')
    BY <1>1, <1>6 DEF Answering
  <2> QED  BY <1>4, <2>1, <2>2, <2>3, ShownKept
<1>7. CASE id = new
  <2> DEFINE x == Reply("start", q)
             y == Reply("unsubscribe", q)
  <2>1. id \notin Ids /\ asked'[id].room = q /\ asked'[id].big = big /\ id \in serverRequests' /\ id \notin dialogs'[d]
    <3>1. id \notin Ids
      BY <1>2, <1>7
    <3> QED  BY <1>1, <1>2, <1>7, <3>1 DEF Typed, OtherSides
  <2>2. ~Meets(s, A) /\ ~Meets(s, R)
    <3>1. ASSUME NEW g \in Notes \cup Replies PROVE g \notin A /\ g \notin R
      BY <2>1 DEF Notes, Replies, Asks, Settlings
    <3>2. \A i \in DOMAIN s : s[i] \in Notes \cup Replies
      BY <1>4, ElementOfSeq, LenProperties
    <3> QED  BY <3>1, <3>2 DEF Meets
  <2>3. A' = A /\ R' = R /\ x' = x /\ y' = y
    BY DEF Asks, Settlings, Reply, Msg
  <2>4. d \in subscriptions[q] => ~In(s, y) /\ (views[d][q] = "opening" => In(s, x))
    <3>1. Stands(d, q)
      BY DEF RoomsInv
    <3> QED  BY <3>1, NotLeft
  <2>5. f # y
    BY DEF Reply
  <2> HIDE DEF f, s, A, R, x, y, S
  <2>6. /\ \A B : Meets(Append(s, f), B) <=> Meets(s, B) \/ f \in B
        /\ \A B, z : (Preceded(s, B, z) /\ (f \in B => In(s, z))) => Preceded(Append(s, f), B, z)
        /\ \A X, B : (NoneAfter(s, X, B) /\ (f \in B => f \notin X /\ ~Meets(s, X))) => NoneAfter(Append(s, f), X, B)
    BY <1>4, AppendInOrder
  <2>7. ~Meets(s, A \cup R) /\ NoneAfter(s, R, A) /\ NoneAfter(s, {y}, A \cup R) /\ Preceded(s, A \cup R, x)
        /\ (d \in subscriptions[q] => ~Meets(s, {y}))
    BY <2>2, <2>4, NotMet
  <2>8. /\ NoneAfter(s', R, A) /\ NoneAfter(s', {y}, A \cup R) /\ ~Meets(s', R)
        /\ views[d][q] = "opening" => Preceded(s', A \cup R, x)
        /\ d \notin subscriptions[q] => ~Meets(s', A \cup R)
        /\ (d \in subscriptions[q] /\ ~big) => Meets(s', A)
    <3>1. CASE ~big /\ d \in subscriptions[q]
      BY <1>3, <1>5, <1>7, <2>2, <2>4, <2>5, <2>6, <2>7, <3>1
    <3>2. CASE ~(~big /\ d \in subscriptions[q])
      BY <1>3, <2>2, <2>7, <3>2
    <3> QED  BY <3>1, <3>2
  <2>9. views' = views /\ subscriptions' = subscriptions
    BY <1>1
  <2> QED  BY <2>1, <2>3, <2>8, <2>9 DEF Shown, s, A, R, x, y
<1> QED  BY <1>6, <1>7

LEMMA CloseShown ==
  ASSUME Typed, NEW c \in Clients, CloseConnection(c),
         NEW d \in Clients, d \notin closed', NEW id \in Ids, Shown(d, id)
  PROVE  Shown(d, id)'
<1>1. /\ closed' = closed \cup {c} /\ subscriptions' = [r \in Rooms |-> subscriptions[r] \ {c}]
      /\ toGateway' = [toGateway EXCEPT ![c] = <<>>] /\ toClient' = [toClient EXCEPT ![c] = <<>>]
      /\ dialogs' = [dialogs EXCEPT ![c] = {}] /\ UNCHANGED <<asked, serverRequests, views>>
  BY DEF CloseConnection, Detach
<1>2. /\ toGateway \in [Clients -> Seq(Messages)] /\ toClient \in [Clients -> Seq(Notes \cup Replies)]
      /\ dialogs \in [Clients -> SUBSET Ids] /\ d # c /\ asked[id].room \in Rooms
  BY <1>1, RoomOf DEF Typed, GatewaySide, OtherSides
<1>3. /\ toClient'[d] = toClient[d] /\ toGateway'[d] = toGateway[d] /\ dialogs'[d] = dialogs[d]
      /\ d \in subscriptions'[asked[id].room] <=> d \in subscriptions[asked[id].room]
  BY <1>1, <1>2
<1>4. Answering(d, id) => Answering(d, id)'
  BY <1>3 DEF Answering
<1>5. toClient[d] \in Seq(Notes \cup Replies)
  BY <1>2
<1> QED  BY <1>1, <1>3, <1>4, <1>5, ShownKept

LEMMA QuietShown ==
  ASSUME Typed, NEW d \in Clients, NEW id \in Ids, Shown(d, id), UNCHANGED <<toClient, subscriptions, serverRequests, asked, views, dialogs>>,
         (id \in serverRequests /\ Answering(d, id)) => Answering(d, id)'
  PROVE  Shown(d, id)'
<1>1. toClient[d] \in Seq(Notes \cup Replies)
  BY DEF Typed
<1> QED  BY <1>1, ShownKept

\* What a message moves its sender to, in a chat.
LEMMA PostView ==
  ASSUME Typed, NEW c \in Clients, NEW m \in Messages, Moves(c, m), NEW r \in Rooms
  PROVE  /\ \A d \in Clients \ {c} : views'[d] = views[d]
         /\ \/ views'[c][r] = views[c][r] /\ m # Msg("unsubscribe", r)
            \/ views[c][r] = "no" /\ views'[c][r] \in {"viewing", "opening"} /\ m.type \in {"resume", "start"}
            \/ views[c][r] = "viewing" /\ views'[c][r] = "leaving" /\ m = Msg("unsubscribe", r)
<1> DEFINE moved(q, z) == [views EXCEPT ![c][q] = z]
           v == views[c][r]
<1>1. views \in [Clients -> [Rooms -> Views]]
  BY DEF Typed, OtherSides
<1>2. ASSUME NEW q \in Rooms, NEW z PROVE moved(q, z)[c][r] = (IF q = r THEN z ELSE v) /\ \A d \in Clients \ {c} : moved(q, z)[d] = views[d]
  <2>1. views[c] \in [Rooms -> Views]
    BY <1>1
  <2> QED  BY <1>1, <2>1
<1>3. \A type, q : Msg(type, q).type = type /\ Msg(type, q).room = q
  BY DEF Msg
<1>4. \/ UNCHANGED views /\ m.type \in {"interrupt", "forward", "answer"}
      \/ \E q \in Rooms :
           \/ m = Msg("resume", q) /\ views[c][q] = "no" /\ views' = moved(q, "viewing")
           \/ m = Msg("start", q) /\ views[c][q] = "no" /\ views' = moved(q, "opening")
           \/ m = Msg("unsubscribe", q) /\ views[c][q] = "viewing" /\ views' = moved(q, "leaving")
  BY DEF Moves
<1> DEFINE Goal == /\ \A d \in Clients \ {c} : views'[d] = views[d]
                   /\ \/ views'[c][r] = v /\ m # Msg("unsubscribe", r)
                      \/ v = "no" /\ views'[c][r] \in {"viewing", "opening"} /\ m.type \in {"resume", "start"}
                      \/ v = "viewing" /\ views'[c][r] = "leaving" /\ m = Msg("unsubscribe", r)
<1>5. ASSUME UNCHANGED views, m.type \in {"interrupt", "forward", "answer"} PROVE Goal
  BY <1>3, <1>5
<1> HIDE DEF moved
<1>6. ASSUME NEW q \in Rooms, m = Msg("resume", q), views[c][q] = "no", views' = moved(q, "viewing") PROVE Goal
  BY <1>2, <1>3, <1>6
<1>7. ASSUME NEW q \in Rooms, m = Msg("start", q), views[c][q] = "no", views' = moved(q, "opening") PROVE Goal
  BY <1>2, <1>3, <1>7
<1>8. ASSUME NEW q \in Rooms, m = Msg("unsubscribe", q), views[c][q] = "viewing", views' = moved(q, "leaving") PROVE Goal
  BY <1>2, <1>3, <1>8
<1> QED  BY <1>4, <1>5, <1>6, <1>7, <1>8

\* A dialog that is answered has its answer under way; one of a chat that is
\* left goes with it.
LEMMA PostShown ==
  ASSUME Typed, RoomsInv, NEW c \in Clients, NEW m \in Messages, Post(c, m), Moves(c, m), Hides(c, m),
         NEW d \in Clients, d \notin closed, NEW id \in Ids, Shown(d, id)
  PROVE  Shown(d, id)'
<1> DEFINE r == asked[id].room
           s == toClient[d]
           A == Asks(id)
           R == Settlings(id)
           x == Reply("start", r)
           y == Reply("unsubscribe", r)
           v == views[d][r]
           sub == d \in subscriptions[r]
<1>1. /\ toGateway' = [toGateway EXCEPT ![c] = Append(@, m)] /\ toGateway \in [Clients -> Seq(Messages)]
      /\ UNCHANGED <<toClient, subscriptions, serverRequests, asked>> /\ dialogs \in [Clients -> SUBSET Ids]
      /\ s \in Seq(Notes \cup Replies) /\ r \in Rooms /\ Stands(d, r)
  <2>1. r \in Rooms
    BY RoomOf
  <2> QED  BY <2>1 DEF Post, Typed, GatewaySide, OtherSides, RoomsInv
<1>2. /\ Answering(d, id) => Answering(d, id)'
      /\ (d = c /\ m.type = "answer" /\ m.id = id) => Answering(d, id)'
  <2>1. CASE d # c
    BY <1>1, <2>1 DEF Answering
  <2>2. CASE d = c
    <3>1. /\ Len(toGateway[c]) \in Nat /\ DOMAIN toGateway[c] = 1 .. Len(toGateway[c]) /\ toGateway'[c] = Append(toGateway[c], m)
          /\ DOMAIN toGateway'[c] = 1 .. Len(toGateway[c]) + 1 /\ toGateway'[c][Len(toGateway[c]) + 1] = m
          /\ \A j \in 1 .. Len(toGateway[c]) : toGateway'[c][j] = toGateway[c][j]
      BY <1>1, AppendProperties, LenProperties
    <3>2. Len(toGateway[c]) + 1 \in DOMAIN toGateway'[c] /\ \A j \in DOMAIN toGateway[c] : j \in DOMAIN toGateway'[c]
      BY <3>1
    <3> QED  BY <2>2, <3>1, <3>2 DEF Answering
  <2> QED  BY <2>1, <2>2
<1>3. A' = A /\ R' = R /\ x' = x /\ y' = y /\ r' = r
  BY <1>1 DEF Asks, Settlings, Reply, Msg
<1>4. CASE d # c
  <2>1. views'[d] = views[d] /\ dialogs'[d] = dialogs[d]
    BY <1>1, <1>4, PostView DEF Hides
  <2> QED  BY <1>1, <1>2, <2>1, ShownKept
<1>5. CASE d = c
  <2>1. \/ v' = v /\ m # Msg("unsubscribe", r)
        \/ v = "no" /\ v' \in {"viewing", "opening"} /\ m.type \in {"resume", "start"}
        \/ v = "viewing" /\ v' = "leaving" /\ m = Msg("unsubscribe", r)
    BY <1>1, <1>3, <1>5, PostView
  <2>2. /\ id \in dialogs'[d] => id \in dialogs[d]
        /\ m = Msg("unsubscribe", r) => id \notin dialogs'[d]
        /\ (id \in dialogs[d] /\ id \notin dialogs'[d]) => m = Msg("unsubscribe", r) \/ (m.type = "answer" /\ m.id = id)
    <3>1. m.type = "unsubscribe" => m = Msg("unsubscribe", m.room)
      BY MessageForms
    <3>2. Msg("unsubscribe", r).type = "unsubscribe" /\ Msg("unsubscribe", r).room = r
      BY DEF Msg
    <3> QED  BY <1>1, <1>5, <3>1, <3>2 DEF Hides
  <2>3. (v = "no" => ~sub) /\ (~Meets(s, A \cup R) => Preceded(s, A \cup R, x))
    BY <1>1, NotMet DEF Stands
  <2>4. /\ NoneAfter(s, R, A) /\ NoneAfter(s, {y}, A \cup R)
        /\ Meets(s, R) => id \notin serverRequests
        /\ v = "opening" => Preceded(s, A \cup R, x)
        /\ (v \in {"no", "viewing"} /\ ~sub) => ~Meets(s, A \cup R)
        /\ (v # "viewing" \/ ~sub) => id \notin dialogs[d]
        /\ (v \in {"opening", "viewing"} /\ sub) =>
              /\ (~Meets(s, R) /\ (id \in dialogs[d] \/ Meets(s, A))) => id \in serverRequests
              /\ (id \in serverRequests /\ ~asked[id].big) => id \in dialogs[d] \/ Meets(s, A) \/ Answering(d, id)
    BY DEF Shown
  <2>5. UNCHANGED <<toClient, subscriptions, serverRequests, asked>> /\ (Msg("unsubscribe", r).type = "unsubscribe")
    BY <1>1 DEF Msg
  <2> HIDE DEF s, A, R, x, y, v, sub
  <2>6. v' = "opening" => Preceded(s, A \cup R, x)
    BY <2>1, <2>3, <2>4
  <2>7. (v' \in {"no", "viewing"} /\ ~sub) => ~Meets(s, A \cup R)
    BY <2>1, <2>3, <2>4
  <2>8. (v' # "viewing" \/ ~sub) => id \notin dialogs'[d]
    BY <2>1, <2>2, <2>4, <2>5
  <2>9. (v' \in {"opening", "viewing"} /\ sub) =>
          /\ (~Meets(s, R) /\ (id \in dialogs'[d] \/ Meets(s, A))) => id \in serverRequests
          /\ (id \in serverRequests /\ ~asked[id].big) => id \in dialogs'[d] \/ Meets(s, A) \/ Answering(d, id)'
    <3>1. ASSUME v' \in {"opening", "viewing"}, sub PROVE v \in {"opening", "viewing"} /\ m # Msg("unsubscribe", r)
      BY <2>1, <2>3, <3>1
    <3>2. ASSUME id \in serverRequests, ~asked[id].big, v' \in {"opening", "viewing"}, sub
          PROVE  id \in dialogs'[d] \/ Meets(s, A) \/ Answering(d, id)'
      <4>1. id \in dialogs[d] \/ Meets(s, A) \/ Answering(d, id)
        BY <2>4, <3>1, <3>2
      <4>2. CASE id \in dialogs[d] /\ id \notin dialogs'[d]
        BY <1>2, <1>5, <2>2, <3>1, <3>2, <4>2
      <4> QED  BY <1>2, <4>1, <4>2
    <3>3. ASSUME v' \in {"opening", "viewing"}, sub, ~Meets(s, R), id \in dialogs'[d] \/ Meets(s, A) PROVE id \in serverRequests
      BY <2>2, <2>4, <3>1, <3>3
    <3> QED  BY <3>2, <3>3
  <2>10. s' = s /\ sub' = sub
    BY <1>3, <2>5 DEF s, sub
  <2> QED  BY <1>3, <2>4, <2>5, <2>6, <2>7, <2>8, <2>9, <2>10 DEF Shown, s, A, R, x, y, v, sub
<1> QED  BY <1>4, <1>5

\* What a client reads it shows, or shows no more, if it views the chat.
LEMMA ReadShown ==
  ASSUME Typed, RoomsInv, NEW c \in Clients, ReadFrame(c),
         NEW d \in Clients, d \notin closed, NEW id \in Ids, Shown(d, id)
  PROVE  Shown(d, id)'
<1> DEFINE r == asked[id].room
           s == toClient[c]
           f == Head(s)
           t == Tail(s)
           A == Asks(id)
           R == Settlings(id)
           x == Reply("start", r)
           y == Reply("unsubscribe", r)
           v == views[c][r]
           sub == c \in subscriptions[r]
           dlg == id \in dialogs[c]
           pend == id \in serverRequests
<1>1. /\ s \in Seq(Notes \cup Replies) /\ s # <<>> /\ f \in Notes \cup Replies /\ toClient'[c] = t
      /\ \A e \in Clients \ {c} : toClient'[e] = toClient[e]
      /\ UNCHANGED <<toGateway, subscriptions, serverRequests, asked>>
  BY ReadFrames
<1>2. dialogs \in [Clients -> SUBSET Ids] /\ r \in Rooms
      /\ dialogs' = [dialogs EXCEPT ![c] =
            CASE f.type = "ask" -> @ \cup { b \in f.ids : views[c][asked[b].room] = "viewing" }
              [] f.type = "resolved" -> @ \ f.ids
              [] OTHER -> @]
  BY RoomOf DEF ReadFrame, Typed, OtherSides
<1>3. A' = A /\ R' = R /\ x' = x /\ y' = y /\ r' = r /\ (Answering(d, id)' <=> Answering(d, id))
  BY <1>1 DEF Asks, Settlings, Reply, Msg, Answering
<1>4. CASE d # c
  <2>1. views'[d] = views[d] /\ dialogs'[d] = dialogs[d] /\ toClient'[d] = toClient[d] /\ toClient[d] \in Seq(Notes \cup Replies)
    BY <1>1, <1>2, <1>4, ViewRead DEF Typed
  <2> QED  BY <1>1, <1>3, <2>1, ShownKept
<1>5. CASE d = c
  <2>1. /\ f \in A <=> f.type = "ask" /\ id \in f.ids
        /\ f \in R <=> f.type = "resolved" /\ id \in f.ids
        /\ x \notin A \cup R /\ y \notin A \cup R
    <3>1. /\ f \in A <=> f.type = "ask" /\ id \in f.ids
          /\ f \in R <=> f.type = "resolved" /\ id \in f.ids
      BY <1>1, FrameAbout
    <3>2. x.type = "reply" /\ y.type = "reply"
      BY DEF Reply
    <3> QED  BY <3>1, <3>2 DEF Asks, Settlings
  <2>2. id \in dialogs'[c] <=> IF f \in A THEN dlg \/ v = "viewing" ELSE dlg /\ f \notin R
    <3>1. CASE f.type = "ask"
      BY <1>2, <2>1, <3>1
    <3>2. CASE f.type = "resolved"
      BY <1>2, <2>1, <3>2
    <3>3. CASE f.type \notin {"ask", "resolved"}
      BY <1>2, <2>1, <3>3
    <3> QED  BY <3>1, <3>2, <3>3
  <2>3. \/ views'[c][r] = v /\ f # x /\ f # y
        \/ f = x /\ views'[c][r] = "viewing"
        \/ f = y /\ views'[c][r] = "no"
    BY <1>2, ViewRead
  <2>4. Stands(c, r)
    BY <1>2, <1>5 DEF RoomsInv
  <2>5. /\ f = x => v = "opening" /\ sub
        /\ f = y => v = "leaving" /\ ~sub
        /\ v = "no" => ~sub
    <3>1. (f = x => In(s, x)) /\ (f = y => In(s, y))
      BY <1>1, TailInOrder
    <3>2. (In(s, x) => v = "opening" /\ sub) /\ (In(s, y) => v = "leaving" /\ ~sub) /\ (v = "no" => ~sub)
      BY <2>4 DEF Stands, Replied
    <3> QED  BY <3>1, <3>2
  <2>6. /\ NoneAfter(s, R, A) /\ NoneAfter(s, {y}, A \cup R)
        /\ Meets(s, R) => ~pend
        /\ v = "opening" => Preceded(s, A \cup R, x)
        /\ (v \in {"no", "viewing"} /\ ~sub) => ~Meets(s, A \cup R)
        /\ (v # "viewing" \/ ~sub) => ~dlg
        /\ (v \in {"opening", "viewing"} /\ sub) =>
              /\ (~Meets(s, R) /\ (dlg \/ Meets(s, A))) => pend
              /\ (pend /\ ~asked[id].big) => dlg \/ Meets(s, A) \/ Answering(c, id)
    BY <1>5 DEF Shown
  <2> HIDE DEF s, f, t, A, R, x, y
  <2>7. /\ \A B : Meets(s, B) <=> f \in B \/ Meets(t, B)
        /\ \A B, z : Preceded(s, B, z) => f \notin B /\ (f # z => Preceded(t, B, z))
        /\ \A X, B : NoneAfter(s, X, B) => NoneAfter(t, X, B) /\ (f \in X => ~Meets(t, B))
    BY <1>1, TailInOrder DEF f, t
  <2> DEFINE w == views'[c][r]
             shows == id \in dialogs'[c]
  <2> HIDE DEF v, sub, dlg, pend, w, shows
  <2>8. /\ shows <=> IF f \in A THEN dlg \/ v = "viewing" ELSE dlg /\ f \notin R
        /\ (w = v /\ f # x /\ f # y) \/ (f = x /\ w = "viewing") \/ (f = y /\ w = "no")
    BY <2>2, <2>3 DEF w, shows
  <2>9. NoneAfter(t, R, A) /\ NoneAfter(t, {y}, A \cup R) /\ (Meets(t, R) => ~pend)
    BY <2>6, <2>7
  <2>10. w = "opening" => Preceded(t, A \cup R, x)
    BY <2>6, <2>7, <2>8
  <2>11. (w \in {"no", "viewing"} /\ ~sub) => ~Meets(t, A \cup R)
    BY <2>5, <2>6, <2>7, <2>8
  <2>12. (w # "viewing" \/ ~sub) => ~shows
    <3>1. ASSUME f \in A, v = "viewing" PROVE w = "viewing" /\ sub
      <4>1. Meets(s, A \cup R)
        BY <2>7, <3>1
      <4> QED  BY <2>5, <2>6, <2>8, <3>1, <4>1
    <3>2. ASSUME dlg PROVE w = "viewing" /\ sub
      BY <2>5, <2>6, <2>8, <3>2
    <3> QED  BY <2>8, <3>1, <3>2
  <2>13. ASSUME w \in {"opening", "viewing"}, sub
         PROVE  /\ (~Meets(t, R) /\ (shows \/ Meets(t, A))) => pend
                /\ (pend /\ ~asked[id].big) => shows \/ Meets(t, A) \/ Answering(c, id)
    <3>1. v \in {"opening", "viewing"} /\ f # y
      BY <2>5, <2>8, <2>13
    <3>2. /\ (~Meets(s, R) /\ (dlg \/ Meets(s, A))) => pend
          /\ (pend /\ ~asked[id].big) => dlg \/ Meets(s, A) \/ Answering(c, id)
      BY <2>6, <2>13, <3>1
    <3>3. v = "opening" => f \notin A \cup R
      BY <2>6, <2>7
    <3>4. CASE f \in A
      <4>1. v = "viewing" /\ shows /\ Meets(s, A)
        BY <2>7, <2>8, <3>1, <3>3, <3>4
      <4>2. ~Meets(t, R) => ~Meets(s, R) \/ f \in R
        BY <2>7
      <4>3. f \notin R
        <5>1. A \cap R = {}
          BY DEF A, R, Asks, Settlings
        <5> QED  BY <3>4, <5>1
      <4> QED  BY <3>2, <4>1, <4>2, <4>3
    <3>5. CASE f \in R
      <4>1. Meets(s, R) /\ ~pend /\ ~Meets(t, A)
        BY <2>6, <2>7, <3>5
      <4>2. f \notin A
        <5>1. A \cap R = {}
          BY DEF A, R, Asks, Settlings
        <5> QED  BY <3>5, <5>1
      <4> QED  BY <2>8, <3>5, <4>1, <4>2
    <3>6. CASE f \notin A /\ f \notin R
      <4>1. (Meets(s, A) <=> Meets(t, A)) /\ (Meets(s, R) <=> Meets(t, R)) /\ (shows <=> dlg)
        BY <2>7, <2>8, <3>6
      <4> QED  BY <3>2, <4>1
    <3> QED  BY <3>4, <3>5, <3>6
  <2>14. toClient'[c] = t /\ (c \in subscriptions'[r] <=> sub) /\ (id \in serverRequests' <=> pend) /\ asked' = asked
    BY <1>1 DEF t, sub, pend
  <2>15. Answering(c, id)' <=> Answering(c, id)
    BY <1>3, <1>5
  <2>16. s' = t
    BY <2>14 DEF s
  <2> HIDE DEF r
  <2>17. asked'[id].room = r /\ asked'[id].big = asked[id].big
    BY <2>14 DEF r
  <2> QED
    BY <1>3, <1>5, <2>9, <2>10, <2>11, <2>12, <2>13, <2>14, <2>15, <2>16, <2>17 DEF Shown, A, R, x, y, w, shows
<1> QED  BY <1>4, <1>5

LEMMA ShownStep == ASSUME Typed, RoomsInv, ShownInv, [RequestsNext]_requestsVars PROVE ShownInv'
<1> USE DEF ShownInv
<1>1. ASSUME NEW c \in Clients, NEW m, Handles(c, m) PROVE ShownInv'
  <2>1. UNCHANGED <<closed, asked>>
    BY <1>1 DEF Handles
  <2> QED  BY <1>1, <2>1, HandledShown DEF Ids
<1>2. ASSUME NEW c \in Clients, OnClientText(c), ~ready PROVE ShownInv'
  <2>1. UNCHANGED <<closed, toClient, subscriptions, serverRequests, asked, views, dialogs>>
    BY <1>2, TextKept DEF clientSide
  <2>2. \A d \in Clients, id \in Ids : ~Answering(d, id)
    BY <1>2 DEF RoomsInv, Early, Answering
  <2> QED  BY <2>1, <2>2, QuietShown DEF Ids
<1>3. ASSUME NEW c \in Clients, GatewayStep(c) PROVE ShownInv'
  <2>1. ASSUME NEW call \in calls[c], Finish(c, call) PROVE ShownInv'
    <3>1. UNCHANGED <<closed, asked>>
      BY <2>1 DEF Finish
    <3> QED  BY <2>1, <3>1, FinishShown DEF Ids
  <2>2. OnClientText(c) => ShownInv'
    BY <1>1, <1>2, TextHandled
  <2>3. DispatchBacklog(c) => ShownInv'
    BY <1>1, BacklogHandled
  <2> QED  BY <1>3, <2>1, <2>2, <2>3 DEF GatewayStep
<1>4. ASSUME NEW c \in Clients, ClientStep(c) PROVE ShownInv'
  <2>1. PICK m \in Messages : Post(c, m) /\ Moves(c, m) /\ Hides(c, m)
    BY <1>4, ClientMoves
  <2>2. UNCHANGED <<closed, asked>>
    BY <2>1 DEF Post
  <2> QED  BY <2>1, <2>2, PostShown DEF Ids
<1>5. ASSUME NEW c \in Clients, ReadFrame(c) PROVE ShownInv'
  <2>1. UNCHANGED <<closed, asked>>
    BY <1>5 DEF ReadFrame
  <2> QED  BY <1>5, <2>1, ReadShown DEF Ids
<1>6. ASSUME NEW c \in Clients, CloseConnection(c) PROVE ShownInv'
  <2>1. UNCHANGED asked /\ \A d \in Clients : d \notin closed' => d \notin closed
    BY <1>6 DEF CloseConnection
  <2> QED  BY <1>6, <2>1, CloseShown DEF Ids
<1>7. ASSUME StopGateway PROVE ShownInv'
  BY <1>7 DEF StopGateway
<1>8. ASSUME NEW r \in Rooms, NEW big \in BOOLEAN, ServerRequest(r, big) PROVE ShownInv'
  <2>1. UNCHANGED closed
    BY <1>8 DEF ServerRequest
  <2> QED  BY <1>8, <2>1, AskShown
<1>9. ASSUME UNCHANGED <<closed, toGateway, toClient, subscriptions, serverRequests, asked, views, dialogs>> PROVE ShownInv'
  <2>1. \A d \in Clients, id \in Ids : Answering(d, id) => Answering(d, id)'
    BY <1>9 DEF Answering
  <2> QED  BY <1>9, <2>1, QuietShown DEF Ids
<1>10. ASSUME NEW r \in Rooms, TurnStarts(r) \/ TurnEnds(r) \/ ProcessEnds(r) PROVE ShownInv'
  BY <1>9, <1>10 DEF TurnStarts, TurnEnds, ProcessEnds, clientSide
<1>11. BecomeReady \/ UNCHANGED requestsVars => ShownInv'
  BY <1>9 DEF BecomeReady, requestsVars, clientSide
<1> HIDE DEF ShownInv
<1> QED  BY <1>3, <1>4, <1>5, <1>6, <1>7, <1>8, <1>10, <1>11 DEF RequestsNext

\* Then the dialogs a client shows, or will once it has read what is under way,
\* are of approvals that are still to be settled, and all of them.
LEMMA ShownIsSeen == ASSUME Typed, ShownInv PROVE ClientsSeeWhatIsAsked
<1> SUFFICES ASSUME NEW c \in Clients \ closed, NEW r \in Rooms, c \in subscriptions[r], views[c][r] = "viewing"
             PROVE  /\ WillShow(c, r) \subseteq Of(r)
                    /\ \A id \in Small(Of(r)) \ WillShow(c, r) :
                          \E i \in DOMAIN toGateway[c] : toGateway[c][i].type = "answer" /\ toGateway[c][i].id = id
  BY DEF ClientsSeeWhatIsAsked
<1> DEFINE s == toClient[c]
           Said(type, id) == \E i \in DOMAIN s : s[i].type = type /\ id \in s[i].ids
<1>1. \A i \in DOMAIN s : s[i] \in Notes \cup Replies
  <2>1. s \in Seq(Notes \cup Replies)
    BY DEF Typed
  <2> QED  BY <2>1, ElementOfSeq, LenProperties
<1>2. \A id \in Ids : (Said("ask", id) <=> Meets(s, Asks(id))) /\ (Said("resolved", id) <=> Meets(s, Settlings(id)))
  BY <1>1, FrameAbout DEF Meets
<1>3. WillShow(c, r) = { id \in Ids : /\ asked[id].room = r /\ ~Said("resolved", id)
                                      /\ id \in dialogs[c] \/ Said("ask", id) }
  BY DEF WillShow
<1> HIDE DEF Said, s
<1>4. ASSUME NEW id \in Ids, asked[id].room = r
      PROVE  /\ (~Said("resolved", id) /\ (id \in dialogs[c] \/ Said("ask", id))) => id \in serverRequests
             /\ (id \in serverRequests /\ ~asked[id].big) =>
                  ~Said("resolved", id) /\ (id \in dialogs[c] \/ Said("ask", id) \/ Answering(c, id))
  <2>1. Shown(c, id)
    BY DEF ShownInv
  <2> QED  BY <1>2, <1>4, <2>1 DEF Shown, s
<1>5. WillShow(c, r) \subseteq Of(r)
  BY <1>3, <1>4 DEF Of
<1>6. \A id \in Small(Of(r)) \ WillShow(c, r) : Answering(c, id)
  BY <1>3, <1>4 DEF Of, Small, Typed, GatewaySide
<1> QED  BY <1>5, <1>6 DEF Answering

\* Who views a chat and is subscribed shows, once it has read what is on its
\* way, just the approvals that are still to be settled (Gateway.subscribe,
\* serverRequest, resolveServerRequest, cancelServerRequests, detach), but for
\* the requests over the limit and the dialog it has just answered.
THEOREM ViewersSee == RequestsSpec => []ClientsSeeWhatIsAsked
<1> DEFINE Inv == Typed /\ RoomsInv /\ ShownInv
<1>1. RequestsInit => Inv
  BY StartTyped, RoomsStart, ShownStart
<1>2. Inv /\ [RequestsNext]_requestsVars => Inv'
  BY StepTyped, RoomsStep, ShownStep
<1>3. Inv => ClientsSeeWhatIsAsked
  BY ShownIsSeen
<1> QED  BY <1>1, <1>2, <1>3, PTL DEF RequestsSpec

=============================================================================
