------------------------------- MODULE Chats -------------------------------
(***************************************************************************)
(* What a user is promised of chats that change provider (docs/details.md: *)
(* "The App keeps showing one chat with one history; edits and forks       *)
(* across the switch work"): each chat is one sequence of turns, and only  *)
(* what is asked of that chat changes it.                                  *)
(*                                                                         *)
(* Lineages implements it; what it calls segments and backends does not    *)
(* exist here.                                                             *)
(***************************************************************************)
EXTENDS Naturals, Sequences, Functions

CONSTANTS
  Ids,   \* the ids chats are listed under
  Turns  \* turns, one for each time something is said

VARIABLES
  chats,  \* the listed chats' histories, by id
  run,    \* how often the gateway was started
  asked   \* <<what, chat, n>>: forks of the chat's first n turns, rollbacks to them and deletions under way

Init == chats = << >> /\ asked = {} /\ run = 1

-----------------------------------------------------------------------------
(* What happens to the histories `old`, which are `new` after it *)

\* The histories with one more.
With(old, chat, history) == [c \in DOMAIN old \cup {chat} |-> IF c = chat THEN history ELSE old[c]]

Unheard(old, turn) == \A chat \in DOMAIN old : turn \notin Range(old[chat])

\* A chat is listed from its first turn on.
Begin(old, new, chat, turn) ==
  chat \notin DOMAIN old /\ new = With(old, chat, <<turn>>)

AddTurn(old, new, chat, turn) ==
  new = [old EXCEPT ![chat] = Append(@, turn)]

\* A provider's cleanup takes some turns in a row, or none, out of each history, and no chat.
Expire(old, new) ==
  /\ DOMAIN new = DOMAIN old
  /\ \A chat \in {c \in DOMAIN old : new[c] # old[c]} :
       \E from \in DOMAIN old[chat] : \E to \in from .. Len(old[chat]) :
         new[chat] = SubSeq(old[chat], 1, from - 1) \o SubSeq(old[chat], to + 1, Len(old[chat]))

\* The fork is a new chat of the turns it was asked for, and leaves its source as it was.
Fork(old, new, request, fork) ==
  /\ request[1] = "fork" /\ fork \notin DOMAIN old
  /\ new = With(old, fork, SubSeq(old[request[2]], 1, request[3]))

RollBack(old, new, request) ==
  /\ request[1] = "revert"
  /\ new = [old EXCEPT ![request[2]] = SubSeq(@, 1, request[3])]

Delete(old, new, request) ==
  /\ request[1] = "delete"
  /\ new = Restrict(old, DOMAIN old \ {request[2]})

PieceOf(piece, history) ==
  \E from \in 1 .. Len(history) + 1 : \E to \in from - 1 .. Len(history) : piece = SubSeq(history, from, to)

\* Each chat is kept, maybe under another id; an interrupted switch or fork may leave a stray, with a piece of a
\* chat's history or none.
Kept(old, new) ==
  \E id \in Injection(DOMAIN old, Ids) :
    /\ Range(id) \subseteq DOMAIN new
    /\ \A chat \in DOMAIN old : new[id[chat]] = old[chat]
    /\ \A stray \in DOMAIN new \ Range(id) :
         new[stray] = << >> \/ \E chat \in DOMAIN old : PieceOf(new[stray], old[chat])

-----------------------------------------------------------------------------

(* `before` are the requests under way, `after` those after the step. *)

\* A request for a fork, a rollback or a deletion comes in.
Ask(old, new, before, after) ==
  /\ new = old
  /\ \E request \in after \ before :
       /\ request[1] \in {"fork", "revert", "delete"}
       /\ request[2] \in DOMAIN old /\ request[3] \in 0 .. Len(old[request[2]])
       /\ after = before \cup {request}

\* A request is done, or fails; a rollback or deletion shows before its request ends.
Answer(old, new, before, after) ==
  \E request \in before :
    /\ after \in {before, before \ {request}}
    /\ \/ new = old
       \/ /\ request[2] \in DOMAIN old
          /\ \/ \E fork \in Ids : Fork(old, new, request, fork) /\ request \notin after
             \/ RollBack(old, new, request)
             \/ Delete(old, new, request)

Turn(old, new, before, after) ==
  /\ after = before
  /\ \E chat \in Ids, turn \in {t \in Turns : Unheard(old, t)} :
       Begin(old, new, chat, turn) \/ (chat \in DOMAIN old /\ AddTurn(old, new, chat, turn))

CleanUp(old, new, before, after) == after = before /\ Expire(old, new)

\* A restart ends every request.
Restart(old, new, after) == run' = run + 1 /\ after = {} /\ Kept(old, new)

\* (Each value is bound once: a refinement mapping is not evaluated again for every use.)
Next ==
  \E old \in {chats}, new \in {chats'}, before \in {asked}, after \in {asked'} :
    \/ /\ UNCHANGED run
       /\ \/ Ask(old, new, before, after)
          \/ Answer(old, new, before, after)
          \/ Turn(old, new, before, after)
          \/ CleanUp(old, new, before, after)
    \/ Restart(old, new, after)

Spec == Init /\ [][Next]_<<chats, asked, run>>
=============================================================================
