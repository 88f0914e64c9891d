------------------------------- MODULE Titles -------------------------------
(* The title CCodex writes for a new chat (titles.ts) in an internal turn on *)
(* its own stock connection (server.ts), against the names clients give the  *)
(* chat meanwhile, down to the owner that keeps the name: stock, or Claude   *)
(* through ClaudeThreads.rename.  One chat; stock answers every request, and *)
(* turn/start well within the internal turn's own timeout.                   *)
EXTENDS Naturals, Sequences

CONSTANT MaxNames     \* thread/name/set requests clients make

ASSUME TitlesAssumption == MaxNames \in Nat

VARIABLES
    owner,       \* "stock" or "claude"
    fresh,       \* Titles.fresh holds the chat: its first turn is to come
    prompt,      \* Titles.prompts holds its first prompt
    generating,  \* Titles.generating holds it
    writer,      \* where Titles.generate is
    internal,    \* the text of the entry in Gateway.internalTurns (its result once the turn is over), or none
    frames,      \* what stock sent on the internal connection
    stockTurn,   \* the internal turn as stock runs it
    renaming,    \* renames on their way to the owner, in order
    pendingName, \* ClaudeThreads.pendingNames
    summarized,  \* the catalog knows the chat's transcript
    name,        \* the chat's name, as its owner keeps it
    given,       \* names clients have set
    yielded      \* the user named the chat while its title was written

titlesVars == <<owner, fresh, prompt, generating, writer, internal, frames, stockTurn,
                renaming, pendingName, summarized, name, given, yielded>>
turnVars == <<internal, frames, stockTurn>>
nameVars == <<renaming, pendingName, summarized, name>>

Names == {"none", "prefix", "user", "title"}
Writing == {"opening", "asking", "waiting", "answered"}

TitlesInit ==
    /\ owner \in {"stock", "claude"} /\ fresh = TRUE /\ prompt = FALSE
    /\ generating = FALSE /\ writer = "idle"
    /\ internal = "none" /\ frames = <<>> /\ stockTurn = "none"
    /\ renaming = <<>> /\ pendingName = "none" /\ summarized = FALSE
    /\ name = "none" /\ given = 0 /\ yielded = FALSE

TitlesTypeOK ==
    /\ owner \in {"stock", "claude"} /\ fresh \in BOOLEAN /\ prompt \in BOOLEAN
    /\ generating \in BOOLEAN /\ writer \in Writing \cup {"idle", "naming", "over"}
    /\ internal \in {"none", "empty", "text"}
    /\ frames \in Seq({"started", "refused", "item", "completed", "failed"})
    /\ stockTurn \in {"none", "asked", "runs", "over"}
    /\ renaming \in Seq([name : Names, stage : {"sent", "looking", "writing"}])
    /\ pendingName \in Names /\ summarized \in BOOLEAN /\ name \in Names
    /\ given \in 0 .. MaxNames /\ yielded \in BOOLEAN

\* A rename goes out: to stock on whichever connection asked, or to Claude's
\* session, once the catalog knows it.
Renamed(queue, newName) ==
    Append(queue, [name |-> newName, stage |-> CASE owner = "stock" -> "sent"
                                                 [] summarized -> "writing"
                                                 [] OTHER -> "looking"])

Without(queue, i) == SubSeq(queue, 1, i - 1) \o SubSeq(queue, i + 1, Len(queue))
First(stage) ==
    { i \in DOMAIN renaming : renaming[i].stage = stage
                              /\ \A j \in 1 .. i - 1 : renaming[j].stage # stage }

\* The generator is over, however: the chat is no longer being named.
WriterEnds == writer' = "over" /\ generating' = FALSE

-----------------------------------------------------------------------------
(* Titles *)

\* Thirty minutes passed before the first turn and another chat was started.
ForgetFresh ==
    /\ fresh /\ fresh' = FALSE
    /\ UNCHANGED <<owner, prompt, generating, writer, turnVars, nameVars, given, yielded>>

\* The chat's first turn/start; without text nothing is written.
FirstTurn(text) ==
    /\ fresh /\ fresh' = FALSE
    /\ IF text THEN prompt' = TRUE /\ generating' = TRUE /\ writer' = "opening"
               ELSE UNCHANGED <<prompt, generating, writer>>
    /\ UNCHANGED <<owner, turnVars, nameVars, given, yielded>>

\* The ephemeral thread is there (or stock failed to start one): its turn is
\* registered, its timeout set, and turn/start sent.
OpenThread(started) ==
    /\ writer = "opening"
    /\ IF started
       THEN writer' = "asking" /\ internal' = "empty" /\ stockTurn' = "asked" /\ UNCHANGED generating
       ELSE WriterEnds /\ UNCHANGED <<internal, stockTurn>>
    /\ UNCHANGED <<owner, fresh, prompt, frames, nameVars, given, yielded>>

\* Mutant: a title is set though the user named the chat meanwhile.
NameAnyway ==
    /\ writer = "answered"
    /\ IF internal # "empty"
       THEN writer' = "naming" /\ renaming' = Renamed(renaming, "title") /\ UNCHANGED generating
       ELSE WriterEnds /\ UNCHANGED renaming
    /\ internal' = "none"
    /\ UNCHANGED <<owner, fresh, prompt, frames, stockTurn, pendingName, summarized, name, given, yielded>>

\* The title is written: it is set unless it is empty or the user was first.
SetTitle ==
    /\ writer = "answered"
    /\ IF internal # "empty" /\ generating
       THEN writer' = "naming" /\ renaming' = Renamed(renaming, "title") /\ UNCHANGED generating
       ELSE WriterEnds /\ UNCHANGED renaming
    /\ internal' = "none"
    /\ UNCHANGED <<owner, fresh, prompt, frames, stockTurn, pendingName, summarized, name, given, yielded>>

TitleSet ==
    /\ writer = "naming" /\ \A i \in DOMAIN renaming : renaming[i].name # "title"
    /\ WriterEnds
    /\ UNCHANGED <<owner, fresh, prompt, turnVars, nameVars, given, yielded>>

\* thread/name/set: Desktop's provisional name, the start of the prompt, is
\* ignored once the prompt is known; any other ends the naming and is set.
NameSet(newName) ==
    /\ given < MaxNames /\ given' = given + 1
    /\ IF prompt /\ newName = "prefix"
       THEN UNCHANGED <<generating, renaming, yielded>>
       ELSE /\ generating' = FALSE
            /\ renaming' = Renamed(renaming, newName)
            /\ yielded' = (yielded \/ writer \in Writing)
    /\ UNCHANGED <<owner, fresh, prompt, writer, turnVars, pendingName, summarized, name>>

-----------------------------------------------------------------------------
(* The internal turn *)

StockStarts(accepted) ==
    /\ stockTurn = "asked"
    /\ stockTurn' = IF accepted THEN "runs" ELSE "over"
    /\ frames' = Append(frames, IF accepted THEN "started" ELSE "refused")
    /\ UNCHANGED <<owner, fresh, prompt, generating, writer, internal, nameVars, given, yielded>>

StockRuns(frame) ==
    /\ stockTurn = "runs" /\ Len(frames) < 3 /\ frames' = Append(frames, frame)
    /\ stockTurn' = IF frame = "item" THEN "runs" ELSE "over"
    /\ UNCHANGED <<owner, fresh, prompt, generating, writer, internal, nameVars, given, yielded>>

\* finishInternalTurn resolves: the text is the generator's.
TurnDone == writer' = "answered" /\ UNCHANGED <<internal, generating>>
\* It rejects: the entry goes and the generator fails.
TurnFailed == internal' = "none" /\ WriterEnds

\* What stock says of a turn that is no longer registered is nobody's.
InternalFrame ==
    /\ frames # <<>> /\ frames' = Tail(frames)
    /\ CASE Head(frames) = "started" /\ writer = "asking" ->
                writer' = "waiting" /\ UNCHANGED <<internal, generating>>
         [] Head(frames) = "refused" /\ writer = "asking" -> TurnFailed
         [] Head(frames) = "item" /\ writer = "waiting" ->
                internal' = "text" /\ UNCHANGED <<writer, generating>>
         [] Head(frames) = "completed" /\ writer = "waiting" -> TurnDone
         [] Head(frames) = "failed" /\ writer = "waiting" -> TurnFailed
         [] OTHER -> UNCHANGED <<writer, internal, generating>>
    /\ UNCHANGED <<owner, fresh, prompt, stockTurn, nameVars, given, yielded>>

\* Mutant: the timeout forgets the turn and tells nobody.
ForgetTurn == internal' = "none" /\ UNCHANGED <<writer, generating>>

TurnTimesOut == TurnFailed

InternalTimeout ==
    /\ writer = "waiting" /\ internal # "none" /\ TurnTimesOut
    /\ UNCHANGED <<owner, fresh, prompt, frames, stockTurn, nameVars, given, yielded>>

-----------------------------------------------------------------------------
(* The owner *)

\* Stock takes requests of different connections in any order.
StockRenames(i) ==
    /\ renaming[i].stage = "sent"
    /\ name' = renaming[i].name /\ renaming' = Without(renaming, i)
    /\ UNCHANGED <<owner, fresh, prompt, generating, writer, turnVars, pendingName, summarized, given, yielded>>

\* ClaudeThreads.rename after its refresh: without a transcript the name waits
\* for the turn to end, else Claude or the file gets it.
LookedUp(i) ==
    /\ i \in First("looking")
    /\ IF summarized
       THEN renaming' = [renaming EXCEPT ![i].stage = "writing"] /\ UNCHANGED pendingName
       ELSE renaming' = Without(renaming, i) /\ pendingName' = renaming[i].name
    /\ UNCHANGED <<owner, fresh, prompt, generating, writer, turnVars, summarized, name, given, yielded>>

ClaudeRenames(i) ==
    /\ i \in First("writing")
    /\ name' = renaming[i].name /\ renaming' = Without(renaming, i) /\ pendingName' = "none"
    /\ UNCHANGED <<owner, fresh, prompt, generating, writer, turnVars, summarized, given, yielded>>

\* The transcript has its first message and a scan has seen it.
Summarize ==
    /\ owner = "claude" /\ ~fresh /\ ~summarized /\ summarized' = TRUE
    /\ UNCHANGED <<owner, fresh, prompt, generating, writer, turnVars, renaming, pendingName, name, given, yielded>>

\* A turn completed: the name that waited for the transcript is given now.
GivePendingName ==
    /\ summarized /\ pendingName # "none"
    /\ renaming' = Renamed(renaming, pendingName) /\ pendingName' = "none"
    /\ UNCHANGED <<owner, fresh, prompt, generating, writer, turnVars, summarized, name, given, yielded>>

OwnerStep ==
    \/ \E i \in DOMAIN renaming : StockRenames(i) \/ LookedUp(i) \/ ClaudeRenames(i)
    \/ GivePendingName

TitlesNext ==
    \/ ForgetFresh \/ SetTitle \/ TitleSet \/ InternalFrame \/ InternalTimeout \/ Summarize
    \/ \E yes \in BOOLEAN : FirstTurn(yes) \/ OpenThread(yes) \/ StockStarts(yes)
    \/ \E newName \in {"prefix", "user"} : NameSet(newName)
    \/ \E frame \in {"item", "completed", "failed"} : StockRuns(frame)
    \/ OwnerStep

TitlesFairness ==
    /\ WF_titlesVars(InternalTimeout)
    /\ WF_titlesVars(\/ SetTitle \/ TitleSet \/ InternalFrame \/ OwnerStep
                     \/ \E yes \in BOOLEAN : OpenThread(yes) \/ StockStarts(yes))

TitlesSpec == TitlesInit /\ [][TitlesNext]_titlesVars /\ TitlesFairness

-----------------------------------------------------------------------------
\* A name the user gives while the title is written is not lost to it, however
\* late the internal turn answers and in whatever order the owner is told.
TitleGivesWay ==
    yielded => /\ name # "title" /\ pendingName # "title"
               /\ \A i \in DOMAIN renaming : renaming[i].name # "title"

\* A chat does not stay unnamed and "being named": its title turn is refused,
\* fails, answers or times out, and late frames of it are nobody's.
NamingEnds == generating ~> ~generating

=============================================================================
