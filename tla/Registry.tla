------------------------------ MODULE Registry ------------------------------
(* ClaudeThreads' registry of sessions (threads.ts): which ClaudeSession     *)
(* object serves a chat, which Claude processes they hold, and what a chat's *)
(* transcript becomes as it is rolled back, deleted, forked and continued.   *)
(*                                                                           *)
(* A transcript is a tree of turns, each written under the one its process   *)
(* was at; the chat's history is the path to the last turn, or to the leaf a *)
(* rollback left.  A turn is one record: what its process writes is external.*)
EXTENDS Naturals, Sequences, FiniteSets

CONSTANTS
    Threads,       \* chat ids
    MaxSessions,   \* session objects made in a behaviour
    MaxTurns,      \* turns written to one transcript
    Racing,        \* requests may come while a session is being unloaded
    Breaking       \* a process started at a leaf may end before it has written its
                   \* turn, or have none: a side question or context started it

\* Some chats have a transcript of two turns to begin with.
ASSUME RegistryAssumption == MaxSessions \in Nat /\ MaxTurns \in Nat \ {0, 1}

Nil == 0
Objects == 1 .. MaxSessions

VARIABLES
    records,     \* per chat, its transcript: the parent of each turn
    undone,      \* per chat, the turns a rollback took out of its history
    leaves,      \* per chat, the turn a rollback left as its last, or none
    sessions,    \* per chat, the session registered for it, or none
    serves,      \* per session object, its chat (they are numbered in order)
    sdk,         \* sessions whose Claude process takes prompts
    dying,       \* sessions whose closed process has not ended yet
    busy,        \* sessions with a turn
    resumeAt,    \* per session, where its next process is told to resume
    tip,         \* per session, the turn its process is at
    warm,        \* sessions with a process started ahead
    warmSession, \* the session opened last, and whether its timer runs
    warmTimer,
    deleted,     \* chats that were deleted: their ids are never used again
    unloading    \* per chat, the request that waits for its session's end

registryVars == <<records, undone, leaves, sessions, serves, sdk, dying, busy, resumeAt,
                  tip, warm, warmSession, warmTimer, deleted, unloading>>
warmVars == <<warm, warmSession, warmTimer>>
fileVars == <<records, undone>>

\* The turns on the way to turn i, i included.
Path(ch, i) ==
    LET up[j \in 0 .. Len(records[ch])] == IF j = Nil THEN {} ELSE {j} \cup up[records[ch][j]]
    IN up[i]

End(ch) == IF leaves[ch] # Nil THEN leaves[ch] ELSE Len(records[ch])
Idle(ch) == Racing \/ unloading[ch].op = "none"
Known(ch) == records[ch] # <<>>
NoWait == [op |-> "none", leaf |-> Nil, s |-> Nil]

RegistryInit ==
    /\ records \in [Threads -> {<<>>, <<0, 1>>}]
    /\ undone = [ch \in Threads |-> {}] /\ leaves = [ch \in Threads |-> Nil]
    /\ sessions = [ch \in Threads |-> Nil] /\ serves = <<>>
    /\ sdk = {} /\ dying = {} /\ busy = {} /\ warm = {}
    /\ resumeAt = [s \in Objects |-> Nil] /\ tip = [s \in Objects |-> Nil]
    /\ warmSession = Nil /\ warmTimer = FALSE /\ deleted = {}
    /\ unloading = [ch \in Threads |-> NoWait]

RegistryTypeOK ==
    /\ records \in [Threads -> Seq(0 .. MaxTurns)] /\ undone \in [Threads -> SUBSET (1 .. MaxTurns)]
    /\ leaves \in [Threads -> 0 .. MaxTurns] /\ sessions \in [Threads -> 0 .. MaxSessions]
    /\ serves \in Seq(Threads) /\ \A S \in {sdk, dying, busy, warm} : S \subseteq 1 .. Len(serves)
    /\ resumeAt \in [Objects -> 0 .. MaxTurns] /\ tip \in [Objects -> 0 .. MaxTurns]
    /\ warmSession \in 0 .. Len(serves) /\ warmTimer \in BOOLEAN /\ deleted \subseteq Threads
    /\ unloading \in [Threads -> [op : {"none", "truncate", "discard"}, leaf : 0 .. MaxTurns, s : 0 .. MaxSessions]]

\* A session object for the chat.
NewSession(ch) ==
    /\ Len(serves) < MaxSessions /\ serves' = Append(serves, ch)
    /\ sessions' = [sessions EXCEPT ![ch] = Len(serves) + 1]

\* ClaudeThreads.session: the one registered, or a new one for a known chat,
\* which its first process starts at the leaf, if there is one.
Session(ch) ==
    IF sessions[ch] # Nil THEN UNCHANGED <<serves, sessions>> ELSE Known(ch) /\ NewSession(ch)

\* Mutant: only a session made after the rollback is started at its leaf.
LeafOnce(ch) == IF sessions[ch] # Nil THEN Nil ELSE leaves[ch]

LeafFor(ch) == IF sessions[ch] # Nil THEN resumeAt[sessions[ch]] ELSE leaves[ch]

\* ClaudeSession.unload: the process is told to close, a warm one goes at once.
Unload(s) ==
    /\ sdk' = sdk \ {s} /\ dying' = dying \cup (sdk \cap {s}) /\ warm' = warm \ {s}
    /\ tip' = [t \in Objects |-> IF t = s THEN Nil ELSE tip[t]]

\* The session opened last may start a process ahead; the one before loses its.
Prewarm(s) ==
    /\ warmSession' = s /\ warmTimer' = TRUE
    /\ warm' = IF warmSession # s THEN warm \ {warmSession} ELSE warm

-----------------------------------------------------------------------------
(* Requests *)

\* thread/start: a chat of its own, with no transcript yet.
StartThread(ch) ==
    /\ ~Known(ch) /\ sessions[ch] = Nil /\ ch \notin deleted
    /\ NewSession(ch) /\ Prewarm(Len(serves) + 1)
    /\ UNCHANGED <<fileVars, leaves, resumeAt, sdk, dying, busy, tip, deleted, unloading>>

\* thread/resume.
OpenChat(ch) ==
    /\ Known(ch) /\ Idle(ch) /\ Session(ch) /\ Prewarm(sessions'[ch])
    /\ resumeAt' = [resumeAt EXCEPT ![sessions'[ch]] = LeafFor(ch)]
    /\ UNCHANGED <<fileVars, leaves, sdk, dying, busy, tip, deleted, unloading>>

\* ensureQuery: the warm process is taken or one started, at the leaf if the
\* session was made at one, which is then the registry's no more.
EnsureQuery(ch) ==
    LET s == sessions'[ch]  at == LeafFor(ch) IN
    /\ sdk' = sdk \cup {s} /\ warm' = warm \ {s}
    /\ tip' = IF s \in sdk THEN tip
              ELSE [tip EXCEPT ![s] = IF at # Nil THEN at ELSE Len(records[ch])]
    /\ leaves' = IF s \notin sdk /\ at # Nil THEN [leaves EXCEPT ![ch] = Nil] ELSE leaves
    /\ resumeAt' = [resumeAt EXCEPT ![s] = Nil]

\* turn/start.
StartTurn(ch) ==
    /\ Idle(ch) /\ Session(ch) /\ Len(records[ch]) < MaxTurns
    /\ sessions'[ch] \notin busy /\ busy' = busy \cup {sessions'[ch]} /\ EnsureQuery(ch)
    /\ UNCHANGED <<fileVars, dying, warmSession, warmTimer, deleted, unloading>>

\* A side question, or injected context: a process without a turn.
AskAside(ch) ==
    /\ Idle(ch) /\ Session(ch) /\ sessions'[ch] \notin sdk
    /\ Breaking \/ LeafFor(ch) = Nil
    /\ EnsureQuery(ch)
    /\ UNCHANGED <<fileVars, dying, busy, warmSession, warmTimer, deleted, unloading>>

TurnWritten(s) ==
    /\ s \in busy \cap sdk /\ LET ch == serves[s] IN
       /\ Len(records[ch]) < MaxTurns
       /\ records' = [records EXCEPT ![ch] = Append(@, tip[s])]
       /\ tip' = [tip EXCEPT ![s] = Len(records[ch]) + 1]
    /\ busy' = busy \ {s}
    /\ UNCHANGED <<undone, leaves, sessions, serves, sdk, dying, resumeAt, warmVars, deleted, unloading>>

\* The process ends before its turn is in the transcript: the turn has failed.
ProcessBreaks(s) ==
    /\ s \in busy \cap sdk /\ busy' = busy \ {s} /\ sdk' = sdk \ {s}
    /\ Breaking \/ tip[s] = Len(records[serves[s]])
    /\ tip' = [tip EXCEPT ![s] = Nil]
    /\ UNCHANGED <<fileVars, leaves, sessions, serves, dying, resumeAt, warmVars, deleted, unloading>>

Quiet(ch) == sessions[ch] \notin busy

\* thread/rollback, thread/revert to turn `leaf` (none: everything): refused
\* while a turn runs, it waits for the session's process to end.
BeginTruncate(ch, leaf) ==
    /\ Known(ch) /\ unloading[ch].op = "none" /\ Quiet(ch)
    /\ leaf \in (Path(ch, End(ch)) \ {End(ch)}) \cup {Nil}
    /\ Unload(sessions[ch])
    /\ unloading' = [unloading EXCEPT ![ch] = [op |-> "truncate", leaf |-> leaf, s |-> sessions[ch]]]
    /\ UNCHANGED <<fileVars, leaves, sessions, serves, busy, resumeAt, warmSession, warmTimer, deleted>>

BeginDiscard(ch) ==
    /\ unloading[ch].op = "none" /\ (sessions[ch] # Nil \/ Known(ch))
    /\ Unload(sessions[ch]) /\ busy' = busy \ {sessions[ch]}
    /\ unloading' = [unloading EXCEPT ![ch] = [op |-> "discard", leaf |-> Nil, s |-> sessions[ch]]]
    /\ UNCHANGED <<fileVars, leaves, sessions, serves, resumeAt, warmSession, warmTimer, deleted>>

\* The rollback goes on: the history ends at the leaf, or, everything rolled
\* back, the transcript is deleted and the session starts over.
FinishTruncate(ch) ==
    /\ unloading[ch].op = "truncate" /\ unloading[ch].s \notin dying
    /\ LET leaf == unloading[ch].leaf IN
       IF leaf # Nil
       THEN /\ leaves' = [leaves EXCEPT ![ch] = leaf]
            /\ undone' = [undone EXCEPT ![ch] = (@ \cup Path(ch, End(ch))) \ Path(ch, leaf)]
            /\ sessions' = [sessions EXCEPT ![ch] = Nil] /\ UNCHANGED <<records, serves, resumeAt>>
       ELSE /\ leaves' = [leaves EXCEPT ![ch] = Nil] /\ records' = [records EXCEPT ![ch] = <<>>]
            /\ undone' = [undone EXCEPT ![ch] = {}]
            /\ Len(serves) < MaxSessions /\ serves' = Append(serves, ch)
            /\ sessions' = [sessions EXCEPT ![ch] = Len(serves) + 1] /\ UNCHANGED resumeAt
    /\ unloading' = [unloading EXCEPT ![ch] = NoWait]
    /\ UNCHANGED <<sdk, dying, busy, tip, warmVars, deleted>>

FinishDiscard(ch) ==
    /\ unloading[ch].op = "discard" /\ unloading[ch].s \notin dying
    /\ sessions' = [sessions EXCEPT ![ch] = Nil]
    /\ records' = [records EXCEPT ![ch] = <<>>] /\ undone' = [undone EXCEPT ![ch] = {}]
    /\ unloading' = [unloading EXCEPT ![ch] = NoWait]
    /\ deleted' = deleted \cup {ch}
    /\ UNCHANGED <<leaves, serves, sdk, dying, busy, resumeAt, tip, warmVars>>

\* thread/fork: the copy's history ends where the source's does.
Fork(ch, copy) ==
    /\ Known(ch) /\ ~Known(copy) /\ sessions[copy] = Nil /\ copy \notin deleted /\ Idle(ch)
    /\ records' = [records EXCEPT ![copy] = [i \in 1 .. Cardinality(Path(ch, End(ch))) |-> i - 1]]
    /\ Len(serves) < MaxSessions /\ serves' = Append(serves, copy)
    /\ sessions' = [sessions EXCEPT ![copy] = Len(serves) + 1]
    /\ UNCHANGED <<undone, leaves, sdk, dying, busy, resumeAt, tip, warmVars, deleted, unloading>>

-----------------------------------------------------------------------------
(* Timers *)

WarmTimer ==
    /\ warmTimer /\ warmTimer' = FALSE
    /\ LET s == warmSession IN
       IF sessions[serves[s]] = s /\ s \notin sdk
       THEN warm' = warm \cup {s} ELSE UNCHANGED warm
    /\ UNCHANGED <<fileVars, leaves, sessions, serves, sdk, dying, busy, resumeAt, tip, warmSession, deleted, unloading>>

WarmExpires(s) ==
    /\ s \in warm /\ warm' = warm \ {s}
    /\ UNCHANGED <<fileVars, leaves, sessions, serves, sdk, dying, busy, resumeAt, tip, warmSession, warmTimer, deleted, unloading>>

\* Mutant: a chat nobody has open is forgotten, its process left as it is.
ForgetChat(ch, open) ==
    /\ sessions[ch] # Nil /\ sessions[ch] \notin busy /\ ~open
    /\ sessions' = [sessions EXCEPT ![ch] = Nil]
    /\ UNCHANGED <<fileVars, leaves, serves, sdk, dying, busy, resumeAt, tip, warmVars, deleted, unloading>>

\* The sweep: a chat nobody has open is unloaded, one that is open (or one
\* too many processes) loses its process only.
SweepChat(ch, open) ==
    /\ sessions[ch] # Nil /\ sessions[ch] \notin busy
    /\ open => sessions[ch] \in sdk
    /\ Unload(sessions[ch])
    /\ sessions' = IF open THEN sessions ELSE [sessions EXCEPT ![ch] = Nil]
    /\ UNCHANGED <<fileVars, leaves, serves, busy, resumeAt, warmSession, warmTimer, deleted, unloading>>

ProcessGone(s) ==
    /\ s \in dying /\ dying' = dying \ {s}
    /\ UNCHANGED <<fileVars, leaves, sessions, serves, sdk, busy, resumeAt, tip, warmVars, deleted, unloading>>

RegistryNext ==
    \/ WarmTimer
    \/ \E ch \in Threads :
          \/ StartThread(ch) \/ OpenChat(ch) \/ StartTurn(ch) \/ AskAside(ch)
          \/ BeginDiscard(ch) \/ FinishTruncate(ch) \/ FinishDiscard(ch) \/ \E open \in BOOLEAN : SweepChat(ch, open)
          \/ \E leaf \in 0 .. MaxTurns : BeginTruncate(ch, leaf)
          \/ \E copy \in Threads : Fork(ch, copy)
    \/ \E s \in 1 .. Len(serves) :
          TurnWritten(s) \/ ProcessBreaks(s) \/ WarmExpires(s) \/ ProcessGone(s)

RegistrySpec == RegistryInit /\ [][RegistryNext]_registryVars

-----------------------------------------------------------------------------
\* No two processes take prompts for one transcript: what one writes would be
\* lost to the chat (session.ts: two processes writing one transcript fork it).
OneWriter ==
    \A s, t \in sdk : serves[s] = serves[t] => s = t

\* The chat goes on from the history its user kept: nothing is written below
\* a turn that was rolled back, whatever was closed, swept or opened since.
GoesOnFromKept ==
    \A ch \in Threads : \A i \in 1 .. Len(records[ch]) :
        i \notin undone[ch] => Path(ch, i) \cap undone[ch] = {}

=============================================================================
