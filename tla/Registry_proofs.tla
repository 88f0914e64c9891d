--------------------------- MODULE Registry_proofs ---------------------------
(* No two processes of the registry write one transcript, and a chat goes on *)
(* from the history its user kept, for any number of chats, session objects  *)
(* and turns, while requests wait for a session that is being unloaded       *)
(* (Racing = FALSE).  What leads to a turn is defined by recursion over the  *)
(* transcript: what holds of it is shown by induction, as a set of numbers   *)
(* that holds 0 and with each number the next one.                           *)
EXTENDS Registry, FiniteSetTheorems, WellFoundedInduction, TLAPS

RegistryShape ==
    /\ sessions \in [Threads -> Nat] /\ serves \in Seq(Threads)
    /\ sdk \subseteq 1 .. Len(serves)
    /\ unloading \in [Threads -> [op : {"none", "truncate", "discard"}, leaf : Nat, s : Nat]]

\* A chat is registered with a session made for it.
SessionsServe ==
    \A ch \in Threads : sessions[ch] # Nil => sessions[ch] \in 1 .. Len(serves) /\ serves[sessions[ch]] = ch

\* A session whose process takes prompts is the one its chat is registered with.
WritersRegistered == \A s \in sdk : sessions[serves[s]] = s

\* A chat that waits for its session's end has no process that takes prompts.
UnloadingSilent == \A ch \in Threads : unloading[ch].op # "none" => sessions[ch] \notin sdk

RegistryInv == RegistryShape /\ SessionsServe /\ WritersRegistered /\ UnloadingSilent

LEMMA RegistryStarts == RegistryInit => RegistryInv
BY DEF RegistryInit, RegistryInv, RegistryShape, SessionsServe, WritersRegistered, UnloadingSilent, NoWait, Nil

\* A new session for a chat none of whose sessions takes prompts.
LEMMA NewSessionKeeps ==
  ASSUME RegistryInv, NEW ch \in Threads, NewSession(ch), UNCHANGED <<sdk, unloading>>,
         sessions[ch] \notin sdk
  PROVE RegistryInv' /\ sessions'[ch] \in 1 .. Len(serves') /\ serves'[sessions'[ch]] = ch
<1> DEFINE new == Len(serves) + 1
<1>1. /\ Len(serves) \in Nat /\ Len(serves') = new /\ serves' \in Seq(Threads)
      /\ \A i \in 1 .. Len(serves) : serves'[i] = serves[i] /\ serves[i] \in Threads
      /\ serves'[new] = ch
  BY DEF NewSession, RegistryInv, RegistryShape
<1>2. /\ sessions' \in [Threads -> Nat] /\ sessions'[ch] = new
      /\ \A c \in Threads \ {ch} : sessions'[c] = sessions[c]
  BY <1>1 DEF NewSession, RegistryInv, RegistryShape
<1>3. sdk' = sdk /\ sdk \subseteq 1 .. Len(serves) /\ new \notin sdk
  BY <1>1 DEF RegistryInv, RegistryShape
<1> HIDE DEF new
<1>4. RegistryShape'
  <2>1. sdk' \subseteq 1 .. Len(serves')
    BY <1>1, <1>3 DEF new
  <2> QED  BY <1>1, <1>2, <2>1 DEF RegistryInv, RegistryShape
<1>5. SessionsServe'
  <2> SUFFICES ASSUME NEW c \in Threads, sessions'[c] # Nil
               PROVE sessions'[c] \in 1 .. Len(serves') /\ serves'[sessions'[c]] = c
    BY DEF SessionsServe
  <2>1. CASE c = ch
    BY <1>1, <1>2, <2>1 DEF new
  <2>2. CASE c # ch
    BY <1>1, <1>2, <2>2 DEF RegistryInv, SessionsServe, new
  <2> QED  BY <2>1, <2>2
<1>6. WritersRegistered'
  <2> SUFFICES ASSUME NEW s \in sdk PROVE sessions'[serves'[s]] = s
    BY <1>3 DEF WritersRegistered
  <2>1. serves'[s] = serves[s] /\ serves[s] \in Threads /\ sessions[serves[s]] = s
    BY <1>1, <1>3 DEF RegistryInv, WritersRegistered
  <2>2. serves[s] # ch
    BY <2>1
  <2> QED  BY <1>2, <2>1, <2>2
<1>7. UnloadingSilent'
  BY <1>2, <1>3 DEF RegistryInv, UnloadingSilent
<1> QED  BY <1>1, <1>2, <1>4, <1>5, <1>6, <1>7 DEF RegistryInv, new

\* The session a request gets (ClaudeThreads.session) is its chat's.
LEMMA SessionKeeps ==
  ASSUME RegistryInv, NEW ch \in Threads, Session(ch), UNCHANGED <<sdk, unloading>>
  PROVE RegistryInv' /\ sessions'[ch] \in 1 .. Len(serves') /\ serves'[sessions'[ch]] = ch
<1>1. CASE sessions[ch] = Nil
  <2>1. sessions[ch] \notin sdk
    BY <1>1 DEF RegistryInv, RegistryShape, Nil
  <2> QED  BY <1>1, <2>1, NewSessionKeeps DEF Session
<1>2. CASE sessions[ch] # Nil
  BY <1>2 DEF Session, RegistryInv, RegistryShape, SessionsServe, WritersRegistered, UnloadingSilent
<1> QED  BY <1>1, <1>2

\* A session that loses its process, whether or not its chat waits for that.
LEMMA UnloadKeeps ==
  ASSUME RegistryInv, NEW ch \in Threads, Unload(sessions[ch]), UNCHANGED <<sessions, serves>>,
         NEW wait \in [op : {"none", "truncate", "discard"}, leaf : Nat, s : Nat],
         unloading' = [unloading EXCEPT ![ch] = wait]
  PROVE RegistryInv'
BY DEF Unload, RegistryInv, RegistryShape, SessionsServe, WritersRegistered, UnloadingSilent

LEMMA StartTurnKeeps ==
  ASSUME ~Racing, RegistryInv, NEW ch \in Threads, StartTurn(ch) \/ AskAside(ch) PROVE RegistryInv'
<1> DEFINE s == sessions'[ch]
<1>1. /\ unloading[ch].op = "none" /\ Session(ch) /\ sdk' = sdk \cup {s} /\ unloading' = unloading
  BY DEF StartTurn, AskAside, EnsureQuery, Idle
<1>2. /\ s \in 1 .. Len(serves') /\ serves'[s] = ch /\ serves' \in Seq(Threads) /\ sessions' \in [Threads -> Nat]
      /\ SessionsServe' /\ sdk \subseteq 1 .. Len(serves') /\ \A i \in sdk : sessions'[serves'[i]] = i
      /\ \A c \in Threads \ {ch} : sessions'[c] = sessions[c]
  <2>1. CASE sessions[ch] # Nil
    BY <1>1, <2>1 DEF Session, RegistryInv, RegistryShape, SessionsServe, WritersRegistered
  <2>2. CASE sessions[ch] = Nil
    <3>1. NewSession(ch) /\ sessions[ch] \notin sdk
      BY <1>1, <2>2 DEF Session, RegistryInv, RegistryShape, Nil
    <3>2. Len(serves) \in Nat /\ Len(serves') = Len(serves) + 1 /\ serves' \in Seq(Threads)
          /\ serves'[Len(serves) + 1] = ch /\ \A i \in 1 .. Len(serves) : serves'[i] = serves[i] /\ serves[i] \in Threads
      BY <3>1 DEF NewSession, RegistryInv, RegistryShape
    <3>3. /\ sessions' \in [Threads -> Nat] /\ s = Len(serves) + 1
          /\ \A c \in Threads \ {ch} : sessions'[c] = sessions[c]
      BY <3>1, <3>2 DEF NewSession, RegistryInv, RegistryShape
    <3>4. SessionsServe'
      BY <3>2, <3>3 DEF RegistryInv, SessionsServe
    <3>5. ASSUME NEW i \in sdk PROVE i \in 1 .. Len(serves') /\ sessions'[serves'[i]] = i
      <4>1. i \in 1 .. Len(serves) /\ serves'[i] = serves[i] /\ serves[i] \in Threads /\ sessions[serves[i]] = i
        BY <3>2 DEF RegistryInv, RegistryShape, WritersRegistered
      <4> QED  BY <3>1, <3>2, <3>3, <4>1
    <3> QED  BY <3>2, <3>3, <3>4, <3>5
  <2> QED  BY <2>1, <2>2
<1>3. \A c \in Threads \ {ch} : sessions[c] # s
  BY <1>2 DEF SessionsServe, Nil
<1>4. RegistryShape'
  BY <1>1, <1>2 DEF RegistryInv, RegistryShape
<1>5. WritersRegistered'
  BY <1>1, <1>2 DEF WritersRegistered
<1>6. UnloadingSilent'
  BY <1>1, <1>2, <1>3 DEF RegistryInv, UnloadingSilent
<1> QED  BY <1>2, <1>4, <1>5, <1>6 DEF RegistryInv

LEMMA FinishTruncateKeeps == ASSUME RegistryInv, NEW ch \in Threads, FinishTruncate(ch) PROVE RegistryInv'
<1>1. sessions[ch] \notin sdk /\ sdk' = sdk /\ unloading' = [unloading EXCEPT ![ch] = NoWait]
  BY DEF FinishTruncate, RegistryInv, RegistryShape, UnloadingSilent
<1>2. CASE unloading[ch].leaf # Nil
  <2>1. serves' = serves /\ sessions' = [sessions EXCEPT ![ch] = Nil]
    BY <1>2 DEF FinishTruncate
  <2> QED
    BY <1>1, <2>1 DEF RegistryInv, RegistryShape, SessionsServe, WritersRegistered, UnloadingSilent, NoWait, Nil
<1>3. CASE unloading[ch].leaf = Nil
  <2>1. serves' = Append(serves, ch) /\ sessions' = [sessions EXCEPT ![ch] = Len(serves) + 1]
    BY <1>3 DEF FinishTruncate
  <2>2. RegistryShape' /\ SessionsServe'
    BY <1>1, <2>1 DEF RegistryInv, RegistryShape, SessionsServe, NoWait, Nil
  <2>3. WritersRegistered'
    <3> SUFFICES ASSUME NEW s \in sdk PROVE sessions'[serves'[s]] = s
      BY <1>1 DEF WritersRegistered
    <3>1. s \in 1 .. Len(serves) /\ serves \in Seq(Threads)
      BY DEF RegistryInv, RegistryShape
    <3>2. serves[s] \in Threads /\ serves'[s] = serves[s]
      BY <2>1, <3>1
    <3>3. sessions[serves[s]] = s
      BY DEF RegistryInv, WritersRegistered
    <3>4. serves[s] # ch
      BY <1>1, <3>3
    <3> QED  BY <2>1, <3>2, <3>3, <3>4 DEF RegistryInv, RegistryShape
  <2>4. UnloadingSilent'
    BY <1>1, <2>1 DEF RegistryInv, RegistryShape, UnloadingSilent
  <2> QED  BY <2>2, <2>3, <2>4 DEF RegistryInv
<1> QED  BY <1>2, <1>3

LEMMA FinishDiscardKeeps == ASSUME RegistryInv, NEW ch \in Threads, FinishDiscard(ch) PROVE RegistryInv'
<1>1. sessions[ch] \notin sdk
  BY DEF FinishDiscard, RegistryInv, RegistryShape, UnloadingSilent
<1> QED
  BY <1>1 DEF FinishDiscard, RegistryInv, RegistryShape, SessionsServe, WritersRegistered, UnloadingSilent, NoWait, Nil

\* The sweep takes the process before it forgets the chat.
LEMMA SweepKeeps ==
  ASSUME RegistryInv, NEW ch \in Threads, NEW open \in BOOLEAN, SweepChat(ch, open) PROVE RegistryInv'
<1>1. /\ sdk' = sdk \ {sessions[ch]} /\ serves' = serves /\ unloading' = unloading
      /\ sessions' = sessions \/ sessions' = [sessions EXCEPT ![ch] = Nil]
  BY DEF SweepChat, Unload
<1>2. CASE sessions' = sessions
  BY <1>1, <1>2 DEF RegistryInv, RegistryShape, SessionsServe, WritersRegistered, UnloadingSilent
<1>3. CASE sessions' = [sessions EXCEPT ![ch] = Nil]
  <2>1. RegistryShape' /\ SessionsServe'
    BY <1>1, <1>3 DEF RegistryInv, RegistryShape, SessionsServe, Nil
  <2>2. WritersRegistered'
    <3> SUFFICES ASSUME NEW s \in sdk, s # sessions[ch] PROVE sessions'[serves[s]] = s
      BY <1>1 DEF WritersRegistered
    <3>1. serves[s] \in Threads /\ sessions[serves[s]] = s
      BY DEF RegistryInv, RegistryShape, WritersRegistered
    <3> QED  BY <1>3, <3>1 DEF RegistryInv, RegistryShape
  <2>3. UnloadingSilent'
    BY <1>1, <1>3 DEF RegistryInv, RegistryShape, UnloadingSilent, Nil
  <2> QED  BY <2>1, <2>2, <2>3 DEF RegistryInv
<1> QED  BY <1>1, <1>2, <1>3

LEMMA RegistryStepKeeps == ASSUME ~Racing, RegistryInv, [RegistryNext]_registryVars PROVE RegistryInv'
<1>1. ASSUME NEW ch \in Threads, StartThread(ch) PROVE RegistryInv'
  <2>1. sessions[ch] \notin sdk
    BY <1>1 DEF StartThread, RegistryInv, RegistryShape, Nil
  <2> QED  BY <1>1, <2>1, NewSessionKeeps DEF StartThread
<1>2. ASSUME NEW ch \in Threads, OpenChat(ch) PROVE RegistryInv'
  BY <1>2, SessionKeeps DEF OpenChat
<1>3. ASSUME NEW ch \in Threads, NEW leaf \in 0 .. MaxTurns, BeginTruncate(ch, leaf) PROVE RegistryInv'
  <2>1. [op |-> "truncate", leaf |-> leaf, s |-> sessions[ch]] \in [op : {"none", "truncate", "discard"}, leaf : Nat, s : Nat]
    BY RegistryAssumption DEF RegistryInv, RegistryShape
  <2> QED  BY <1>3, <2>1, UnloadKeeps DEF BeginTruncate
<1>4. ASSUME NEW ch \in Threads, BeginDiscard(ch) PROVE RegistryInv'
  <2>1. [op |-> "discard", leaf |-> Nil, s |-> sessions[ch]] \in [op : {"none", "truncate", "discard"}, leaf : Nat, s : Nat]
    BY DEF RegistryInv, RegistryShape, Nil
  <2> QED  BY <1>4, <2>1, UnloadKeeps DEF BeginDiscard
<1>5. ASSUME NEW ch \in Threads, NEW copy \in Threads, Fork(ch, copy) PROVE RegistryInv'
  <2>1. sessions[copy] \notin sdk
    BY <1>5 DEF Fork, RegistryInv, RegistryShape, Nil
  <2>2. NewSession(copy) /\ UNCHANGED <<sdk, unloading>>
    BY <1>5 DEF Fork, NewSession
  <2> QED  BY <2>1, <2>2, NewSessionKeeps
<1>6. ASSUME NEW s \in 1 .. Len(serves), ProcessBreaks(s) PROVE RegistryInv'
  BY <1>6 DEF ProcessBreaks, RegistryInv, RegistryShape, SessionsServe, WritersRegistered, UnloadingSilent
<1>7. ASSUME UNCHANGED <<sessions, serves, sdk, unloading>> PROVE RegistryInv'
  BY <1>7 DEF RegistryInv, RegistryShape, SessionsServe, WritersRegistered, UnloadingSilent
<1>8. ASSUME WarmTimer \/ \E s \in 1 .. Len(serves) : TurnWritten(s) \/ WarmExpires(s) \/ ProcessGone(s)
      PROVE UNCHANGED <<sessions, serves, sdk, unloading>>
  BY <1>8 DEF WarmTimer, TurnWritten, WarmExpires, ProcessGone
<1> QED
  BY <1>1, <1>2, <1>3, <1>4, <1>5, <1>6, <1>7, <1>8, StartTurnKeeps, FinishTruncateKeeps, FinishDiscardKeeps, SweepKeeps
     DEF RegistryNext, registryVars

\* Two processes never take prompts for one transcript (ClaudeThreads.session,
\* sweep, truncate, discard), whatever is opened, swept, rolled back, deleted
\* and forked, as long as requests wait for a session that is being unloaded.
THEOREM WritersAlone == ~Racing => (RegistrySpec => []OneWriter)
<1> SUFFICES ASSUME ~Racing PROVE RegistrySpec => []OneWriter
  OBVIOUS
<1>1. RegistryInv => OneWriter
  BY DEF RegistryInv, WritersRegistered, OneWriter
<1>2. RegistryInv /\ [RegistryNext]_registryVars => RegistryInv'
  BY RegistryStepKeeps
<1> QED  BY RegistryStarts, <1>1, <1>2, PTL DEF RegistrySpec

-----------------------------------------------------------------------------
(* What a process goes on from *)

\* A set of numbers has a least one.
LEMMA LeastNumber ==
  ASSUME NEW T \in SUBSET Nat, T # {}
  PROVE \E n \in T : \A m \in T : n <= m
<1> DEFINE R == OpToRel(<, Nat)
<1>1. IsWellFoundedOn(R, Nat)
  BY NatLessThanWellFounded
<1>2. R = {p \in Nat \X Nat : p[1] < p[2]}
  BY DEF OpToRel
<1> HIDE DEF R
<1>3. T \subseteq Nat
  OBVIOUS
<1>4. PICK x \in T : \A y \in T : ~ (<<y, x>> \in R)
  BY <1>1, <1>3, WFMin
<1>5. ASSUME NEW y \in T PROVE x <= y
  <2>1. x \in Nat /\ y \in Nat
    BY <1>3
  <2>2. <<y, x>> \in Nat \X Nat /\ <<y, x>>[1] = y /\ <<y, x>>[2] = x
    BY <2>1
  <2>3. ~ (y < x)
    BY <1>2, <1>4, <2>2
  <2> QED  BY <2>1, <2>3
<1> QED  BY <1>5

\* Induction over the numbers, for a set of them.
LEMMA Climbing ==
  ASSUME NEW G \in SUBSET Nat, 0 \in G, \A n \in G : n + 1 \in G
  PROVE G = Nat
<1> DEFINE T == Nat \ G
<1> SUFFICES ASSUME T # {} PROVE FALSE
  OBVIOUS
<1>1. PICK n \in T : \A m \in T : n <= m
  <2>1. T \in SUBSET Nat
    OBVIOUS
  <2> HIDE DEF T
  <2> QED  BY <2>1, LeastNumber
<1>2. n # 0 /\ n - 1 \in Nat
  BY <1>1
<1>3. n - 1 \in G
  BY <1>1, <1>2
<1> QED  BY <1>1, <1>2, <1>3

\* A transcript: the turns' parents come before them.
IsTree(parents) == parents \in Seq(Nat) /\ \A i \in 1 .. Len(parents) : parents[i] \in 0 .. i - 1

Climbs(parents, n, up) == up = [j \in 0 .. n |-> IF j = Nil THEN {} ELSE {j} \cup up[parents[j]]]
Upward(parents) == CHOOSE up : Climbs(parents, Len(parents), up)

LEMMA UpwardExists == ASSUME NEW parents, IsTree(parents) PROVE \E up : Climbs(parents, Len(parents), up)
<1> DEFINE G == {n \in Nat : n <= Len(parents) => \E up : Climbs(parents, n, up)}
<1>1. 0 \in G
  <2>1. Climbs(parents, 0, [j \in 0 .. 0 |-> {}])
    BY DEF Climbs, Nil
  <2> QED  BY <2>1
<1>2. ASSUME NEW n \in G PROVE n + 1 \in G
  <2> SUFFICES ASSUME n + 1 <= Len(parents) PROVE \E up : Climbs(parents, n + 1, up)
    OBVIOUS
  <2>1. n \in Nat /\ Len(parents) \in Nat
    BY DEF IsTree
  <2>2. PICK f : Climbs(parents, n, f)
    BY <2>1
  <2>3. \A j \in 1 .. n + 1 : parents[j] \in 0 .. n
    BY <2>1 DEF IsTree
  <2> DEFINE g == [j \in 0 .. n + 1 |-> IF j = n + 1 THEN {j} \cup f[parents[j]] ELSE f[j]]
  <2>4. \A j \in 0 .. n : f[j] = IF j = Nil THEN {} ELSE {j} \cup f[parents[j]]
    BY <2>2 DEF Climbs
  <2>5. ASSUME NEW j \in 0 .. n + 1 PROVE g[j] = IF j = Nil THEN {} ELSE {j} \cup g[parents[j]]
    <3>1. CASE j = Nil
      <4>1. j \in 0 .. n /\ j # n + 1 /\ j \in 0 .. n + 1
        BY <2>1, <3>1 DEF Nil
      <4>2. f[j] = {} /\ g[j] = f[j]
        BY <2>4, <3>1, <4>1
      <4> QED  BY <3>1, <4>2
    <3>2. CASE j # Nil
      <4>1. parents[j] \in 0 .. n /\ parents[j] # n + 1 /\ parents[j] \in 0 .. n + 1
        BY <2>1, <2>3, <3>2 DEF Nil
      <4>2. g[parents[j]] = f[parents[j]]
        BY <4>1
      <4> QED  BY <2>1, <2>4, <3>2, <4>2 DEF Nil
    <3> QED  BY <3>1, <3>2
  <2>6. g = [j \in 0 .. n + 1 |-> g[j]]
    OBVIOUS
  <2> HIDE DEF g
  <2>7. Climbs(parents, n + 1, g)
    BY <2>5, <2>6 DEF Climbs
  <2> QED  BY <2>7
<1>3. G = Nat
  <2>1. G \in SUBSET Nat
    OBVIOUS
  <2> HIDE DEF G
  <2> QED  BY <1>1, <1>2, <2>1, Climbing
<1> QED  BY <1>3 DEF IsTree

LEMMA UpwardUnfolds ==
  ASSUME NEW parents, IsTree(parents)
  PROVE /\ Upward(parents)[Nil] = {}
        /\ \A j \in 1 .. Len(parents) : Upward(parents)[j] = {j} \cup Upward(parents)[parents[j]]
<1>1. Climbs(parents, Len(parents), Upward(parents))
  BY UpwardExists, Zenon DEF Upward
<1>2. Len(parents) \in Nat
  BY DEF IsTree
<1> QED  BY <1>1, <1>2 DEF Climbs, Nil

LEMMA PathIsUpward == \A ch, i : Path(ch, i) = Upward(records[ch])[i]
BY DEF Path, Upward, Climbs

\* What leads to a turn, by its own parent; nothing leads to none.
LEMMA UpwardIn ==
  ASSUME NEW parents, IsTree(parents)
  PROVE \A i \in 0 .. Len(parents) :
          /\ Upward(parents)[i] \subseteq 1 .. i
          /\ i # Nil => i \in Upward(parents)[i]
          /\ \A k \in Upward(parents)[i] : Upward(parents)[k] \subseteq Upward(parents)[i]
<1> DEFINE U == Upward(parents)
           Holds(i) == /\ U[i] \subseteq 1 .. i
                       /\ i # Nil => i \in U[i]
                       /\ \A k \in U[i] : U[k] \subseteq U[i]
           G == {n \in Nat : \A i \in 0 .. n : i <= Len(parents) => Holds(i)}
<1>1. /\ Len(parents) \in Nat /\ U[Nil] = {}
      /\ \A j \in 1 .. Len(parents) : U[j] = {j} \cup U[parents[j]] /\ parents[j] \in 0 .. j - 1
  BY UpwardUnfolds DEF IsTree
<1> HIDE DEF U
<1>2. 0 \in G
  BY <1>1 DEF Nil
<1>3. ASSUME NEW n \in G PROVE n + 1 \in G
  <2> SUFFICES ASSUME n + 1 <= Len(parents) PROVE Holds(n + 1)
    OBVIOUS
  <2>1. U[n + 1] = {n + 1} \cup U[parents[n + 1]] /\ parents[n + 1] \in 0 .. n
    BY <1>1
  <2>2. Holds(parents[n + 1])
    BY <1>1, <2>1
  <2> QED  BY <2>1, <2>2 DEF Nil
<1>4. G = Nat
  <2>1. G \in SUBSET Nat
    OBVIOUS
  <2> HIDE DEF G
  <2> QED  BY <1>2, <1>3, <2>1, Climbing
<1>5. \A i \in 0 .. Len(parents) : Holds(i)
  BY <1>1, <1>4
<1> QED  BY <1>5 DEF U

\* A turn written after others changes nothing of what leads to them.
LEMMA UpwardStays ==
  ASSUME NEW parents, IsTree(parents), NEW more, IsTree(more), Len(parents) <= Len(more),
         \A i \in 1 .. Len(parents) : more[i] = parents[i]
  PROVE \A i \in 0 .. Len(parents) : Upward(more)[i] = Upward(parents)[i]
<1> DEFINE U == Upward(parents)
           V == Upward(more)
           G == {n \in Nat : \A i \in 0 .. n : i <= Len(parents) => V[i] = U[i]}
<1>1. /\ Len(parents) \in Nat /\ U[Nil] = {} /\ V[Nil] = {}
      /\ \A j \in 1 .. Len(parents) : /\ U[j] = {j} \cup U[parents[j]] /\ V[j] = {j} \cup V[parents[j]]
                                       /\ parents[j] \in 0 .. j - 1
  <2>1. Len(parents) \in Nat /\ Len(more) \in Nat /\ 1 .. Len(parents) \subseteq 1 .. Len(more)
    BY DEF IsTree
  <2>2. U[Nil] = {} /\ \A j \in 1 .. Len(parents) : U[j] = {j} \cup U[parents[j]]
    BY UpwardUnfolds
  <2>3. V[Nil] = {} /\ \A j \in 1 .. Len(more) : V[j] = {j} \cup V[more[j]]
    BY UpwardUnfolds
  <2>4. \A j \in 1 .. Len(parents) : parents[j] \in 0 .. j - 1
    BY DEF IsTree
  <2> QED  BY <2>1, <2>2, <2>3, <2>4
<1> HIDE DEF U, V
<1>2. 0 \in G
  <2>1. V[0] = U[0]
    BY <1>1, Zenon DEF Nil
  <2> QED  BY <2>1
<1>3. ASSUME NEW n \in G PROVE n + 1 \in G
  <2> SUFFICES ASSUME n + 1 <= Len(parents) PROVE V[n + 1] = U[n + 1]
    <3>1. n \in Nat /\ \A i \in 0 .. n + 1 : i \in 0 .. n \/ i = n + 1
      OBVIOUS
    <3> QED  BY <3>1
  <2>1. n + 1 \in 1 .. Len(parents) /\ parents[n + 1] \in 0 .. n /\ parents[n + 1] <= Len(parents)
    BY <1>1
  <2>2. V[parents[n + 1]] = U[parents[n + 1]]
    BY <2>1
  <2>3. V[n + 1] = {n + 1} \cup V[parents[n + 1]] /\ U[n + 1] = {n + 1} \cup U[parents[n + 1]]
    BY <1>1, <2>1
  <2> QED  BY <2>2, <2>3, Zenon
<1>4. G = Nat
  <2>1. G \in SUBSET Nat
    OBVIOUS
  <2> HIDE DEF G
  <2> QED  BY <1>2, <1>3, <2>1, Climbing
<1> QED  BY <1>1, <1>4 DEF U, V

\* The copy a fork makes is a path.
LEMMA UpwardOfPath ==
  ASSUME NEW n \in Nat
  PROVE \A i \in 0 .. n : Upward([j \in 1 .. n |-> j - 1])[i] = 1 .. i
<1> DEFINE path == [j \in 1 .. n |-> j - 1]
           U == Upward(path)
           G == {m \in Nat : m <= n => U[m] = 1 .. m}
<1>1. path \in Seq(Nat) /\ Len(path) = n
  OBVIOUS
<1>2. \A j \in 1 .. n : path[j] = j - 1
  OBVIOUS
<1> HIDE DEF path
<1>3. U[Nil] = {} /\ \A j \in 1 .. n : U[j] = {j} \cup U[j - 1]
  <2>1. IsTree(path)
    BY <1>1, <1>2 DEF IsTree
  <2> QED  BY <1>1, <1>2, <2>1, UpwardUnfolds
<1> HIDE DEF U
<1>4. 0 \in G
  BY <1>3 DEF Nil
<1>5. ASSUME NEW m \in G PROVE m + 1 \in G
  <2> SUFFICES ASSUME m + 1 <= n PROVE U[m + 1] = 1 .. m + 1
    OBVIOUS
  <2>1. m \in Nat /\ m + 1 \in 1 .. n /\ (m + 1) - 1 = m
    OBVIOUS
  <2>2. U[m + 1] = {m + 1} \cup (1 .. m)
    BY <1>3, <2>1
  <2> QED  BY <2>1, <2>2
<1>6. G = Nat
  <2>1. G \in SUBSET Nat
    OBVIOUS
  <2> HIDE DEF G
  <2> QED  BY <1>4, <1>5, <2>1, Climbing
<1> QED  BY <1>6 DEF U, path

-----------------------------------------------------------------------------
(* A chat goes on from the history its user kept *)

\* The turns of a chat that no rollback took.
Kept(ch) == (1 .. Len(records[ch])) \ undone[ch]

\* The turn its next one is written under: where its process is, or would start.
At(ch) == IF sessions[ch] \in sdk THEN tip[sessions[ch]] ELSE End(ch)

\* Its transcript is a tree, and what was kept in it is closed under parents.
Tree(ch) ==
    /\ Len(records[ch]) <= MaxTurns /\ undone[ch] \subseteq 1 .. Len(records[ch])
    /\ \A i \in 1 .. Len(records[ch]) : records[ch][i] \in 0 .. i - 1
    /\ \A i \in Kept(ch) : records[ch][i] \in Kept(ch) \cup {Nil}

\* All that was kept leads to the turn it goes on from, which was kept itself:
\* but for what a deletion is about to take anyway.
Whole(ch) ==
    unloading[ch].op # "discard" /\ ch \notin deleted =>
        At(ch) \in Kept(ch) \cup {Nil} /\ Kept(ch) \subseteq Upward(records[ch])[At(ch)]

\* A process has taken up the leaf, and between two turns it is at the last turn.
Writing(ch) ==
    sessions[ch] \in sdk =>
        /\ leaves[ch] = Nil /\ resumeAt[sessions[ch]] = Nil
        /\ sessions[ch] \notin busy => tip[sessions[ch]] = Len(records[ch])

\* The session without one would start it at the leaf.
Resuming(ch) == sessions[ch] # Nil /\ sessions[ch] \notin sdk => resumeAt[sessions[ch]] = leaves[ch]

\* A chat without a transcript has no leaf.
Leafless(ch) == ~Known(ch) /\ ch \notin deleted => leaves[ch] = Nil

\* The turn a rollback goes back to is still on the way to the chat's end.
GoingBack(ch) ==
    unloading[ch].op = "truncate" => Known(ch) /\ unloading[ch].leaf \in Upward(records[ch])[End(ch)] \cup {Nil}

Gone(ch) == ch \in deleted => ~Known(ch) /\ sessions[ch] = Nil /\ unloading[ch].op = "none"

ChatKept(ch) ==
    Tree(ch) /\ Whole(ch) /\ Writing(ch) /\ Resuming(ch) /\ Leafless(ch) /\ GoingBack(ch) /\ Gone(ch)

SessionsNew == \A s \in Objects : s > Len(serves) => resumeAt[s] = Nil
WarmKnown == warmTimer => warmSession # Nil

KeptInv ==
    RegistryTypeOK /\ RegistryInv /\ SessionsNew /\ WarmKnown /\ \A ch \in Threads : ChatKept(ch)

\* A step on one chat and a session of its own leaves the others' histories alone.
LEMMA OthersStay ==
  ASSUME KeptInv, NEW ch \in Threads, NEW s, s \in 1 .. Len(serves) => serves[s] = ch,
         \A c \in Threads \ {ch} :
           /\ records'[c] = records[c] /\ undone'[c] = undone[c] /\ leaves'[c] = leaves[c]
           /\ sessions'[c] = sessions[c] /\ unloading'[c] = unloading[c] /\ (c \in deleted' <=> c \in deleted),
         \A t \in Objects \ {s} :
           /\ (t \in sdk' <=> t \in sdk) /\ (t \in busy' <=> t \in busy)
           /\ tip'[t] = tip[t] /\ resumeAt'[t] = resumeAt[t],
         Nil \notin sdk'
  PROVE \A c \in Threads \ {ch} : ChatKept(c)'
<1> SUFFICES ASSUME NEW c \in Threads \ {ch} PROVE ChatKept(c)'
  OBVIOUS
<1>1. ChatKept(c)
  BY DEF KeptInv
<1>2. /\ records'[c] = records[c] /\ undone'[c] = undone[c] /\ leaves'[c] = leaves[c]
      /\ sessions'[c] = sessions[c] /\ unloading'[c] = unloading[c] /\ (c \in deleted' <=> c \in deleted)
  OBVIOUS
<1>3. CASE sessions[c] = Nil
  <2>1. sessions[c] \notin sdk /\ sessions'[c] \notin sdk'
    BY <1>2, <1>3 DEF KeptInv, RegistryTypeOK, Nil
  <2>2. Kept(c)' = Kept(c) /\ At(c)' = At(c)
    BY <1>2, <2>1 DEF Kept, At, End
  <2> QED
    BY <1>1, <1>2, <1>3, <2>1, <2>2
       DEF ChatKept, Tree, Whole, Writing, Resuming, Leafless, GoingBack, Gone, Known, End
<1>4. CASE sessions[c] # Nil
  <2>1. sessions[c] \in Objects \ {s}
    <3>1. sessions[c] \in 0 .. MaxSessions
      BY DEF KeptInv, RegistryTypeOK
    <3>2. sessions[c] \in 1 .. Len(serves) /\ serves[sessions[c]] = c
      BY <1>4 DEF KeptInv, RegistryInv, SessionsServe
    <3> QED  BY <3>1, <3>2, RegistryAssumption DEF Objects
  <2>2. /\ (sessions'[c] \in sdk' <=> sessions[c] \in sdk) /\ (sessions'[c] \in busy' <=> sessions[c] \in busy)
        /\ tip'[sessions'[c]] = tip[sessions[c]] /\ resumeAt'[sessions'[c]] = resumeAt[sessions[c]]
    BY <1>2, <2>1
  <2>3. Kept(c)' = Kept(c) /\ At(c)' = At(c)
    BY <1>2, <2>2 DEF Kept, At, End
  <2>4. Tree(c)' /\ Whole(c)'
    <3>1. Tree(c) /\ Whole(c)
      BY <1>1 DEF ChatKept
    <3>2. Tree(c)'
      BY <1>2, <2>3, <3>1 DEF Tree
    <3>3. Whole(c)'
      BY <1>2, <2>3, <3>1 DEF Whole
    <3> QED  BY <3>2, <3>3
  <2>5. Leafless(c)' /\ GoingBack(c)' /\ Gone(c)'
    BY <1>1, <1>2 DEF ChatKept, Leafless, GoingBack, Gone, Known, End
  <2>6. Writing(c)' /\ Resuming(c)'
    BY <1>1, <1>2, <2>2 DEF ChatKept, Writing, Resuming
  <2> QED  BY <2>4, <2>5, <2>6 DEF ChatKept
<1> QED  BY <1>3, <1>4

\* A transcript of two turns goes on from the second.
LEMMA KeptStarts == RegistryInit => KeptInv
<1> SUFFICES ASSUME RegistryInit PROVE KeptInv
  OBVIOUS
<1>1. RegistryInv
  BY RegistryStarts
<1>2. RegistryTypeOK /\ SessionsNew /\ WarmKnown
  <2>1. <<>> \in Seq(0 .. MaxTurns) /\ <<0, 1>> \in Seq(0 .. MaxTurns)
    BY RegistryAssumption
  <2>2. records \in [Threads -> Seq(0 .. MaxTurns)]
    <3>1. [Threads -> {<<>>, <<0, 1>>}] \subseteq [Threads -> Seq(0 .. MaxTurns)]
      BY <2>1
    <3> QED  BY <3>1 DEF RegistryInit
  <2>3. serves \in Seq(Threads) /\ Len(serves) = 0
    BY DEF RegistryInit
  <2>4. /\ undone \in [Threads -> SUBSET (1 .. MaxTurns)] /\ leaves \in [Threads -> 0 .. MaxTurns]
        /\ sessions \in [Threads -> 0 .. MaxSessions] /\ deleted \subseteq Threads
        /\ warmSession \in 0 .. Len(serves)
    BY <2>3, RegistryAssumption DEF RegistryInit, Nil
  <2>5. warmTimer \in BOOLEAN /\ WarmKnown
    BY DEF RegistryInit, WarmKnown
  <2>6. /\ resumeAt \in [Objects -> 0 .. MaxTurns] /\ tip \in [Objects -> 0 .. MaxTurns] /\ SessionsNew
        /\ \A S \in {sdk, dying, busy, warm} : S \subseteq 1 .. Len(serves)
    BY RegistryAssumption DEF RegistryInit, Nil, Objects, SessionsNew
  <2>7. unloading \in [Threads -> [op : {"none", "truncate", "discard"}, leaf : 0 .. MaxTurns, s : 0 .. MaxSessions]]
    BY RegistryAssumption DEF RegistryInit, NoWait, Nil
  <2> QED  BY <2>2, <2>3, <2>4, <2>5, <2>6, <2>7 DEF RegistryTypeOK
<1>3. ASSUME NEW ch \in Threads PROVE ChatKept(ch)
  <2>1. /\ undone[ch] = {} /\ leaves[ch] = Nil /\ sessions[ch] = Nil /\ ch \notin deleted
        /\ unloading[ch].op = "none" /\ sdk = {} /\ records[ch] \in {<<>>, <<0, 1>>}
    BY DEF RegistryInit, NoWait
  <2>2. At(ch) = Len(records[ch])
    BY <2>1 DEF At, End
  <2>3. Tree(ch) /\ Whole(ch)
    <3>1. CASE records[ch] = <<>>
      BY <2>1, <2>2, <3>1, RegistryAssumption DEF Tree, Whole, Kept, Nil
    <3>2. CASE records[ch] = <<0, 1>>
      <4>1. Len(records[ch]) = 2 /\ records[ch][1] = 0 /\ records[ch][2] = 1 /\ records[ch] \in Seq(Nat)
        BY <3>2
      <4>2. IsTree(records[ch])
        BY <4>1 DEF IsTree
      <4>3. Upward(records[ch])[2] = {2} \cup Upward(records[ch])[1] /\ Upward(records[ch])[1] = {1} \cup Upward(records[ch])[0]
        BY <4>1, <4>2, UpwardUnfolds
      <4>4. Kept(ch) = {1, 2}
        BY <2>1, <4>1 DEF Kept
      <4>5. Tree(ch)
        BY <2>1, <4>1, <4>4, RegistryAssumption DEF Tree, Nil
      <4>6. Whole(ch)
        BY <2>2, <4>1, <4>3, <4>4 DEF Whole
      <4> QED  BY <4>5, <4>6
    <3> QED  BY <2>1, <3>1, <3>2
  <2>4. Writing(ch) /\ Resuming(ch) /\ Leafless(ch) /\ GoingBack(ch) /\ Gone(ch)
    BY <2>1 DEF Writing, Resuming, Leafless, GoingBack, Gone
  <2> QED  BY <2>3, <2>4 DEF ChatKept
<1> QED  BY <1>1, <1>2, <1>3 DEF KeptInv

\* What holds of a chat's transcript and its sessions, in the invariant's terms.
LEMMA ChatsTyped ==
  ASSUME KeptInv, NEW ch \in Threads
  PROVE /\ IsTree(records[ch]) /\ records[ch] \in Seq(0 .. MaxTurns) /\ Len(records[ch]) \in 0 .. MaxTurns
        /\ MaxTurns \in Nat /\ MaxSessions \in Nat /\ Len(serves) \in Nat
        /\ leaves[ch] \in 0 .. MaxTurns /\ sessions[ch] \in 0 .. MaxSessions
        /\ sessions[ch] # Nil => sessions[ch] \in Objects /\ sessions[ch] \in 1 .. Len(serves) /\ serves[sessions[ch]] = ch
        /\ Nil \notin sdk /\ Nil \notin busy
        /\ sdk \subseteq Objects /\ sdk \subseteq 1 .. Len(serves)
        /\ \A s \in sdk : serves[s] \in Threads /\ sessions[serves[s]] = s
        /\ unloading[ch].op # "none" => sessions[ch] \notin sdk
        /\ End(ch) \in 0 .. MaxTurns
        /\ ChatKept(ch)
<1>1. RegistryTypeOK /\ RegistryInv /\ ChatKept(ch)
  BY DEF KeptInv
<1>2. /\ records[ch] \in Seq(0 .. MaxTurns) /\ MaxTurns \in Nat /\ MaxSessions \in Nat /\ Len(serves) \in Nat
      /\ leaves[ch] \in 0 .. MaxTurns /\ sessions[ch] \in 0 .. MaxSessions
      /\ sdk \subseteq 1 .. Len(serves) /\ busy \subseteq 1 .. Len(serves) /\ serves \in Seq(Threads)
  BY <1>1, RegistryAssumption DEF RegistryTypeOK
<1>3. IsTree(records[ch]) /\ Len(records[ch]) \in 0 .. MaxTurns
  BY <1>1, <1>2 DEF ChatKept, Tree, IsTree
<1>4. sessions[ch] # Nil => sessions[ch] \in 1 .. Len(serves) /\ serves[sessions[ch]] = ch
  BY <1>1 DEF RegistryInv, SessionsServe
<1>5. ASSUME NEW s \in sdk PROVE serves[s] \in Threads /\ sessions[serves[s]] = s /\ s \in Objects
  <2>1. s \in 1 .. Len(serves) /\ serves[s] \in Threads /\ sessions[serves[s]] = s
    BY <1>1, <1>2 DEF RegistryInv, WritersRegistered
  <2>2. sessions[serves[s]] \in 0 .. MaxSessions
    BY <1>1, <2>1 DEF RegistryTypeOK
  <2> QED  BY <1>2, <2>1, <2>2 DEF Objects
<1>6. sessions[ch] # Nil => sessions[ch] \in Objects
  BY <1>2, <1>4 DEF Objects
<1>7. Nil \notin sdk /\ Nil \notin busy
  BY <1>2 DEF Nil
<1>8. unloading[ch].op # "none" => sessions[ch] \notin sdk
  BY <1>1 DEF RegistryInv, UnloadingSilent
<1>9. End(ch) \in 0 .. MaxTurns
  BY <1>2, <1>3 DEF End
<1> QED  BY <1>1, <1>2, <1>3, <1>4, <1>5, <1>6, <1>7, <1>8, <1>9

\* A session made for a chat has a number of its own.
LEMMA NewSessionTyped ==
  ASSUME KeptInv, NEW ch \in Threads, NewSession(ch)
  PROVE /\ serves' \in Seq(Threads) /\ Len(serves') = Len(serves) + 1 /\ Len(serves') \in Objects
        /\ sessions'[ch] = Len(serves') /\ sessions' \in [Threads -> 0 .. MaxSessions]
        /\ \A c \in Threads \ {ch} : sessions'[c] = sessions[c]
        /\ 1 .. Len(serves) \subseteq 1 .. Len(serves')
        /\ Len(serves') \notin sdk /\ Len(serves') \notin busy /\ resumeAt[Len(serves')] = Nil
<1>1. /\ serves \in Seq(Threads) /\ sessions \in [Threads -> 0 .. MaxSessions] /\ MaxSessions \in Nat
      /\ sdk \subseteq 1 .. Len(serves) /\ busy \subseteq 1 .. Len(serves) /\ Len(serves) \in Nat
  <2>1. RegistryTypeOK
    BY DEF KeptInv
  <2>2. sdk \subseteq 1 .. Len(serves) /\ busy \subseteq 1 .. Len(serves) /\ serves \in Seq(Threads)
    BY <2>1 DEF RegistryTypeOK
  <2>3. sessions \in [Threads -> 0 .. MaxSessions]
    BY <2>1 DEF RegistryTypeOK
  <2> QED  BY <2>2, <2>3, RegistryAssumption
<1>2. /\ serves' = Append(serves, ch) /\ Len(serves) < MaxSessions
      /\ sessions' = [sessions EXCEPT ![ch] = Len(serves) + 1]
  BY DEF NewSession
<1>3. serves' \in Seq(Threads) /\ Len(serves') = Len(serves) + 1
  BY <1>1, <1>2
<1>4. Len(serves') \in Objects /\ Len(serves') > Len(serves)
  BY <1>1, <1>2, <1>3 DEF Objects
<1>5. resumeAt[Len(serves')] = Nil
  BY <1>4 DEF KeptInv, SessionsNew
<1>6. 1 .. Len(serves) \subseteq 1 .. Len(serves') /\ Len(serves') \notin sdk /\ Len(serves') \notin busy
  BY <1>1, <1>3
<1>7. Len(serves') \in 0 .. MaxSessions
  BY <1>1, <1>2, <1>3
<1>8. /\ sessions'[ch] = Len(serves') /\ \A c \in Threads \ {ch} : sessions'[c] = sessions[c]
      /\ sessions' \in [Threads -> 0 .. MaxSessions]
  BY <1>1, <1>2, <1>3, <1>7
<1> QED  BY <1>3, <1>4, <1>5, <1>6, <1>8

\* The session a request gets.
LEMMA SessionTyped ==
  ASSUME KeptInv, NEW ch \in Threads, Session(ch)
  PROVE /\ serves' \in Seq(Threads) /\ Len(serves') \in Nat /\ 1 .. Len(serves) \subseteq 1 .. Len(serves')
        /\ sessions'[ch] \in Objects /\ sessions'[ch] \in 1 .. Len(serves') /\ sessions' \in [Threads -> 0 .. MaxSessions]
        /\ \A c \in Threads \ {ch} : sessions'[c] = sessions[c]
        /\ sessions'[ch] \in 1 .. Len(serves) => sessions'[ch] = sessions[ch] /\ serves[sessions[ch]] = ch
        /\ sessions'[ch] \in sdk <=> sessions[ch] \in sdk
        /\ resumeAt[sessions'[ch]] = IF sessions[ch] # Nil THEN resumeAt[sessions[ch]] ELSE Nil
        /\ LeafFor(ch) = IF sessions[ch] \in sdk THEN resumeAt[sessions[ch]] ELSE leaves[ch]
        /\ \A s \in Objects : s > Len(serves') => s > Len(serves)
        /\ sessions[ch] = Nil => Known(ch)
<1>1. /\ sessions[ch] # Nil => sessions[ch] \in Objects /\ sessions[ch] \in 1 .. Len(serves) /\ serves[sessions[ch]] = ch
      /\ Nil \notin sdk /\ sdk \subseteq 1 .. Len(serves) /\ Len(serves) \in Nat /\ Resuming(ch)
  BY ChatsTyped DEF ChatKept
<1>2. LeafFor(ch) = IF sessions[ch] \in sdk THEN resumeAt[sessions[ch]] ELSE leaves[ch]
  BY <1>1 DEF LeafFor, Resuming
<1>3. CASE sessions[ch] # Nil
  <2>1. serves' = serves /\ sessions' = sessions
    BY <1>3 DEF Session
  <2>2. serves \in Seq(Threads) /\ sessions \in [Threads -> 0 .. MaxSessions]
    BY DEF KeptInv, RegistryTypeOK
  <2> QED  BY <1>1, <1>2, <1>3, <2>1, <2>2
<1>4. CASE sessions[ch] = Nil
  <2>1. NewSession(ch) /\ Known(ch)
    BY <1>4 DEF Session
  <2>2. /\ serves' \in Seq(Threads) /\ Len(serves') = Len(serves) + 1 /\ Len(serves') \in Objects
        /\ sessions'[ch] = Len(serves') /\ sessions' \in [Threads -> 0 .. MaxSessions]
        /\ \A c \in Threads \ {ch} : sessions'[c] = sessions[c]
        /\ 1 .. Len(serves) \subseteq 1 .. Len(serves')
        /\ Len(serves') \notin sdk /\ resumeAt[Len(serves')] = Nil
    BY <2>1, NewSessionTyped
  <2>3. Len(serves') \in Nat /\ Len(serves') \notin 1 .. Len(serves) /\ Len(serves') \in 1 .. Len(serves')
    BY <1>1, <2>2
  <2>4. \A s \in Objects : s > Len(serves') => s > Len(serves)
    BY <1>1, <2>2, RegistryAssumption DEF Objects
  <2> QED  BY <1>1, <1>2, <1>4, <2>1, <2>2, <2>3, <2>4
<1> QED  BY <1>3, <1>4

\* The parts of the types, one by one.
LEMMA PartsTyped ==
  ASSUME KeptInv
  PROVE /\ records \in [Threads -> Seq(0 .. MaxTurns)] /\ undone \in [Threads -> SUBSET (1 .. MaxTurns)]
        /\ leaves \in [Threads -> 0 .. MaxTurns] /\ sessions \in [Threads -> 0 .. MaxSessions] /\ serves \in Seq(Threads)
        /\ sdk \subseteq 1 .. Len(serves) /\ dying \subseteq 1 .. Len(serves) /\ busy \subseteq 1 .. Len(serves)
        /\ warm \subseteq 1 .. Len(serves)
        /\ resumeAt \in [Objects -> 0 .. MaxTurns] /\ tip \in [Objects -> 0 .. MaxTurns]
        /\ warmSession \in 0 .. Len(serves) /\ warmTimer \in BOOLEAN /\ deleted \subseteq Threads
        /\ unloading \in [Threads -> [op : {"none", "truncate", "discard"}, leaf : 0 .. MaxTurns, s : 0 .. MaxSessions]]
<1>1. RegistryTypeOK
  BY DEF KeptInv
<1>2. /\ sdk \subseteq 1 .. Len(serves) /\ dying \subseteq 1 .. Len(serves) /\ busy \subseteq 1 .. Len(serves)
      /\ warm \subseteq 1 .. Len(serves)
  BY <1>1 DEF RegistryTypeOK
<1> QED  BY <1>1, <1>2 DEF RegistryTypeOK

\* The session opened last.
LEMMA PrewarmTyped ==
  ASSUME NEW s \in 1 .. Len(serves'), Prewarm(s), warm \subseteq 1 .. Len(serves'), Len(serves') \in Nat
  PROVE warmSession' \in 0 .. Len(serves') /\ warmTimer' \in BOOLEAN /\ warm' \subseteq 1 .. Len(serves') /\ WarmKnown'
<1>1. warmSession' = s /\ warmTimer' = TRUE /\ warm' \subseteq warm
  BY DEF Prewarm
<1> QED  BY <1>1 DEF WarmKnown, Nil

\* thread/start: a new chat has nothing to go on from.
LEMMA StartThreadKept == ASSUME KeptInv, RegistryInv', NEW ch \in Threads, StartThread(ch) PROVE KeptInv'
<1>1. /\ ~Known(ch) /\ sessions[ch] = Nil /\ ch \notin deleted /\ NewSession(ch) /\ Prewarm(Len(serves) + 1)
      /\ records' = records /\ undone' = undone /\ leaves' = leaves /\ resumeAt' = resumeAt /\ sdk' = sdk
      /\ dying' = dying /\ busy' = busy /\ tip' = tip /\ deleted' = deleted /\ unloading' = unloading
  BY DEF StartThread, fileVars
<1> DEFINE s == Len(serves')
<1>2. /\ serves' \in Seq(Threads) /\ s = Len(serves) + 1 /\ s \in Objects
      /\ sessions'[ch] = s /\ sessions' \in [Threads -> 0 .. MaxSessions]
      /\ \A c \in Threads \ {ch} : sessions'[c] = sessions[c]
      /\ 1 .. Len(serves) \subseteq 1 .. s /\ s \notin sdk /\ s \notin busy /\ resumeAt[s] = Nil
  BY <1>1, NewSessionTyped
<1>3. s \in Nat /\ Len(serves) \in Nat /\ s \in 1 .. Len(serves') /\ s \notin 1 .. Len(serves) /\ s # Nil
  BY <1>2 DEF Objects, Nil
<1> HIDE DEF s
<1>4. /\ warmSession' \in 0 .. Len(serves') /\ warmTimer' \in BOOLEAN /\ warm' \subseteq 1 .. Len(serves') /\ WarmKnown'
  BY <1>1, <1>2, <1>3, PartsTyped, PrewarmTyped DEF s
<1>5. RegistryTypeOK'
  <2>1. \A S \in {sdk', dying', busy', warm'} : S \subseteq 1 .. Len(serves')
    BY <1>1, <1>2, <1>4, PartsTyped DEF s
  <2> QED  BY <1>1, <1>2, <1>4, <2>1, PartsTyped DEF RegistryTypeOK
<1>6. SessionsNew'
  BY <1>1, <1>2, <1>3 DEF KeptInv, SessionsNew, s, Objects
<1>7. ChatKept(ch)'
  <2>1. ChatKept(ch) /\ IsTree(records[ch]) /\ Nil \notin sdk /\ leaves[ch] = Nil
    BY <1>1, ChatsTyped DEF ChatKept, Leafless
  <2>2. At(ch)' = At(ch) /\ Kept(ch)' = Kept(ch)
    BY <1>1, <1>2, <2>1 DEF At, Kept, End
  <2>3. Tree(ch)' /\ Whole(ch)'
    BY <1>1, <2>1, <2>2 DEF ChatKept, Tree, Whole
  <2>4. Writing(ch)' /\ Resuming(ch)'
    BY <1>1, <1>2, <2>1 DEF Writing, Resuming
  <2>5. Leafless(ch)' /\ GoingBack(ch)' /\ Gone(ch)'
    BY <1>1, <2>1 DEF ChatKept, Leafless, GoingBack, Gone, Known, End
  <2> QED  BY <2>3, <2>4, <2>5 DEF ChatKept
<1>8. \A c \in Threads \ {ch} : ChatKept(c)'
  <2>1. Nil \notin sdk'
    BY <1>1, ChatsTyped
  <2> QED  BY <1>1, <1>2, <1>3, <2>1, OthersStay
<1> QED  BY <1>4, <1>5, <1>6, <1>7, <1>8 DEF KeptInv

\* thread/resume: the session opened remembers the leaf.
LEMMA OpenChatKept == ASSUME KeptInv, RegistryInv', NEW ch \in Threads, OpenChat(ch) PROVE KeptInv'
<1> DEFINE s == sessions'[ch]
<1>1. /\ Session(ch) /\ Prewarm(s) /\ resumeAt' = [resumeAt EXCEPT ![s] = LeafFor(ch)]
      /\ records' = records /\ undone' = undone /\ leaves' = leaves /\ sdk' = sdk
      /\ dying' = dying /\ busy' = busy /\ tip' = tip /\ deleted' = deleted /\ unloading' = unloading
  BY DEF OpenChat, fileVars
<1>2. /\ serves' \in Seq(Threads) /\ Len(serves') \in Nat /\ 1 .. Len(serves) \subseteq 1 .. Len(serves')
      /\ s \in Objects /\ s \in 1 .. Len(serves') /\ sessions' \in [Threads -> 0 .. MaxSessions]
      /\ \A c \in Threads \ {ch} : sessions'[c] = sessions[c]
      /\ s \in 1 .. Len(serves) => s = sessions[ch] /\ serves[sessions[ch]] = ch
      /\ s \in sdk <=> sessions[ch] \in sdk
      /\ LeafFor(ch) = IF sessions[ch] \in sdk THEN resumeAt[sessions[ch]] ELSE leaves[ch]
      /\ \A t \in Objects : t > Len(serves') => t > Len(serves)
      /\ sessions[ch] = Nil => Known(ch)
  BY <1>1, SessionTyped
<1>3. s = sessions[ch] \/ sessions[ch] \notin sdk
  BY <1>2, ChatsTyped
<1> HIDE DEF s
<1>4. /\ warmSession' \in 0 .. Len(serves') /\ warmTimer' \in BOOLEAN /\ warm' \subseteq 1 .. Len(serves') /\ WarmKnown'
  BY <1>1, <1>2, PartsTyped, PrewarmTyped
<1>5. LeafFor(ch) \in 0 .. MaxTurns
  <2>1. sessions[ch] \in sdk => sessions[ch] \in Objects
    BY ChatsTyped
  <2> QED  BY <1>2, <2>1, PartsTyped
<1>6. RegistryTypeOK'
  <2>1. \A S \in {sdk', dying', busy', warm'} : S \subseteq 1 .. Len(serves')
    BY <1>1, <1>2, <1>4, PartsTyped
  <2>2. resumeAt' \in [Objects -> 0 .. MaxTurns]
    BY <1>1, <1>5, PartsTyped
  <2> QED  BY <1>1, <1>2, <1>4, <2>1, <2>2, PartsTyped DEF RegistryTypeOK
<1>7. resumeAt'[s] = LeafFor(ch) /\ \A t \in Objects \ {s} : resumeAt'[t] = resumeAt[t]
  BY <1>1, <1>2, PartsTyped
<1>8. SessionsNew'
  <2> SUFFICES ASSUME NEW t \in Objects, t > Len(serves') PROVE resumeAt'[t] = Nil
    BY DEF SessionsNew
  <2>1. t > Len(serves) /\ t # s
    BY <1>2
  <2> QED  BY <1>7, <2>1 DEF KeptInv, SessionsNew
<1>9. ChatKept(ch)'
  <2>1. ChatKept(ch) /\ IsTree(records[ch]) /\ Nil \notin sdk
    BY ChatsTyped
  <2>2. At(ch)' = At(ch) /\ Kept(ch)' = Kept(ch)
    BY <1>1, <1>2, <1>3 DEF At, Kept, End, s
  <2>3. Tree(ch)' /\ Whole(ch)'
    BY <1>1, <2>1, <2>2 DEF ChatKept, Tree, Whole
  <2>4. Writing(ch)'
    BY <1>1, <1>2, <1>3, <1>7, <2>1 DEF ChatKept, Writing, s
  <2>5. Resuming(ch)'
    BY <1>1, <1>2, <1>7 DEF Resuming, s
  <2>6. Leafless(ch)' /\ GoingBack(ch)'
    BY <1>1, <2>1 DEF ChatKept, Leafless, GoingBack, Known, End
  <2>7. Gone(ch)'
    BY <1>1, <1>2, <2>1 DEF ChatKept, Gone, Known, OpenChat
  <2> QED  BY <2>3, <2>4, <2>5, <2>6, <2>7 DEF ChatKept
<1>10. \A c \in Threads \ {ch} : ChatKept(c)'
  <2>1. Nil \notin sdk'
    BY <1>1, ChatsTyped
  <2>2. \A c \in Threads \ {ch} :
          /\ records'[c] = records[c] /\ undone'[c] = undone[c] /\ leaves'[c] = leaves[c]
          /\ sessions'[c] = sessions[c] /\ unloading'[c] = unloading[c] /\ (c \in deleted' <=> c \in deleted)
    BY <1>1, <1>2
  <2>3. \A t \in Objects \ {s} :
          /\ (t \in sdk' <=> t \in sdk) /\ (t \in busy' <=> t \in busy)
          /\ tip'[t] = tip[t] /\ resumeAt'[t] = resumeAt[t]
    BY <1>1, <1>7
  <2> QED  BY <1>2, <2>1, <2>2, <2>3, OthersStay
<1> QED  BY <1>4, <1>6, <1>8, <1>9, <1>10 DEF KeptInv

\* turn/start, a side question: a process started for it starts where the chat's
\* history ends; for a question only, that is the last turn.
LEMMA StartTurnKept ==
  ASSUME ~Racing, ~Breaking, KeptInv, RegistryInv', NEW ch \in Threads, StartTurn(ch) \/ AskAside(ch) PROVE KeptInv'
<1> DEFINE s == sessions'[ch]
           at == LeafFor(ch)
<1>1. /\ Session(ch) /\ sdk' = sdk \cup {s} /\ warm' = warm \ {s}
      /\ busy' = busy \cup {s} \/ (busy' = busy /\ s \notin sdk /\ at = Nil)
      /\ resumeAt' = [resumeAt EXCEPT ![s] = Nil]
      /\ tip' = IF s \in sdk THEN tip ELSE [tip EXCEPT ![s] = IF at # Nil THEN at ELSE Len(records[ch])]
      /\ leaves' = IF s \notin sdk /\ at # Nil THEN [leaves EXCEPT ![ch] = Nil] ELSE leaves
      /\ records' = records /\ undone' = undone /\ dying' = dying /\ warmSession' = warmSession
      /\ warmTimer' = warmTimer /\ deleted' = deleted /\ unloading' = unloading /\ unloading[ch].op = "none"
  BY DEF StartTurn, AskAside, EnsureQuery, fileVars, Idle
<1>2. /\ serves' \in Seq(Threads) /\ Len(serves') \in Nat /\ 1 .. Len(serves) \subseteq 1 .. Len(serves')
      /\ s \in Objects /\ s \in 1 .. Len(serves') /\ sessions' \in [Threads -> 0 .. MaxSessions]
      /\ \A c \in Threads \ {ch} : sessions'[c] = sessions[c]
      /\ s \in 1 .. Len(serves) => s = sessions[ch] /\ serves[sessions[ch]] = ch
      /\ s \in sdk <=> sessions[ch] \in sdk
      /\ at = IF sessions[ch] \in sdk THEN resumeAt[sessions[ch]] ELSE leaves[ch]
      /\ \A t \in Objects : t > Len(serves') => t > Len(serves)
      /\ sessions[ch] = Nil => Known(ch)
  BY <1>1, SessionTyped
<1>3. s = sessions[ch] \/ sessions[ch] \notin sdk
  BY <1>2, ChatsTyped
<1> HIDE DEF s, at
<1>4. at \in 0 .. MaxTurns /\ Len(records[ch]) \in 0 .. MaxTurns
  <2>1. (sessions[ch] \in sdk => sessions[ch] \in Objects) /\ Len(records[ch]) \in 0 .. MaxTurns
    BY ChatsTyped
  <2> QED  BY <1>2, <2>1, PartsTyped
<1>5. /\ resumeAt' \in [Objects -> 0 .. MaxTurns] /\ tip' \in [Objects -> 0 .. MaxTurns]
      /\ leaves' \in [Threads -> 0 .. MaxTurns]
      /\ resumeAt'[s] = Nil /\ (s \notin sdk => tip'[s] = IF at # Nil THEN at ELSE Len(records[ch]))
      /\ (s \in sdk => tip' = tip)
      /\ \A t \in Objects \ {s} : resumeAt'[t] = resumeAt[t] /\ tip'[t] = tip[t]
      /\ \A c \in Threads \ {ch} : leaves'[c] = leaves[c]
      /\ leaves'[ch] = IF s \notin sdk /\ at # Nil THEN Nil ELSE leaves[ch]
  <2>1. Nil \in 0 .. MaxTurns
    BY RegistryAssumption DEF Nil
  <2>2. resumeAt' \in [Objects -> 0 .. MaxTurns] /\ resumeAt'[s] = Nil /\ \A t \in Objects \ {s} : resumeAt'[t] = resumeAt[t]
    BY <1>1, <1>2, <2>1, PartsTyped
  <2>3. /\ tip' \in [Objects -> 0 .. MaxTurns] /\ (s \notin sdk => tip'[s] = IF at # Nil THEN at ELSE Len(records[ch]))
        /\ (s \in sdk => tip' = tip) /\ \A t \in Objects \ {s} : tip'[t] = tip[t]
    BY <1>1, <1>2, <1>4, PartsTyped
  <2>4. /\ leaves' \in [Threads -> 0 .. MaxTurns] /\ \A c \in Threads \ {ch} : leaves'[c] = leaves[c]
        /\ leaves'[ch] = IF s \notin sdk /\ at # Nil THEN Nil ELSE leaves[ch]
    BY <1>1, <2>1, PartsTyped
  <2> QED  BY <2>2, <2>3, <2>4
<1>6. RegistryTypeOK'
  <2>1. \A S \in {sdk', dying', busy', warm'} : S \subseteq 1 .. Len(serves')
    BY <1>1, <1>2, PartsTyped
  <2>2. warmSession' \in 0 .. Len(serves')
    BY <1>1, <1>2, PartsTyped
  <2> QED  BY <1>1, <1>2, <1>5, <2>1, <2>2, PartsTyped DEF RegistryTypeOK
<1>7. SessionsNew'
  <2> SUFFICES ASSUME NEW t \in Objects, t > Len(serves') PROVE resumeAt'[t] = Nil
    BY DEF SessionsNew
  <2>1. t > Len(serves) /\ t # s
    BY <1>2
  <2> QED  BY <1>5, <2>1 DEF KeptInv, SessionsNew
<1>8. WarmKnown'
  BY <1>1 DEF KeptInv, WarmKnown
<1>9. ChatKept(ch)'
  <2>1. ChatKept(ch) /\ IsTree(records[ch]) /\ Nil \notin sdk
    BY ChatsTyped
  <2>2. Kept(ch)' = Kept(ch)
    BY <1>1 DEF Kept
  <2>3. At(ch)' = At(ch)
    <3>1. At(ch)' = tip'[s]
      BY <1>1 DEF At, s
    <3>2. CASE s \in sdk
      BY <1>2, <1>3, <1>5, <3>1, <3>2 DEF At
    <3>3. CASE s \notin sdk
      BY <1>2, <1>5, <3>1, <3>3 DEF At, End
    <3> QED  BY <3>2, <3>3
  <2>4. Tree(ch)' /\ Whole(ch)'
    BY <1>1, <2>1, <2>2, <2>3 DEF ChatKept, Tree, Whole
  <2>5. leaves'[ch] = Nil
    BY <1>2, <1>3, <1>5, <2>1 DEF ChatKept, Writing
  <2>6. Writing(ch)' /\ Resuming(ch)'
    BY <1>1, <1>5, <2>5 DEF Writing, Resuming, s
  <2>7. Leafless(ch)' /\ GoingBack(ch)'
    BY <1>1, <2>5 DEF Leafless, GoingBack
  <2>8. Gone(ch)'
    BY <1>1, <1>2, <2>1 DEF ChatKept, Gone
  <2> QED  BY <2>4, <2>6, <2>7, <2>8 DEF ChatKept
<1>10. \A c \in Threads \ {ch} : ChatKept(c)'
  <2>1. Nil \notin sdk'
    BY <1>1, <1>2, ChatsTyped DEF Nil
  <2>2. \A t \in Objects \ {s} :
          /\ (t \in sdk' <=> t \in sdk) /\ (t \in busy' <=> t \in busy)
          /\ tip'[t] = tip[t] /\ resumeAt'[t] = resumeAt[t]
    BY <1>1, <1>5
  <2>3. \A c \in Threads \ {ch} :
          /\ records'[c] = records[c] /\ undone'[c] = undone[c] /\ leaves'[c] = leaves[c]
          /\ sessions'[c] = sessions[c] /\ unloading'[c] = unloading[c] /\ (c \in deleted' <=> c \in deleted)
    BY <1>1, <1>2, <1>5
  <2>4. s \in 1 .. Len(serves) => serves[s] = ch
    BY <1>2
  <2> QED  BY <2>1, <2>2, <2>3, <2>4, OthersStay
<1> QED  BY <1>6, <1>7, <1>8, <1>9, <1>10 DEF KeptInv

\* A turn is written under the turn its process is at.
LEMMA TurnWrittenKept ==
  ASSUME KeptInv, RegistryInv', NEW s \in 1 .. Len(serves), TurnWritten(s) PROVE KeptInv'
<1>0. PICK ch \in Threads : ch = serves[s]
  <2>1. serves[s] \in Threads
    BY PartsTyped
  <2> QED  BY <2>1
<1> DEFINE n == Len(records[ch]) + 1
<1>1. /\ s \in busy \cap sdk /\ Len(records[ch]) < MaxTurns
      /\ records' = [records EXCEPT ![ch] = Append(@, tip[s])] /\ tip' = [tip EXCEPT ![s] = n] /\ busy' = busy \ {s}
      /\ undone' = undone /\ leaves' = leaves /\ sessions' = sessions /\ serves' = serves /\ sdk' = sdk /\ dying' = dying
      /\ resumeAt' = resumeAt /\ warm' = warm /\ warmSession' = warmSession /\ warmTimer' = warmTimer
      /\ deleted' = deleted /\ unloading' = unloading
  BY <1>0 DEF TurnWritten, warmVars
<1>2. sessions[ch] = s /\ s \in Objects /\ s \in sdk
  BY <1>0, <1>1, ChatsTyped
<1> HIDE DEF n
<1>3. /\ ChatKept(ch) /\ IsTree(records[ch]) /\ records[ch] \in Seq(0 .. MaxTurns) /\ Nil \notin sdk
      /\ Len(records[ch]) \in Nat /\ n = Len(records[ch]) + 1 /\ MaxTurns \in Nat /\ unloading[ch].op = "none" /\ sessions[ch] # Nil
  <2>1. \A c \in Threads : unloading[c].op # "none" => sessions[c] \notin sdk
    BY ChatsTyped
  <2>2. unloading[ch].op = "none"
    BY <1>2, <2>1
  <2> QED  BY <1>2, <2>2, ChatsTyped DEF n
<1>4. tip[s] \in Kept(ch) \cup {Nil} /\ Kept(ch) \subseteq Upward(records[ch])[tip[s]] /\ ch \notin deleted
  <2>1. At(ch) = tip[s] /\ ch \notin deleted
    BY <1>2, <1>3 DEF At, ChatKept, Gone
  <2> QED  BY <1>3, <2>1 DEF ChatKept, Whole
<1>5. n \in 1 .. MaxTurns /\ tip[s] \in 0 .. n - 1
  BY <1>1, <1>3, <1>4 DEF Kept, Nil
<1>6. /\ records'[ch] \in Seq(0 .. MaxTurns) /\ Len(records'[ch]) = n
      /\ \A i \in 1 .. Len(records[ch]) : records'[ch][i] = records[ch][i]
      /\ records'[ch][n] = tip[s]
      /\ records' \in [Threads -> Seq(0 .. MaxTurns)] /\ \A c \in Threads \ {ch} : records'[c] = records[c]
  <2>1. records'[ch] = Append(records[ch], tip[s]) /\ tip[s] \in 0 .. MaxTurns
    BY <1>1, <1>2, <1>3, <1>5, PartsTyped
  <2>2. /\ records'[ch] \in Seq(0 .. MaxTurns) /\ Len(records'[ch]) = n
        /\ \A i \in 1 .. Len(records[ch]) : records'[ch][i] = records[ch][i]
        /\ records'[ch][n] = tip[s]
    BY <1>3, <2>1
  <2>3. records' \in [Threads -> Seq(0 .. MaxTurns)] /\ \A c \in Threads \ {ch} : records'[c] = records[c]
    BY <1>1, <2>1, <2>2, PartsTyped
  <2> QED  BY <2>2, <2>3
<1>7. tip' \in [Objects -> 0 .. MaxTurns] /\ tip'[s] = n /\ \A t \in Objects \ {s} : tip'[t] = tip[t]
  BY <1>1, <1>2, <1>5, PartsTyped
<1>8. RegistryTypeOK'
  <2>1. \A S \in {sdk', dying', busy', warm'} : S \subseteq 1 .. Len(serves')
    BY <1>1, PartsTyped
  <2> QED  BY <1>1, <1>6, <1>7, <2>1, PartsTyped DEF RegistryTypeOK
<1>9. SessionsNew' /\ WarmKnown'
  BY <1>1 DEF KeptInv, SessionsNew, WarmKnown
<1>10. IsTree(records'[ch])
  <2>1. \A i \in 1 .. n : records'[ch][i] \in 0 .. i - 1
    <3> SUFFICES ASSUME NEW i \in 1 .. n PROVE records'[ch][i] \in 0 .. i - 1
      OBVIOUS
    <3>1. CASE i = n
      BY <1>5, <1>6, <3>1
    <3>2. CASE i # n
      <4>1. i \in 1 .. Len(records[ch])
        BY <1>3, <3>2
      <4> QED  BY <1>3, <1>6, <4>1 DEF IsTree
    <3> QED  BY <3>1, <3>2
  <2>2. records'[ch] \in Seq(Nat)
    BY <1>3, <1>6
  <2> QED  BY <1>6, <2>1, <2>2 DEF IsTree
<1>11. /\ Upward(records'[ch])[n] = {n} \cup Upward(records'[ch])[tip[s]]
       /\ Upward(records'[ch])[tip[s]] = Upward(records[ch])[tip[s]]
  <2>1. Len(records[ch]) <= Len(records'[ch]) /\ tip[s] \in 0 .. Len(records[ch]) /\ n \in 1 .. Len(records'[ch])
    BY <1>3, <1>5, <1>6
  <2>2. \A i \in 0 .. Len(records[ch]) : Upward(records'[ch])[i] = Upward(records[ch])[i]
    BY <1>3, <1>6, <1>10, <2>1, UpwardStays
  <2>3. Upward(records'[ch])[n] = {n} \cup Upward(records'[ch])[records'[ch][n]]
    BY <1>10, <2>1, UpwardUnfolds
  <2> QED  BY <1>6, <2>1, <2>2, <2>3
<1>12. ChatKept(ch)'
  <2>1. undone[ch] \subseteq 1 .. Len(records[ch]) /\ \A i \in Kept(ch) : records[ch][i] \in Kept(ch) \cup {Nil}
    BY <1>3 DEF ChatKept, Tree
  <2>2. Kept(ch)' = Kept(ch) \cup {n}
    BY <1>1, <1>3, <1>6, <2>1 DEF Kept
  <2>3. At(ch)' = n
    BY <1>1, <1>2, <1>7 DEF At
  <2>4. Tree(ch)'
    <3>1. \A i \in Kept(ch)' : records'[ch][i] \in Kept(ch)' \cup {Nil}
      <4> SUFFICES ASSUME NEW i \in Kept(ch) \cup {n} PROVE records'[ch][i] \in Kept(ch) \cup {Nil}
        BY <2>2
      <4>1. CASE i = n
        BY <1>4, <1>6, <4>1
      <4>2. CASE i \in Kept(ch)
        BY <1>6, <2>1, <4>2 DEF Kept
      <4> QED  BY <4>1, <4>2
    <3>2. Len(records'[ch]) <= MaxTurns /\ undone'[ch] \subseteq 1 .. Len(records'[ch])
      BY <1>1, <1>3, <1>5, <1>6, <2>1
    <3> QED  BY <1>10, <3>1, <3>2 DEF Tree, IsTree
  <2>5. Whole(ch)'
    BY <1>4, <1>11, <2>2, <2>3 DEF Whole
  <2>6. Writing(ch)' /\ Resuming(ch)'
    BY <1>1, <1>2, <1>3, <1>6, <1>7 DEF ChatKept, Writing, Resuming
  <2>7. Leafless(ch)' /\ GoingBack(ch)' /\ Gone(ch)'
    BY <1>1, <1>2, <1>3, <1>4 DEF ChatKept, Writing, Leafless, GoingBack, Gone
  <2> QED  BY <2>4, <2>5, <2>6, <2>7 DEF ChatKept
<1>13. \A c \in Threads \ {ch} : ChatKept(c)'
  <2>1. \A c \in Threads \ {ch} :
          /\ records'[c] = records[c] /\ undone'[c] = undone[c] /\ leaves'[c] = leaves[c]
          /\ sessions'[c] = sessions[c] /\ unloading'[c] = unloading[c] /\ (c \in deleted' <=> c \in deleted)
    BY <1>1, <1>6
  <2>2. \A t \in Objects \ {s} :
          /\ (t \in sdk' <=> t \in sdk) /\ (t \in busy' <=> t \in busy)
          /\ tip'[t] = tip[t] /\ resumeAt'[t] = resumeAt[t]
    BY <1>1, <1>7
  <2>3. serves[s] = ch /\ Nil \notin sdk'
    BY <1>0, <1>1, <1>3
  <2> QED  BY <1>2, <2>1, <2>2, <2>3, OthersStay
<1> QED  BY <1>8, <1>9, <1>12, <1>13 DEF KeptInv

\* What a chat goes on from is not touched by warm processes and by closed ones that end.
LEMMA OnTheSideKept ==
  ASSUME KeptInv, RegistryInv',
         WarmTimer \/ \E s \in 1 .. Len(serves) : WarmExpires(s) \/ ProcessGone(s)
  PROVE KeptInv'
<1>1. /\ records' = records /\ undone' = undone /\ leaves' = leaves /\ sessions' = sessions /\ serves' = serves
      /\ sdk' = sdk /\ busy' = busy /\ resumeAt' = resumeAt /\ tip' = tip /\ warmSession' = warmSession
      /\ deleted' = deleted /\ unloading' = unloading
  BY DEF WarmTimer, WarmExpires, ProcessGone, fileVars, warmVars
<1>2. warm' \subseteq 1 .. Len(serves) /\ dying' \subseteq 1 .. Len(serves)
  <2>1. CASE WarmTimer
    <3>1. warmSession \in 1 .. Len(serves)
      <4>1. warmTimer /\ WarmKnown
        BY <2>1 DEF WarmTimer, KeptInv
      <4> QED  BY <4>1, PartsTyped DEF WarmKnown, Nil
    <3>2. warm' \subseteq warm \cup {warmSession} /\ dying' = dying
      BY <2>1 DEF WarmTimer
    <3> QED  BY <3>1, <3>2, PartsTyped
  <2>2. CASE \E s \in 1 .. Len(serves) : WarmExpires(s) \/ ProcessGone(s)
    <3>1. warm' \subseteq warm /\ dying' \subseteq dying
      BY <2>2 DEF WarmExpires, ProcessGone, warmVars
    <3> QED  BY <3>1, PartsTyped
  <2> QED  BY <2>1, <2>2
<1>3. warmTimer' \in BOOLEAN /\ (warmTimer' => warmTimer)
  <2>1. CASE WarmTimer
    BY <2>1 DEF WarmTimer
  <2>2. CASE \E s \in 1 .. Len(serves) : WarmExpires(s) \/ ProcessGone(s)
    BY <2>2, PartsTyped DEF WarmExpires, ProcessGone, warmVars
  <2> QED  BY <2>1, <2>2
<1>4. RegistryTypeOK'
  <2>1. \A S \in {sdk', dying', busy', warm'} : S \subseteq 1 .. Len(serves')
    BY <1>1, <1>2, PartsTyped
  <2> QED  BY <1>1, <1>3, <2>1, PartsTyped DEF RegistryTypeOK
<1>5. SessionsNew'
  BY <1>1 DEF KeptInv, SessionsNew
<1>6. WarmKnown'
  BY <1>1, <1>3 DEF KeptInv, WarmKnown
<1>7. ASSUME NEW c \in Threads PROVE ChatKept(c)'
  <2>1. ChatKept(c)
    BY DEF KeptInv
  <2>2. Kept(c)' = Kept(c) /\ At(c)' = At(c)
    BY <1>1 DEF Kept, At, End
  <2>3. Tree(c)' /\ Whole(c)'
    BY <1>1, <2>1, <2>2 DEF ChatKept, Tree, Whole
  <2>4. Writing(c)' /\ Resuming(c)'
    BY <1>1, <2>1 DEF ChatKept, Writing, Resuming
  <2>5. Leafless(c)' /\ GoingBack(c)' /\ Gone(c)'
    BY <1>1, <2>1 DEF ChatKept, Leafless, GoingBack, Gone, Known, End
  <2> QED  BY <2>3, <2>4, <2>5 DEF ChatKept
<1> QED  BY <1>4, <1>5, <1>6, <1>7 DEF KeptInv

\* A session that loses its process between two turns stays where it was.
LEMMA ProcessBreaksKept ==
  ASSUME ~Breaking, KeptInv, RegistryInv', NEW s \in 1 .. Len(serves), ProcessBreaks(s) PROVE KeptInv'
<1>0. PICK ch \in Threads : ch = serves[s]
  <2>1. serves[s] \in Threads
    BY PartsTyped
  <2> QED  BY <2>1
<1>1. /\ s \in busy \cap sdk /\ busy' = busy \ {s} /\ sdk' = sdk \ {s} /\ tip[s] = Len(records[ch])
      /\ tip' = [tip EXCEPT ![s] = Nil]
      /\ records' = records /\ undone' = undone /\ leaves' = leaves /\ sessions' = sessions /\ serves' = serves
      /\ dying' = dying /\ resumeAt' = resumeAt /\ warm' = warm /\ warmSession' = warmSession
      /\ warmTimer' = warmTimer /\ deleted' = deleted /\ unloading' = unloading
  BY <1>0 DEF ProcessBreaks, fileVars, warmVars
<1>2. sessions[ch] = s /\ s \in Objects /\ s \in sdk
  BY <1>0, <1>1, ChatsTyped
<1>3. tip' \in [Objects -> 0 .. MaxTurns] /\ \A t \in Objects \ {s} : tip'[t] = tip[t]
  <2>1. Nil \in 0 .. MaxTurns
    BY RegistryAssumption DEF Nil
  <2> QED  BY <1>1, <2>1, PartsTyped
<1>4. RegistryTypeOK'
  <2>1. \A S \in {sdk', dying', busy', warm'} : S \subseteq 1 .. Len(serves')
    BY <1>1, PartsTyped
  <2> QED  BY <1>1, <1>3, <2>1, PartsTyped DEF RegistryTypeOK
<1>5. SessionsNew' /\ WarmKnown'
  BY <1>1 DEF KeptInv, SessionsNew, WarmKnown
<1>6. ChatKept(ch)'
  <2>1. ChatKept(ch) /\ sessions[ch] # Nil /\ Nil \notin sdk
    BY <1>2, ChatsTyped
  <2>2. leaves[ch] = Nil /\ resumeAt[s] = Nil
    BY <1>2, <2>1 DEF ChatKept, Writing
  <2>3. Kept(ch)' = Kept(ch) /\ At(ch)' = At(ch)
    BY <1>1, <1>2, <2>2 DEF Kept, At, End
  <2>4. Tree(ch)' /\ Whole(ch)'
    BY <1>1, <2>1, <2>3 DEF ChatKept, Tree, Whole
  <2>5. Writing(ch)' /\ Resuming(ch)'
    BY <1>1, <1>2, <2>2 DEF Writing, Resuming
  <2>6. Leafless(ch)' /\ GoingBack(ch)' /\ Gone(ch)'
    BY <1>1, <2>1 DEF ChatKept, Leafless, GoingBack, Gone, Known, End
  <2> QED  BY <2>4, <2>5, <2>6 DEF ChatKept
<1>7. \A c \in Threads \ {ch} : ChatKept(c)'
  <2>1. \A c \in Threads \ {ch} :
          /\ records'[c] = records[c] /\ undone'[c] = undone[c] /\ leaves'[c] = leaves[c]
          /\ sessions'[c] = sessions[c] /\ unloading'[c] = unloading[c] /\ (c \in deleted' <=> c \in deleted)
    BY <1>1
  <2>2. \A t \in Objects \ {s} :
          /\ (t \in sdk' <=> t \in sdk) /\ (t \in busy' <=> t \in busy)
          /\ tip'[t] = tip[t] /\ resumeAt'[t] = resumeAt[t]
    BY <1>1, <1>3
  <2>3. Nil \notin sdk'
    BY <1>1, ChatsTyped
  <2> QED  BY <1>0, <2>1, <2>2, <2>3, OthersStay
<1> QED  BY <1>4, <1>5, <1>6, <1>7 DEF KeptInv

\* A session that is told to end its process.
LEMMA UnloadTyped ==
  ASSUME KeptInv, NEW ch \in Threads, Unload(sessions[ch])
  PROVE /\ sdk' = sdk \ {sessions[ch]}
        /\ dying' \subseteq 1 .. Len(serves) /\ warm' \subseteq 1 .. Len(serves) /\ sdk' \subseteq 1 .. Len(serves)
        /\ tip' \in [Objects -> 0 .. MaxTurns] /\ \A t \in Objects \ {sessions[ch]} : tip'[t] = tip[t]
        /\ sessions[ch] \in 1 .. Len(serves) => serves[sessions[ch]] = ch
        /\ Nil \notin sdk'
<1>1. sdk' = sdk \ {sessions[ch]} /\ dying' \subseteq dying \cup sdk /\ warm' \subseteq warm
  BY DEF Unload
<1>2. tip' \in [Objects -> 0 .. MaxTurns] /\ \A t \in Objects \ {sessions[ch]} : tip'[t] = tip[t]
  <2>1. Nil \in 0 .. MaxTurns
    BY RegistryAssumption DEF Nil
  <2> QED  BY <2>1, PartsTyped DEF Unload
<1>3. (sessions[ch] \in 1 .. Len(serves) => serves[sessions[ch]] = ch) /\ Nil \notin sdk
  <2>1. sessions[ch] \in 1 .. Len(serves) => sessions[ch] # Nil
    BY DEF Nil
  <2> QED  BY <2>1, ChatsTyped
<1> QED  BY <1>1, <1>2, <1>3, PartsTyped

\* Between two turns a chat's process is where the next one would start.
LEMMA QuietAt == ASSUME KeptInv, NEW ch \in Threads, sessions[ch] \notin busy PROVE At(ch) = End(ch)
<1>1. ChatKept(ch)
  BY ChatsTyped
<1> QED  BY <1>1 DEF ChatKept, Writing, At, End

\* The sweep: what a chat goes on from does not depend on its session and its process.
LEMMA SweepChatKept ==
  ASSUME KeptInv, RegistryInv', NEW ch \in Threads, NEW open \in BOOLEAN, SweepChat(ch, open) PROVE KeptInv'
<1> DEFINE s == sessions[ch]
<1>1. /\ s # Nil /\ s \notin busy /\ (open => s \in sdk) /\ Unload(s)
      /\ sessions' = IF open THEN sessions ELSE [sessions EXCEPT ![ch] = Nil]
      /\ records' = records /\ undone' = undone /\ leaves' = leaves /\ serves' = serves /\ busy' = busy
      /\ resumeAt' = resumeAt /\ warmSession' = warmSession /\ warmTimer' = warmTimer
      /\ deleted' = deleted /\ unloading' = unloading
  BY DEF SweepChat, fileVars
<1>2. /\ sdk' = sdk \ {s} /\ Nil \notin sdk'
      /\ dying' \subseteq 1 .. Len(serves) /\ warm' \subseteq 1 .. Len(serves) /\ sdk' \subseteq 1 .. Len(serves)
      /\ tip' \in [Objects -> 0 .. MaxTurns] /\ \A t \in Objects \ {s} : tip'[t] = tip[t]
      /\ s \in 1 .. Len(serves) => serves[s] = ch
  BY <1>1, UnloadTyped
<1>3. /\ sessions' \in [Threads -> 0 .. MaxSessions] /\ \A c \in Threads \ {ch} : sessions'[c] = sessions[c]
      /\ sessions'[ch] = (IF open THEN s ELSE Nil)
  <2>1. Nil \in 0 .. MaxSessions
    BY RegistryAssumption DEF Nil
  <2> QED  BY <1>1, <2>1, PartsTyped
<1>4. RegistryTypeOK'
  <2>1. \A S \in {sdk', dying', busy', warm'} : S \subseteq 1 .. Len(serves')
    BY <1>1, <1>2, PartsTyped
  <2> QED  BY <1>1, <1>2, <1>3, <2>1, PartsTyped DEF RegistryTypeOK
<1>5. SessionsNew' /\ WarmKnown'
  BY <1>1 DEF KeptInv, SessionsNew, WarmKnown
<1>6. ChatKept(ch)'
  <2>1. ChatKept(ch)
    BY ChatsTyped
  <2>2. sessions'[ch] \notin sdk'
    BY <1>2, <1>3
  <2>3. Kept(ch)' = Kept(ch) /\ At(ch)' = At(ch)
    BY <1>1, <2>2, QuietAt DEF Kept, At, End
  <2>4. Tree(ch)' /\ Whole(ch)'
    BY <1>1, <2>1, <2>3 DEF ChatKept, Tree, Whole
  <2>5. Writing(ch)'
    BY <2>2 DEF Writing
  <2>6. Resuming(ch)'
    BY <1>1, <1>3, <2>1 DEF ChatKept, Writing, Resuming
  <2>7. Leafless(ch)' /\ GoingBack(ch)' /\ Gone(ch)'
    BY <1>1, <1>3, <2>1 DEF ChatKept, Leafless, GoingBack, Gone, Known, End
  <2> QED  BY <2>4, <2>5, <2>6, <2>7 DEF ChatKept
<1>7. \A c \in Threads \ {ch} : ChatKept(c)'
  <2>1. \A c \in Threads \ {ch} :
          /\ records'[c] = records[c] /\ undone'[c] = undone[c] /\ leaves'[c] = leaves[c]
          /\ sessions'[c] = sessions[c] /\ unloading'[c] = unloading[c] /\ (c \in deleted' <=> c \in deleted)
    BY <1>1, <1>3
  <2>2. \A t \in Objects \ {s} :
          /\ (t \in sdk' <=> t \in sdk) /\ (t \in busy' <=> t \in busy)
          /\ tip'[t] = tip[t] /\ resumeAt'[t] = resumeAt[t]
    BY <1>1, <1>2
  <2> QED  BY <1>2, <2>1, <2>2, OthersStay
<1> QED  BY <1>4, <1>5, <1>6, <1>7 DEF KeptInv

\* A rollback begins: it is to a turn on the way to the chat's end.
LEMMA BeginTruncateKept ==
  ASSUME KeptInv, RegistryInv', NEW ch \in Threads, NEW leaf \in 0 .. MaxTurns, BeginTruncate(ch, leaf)
  PROVE KeptInv'
<1> DEFINE s == sessions[ch]
<1>1. /\ Known(ch) /\ s \notin busy /\ leaf \in Path(ch, End(ch)) \cup {Nil} /\ Unload(s)
      /\ unloading' = [unloading EXCEPT ![ch] = [op |-> "truncate", leaf |-> leaf, s |-> s]]
      /\ records' = records /\ undone' = undone /\ leaves' = leaves /\ serves' = serves /\ busy' = busy
      /\ resumeAt' = resumeAt /\ warmSession' = warmSession /\ warmTimer' = warmTimer
      /\ deleted' = deleted /\ sessions' = sessions /\ unloading[ch].op = "none"
  BY DEF BeginTruncate, fileVars, Quiet
<1>2. /\ sdk' = sdk \ {s} /\ Nil \notin sdk'
      /\ dying' \subseteq 1 .. Len(serves) /\ warm' \subseteq 1 .. Len(serves) /\ sdk' \subseteq 1 .. Len(serves)
      /\ tip' \in [Objects -> 0 .. MaxTurns] /\ \A t \in Objects \ {s} : tip'[t] = tip[t]
      /\ s \in 1 .. Len(serves) => serves[s] = ch
  BY <1>1, UnloadTyped
<1>3. /\ unloading' \in [Threads -> [op : {"none", "truncate", "discard"}, leaf : 0 .. MaxTurns, s : 0 .. MaxSessions]]
      /\ \A c \in Threads \ {ch} : unloading'[c] = unloading[c]
      /\ unloading'[ch].op = "truncate" /\ unloading'[ch].leaf = leaf
  BY <1>1, PartsTyped
<1>4. RegistryTypeOK'
  <2>1. \A S \in {sdk', dying', busy', warm'} : S \subseteq 1 .. Len(serves')
    BY <1>1, <1>2, PartsTyped
  <2> QED  BY <1>1, <1>2, <1>3, <2>1, PartsTyped DEF RegistryTypeOK
<1>5. SessionsNew' /\ WarmKnown'
  BY <1>1 DEF KeptInv, SessionsNew, WarmKnown
<1>6. ChatKept(ch)'
  <2>1. ChatKept(ch)
    BY ChatsTyped
  <2>2. sessions'[ch] \notin sdk'
    BY <1>1, <1>2
  <2>3. Kept(ch)' = Kept(ch) /\ At(ch)' = At(ch) /\ End(ch)' = End(ch)
    BY <1>1, <2>2, QuietAt DEF Kept, At, End
  <2>4. Tree(ch)'
    BY <1>1, <2>1, <2>3 DEF ChatKept, Tree
  <2>5. Whole(ch)'
    BY <1>1, <1>3, <2>1, <2>3 DEF ChatKept, Whole
  <2>6. Writing(ch)'
    BY <2>2 DEF Writing
  <2>7. Resuming(ch)'
    BY <1>1, <2>1 DEF ChatKept, Writing, Resuming
  <2>8. Leafless(ch)'
    BY <1>1, <2>1 DEF ChatKept, Leafless, Known
  <2>9. GoingBack(ch)'
    BY <1>1, <1>3, <2>3, PathIsUpward DEF GoingBack, Known
  <2>10. Gone(ch)'
    BY <1>1, <2>1 DEF ChatKept, Gone
  <2> QED  BY <2>4, <2>5, <2>6, <2>7, <2>8, <2>9, <2>10 DEF ChatKept
<1>7. \A c \in Threads \ {ch} : ChatKept(c)'
  <2>1. \A c \in Threads \ {ch} :
          /\ records'[c] = records[c] /\ undone'[c] = undone[c] /\ leaves'[c] = leaves[c]
          /\ sessions'[c] = sessions[c] /\ unloading'[c] = unloading[c] /\ (c \in deleted' <=> c \in deleted)
    BY <1>1, <1>3
  <2>2. \A t \in Objects \ {s} :
          /\ (t \in sdk' <=> t \in sdk) /\ (t \in busy' <=> t \in busy)
          /\ tip'[t] = tip[t] /\ resumeAt'[t] = resumeAt[t]
    BY <1>1, <1>2
  <2> QED  BY <1>2, <2>1, <2>2, OthersStay
<1> QED  BY <1>4, <1>5, <1>6, <1>7 DEF KeptInv

\* A deletion begins: a turn it interrupts is not written.
LEMMA BeginDiscardKept == ASSUME KeptInv, RegistryInv', NEW ch \in Threads, BeginDiscard(ch) PROVE KeptInv'
<1> DEFINE s == sessions[ch]
<1>1. /\ (s # Nil \/ Known(ch)) /\ busy' = busy \ {s} /\ Unload(s)
      /\ unloading' = [unloading EXCEPT ![ch] = [op |-> "discard", leaf |-> Nil, s |-> s]]
      /\ records' = records /\ undone' = undone /\ leaves' = leaves /\ serves' = serves
      /\ resumeAt' = resumeAt /\ warmSession' = warmSession /\ warmTimer' = warmTimer
      /\ deleted' = deleted /\ sessions' = sessions
  BY DEF BeginDiscard, fileVars
<1>2. /\ sdk' = sdk \ {s} /\ Nil \notin sdk'
      /\ dying' \subseteq 1 .. Len(serves) /\ warm' \subseteq 1 .. Len(serves) /\ sdk' \subseteq 1 .. Len(serves)
      /\ tip' \in [Objects -> 0 .. MaxTurns] /\ \A t \in Objects \ {s} : tip'[t] = tip[t]
      /\ s \in 1 .. Len(serves) => serves[s] = ch
  BY <1>1, UnloadTyped
<1>3. /\ unloading' \in [Threads -> [op : {"none", "truncate", "discard"}, leaf : 0 .. MaxTurns, s : 0 .. MaxSessions]]
      /\ \A c \in Threads \ {ch} : unloading'[c] = unloading[c]
      /\ unloading'[ch].op = "discard"
  <2>1. Nil \in 0 .. MaxTurns
    BY RegistryAssumption DEF Nil
  <2> QED  BY <1>1, <2>1, PartsTyped
<1>4. RegistryTypeOK'
  <2>1. \A S \in {sdk', dying', busy', warm'} : S \subseteq 1 .. Len(serves')
    BY <1>1, <1>2, PartsTyped
  <2> QED  BY <1>1, <1>2, <1>3, <2>1, PartsTyped DEF RegistryTypeOK
<1>5. SessionsNew' /\ WarmKnown'
  BY <1>1 DEF KeptInv, SessionsNew, WarmKnown
<1>6. ChatKept(ch)'
  <2>1. ChatKept(ch)
    BY ChatsTyped
  <2>2. sessions'[ch] \notin sdk'
    BY <1>1, <1>2
  <2>3. Kept(ch)' = Kept(ch)
    BY <1>1 DEF Kept
  <2>4. Tree(ch)'
    BY <1>1, <2>1, <2>3 DEF ChatKept, Tree
  <2>5. Whole(ch)' /\ GoingBack(ch)'
    BY <1>3 DEF Whole, GoingBack
  <2>6. Writing(ch)'
    BY <2>2 DEF Writing
  <2>7. Resuming(ch)'
    BY <1>1, <2>1 DEF ChatKept, Writing, Resuming
  <2>8. Leafless(ch)'
    BY <1>1, <2>1 DEF ChatKept, Leafless, Known
  <2>9. Gone(ch)'
    BY <1>1, <2>1 DEF ChatKept, Gone
  <2> QED  BY <2>4, <2>5, <2>6, <2>7, <2>8, <2>9 DEF ChatKept
<1>7. \A c \in Threads \ {ch} : ChatKept(c)'
  <2>1. \A c \in Threads \ {ch} :
          /\ records'[c] = records[c] /\ undone'[c] = undone[c] /\ leaves'[c] = leaves[c]
          /\ sessions'[c] = sessions[c] /\ unloading'[c] = unloading[c] /\ (c \in deleted' <=> c \in deleted)
    BY <1>1, <1>3
  <2>2. \A t \in Objects \ {s} :
          /\ (t \in sdk' <=> t \in sdk) /\ (t \in busy' <=> t \in busy)
          /\ tip'[t] = tip[t] /\ resumeAt'[t] = resumeAt[t]
    BY <1>1, <1>2
  <2> QED  BY <1>2, <2>1, <2>2, OthersStay
<1> QED  BY <1>4, <1>5, <1>6, <1>7 DEF KeptInv

\* A chat's end is a turn of it, or none.
LEMMA EndIn ==
  ASSUME KeptInv, NEW ch \in Threads, unloading[ch].op # "discard", ch \notin deleted
  PROVE End(ch) \in 0 .. Len(records[ch])
<1>1. ChatKept(ch) /\ Len(records[ch]) \in Nat
  BY ChatsTyped
<1>2. CASE sessions[ch] \in sdk
  BY <1>1, <1>2 DEF ChatKept, Writing, End
<1>3. CASE sessions[ch] \notin sdk
  BY <1>1, <1>3 DEF ChatKept, Whole, At, Kept, Nil
<1> QED  BY <1>2, <1>3

\* What leads to a turn holds the parents of all that is in it.
LEMMA UpwardClosed ==
  ASSUME NEW parents, IsTree(parents)
  PROVE \A i \in 0 .. Len(parents) : \A k \in Upward(parents)[i] : parents[k] \in Upward(parents)[i] \cup {Nil}
<1> SUFFICES ASSUME NEW i \in 0 .. Len(parents), NEW k \in Upward(parents)[i]
             PROVE parents[k] \in Upward(parents)[i] \cup {Nil}
  OBVIOUS
<1>1. Len(parents) \in Nat
  BY DEF IsTree
<1>2. Upward(parents)[i] \subseteq 1 .. i /\ Upward(parents)[k] \subseteq Upward(parents)[i]
  BY UpwardIn
<1>3. k \in 1 .. Len(parents) /\ parents[k] \in 0 .. k - 1
  BY <1>1, <1>2 DEF IsTree
<1>4. Upward(parents)[k] = {k} \cup Upward(parents)[parents[k]]
  BY <1>3, UpwardUnfolds
<1>5. parents[k] \in 0 .. Len(parents)
  BY <1>1, <1>3
<1>6. parents[k] # Nil => parents[k] \in Upward(parents)[parents[k]]
  BY <1>5, UpwardIn
<1> QED  BY <1>2, <1>4, <1>6

\* A rollback goes on: what is kept is what leads to its leaf.
LEMMA FinishTruncateKept == ASSUME KeptInv, RegistryInv', NEW ch \in Threads, FinishTruncate(ch) PROVE KeptInv'
<1> DEFINE leaf == unloading[ch].leaf
<1>1. /\ unloading[ch].op = "truncate" /\ unloading' = [unloading EXCEPT ![ch] = NoWait]
      /\ sdk' = sdk /\ dying' = dying /\ busy' = busy /\ tip' = tip /\ warm' = warm /\ resumeAt' = resumeAt
      /\ warmSession' = warmSession /\ warmTimer' = warmTimer /\ deleted' = deleted
  BY DEF FinishTruncate, warmVars
<1>2. ChatKept(ch) /\ sessions[ch] \notin sdk /\ ch \notin deleted /\ Nil \notin sdk
  <2>1. ChatKept(ch) /\ sessions[ch] \notin sdk /\ Nil \notin sdk
    BY <1>1, ChatsTyped
  <2>2. ch \notin deleted
    BY <1>1, <2>1 DEF ChatKept, Gone
  <2> QED  BY <2>1, <2>2
<1>3. /\ unloading' \in [Threads -> [op : {"none", "truncate", "discard"}, leaf : 0 .. MaxTurns, s : 0 .. MaxSessions]]
      /\ \A c \in Threads \ {ch} : unloading'[c] = unloading[c]
      /\ unloading'[ch].op = "none"
  <2>1. NoWait \in [op : {"none", "truncate", "discard"}, leaf : 0 .. MaxTurns, s : 0 .. MaxSessions]
    BY RegistryAssumption DEF NoWait, Nil
  <2> QED  BY <1>1, <2>1, PartsTyped DEF NoWait
<1>4. leaf \in 0 .. MaxTurns /\ Nil \in 0 .. MaxTurns /\ Nil \in 0 .. MaxSessions
  BY PartsTyped, RegistryAssumption DEF Nil
<1>5. CASE leaf # Nil
  <2>1. /\ leaves' = [leaves EXCEPT ![ch] = leaf]
        /\ undone' = [undone EXCEPT ![ch] = (@ \cup Path(ch, End(ch))) \ Path(ch, leaf)]
        /\ sessions' = [sessions EXCEPT ![ch] = Nil] /\ records' = records /\ serves' = serves
    BY <1>5 DEF FinishTruncate
  <2> DEFINE all == Upward(records[ch])[End(ch)]
             kept == Upward(records[ch])[leaf]
  <2>2. IsTree(records[ch]) /\ Len(records[ch]) \in 0 .. MaxTurns /\ MaxTurns \in Nat
    BY ChatsTyped
  <2>3. /\ leaf \in all /\ End(ch) \in 0 .. Len(records[ch]) /\ Known(ch)
        /\ undone[ch] \subseteq 1 .. Len(records[ch]) /\ Kept(ch) \subseteq all
        /\ \A i \in 1 .. Len(records[ch]) : records[ch][i] \in 0 .. i - 1
    BY <1>1, <1>2, <1>5, EndIn DEF ChatKept, Tree, Whole, GoingBack, At
  <2>4. all \subseteq 1 .. Len(records[ch]) /\ leaf \in 0 .. Len(records[ch])
    <3>1. all \subseteq 1 .. End(ch)
      BY <2>2, <2>3, UpwardIn
    <3> QED  BY <2>2, <2>3, <3>1
  <2>5. kept \subseteq 1 .. Len(records[ch]) /\ leaf \in kept /\ \A k \in kept : records[ch][k] \in kept \cup {Nil}
    <3>1. kept \subseteq 1 .. leaf /\ leaf \in kept
      BY <1>5, <2>2, <2>4, UpwardIn
    <3>2. \A k \in kept : records[ch][k] \in kept \cup {Nil}
      BY <2>2, <2>4, UpwardClosed
    <3> QED  BY <2>2, <2>4, <3>1, <3>2
  <2>6. undone'[ch] = (undone[ch] \cup all) \ kept /\ \A c \in Threads \ {ch} : undone'[c] = undone[c]
    BY <2>1, PartsTyped, PathIsUpward
  <2>7. Kept(ch)' = kept
    <3>1. 1 .. Len(records[ch]) \subseteq undone[ch] \cup all
      BY <2>3 DEF Kept
    <3> HIDE DEF kept, all
    <3>2. Kept(ch)' = (1 .. Len(records[ch])) \ ((undone[ch] \cup all) \ kept)
      BY <2>1, <2>6 DEF Kept
    <3> QED  BY <2>5, <3>1, <3>2
  <2>8. /\ leaves' \in [Threads -> 0 .. MaxTurns] /\ leaves'[ch] = leaf
        /\ \A c \in Threads \ {ch} : leaves'[c] = leaves[c]
        /\ sessions' \in [Threads -> 0 .. MaxSessions] /\ sessions'[ch] = Nil
        /\ \A c \in Threads \ {ch} : sessions'[c] = sessions[c]
    BY <1>4, <2>1, PartsTyped
  <2>9. undone' \in [Threads -> SUBSET (1 .. MaxTurns)]
    <3>1. undone'[ch] \in SUBSET (1 .. MaxTurns)
      BY <2>2, <2>3, <2>4, <2>6
    <3> QED  BY <2>1, <2>6, <3>1, PartsTyped
  <2>10. RegistryTypeOK'
    <3>1. \A S \in {sdk', dying', busy', warm'} : S \subseteq 1 .. Len(serves')
      BY <1>1, <2>1, PartsTyped
    <3> QED  BY <1>1, <1>3, <2>1, <2>8, <2>9, <3>1, PartsTyped DEF RegistryTypeOK
  <2>11. SessionsNew' /\ WarmKnown'
    BY <1>1, <2>1 DEF KeptInv, SessionsNew, WarmKnown
  <2>12. ChatKept(ch)'
    <3>1. At(ch)' = leaf
      BY <1>1, <1>2, <1>5, <2>8 DEF At, End
    <3>2. Tree(ch)'
      <4>1. undone'[ch] \subseteq 1 .. Len(records[ch])
        BY <2>3, <2>4, <2>6
      <4> QED  BY <2>1, <2>2, <2>3, <2>5, <2>7, <4>1 DEF Tree
    <3>3. Whole(ch)'
      BY <2>1, <2>5, <2>7, <3>1 DEF Whole
    <3>4. Writing(ch)' /\ Resuming(ch)'
      BY <1>1, <1>2, <2>8 DEF Writing, Resuming
    <3>5. Leafless(ch)' /\ GoingBack(ch)' /\ Gone(ch)'
      BY <1>1, <1>2, <1>3, <2>1, <2>3 DEF Leafless, GoingBack, Gone, Known
    <3> QED  BY <3>2, <3>3, <3>4, <3>5 DEF ChatKept
  <2>13. \A c \in Threads \ {ch} : ChatKept(c)'
    <3>1. \A c \in Threads \ {ch} :
            /\ records'[c] = records[c] /\ undone'[c] = undone[c] /\ leaves'[c] = leaves[c]
            /\ sessions'[c] = sessions[c] /\ unloading'[c] = unloading[c] /\ (c \in deleted' <=> c \in deleted)
      BY <1>1, <1>3, <2>1, <2>6, <2>8
    <3>2. \A t \in Objects \ {Nil} :
            /\ (t \in sdk' <=> t \in sdk) /\ (t \in busy' <=> t \in busy)
            /\ tip'[t] = tip[t] /\ resumeAt'[t] = resumeAt[t]
      BY <1>1
    <3>3. Nil \notin 1 .. Len(serves) /\ Nil \notin sdk'
      BY <1>1, <1>2 DEF Nil
    <3> QED  BY <3>1, <3>2, <3>3, OthersStay
  <2> QED  BY <2>10, <2>11, <2>12, <2>13 DEF KeptInv
<1>6. CASE leaf = Nil
  <2>1. /\ leaves' = [leaves EXCEPT ![ch] = Nil] /\ records' = [records EXCEPT ![ch] = <<>>]
        /\ undone' = [undone EXCEPT ![ch] = {}] /\ NewSession(ch)
    BY <1>6 DEF FinishTruncate, NewSession
  <2> DEFINE s == Len(serves')
  <2>2. /\ serves' \in Seq(Threads) /\ s = Len(serves) + 1 /\ s \in Objects
        /\ sessions'[ch] = s /\ sessions' \in [Threads -> 0 .. MaxSessions]
        /\ \A c \in Threads \ {ch} : sessions'[c] = sessions[c]
        /\ 1 .. Len(serves) \subseteq 1 .. s /\ s \notin sdk /\ s \notin busy /\ resumeAt[s] = Nil
    BY <2>1, NewSessionTyped
  <2>3. s \in Nat /\ Len(serves) \in Nat /\ s \notin 1 .. Len(serves)
    BY <2>2 DEF Objects
  <2>4. /\ leaves' \in [Threads -> 0 .. MaxTurns] /\ leaves'[ch] = Nil
        /\ \A c \in Threads \ {ch} : leaves'[c] = leaves[c]
        /\ records' \in [Threads -> Seq(0 .. MaxTurns)] /\ records'[ch] = <<>>
        /\ \A c \in Threads \ {ch} : records'[c] = records[c]
        /\ undone' \in [Threads -> SUBSET (1 .. MaxTurns)] /\ undone'[ch] = {}
        /\ \A c \in Threads \ {ch} : undone'[c] = undone[c]
    <3>1. <<>> \in Seq(0 .. MaxTurns)
      OBVIOUS
    <3>2. /\ records' \in [Threads -> Seq(0 .. MaxTurns)] /\ records'[ch] = <<>>
          /\ \A c \in Threads \ {ch} : records'[c] = records[c]
      BY <2>1, <3>1, PartsTyped
    <3> QED  BY <1>4, <2>1, <3>2, PartsTyped
  <2> HIDE DEF s
  <2>5. RegistryTypeOK'
    <3>1. \A S \in {sdk', dying', busy', warm'} : S \subseteq 1 .. Len(serves')
      BY <1>1, <2>2, PartsTyped DEF s
    <3>2. warmSession' \in 0 .. Len(serves')
      BY <1>1, <2>2, <2>3, PartsTyped DEF s
    <3> QED  BY <1>1, <1>3, <2>2, <2>4, <3>1, <3>2, PartsTyped DEF RegistryTypeOK
  <2>6. SessionsNew' /\ WarmKnown'
    BY <1>1, <2>2, <2>3 DEF KeptInv, SessionsNew, WarmKnown, s, Objects
  <2>7. ChatKept(ch)'
    <3>1. Kept(ch)' = {}
      BY <2>4 DEF Kept
    <3>2. At(ch)' = Nil
      BY <1>1, <2>2, <2>4 DEF At, End, Nil
    <3>3. Tree(ch)' /\ Whole(ch)'
      BY <2>4, <3>1, <3>2, RegistryAssumption DEF Tree, Whole
    <3>4. Writing(ch)' /\ Resuming(ch)'
      BY <1>1, <2>2, <2>4 DEF Writing, Resuming
    <3>5. Leafless(ch)' /\ GoingBack(ch)' /\ Gone(ch)'
      BY <1>1, <1>2, <1>3, <2>4 DEF Leafless, GoingBack, Gone, Known
    <3> QED  BY <3>3, <3>4, <3>5 DEF ChatKept
  <2>8. \A c \in Threads \ {ch} : ChatKept(c)'
    <3>1. \A c \in Threads \ {ch} :
            /\ records'[c] = records[c] /\ undone'[c] = undone[c] /\ leaves'[c] = leaves[c]
            /\ sessions'[c] = sessions[c] /\ unloading'[c] = unloading[c] /\ (c \in deleted' <=> c \in deleted)
      BY <1>1, <1>3, <2>2, <2>4
    <3>2. \A t \in Objects \ {s} :
            /\ (t \in sdk' <=> t \in sdk) /\ (t \in busy' <=> t \in busy)
            /\ tip'[t] = tip[t] /\ resumeAt'[t] = resumeAt[t]
      BY <1>1
    <3>3. s \notin 1 .. Len(serves) /\ Nil \notin sdk'
      BY <1>1, <1>2, <2>3
    <3> QED  BY <3>1, <3>2, <3>3, OthersStay
  <2> QED  BY <2>5, <2>6, <2>7, <2>8 DEF KeptInv
<1> QED  BY <1>5, <1>6

\* A deletion goes on: nothing is left of the chat.
LEMMA FinishDiscardKept == ASSUME KeptInv, RegistryInv', NEW ch \in Threads, FinishDiscard(ch) PROVE KeptInv'
<1>1. /\ unloading[ch].op = "discard" /\ unloading' = [unloading EXCEPT ![ch] = NoWait]
      /\ sessions' = [sessions EXCEPT ![ch] = Nil] /\ records' = [records EXCEPT ![ch] = <<>>]
      /\ undone' = [undone EXCEPT ![ch] = {}] /\ deleted' = deleted \cup {ch}
      /\ leaves' = leaves /\ serves' = serves
      /\ sdk' = sdk /\ dying' = dying /\ busy' = busy /\ tip' = tip /\ warm' = warm /\ resumeAt' = resumeAt
      /\ warmSession' = warmSession /\ warmTimer' = warmTimer
  BY DEF FinishDiscard, warmVars
<1>2. Nil \notin sdk /\ Nil \notin 1 .. Len(serves)
  BY ChatsTyped DEF Nil
<1>3. /\ unloading' \in [Threads -> [op : {"none", "truncate", "discard"}, leaf : 0 .. MaxTurns, s : 0 .. MaxSessions]]
      /\ \A c \in Threads \ {ch} : unloading'[c] = unloading[c]
      /\ unloading'[ch].op = "none"
  <2>1. NoWait \in [op : {"none", "truncate", "discard"}, leaf : 0 .. MaxTurns, s : 0 .. MaxSessions]
    BY RegistryAssumption DEF NoWait, Nil
  <2> QED  BY <1>1, <2>1, PartsTyped DEF NoWait
<1>4. /\ sessions' \in [Threads -> 0 .. MaxSessions] /\ sessions'[ch] = Nil
      /\ \A c \in Threads \ {ch} : sessions'[c] = sessions[c]
      /\ records' \in [Threads -> Seq(0 .. MaxTurns)] /\ records'[ch] = <<>>
      /\ \A c \in Threads \ {ch} : records'[c] = records[c]
      /\ undone' \in [Threads -> SUBSET (1 .. MaxTurns)] /\ undone'[ch] = {}
      /\ \A c \in Threads \ {ch} : undone'[c] = undone[c]
  <2>1. <<>> \in Seq(0 .. MaxTurns) /\ Nil \in 0 .. MaxSessions
    BY RegistryAssumption DEF Nil
  <2>2. /\ records' \in [Threads -> Seq(0 .. MaxTurns)] /\ records'[ch] = <<>>
        /\ \A c \in Threads \ {ch} : records'[c] = records[c]
    BY <1>1, <2>1, PartsTyped
  <2> QED  BY <1>1, <2>1, <2>2, PartsTyped
<1>5. RegistryTypeOK'
  <2>1. \A S \in {sdk', dying', busy', warm'} : S \subseteq 1 .. Len(serves')
    BY <1>1, PartsTyped
  <2>2. deleted' \subseteq Threads
    BY <1>1, PartsTyped
  <2> QED  BY <1>1, <1>3, <1>4, <2>1, <2>2, PartsTyped DEF RegistryTypeOK
<1>6. SessionsNew' /\ WarmKnown'
  BY <1>1 DEF KeptInv, SessionsNew, WarmKnown
<1>7. ChatKept(ch)'
  <2>1. Kept(ch)' = {}
    BY <1>4 DEF Kept
  <2>2. Tree(ch)'
    BY <1>4, <2>1, RegistryAssumption DEF Tree
  <2>3. Whole(ch)' /\ Leafless(ch)'
    BY <1>1 DEF Whole, Leafless
  <2>4. Writing(ch)' /\ Resuming(ch)'
    BY <1>1, <1>2, <1>4 DEF Writing, Resuming
  <2>5. GoingBack(ch)' /\ Gone(ch)'
    BY <1>3, <1>4 DEF GoingBack, Gone, Known
  <2> QED  BY <2>2, <2>3, <2>4, <2>5 DEF ChatKept
<1>8. \A c \in Threads \ {ch} : ChatKept(c)'
  <2>1. \A c \in Threads \ {ch} :
          /\ records'[c] = records[c] /\ undone'[c] = undone[c] /\ leaves'[c] = leaves[c]
          /\ sessions'[c] = sessions[c] /\ unloading'[c] = unloading[c] /\ (c \in deleted' <=> c \in deleted)
    BY <1>1, <1>3, <1>4
  <2>2. \A t \in Objects \ {Nil} :
          /\ (t \in sdk' <=> t \in sdk) /\ (t \in busy' <=> t \in busy)
          /\ tip'[t] = tip[t] /\ resumeAt'[t] = resumeAt[t]
    BY <1>1
  <2>3. Nil \notin sdk'
    BY <1>1, <1>2
  <2> QED  BY <1>2, <2>1, <2>2, <2>3, OthersStay
<1> QED  BY <1>5, <1>6, <1>7, <1>8 DEF KeptInv

\* The copy a fork makes goes on from where its source's history ends.
LEMMA ForkKept ==
  ASSUME ~Racing, KeptInv, RegistryInv', NEW ch \in Threads, NEW copy \in Threads, Fork(ch, copy) PROVE KeptInv'
<1> DEFINE n == Cardinality(Path(ch, End(ch)))
           s == Len(serves')
<1>1. /\ Known(ch) /\ ~Known(copy) /\ sessions[copy] = Nil /\ copy \notin deleted /\ unloading[ch].op = "none"
      /\ records' = [records EXCEPT ![copy] = [i \in 1 .. n |-> i - 1]] /\ NewSession(copy)
      /\ undone' = undone /\ leaves' = leaves /\ sdk' = sdk /\ dying' = dying /\ busy' = busy /\ resumeAt' = resumeAt
      /\ tip' = tip /\ warm' = warm /\ warmSession' = warmSession /\ warmTimer' = warmTimer
      /\ deleted' = deleted /\ unloading' = unloading
  BY DEF Fork, NewSession, warmVars, Idle
<1>2. n \in 0 .. MaxTurns
  <2>1. IsTree(records[ch]) /\ Len(records[ch]) \in 0 .. MaxTurns /\ MaxTurns \in Nat /\ ch \notin deleted
    BY <1>1, ChatsTyped DEF ChatKept, Gone
  <2>2. End(ch) \in 0 .. Len(records[ch])
    BY <1>1, <2>1, EndIn
  <2>3. Path(ch, End(ch)) \subseteq 1 .. MaxTurns
    <3>1. Upward(records[ch])[End(ch)] \subseteq 1 .. End(ch) /\ 1 .. End(ch) \subseteq 1 .. MaxTurns
      BY <2>1, <2>2, UpwardIn
    <3> QED  BY <3>1, PathIsUpward
  <2>4. IsFiniteSet(1 .. MaxTurns) /\ Cardinality(1 .. MaxTurns) = MaxTurns
    BY <2>1, FS_Interval
  <2>5. /\ IsFiniteSet(Path(ch, End(ch))) /\ n <= MaxTurns
    BY <2>3, <2>4, FS_Subset
  <2>6. n \in Nat
    BY <2>5, FS_CardinalityType
  <2> QED  BY <2>1, <2>5, <2>6
<1> DEFINE path == [i \in 1 .. n |-> i - 1]
<1> HIDE DEF n
<1>3. /\ path \in Seq(0 .. MaxTurns) /\ Len(path) = n /\ MaxTurns \in Nat /\ n \in Nat
      /\ \A i \in 1 .. n : path[i] = i - 1
      /\ \A i \in 0 .. n : Upward(path)[i] = 1 .. i
  <2>1. MaxTurns \in Nat /\ n \in Nat
    BY <1>2, RegistryAssumption
  <2>2. path \in Seq(0 .. MaxTurns) /\ Len(path) = n /\ \A i \in 1 .. n : path[i] = i - 1
    <3>1. \A i \in 1 .. n : i - 1 \in 0 .. MaxTurns
      BY <1>2, <2>1
    <3>2. path \in [1 .. n -> 0 .. MaxTurns]
      BY <3>1
    <3> QED  BY <2>1, <3>2
  <2>3. \A i \in 0 .. n : Upward(path)[i] = 1 .. i
    BY <2>1, UpwardOfPath
  <2> QED  BY <2>1, <2>2, <2>3
<1>4. records' = [records EXCEPT ![copy] = path]
  BY <1>1
<1> HIDE DEF path
<1>5. /\ serves' \in Seq(Threads) /\ s = Len(serves) + 1 /\ s \in Objects
      /\ sessions'[copy] = s /\ sessions' \in [Threads -> 0 .. MaxSessions]
      /\ \A c \in Threads \ {copy} : sessions'[c] = sessions[c]
      /\ 1 .. Len(serves) \subseteq 1 .. s /\ s \notin sdk /\ s \notin busy /\ resumeAt[s] = Nil
  BY <1>1, NewSessionTyped
<1>6. s \in Nat /\ Len(serves) \in Nat /\ s \notin 1 .. Len(serves) /\ Nil \notin sdk
  BY <1>5, ChatsTyped DEF Objects
<1> HIDE DEF s
<1>7. /\ records' \in [Threads -> Seq(0 .. MaxTurns)] /\ records'[copy] = path
      /\ \A c \in Threads \ {copy} : records'[c] = records[c]
  BY <1>3, <1>4, PartsTyped
<1>8. RegistryTypeOK'
  <2>1. \A S \in {sdk', dying', busy', warm'} : S \subseteq 1 .. Len(serves')
    BY <1>1, <1>5, PartsTyped DEF s
  <2>2. warmSession' \in 0 .. Len(serves')
    BY <1>1, <1>5, <1>6, PartsTyped DEF s
  <2> QED  BY <1>1, <1>5, <1>7, <2>1, <2>2, PartsTyped DEF RegistryTypeOK
<1>9. SessionsNew' /\ WarmKnown'
  BY <1>1, <1>5, <1>6 DEF KeptInv, SessionsNew, WarmKnown, s, Objects
<1>10. ChatKept(copy)'
  <2>1. ChatKept(copy) /\ leaves[copy] = Nil /\ undone[copy] = {}
    <3>1. ChatKept(copy)
      BY ChatsTyped
    <3>2. records[copy] = <<>>
      BY <1>1 DEF Known
    <3>3. undone[copy] \subseteq 1 .. Len(records[copy])
      BY <3>1 DEF ChatKept, Tree
    <3> QED  BY <1>1, <3>1, <3>2, <3>3 DEF ChatKept, Leafless
  <2>2. Kept(copy)' = 1 .. n
    BY <1>1, <1>3, <1>7, <2>1 DEF Kept
  <2>3. At(copy)' = n
    BY <1>1, <1>3, <1>5, <1>7, <2>1 DEF At, End
  <2>4. Tree(copy)'
    <3>1. undone'[copy] = {} /\ Len(records'[copy]) = n /\ n <= MaxTurns
      BY <1>1, <1>2, <1>3, <1>7, <2>1
    <3>2. \A i \in 1 .. n : records'[copy][i] = i - 1
      BY <1>3, <1>7
    <3> QED  BY <1>3, <2>2, <3>1, <3>2 DEF Tree, Nil
  <2>5. Whole(copy)'
    BY <1>3, <1>7, <2>2, <2>3 DEF Whole, Nil
  <2>6. Writing(copy)' /\ Resuming(copy)'
    BY <1>1, <1>5, <2>1 DEF Writing, Resuming
  <2>7. Leafless(copy)' /\ GoingBack(copy)' /\ Gone(copy)'
    BY <1>1, <2>1 DEF ChatKept, Leafless, GoingBack, Gone
  <2> QED  BY <2>4, <2>5, <2>6, <2>7 DEF ChatKept
<1>11. \A c \in Threads \ {copy} : ChatKept(c)'
  <2>1. \A c \in Threads \ {copy} :
          /\ records'[c] = records[c] /\ undone'[c] = undone[c] /\ leaves'[c] = leaves[c]
          /\ sessions'[c] = sessions[c] /\ unloading'[c] = unloading[c] /\ (c \in deleted' <=> c \in deleted)
    BY <1>1, <1>5, <1>7
  <2>2. \A t \in Objects \ {s} :
          /\ (t \in sdk' <=> t \in sdk) /\ (t \in busy' <=> t \in busy)
          /\ tip'[t] = tip[t] /\ resumeAt'[t] = resumeAt[t]
    BY <1>1
  <2>3. Nil \notin sdk'
    BY <1>1, <1>6
  <2> QED  BY <1>6, <2>1, <2>2, <2>3, OthersStay
<1> QED  BY <1>8, <1>9, <1>10, <1>11 DEF KeptInv

LEMMA KeptStepKeeps == ASSUME ~Racing, ~Breaking, KeptInv, [RegistryNext]_registryVars PROVE KeptInv'
<1>1. RegistryInv'
  BY RegistryStepKeeps DEF KeptInv
<1>2. CASE UNCHANGED registryVars
  <2>1. UNCHANGED <<records, undone, leaves, sessions, serves, sdk, dying, busy>>
    BY <1>2 DEF registryVars
  <2>2. UNCHANGED <<resumeAt, tip, warm, warmSession, warmTimer, deleted, unloading>>
    BY <1>2 DEF registryVars
  <2>3. RegistryTypeOK' /\ SessionsNew' /\ WarmKnown'
    BY <2>1, <2>2 DEF KeptInv, RegistryTypeOK, SessionsNew, WarmKnown
  <2>4. ASSUME NEW c \in Threads PROVE ChatKept(c)'
    <3>1. ChatKept(c)
      BY DEF KeptInv
    <3>2. Kept(c)' = Kept(c) /\ At(c)' = At(c)
      BY <2>1, <2>2 DEF Kept, At, End
    <3>3. Tree(c)' /\ Whole(c)'
      BY <2>1, <2>2, <3>1, <3>2 DEF ChatKept, Tree, Whole
    <3>4. Writing(c)' /\ Resuming(c)'
      BY <2>1, <2>2, <3>1 DEF ChatKept, Writing, Resuming
    <3>5. Leafless(c)' /\ GoingBack(c)' /\ Gone(c)'
      BY <2>1, <2>2, <3>1 DEF ChatKept, Leafless, GoingBack, Gone, Known, End
    <3> QED  BY <3>3, <3>4, <3>5 DEF ChatKept
  <2> QED  BY <1>1, <2>3, <2>4 DEF KeptInv
<1>3. CASE RegistryNext
  BY <1>1, <1>3, StartThreadKept, OpenChatKept, StartTurnKept, TurnWrittenKept, OnTheSideKept, ProcessBreaksKept,
     SweepChatKept, BeginTruncateKept, BeginDiscardKept, FinishTruncateKept, FinishDiscardKept, ForkKept DEF RegistryNext
<1> QED  BY <1>2, <1>3

\* What leads to a turn that was kept was kept.
LEMMA KeptGoesOn == KeptInv => GoesOnFromKept
<1> SUFFICES ASSUME KeptInv, NEW ch \in Threads, NEW i \in 1 .. Len(records[ch]), i \notin undone[ch]
             PROVE Path(ch, i) \cap undone[ch] = {}
  BY DEF GoesOnFromKept
<1> DEFINE parents == records[ch]
           U == Upward(parents)
           G == {n \in Nat : \A k \in 0 .. n : k \in Kept(ch) \cup {Nil} => U[k] \subseteq Kept(ch)}
<1>1. /\ IsTree(parents) /\ Len(parents) \in Nat
      /\ \A k \in Kept(ch) : parents[k] \in Kept(ch) \cup {Nil} /\ k \in 1 .. Len(parents) /\ parents[k] \in 0 .. k - 1
  BY ChatsTyped DEF ChatKept, Tree, Kept
<1>2. U[Nil] = {} /\ \A k \in Kept(ch) : U[k] = {k} \cup U[parents[k]]
  BY <1>1, UpwardUnfolds
<1> HIDE DEF U, parents
<1>3. 0 \in G
  <2>1. \A k \in 0 .. 0 : k = Nil
    BY DEF Nil
  <2> QED  BY <1>2, <2>1
<1>4. ASSUME NEW n \in G PROVE n + 1 \in G
  <2> SUFFICES ASSUME n + 1 \in Kept(ch) PROVE U[n + 1] \subseteq Kept(ch)
    <3>1. n \in Nat /\ (\A k \in 0 .. n + 1 : k \in 0 .. n \/ k = n + 1) /\ n + 1 # Nil
      BY DEF Nil
    <3> QED  BY <3>1
  <2>1. parents[n + 1] \in 0 .. n /\ parents[n + 1] \in Kept(ch) \cup {Nil}
    BY <1>1
  <2>2. U[parents[n + 1]] \subseteq Kept(ch)
    BY <2>1
  <2> QED  BY <1>2, <2>2
<1>5. G = Nat
  <2>1. G \in SUBSET Nat
    OBVIOUS
  <2> HIDE DEF G
  <2> QED  BY <1>3, <1>4, <2>1, Climbing
<1>6. i \in Kept(ch) /\ i \in Nat
  BY <1>1 DEF Kept, parents
<1>7. U[i] \subseteq Kept(ch)
  <2> HIDE DEF G
  <2>1. i \in G /\ i \in 0 .. i
    BY <1>5, <1>6
  <2> QED  BY <1>6, <2>1 DEF G
<1>8. Path(ch, i) = U[i]
  BY PathIsUpward DEF U, parents
<1> QED  BY <1>7, <1>8 DEF Kept

\* The chat goes on from the history its user kept (ClaudeThreads.truncate, the
\* leaf a session resumes at, ensureQuery): nothing is written below a turn that
\* was rolled back, and the registry's fields keep their types, for any number
\* of chats, sessions and turns, as long as requests wait for a session that is
\* being unloaded, and a process started at a leaf lives to write its turn.
THEOREM GoesOn == ~Racing /\ ~Breaking => (RegistrySpec => [](RegistryTypeOK /\ GoesOnFromKept))
<1> SUFFICES ASSUME ~Racing, ~Breaking PROVE RegistrySpec => [](RegistryTypeOK /\ GoesOnFromKept)
  OBVIOUS
<1>1. KeptInv => RegistryTypeOK /\ GoesOnFromKept
  BY KeptGoesOn DEF KeptInv
<1>2. KeptInv /\ [RegistryNext]_registryVars => KeptInv'
  BY KeptStepKeeps
<1> QED  BY KeptStarts, <1>1, <1>2, PTL DEF RegistrySpec

=============================================================================
