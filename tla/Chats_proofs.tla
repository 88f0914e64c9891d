-------------------------- MODULE Chats_proofs --------------------------
(***************************************************************************)
(* Chats that switch provider are the chats of their users: Lineages       *)
(* implements Chats, for any threads, requests and turns, within one run   *)
(* of the gateway.                                                         *)
(***************************************************************************)
EXTENDS Lineages_proofs, SequenceTheorems

-----------------------------------------------------------------------------
(* Sequences, joined *)

\* What a loop over 1 .. m leaves: a value for each step.
Loops(f, m, start, op) == f[0] = start /\ \A i \in 1 .. m : f[i] = op[<<i, f[i - 1]>>]
Stepping(op, m, S) == \A i \in 1 .. m : \A v \in S : op[<<i, v>>] \in S

LEMMA LoopGoesOn ==
  ASSUME NEW m \in Nat, NEW S, NEW start \in S, NEW op, Stepping(op, m, S),
         NEW n \in Nat, n + 1 <= m, NEW f \in [0 .. n -> S], Loops(f, n, start, op)
  PROVE \E g \in [0 .. n + 1 -> S] : Loops(g, n + 1, start, op)
<1>1. f[0] = start /\ \A i \in 1 .. n : f[i] = op[<<i, f[i - 1]>>]
  BY DEF Loops
<1>2. PICK v : v = op[<<n + 1, f[n]>>]
  OBVIOUS
<1>3. n + 1 \in 1 .. m /\ f[n] \in S
  OBVIOUS
<1>4. v \in S
  BY <1>2, <1>3 DEF Stepping
<1>5. PICK g : g = [i \in 0 .. n + 1 |-> IF i = n + 1 THEN v ELSE f[i]]
  OBVIOUS
<1>6. g \in [0 .. n + 1 -> S] /\ g[0] = start /\ g[n + 1] = v /\ \A i \in 0 .. n : g[i] = f[i]
  BY <1>1, <1>4, <1>5
<1>7. ASSUME NEW i \in 1 .. n + 1 PROVE g[i] = op[<<i, g[i - 1]>>]
  <2>1. CASE i = n + 1
    <3>1. i - 1 = n /\ g[n] = f[n]
      BY <1>6, <2>1
    <3> QED  BY <1>2, <1>6, <2>1, <3>1
  <2>2. CASE i # n + 1
    <3>1. i \in 1 .. n /\ i \in 0 .. n /\ i - 1 \in 0 .. n
      BY <2>2
    <3> QED  BY <1>1, <1>6, <3>1
  <2> QED  BY <2>1, <2>2
<1>8. Loops(g, n + 1, start, op)
  BY <1>6, <1>7 DEF Loops
<1> QED  BY <1>6, <1>8

LEMMA LoopExists ==
  ASSUME NEW m \in Nat, NEW S, NEW start \in S, NEW op, Stepping(op, m, S)
  PROVE \E f \in [0 .. m -> S] : Loops(f, m, start, op)
<1> DEFINE G == {n \in Nat : n <= m => \E f \in [0 .. n -> S] : Loops(f, n, start, op)}
<1>1. 0 \in G
  <2>1. PICK f : f = [i \in 0 .. 0 |-> start]
    OBVIOUS
  <2>2. f \in [0 .. 0 -> S] /\ Loops(f, 0, start, op)
    BY <2>1 DEF Loops
  <2> QED  BY <2>2
<1>2. ASSUME NEW n \in G PROVE n + 1 \in G
  <2>1. n \in Nat
    OBVIOUS
  <2> SUFFICES ASSUME n + 1 <= m PROVE \E f \in [0 .. n + 1 -> S] : Loops(f, n + 1, start, op)
    BY <2>1
  <2>2. PICK f \in [0 .. n -> S] : Loops(f, n, start, op)
    BY <2>1
  <2> QED  BY <2>1, <2>2, LoopGoesOn
<1>3. G = Nat
  <2>1. G \in SUBSET Nat
    OBVIOUS
  <2> HIDE DEF G
  <2> QED  BY <1>1, <1>2, <2>1, Climbing
<1> QED  BY <1>3

\* What joins pieces, one after another.
Glued(before, piece) == before \o piece
Glues(upTo, n, pieces) == upTo[0] = << >> /\ \A i \in 1 .. n : upTo[i] = Glued(upTo[i - 1], pieces[i])
Joins(pieces, n, upTo) == upTo = [i \in 0 .. n |-> IF i = 0 THEN << >> ELSE Glued(upTo[i - 1], pieces[i])]
Joined(pieces) == (CHOOSE upTo : Joins(pieces, Len(pieces), upTo))[Len(pieces)]

LEMMA JoinsGlues == ASSUME NEW pieces, NEW n \in Nat, NEW upTo, Joins(pieces, n, upTo) PROVE Glues(upTo, n, pieces)
<1>1. \A i \in 0 .. n : upTo[i] = IF i = 0 THEN << >> ELSE Glued(upTo[i - 1], pieces[i])
  BY DEF Joins
<1>2. \A i \in 1 .. n : i \in 0 .. n /\ i # 0
  OBVIOUS
<1> QED  BY <1>1, <1>2 DEF Glues

LEMMA GluesJoins ==
  ASSUME NEW pieces, NEW n \in Nat, NEW upTo, upTo = [i \in 0 .. n |-> upTo[i]], Glues(upTo, n, pieces)
  PROVE Joins(pieces, n, upTo)
<1>1. ASSUME NEW i \in 0 .. n PROVE upTo[i] = IF i = 0 THEN << >> ELSE Glued(upTo[i - 1], pieces[i])
  <2>1. i # 0 => i \in 1 .. n
    OBVIOUS
  <2> QED  BY <2>1 DEF Glues
<1> QED  BY <1>1 DEF Joins

LEMMA JoinsExists ==
  ASSUME NEW E, NEW pieces \in Seq(Seq(E)), NEW m, m = Len(pieces)
  PROVE \E upTo \in [0 .. m -> Seq(E)] : Joins(pieces, m, upTo)
<1>1. m \in Nat /\ \A i \in 1 .. m : pieces[i] \in Seq(E)
  OBVIOUS
<1>2. PICK S : S = Seq(E)
  OBVIOUS
<1>3. PICK op : op = [p \in (1 .. m) \X S |-> Glued(p[2], pieces[p[1]])]
  OBVIOUS
<1>4. \A i \in 1 .. m : \A v \in S : op[<<i, v>>] = Glued(v, pieces[i])
  BY <1>3
<1>5. ASSUME NEW v \in S, NEW i \in 1 .. m PROVE Glued(v, pieces[i]) \in S
  BY <1>1, <1>2 DEF Glued
<1>6. Stepping(op, m, S)
  BY <1>4, <1>5 DEF Stepping
<1>7. << >> \in Seq(E)
  OBVIOUS
<1>8. PICK start : start = << >>
  OBVIOUS
<1>9. start \in S
  BY <1>2, <1>7, <1>8
<1>10. PICK f \in [0 .. m -> S] : Loops(f, m, start, op)
  BY <1>1, <1>6, <1>9, LoopExists
<1>11. ASSUME NEW i \in 1 .. m PROVE f[i - 1] \in S
  <2>1. i - 1 \in 0 .. m
    BY <1>1
  <2> QED  BY <2>1
<1>12. Glues(f, m, pieces)
  BY <1>4, <1>8, <1>10, <1>11 DEF Loops, Glues
<1>13. f = [i \in 0 .. m |-> f[i]]
  OBVIOUS
<1>14. Joins(pieces, m, f)
  BY <1>1, <1>12, <1>13, GluesJoins
<1> QED  BY <1>2, <1>14

LEMMA JoinedIs ==
  ASSUME NEW E, NEW pieces \in Seq(Seq(E)), NEW m, m = Len(pieces)
  PROVE \E upTo : Joined(pieces) = upTo[m] /\ Glues(upTo, m, pieces)
<1>1. m \in Nat
  OBVIOUS
<1>2. PICK upTo : upTo = CHOOSE f : Joins(pieces, m, f)
  OBVIOUS
<1>3. \E f : Joins(pieces, m, f)
  BY JoinsExists
<1>4. Joins(pieces, m, upTo)
  BY <1>2, <1>3, Zenon
<1>5. Joined(pieces) = upTo[m]
  BY <1>2 DEF Joined
<1>6. Glues(upTo, m, pieces)
  BY <1>1, <1>4, JoinsGlues
<1> QED  BY <1>5, <1>6

\* Loops that go over the same pieces come to the same.
LEMMA GluesAlike ==
  ASSUME NEW m \in Nat, NEW k \in Nat, m <= k, NEW a, NEW b, NEW f, NEW g, \A i \in 1 .. m : a[i] = b[i],
         Glues(f, m, a), Glues(g, k, b)
  PROVE f[m] = g[m]
<1> DEFINE G == {n \in Nat : n <= m => f[n] = g[n]}
<1>1. 0 \in G
  BY DEF Glues
<1>2. ASSUME NEW n \in G PROVE n + 1 \in G
  <2>1. n \in Nat
    OBVIOUS
  <2> SUFFICES ASSUME n + 1 <= m PROVE f[n + 1] = g[n + 1]
    BY <2>1
  <2>2. f[n] = g[n] /\ n + 1 \in 1 .. m /\ n + 1 \in 1 .. k /\ n + 1 - 1 = n
    BY <2>1
  <2>3. f[n + 1] = Glued(f[n], a[n + 1])
    BY <2>2 DEF Glues
  <2>4. g[n + 1] = Glued(g[n], b[n + 1])
    BY <2>2 DEF Glues
  <2> QED  BY <2>2, <2>3, <2>4
<1>3. G = Nat
  <2>1. G \in SUBSET Nat
    OBVIOUS
  <2> HIDE DEF G
  <2> QED  BY <1>1, <1>2, <2>1, Climbing
<1>4. \A n \in Nat : n <= m => f[n] = g[n]
  BY <1>3
<1> QED  BY <1>4

LEMMA GluesToJoined ==
  ASSUME NEW E, NEW pieces \in Seq(Seq(E)), NEW m, m = Len(pieces), NEW f, Glues(f, m, pieces)
  PROVE f[m] = Joined(pieces)
<1>1. PICK g : Joined(pieces) = g[m] /\ Glues(g, m, pieces)
  BY JoinedIs
<1>2. m \in Nat /\ m <= m
  OBVIOUS
<1>3. f[m] = g[m]
  BY <1>1, <1>2, GluesAlike
<1> QED  BY <1>1, <1>3

LEMMA JoinedTyped == ASSUME NEW E, NEW pieces \in Seq(Seq(E)) PROVE Joined(pieces) \in Seq(E)
<1>1. PICK m : m = Len(pieces)
  OBVIOUS
<1>2. PICK upTo \in [0 .. m -> Seq(E)] : Joins(pieces, m, upTo)
  BY <1>1, JoinsExists
<1>3. m \in Nat
  BY <1>1
<1>4. upTo[m] = Joined(pieces)
  BY <1>1, <1>2, <1>3, JoinsGlues, GluesToJoined
<1> QED  BY <1>2, <1>3, <1>4

LEMMA JoinedNone == Joined(<< >>) = << >>
<1>1. PICK pieces : pieces = << >>
  OBVIOUS
<1>2. pieces \in Seq(Seq({})) /\ Len(pieces) = 0
  BY <1>1
<1>3. PICK f : f = [i \in 0 .. 0 |-> << >>]
  OBVIOUS
<1>4. f[0] = << >> /\ Glues(f, 0, pieces)
  BY <1>3 DEF Glues
<1>5. f[0] = Joined(pieces)
  BY <1>2, <1>4, GluesToJoined
<1> QED  BY <1>1, <1>4, <1>5

LEMMA JoinedOne == ASSUME NEW E, NEW piece \in Seq(E) PROVE Joined(<<piece>>) = piece
<1>1. PICK pieces : pieces = <<piece>>
  OBVIOUS
<1>2. pieces \in Seq(Seq(E)) /\ Len(pieces) = 1 /\ pieces[1] = piece
  BY <1>1
<1>3. PICK f : Joined(pieces) = f[1] /\ Glues(f, 1, pieces)
  BY <1>2, JoinedIs
<1>4. f[0] = << >> /\ f[1] = Glued(f[0], pieces[1])
  <2>1. 1 \in 1 .. 1 /\ 1 - 1 = 0
    OBVIOUS
  <2> QED  BY <1>3, <2>1 DEF Glues
<1>5. Glued(<< >>, piece) = piece
  BY DEF Glued
<1> QED  BY <1>1, <1>2, <1>3, <1>4, <1>5

\* It does not matter which two are joined first.
LEMMA Associates ==
  ASSUME NEW E, NEW a \in Seq(E), NEW b \in Seq(E), NEW c \in Seq(E), NEW ab, ab = a \o b, NEW bc, bc = b \o c
  PROVE ab \o c = a \o bc
<1>1. ab \in Seq(E) /\ bc \in Seq(E) /\ Len(ab) = Len(a) + Len(b) /\ Len(bc) = Len(b) + Len(c)
  OBVIOUS
<1>2. PICK l : l = ab \o c
  OBVIOUS
<1>3. PICK r : r = a \o bc
  OBVIOUS
<1>4. l \in Seq(E) /\ r \in Seq(E) /\ Len(l) = Len(r)
  BY <1>1, <1>2, <1>3
<1>5. \A i \in 1 .. Len(l) : l[i] = r[i]
  BY <1>1, <1>2, <1>3, <1>4
<1> QED  BY <1>2, <1>3, <1>4, <1>5

LEMMA GluedInTurn ==
  ASSUME NEW E, NEW a \in Seq(E), NEW b \in Seq(E), NEW c \in Seq(E) PROVE Glued(Glued(a, b), c) = Glued(a, Glued(b, c))
BY Associates DEF Glued

LEMMA JoinedConcat ==
  ASSUME NEW E, NEW a \in Seq(Seq(E)), NEW b \in Seq(Seq(E))
  PROVE Joined(a \o b) = Joined(a) \o Joined(b)
<1>1. PICK c : c = a \o b
  OBVIOUS
<1>2. PICK m : m = Len(a)
  OBVIOUS
<1>3. PICK k : k = Len(b)
  OBVIOUS
<1>4. m \in Nat /\ k \in Nat /\ c \in Seq(Seq(E)) /\ Len(c) = m + k
  BY <1>1, <1>2, <1>3
<1>5. \A i \in 1 .. m : a[i] = c[i]
  BY <1>1, <1>2
<1>6. \A i \in 1 .. k : c[m + i] = b[i]
  BY <1>1, <1>2, <1>3
<1>7. PICK f : Joined(a) = f[m] /\ Glues(f, m, a)
  BY <1>2, JoinedIs
<1>8. PICK g : g \in [0 .. k -> Seq(E)] /\ Joins(b, k, g)
  BY <1>3, JoinsExists
<1>9. Glues(g, k, b) /\ g[k] = Joined(b)
  BY <1>3, <1>4, <1>8, JoinsGlues, GluesToJoined
<1>10. PICK n : n = m + k
  OBVIOUS
<1>11. PICK h : Joined(c) = h[n] /\ Glues(h, n, c)
  BY <1>4, <1>10, JoinedIs
<1>12. f[m] = h[m]
  BY <1>4, <1>5, <1>7, <1>10, <1>11, GluesAlike
<1>13. PICK start \in Seq(E) : start = Joined(a)
  BY JoinedTyped
<1> DEFINE G == {i \in Nat : i <= k => h[m + i] = Glued(start, g[i])}
<1>14. 0 \in G
  <2>1. g[0] = << >> /\ m + 0 = m
    BY <1>4, <1>9 DEF Glues
  <2>2. Glued(start, << >>) = start
    BY DEF Glued
  <2> QED  BY <1>7, <1>12, <1>13, <2>1, <2>2
<1>15. ASSUME NEW i \in G PROVE i + 1 \in G
  <2>1. i \in Nat
    OBVIOUS
  <2> SUFFICES ASSUME i + 1 <= k PROVE h[m + (i + 1)] = Glued(start, g[i + 1])
    BY <2>1
  <2>2. h[m + i] = Glued(start, g[i])
    BY <1>4, <2>1
  <2>3. i + 1 \in 1 .. k /\ i + 1 - 1 = i /\ m + (i + 1) \in 1 .. n /\ m + (i + 1) - 1 = m + i /\ i \in 0 .. k
    BY <1>4, <1>10, <2>1
  <2>4. h[m + (i + 1)] = Glued(h[m + i], c[m + (i + 1)])
    <3>1. PICK j : j = m + (i + 1)
      OBVIOUS
    <3>2. n \in Nat /\ j \in 1 .. n /\ j - 1 = m + i
      BY <1>4, <1>10, <2>3, <3>1
    <3>3. h[j] = Glued(h[j - 1], c[j])
      BY <1>11, <3>2 DEF Glues
    <3> QED  BY <3>1, <3>2, <3>3
  <2>5. g[i + 1] = Glued(g[i], b[i + 1])
    BY <1>9, <2>3 DEF Glues
  <2>6. b[i + 1] \in Seq(E)
    BY <1>3, <2>3
  <2>7. g[i] \in Seq(E)
    BY <1>8, <2>3
  <2>8. ASSUME NEW s \in Seq(E), NEW t \in Seq(E) PROVE Glued(Glued(start, s), t) = Glued(start, Glued(s, t))
    BY <1>13, GluedInTurn
  <2>9. c[m + (i + 1)] = b[i + 1]
    BY <1>6, <2>3
  <2> QED  BY <2>2, <2>4, <2>5, <2>6, <2>7, <2>8, <2>9
<1>16. G = Nat
  <2>1. G \in SUBSET Nat
    OBVIOUS
  <2> HIDE DEF G
  <2> QED  BY <1>14, <1>15, <2>1, Climbing
<1>17. \A i \in Nat : i <= k => h[m + i] = Glued(start, g[i])
  BY <1>16
<1> HIDE DEF G
<1>18. h[n] = Glued(start, g[k])
  BY <1>4, <1>10, <1>17
<1> QED  BY <1>1, <1>9, <1>11, <1>13, <1>18 DEF Glued

LEMMA JoinedAppend ==
  ASSUME NEW E, NEW pieces \in Seq(Seq(E)), NEW piece \in Seq(E)
  PROVE Joined(Append(pieces, piece)) = Joined(pieces) \o piece
<1>1. PICK last : last = <<piece>>
  OBVIOUS
<1>2. last \in Seq(Seq(E)) /\ Append(pieces, piece) = pieces \o last
  BY <1>1
<1>3. Joined(last) = piece
  BY <1>1, JoinedOne
<1> QED  BY <1>2, <1>3, JoinedConcat

\* Two loops that take the same steps come to the same.
AlikeInSteps(m, f, g) == f[0] = g[0] /\ \A i \in 1 .. m : f[i - 1] = g[i - 1] => f[i] = g[i]

LEMMA StepsAlike == ASSUME NEW m \in Nat, NEW f, NEW g, AlikeInSteps(m, f, g) PROVE \A n \in 0 .. m : f[n] = g[n]
<1> DEFINE G == {n \in Nat : n <= m => f[n] = g[n]}
<1>1. 0 \in G
  BY DEF AlikeInSteps
<1>2. ASSUME NEW n \in G PROVE n + 1 \in G
  <2>1. n \in Nat
    OBVIOUS
  <2> SUFFICES ASSUME n + 1 <= m PROVE f[n + 1] = g[n + 1]
    BY <2>1
  <2>2. f[n] = g[n] /\ n + 1 \in 1 .. m /\ n + 1 - 1 = n
    BY <2>1
  <2> QED  BY <2>2 DEF AlikeInSteps
<1>3. G = Nat
  <2>1. G \in SUBSET Nat
    OBVIOUS
  <2> HIDE DEF G
  <2> QED  BY <1>1, <1>2, <2>1, Climbing
<1>4. \A n \in Nat : n <= m => f[n] = g[n]
  BY <1>3
<1> QED  BY <1>4

-----------------------------------------------------------------------------
(* A history, and what is said of it *)

\* A history without some turns is its turns, each in a piece of its own or none.
Singles(history, out) == [k \in DOMAIN history |-> IF history[k] \in out THEN << >> ELSE <<history[k]>>]
Grown(before, turn, out) == IF turn \in out THEN before ELSE Append(before, turn)
Walks(history, out, n, upTo) ==
  upTo = [k \in 0 .. n |-> IF k = 0 THEN << >> ELSE Grown(upTo[k - 1], history[k], out)]

LEMMA SinglesTyped ==
  ASSUME NEW E, NEW history \in Seq(E), NEW out
  PROVE Singles(history, out) \in Seq(Seq(E)) /\ Len(Singles(history, out)) = Len(history)
<1>1. PICK m : m = Len(history)
  OBVIOUS
<1>2. m \in Nat /\ DOMAIN history = 1 .. m
  BY <1>1
<1>3. PICK pieces : pieces = [k \in 1 .. m |-> IF history[k] \in out THEN << >> ELSE <<history[k]>>]
  OBVIOUS
<1>4. \A k \in 1 .. m : pieces[k] \in Seq(E)
  <2> SUFFICES ASSUME NEW k \in 1 .. m PROVE pieces[k] \in Seq(E)
    OBVIOUS
  <2>1. history[k] \in E
    BY <1>1
  <2>2. pieces[k] = << >> \/ pieces[k] = <<history[k]>>
    BY <1>3
  <2>3. << >> \in Seq(E) /\ <<history[k]>> \in Seq(E)
    BY <2>1
  <2> QED  BY <2>2, <2>3
<1>5. pieces \in [1 .. m -> Seq(E)]
  BY <1>3, <1>4
<1>6. pieces \in Seq(Seq(E)) /\ Len(pieces) = m
  BY <1>2, <1>5
<1>7. Singles(history, out) = pieces
  BY <1>2, <1>3 DEF Singles
<1> QED  BY <1>1, <1>6, <1>7

LEMMA WithoutIs ==
  ASSUME NEW E, NEW history \in Seq(E), NEW out
  PROVE Without(history, out) = Joined(Singles(history, out))
<1>1. PICK m : m = Len(history)
  OBVIOUS
<1>2. m \in Nat /\ DOMAIN history = 1 .. m
  BY <1>1
<1>3. PICK pieces : pieces = Singles(history, out)
  OBVIOUS
<1>4. pieces \in Seq(Seq(E)) /\ Len(pieces) = m
  BY <1>1, <1>3, SinglesTyped
<1>5. PICK g : g \in [0 .. m -> Seq(E)] /\ Joins(pieces, m, g)
  BY <1>4, JoinsExists
<1>6. Glues(g, m, pieces) /\ g[m] = Joined(pieces)
  BY <1>2, <1>4, <1>5, JoinsGlues, GluesToJoined
<1>7. ASSUME NEW k \in 1 .. m PROVE g[k] = Grown(g[k - 1], history[k], out)
  <2>1. g[k] = Glued(g[k - 1], pieces[k])
    BY <1>6 DEF Glues
  <2>2. k - 1 \in 0 .. m
    BY <1>2
  <2>3. g[k - 1] \in Seq(E) /\ history[k] \in E
    BY <1>1, <1>5, <2>2
  <2>4. pieces[k] = IF history[k] \in out THEN << >> ELSE <<history[k]>>
    BY <1>2, <1>3 DEF Singles
  <2>5. \A s \in Seq(E) : s \o << >> = s /\ \A e \in E : s \o <<e>> = Append(s, e)
    OBVIOUS
  <2> QED  BY <2>1, <2>3, <2>4, <2>5 DEF Glued, Grown
<1>8. g[0] = << >>
  BY <1>6 DEF Glues
<1>9. Walks(history, out, m, g)
  <2>1. ASSUME NEW k \in 0 .. m PROVE g[k] = IF k = 0 THEN << >> ELSE Grown(g[k - 1], history[k], out)
    <3>1. k # 0 => k \in 1 .. m
      BY <1>2
    <3> QED  BY <1>7, <1>8, <3>1
  <2>2. g = [k \in 0 .. m |-> g[k]]
    BY <1>5
  <2> QED  BY <2>1, <2>2 DEF Walks
<1>10. PICK f : f = CHOOSE upTo : Walks(history, out, m, upTo)
  OBVIOUS
<1>11. Walks(history, out, m, f)
  BY <1>9, <1>10, Zenon
<1>12. Without(history, out) = IF out = {} THEN history ELSE f[m]
  BY <1>1, <1>10 DEF Without, Walks, Grown
<1>13. \A k \in 0 .. m : f[k] = IF k = 0 THEN << >> ELSE Grown(f[k - 1], history[k], out)
  BY <1>11 DEF Walks
<1>14. f[0] = g[0]
  BY <1>2, <1>8, <1>13
<1>15. ASSUME NEW k \in 1 .. m, f[k - 1] = g[k - 1] PROVE f[k] = g[k]
  <2>1. k \in 0 .. m /\ k # 0
    BY <1>2
  <2> QED  BY <1>7, <1>13, <1>15, <2>1
<1>16. AlikeInSteps(m, f, g)
  BY <1>14, <1>15 DEF AlikeInSteps
<1>17. \A n \in 0 .. m : f[n] = g[n]
  BY <1>2, <1>16, StepsAlike
<1>18. ASSUME out = {} PROVE g[m] = history
  <2>1. PICK h : h = [k \in 0 .. m |-> SubSeq(history, 1, k)]
    OBVIOUS
  <2>2. h[0] = g[0]
    BY <1>1, <1>2, <1>8, <2>1
  <2>3. ASSUME NEW k \in 1 .. m, h[k - 1] = g[k - 1] PROVE h[k] = g[k]
    <3>1. k \in 0 .. m /\ k - 1 \in 0 .. m /\ k \in 1 .. Len(history)
      BY <1>1, <1>2
    <3>2. h[k] = SubSeq(history, 1, k) /\ h[k - 1] = SubSeq(history, 1, k - 1)
      BY <2>1, <3>1
    <3>3. SubSeq(history, 1, k) = Append(SubSeq(history, 1, k - 1), history[k])
      BY <3>1
    <3>4. g[k] = Append(g[k - 1], history[k])
      BY <1>7, <1>18 DEF Grown
    <3> QED  BY <2>3, <3>2, <3>3, <3>4
  <2>4. AlikeInSteps(m, h, g)
    BY <2>2, <2>3 DEF AlikeInSteps
  <2>5. h[m] = g[m]
    BY <1>2, <2>4, StepsAlike
  <2>6. h[m] = SubSeq(history, 1, Len(history))
    BY <1>1, <1>2, <2>1
  <2> QED  BY <2>5, <2>6
<1>19. f[m] = g[m]
  BY <1>2, <1>17
<1> QED  BY <1>3, <1>6, <1>12, <1>18, <1>19

LEMMA WithoutTyped == ASSUME NEW E, NEW history \in Seq(E), NEW out PROVE Without(history, out) \in Seq(E)
BY WithoutIs, SinglesTyped, JoinedTyped

LEMMA WithoutConcat ==
  ASSUME NEW E, NEW a \in Seq(E), NEW b \in Seq(E), NEW out
  PROVE Without(a \o b, out) = Without(a, out) \o Without(b, out)
<1>1. PICK c : c = a \o b
  OBVIOUS
<1>2. c \in Seq(E) /\ Len(c) = Len(a) + Len(b)
  BY <1>1
<1>3. \A i \in 1 .. Len(a) : c[i] = a[i]
  BY <1>1
<1>4. \A i \in 1 .. Len(b) : c[Len(a) + i] = b[i]
  BY <1>1
<1>5. PICK p : p = Singles(a, out)
  OBVIOUS
<1>6. PICK q : q = Singles(b, out)
  OBVIOUS
<1>7. PICK r : r = Singles(c, out)
  OBVIOUS
<1>8. p \in Seq(Seq(E)) /\ Len(p) = Len(a) /\ q \in Seq(Seq(E)) /\ Len(q) = Len(b)
  BY <1>5, <1>6, SinglesTyped
<1>9. r \in Seq(Seq(E)) /\ Len(r) = Len(c)
  BY <1>2, <1>7, SinglesTyped
<1>10. p \o q \in Seq(Seq(E)) /\ Len(p \o q) = Len(r)
  BY <1>2, <1>8, <1>9
<1>11. ASSUME NEW i \in 1 .. Len(r) PROVE r[i] = (p \o q)[i]
  <2>1. r[i] = IF c[i] \in out THEN << >> ELSE <<c[i]>>
    BY <1>2, <1>7, <1>9 DEF Singles
  <2>2. CASE i <= Len(a)
    <3>1. i \in 1 .. Len(a) /\ (p \o q)[i] = p[i]
      BY <1>2, <1>8, <1>9, <2>2
    <3>2. p[i] = IF a[i] \in out THEN << >> ELSE <<a[i]>>
      BY <1>5, <3>1 DEF Singles
    <3> QED  BY <1>3, <2>1, <3>1, <3>2
  <2>3. CASE i > Len(a)
    <3>1. PICK j : j = i - Len(a)
      OBVIOUS
    <3>2. j \in 1 .. Len(b) /\ i = Len(a) + j /\ (p \o q)[i] = q[j]
      <4>1. i \in Nat /\ Len(a) \in Nat /\ Len(b) \in Nat /\ Len(r) = Len(a) + Len(b)
        BY <1>2, <1>9
      <4>2. j \in 1 .. Len(b) /\ i = Len(a) + j
        BY <2>3, <3>1, <4>1
      <4>3. i \in 1 .. Len(p) + Len(q) /\ ~(i <= Len(p)) /\ i - Len(p) = j
        BY <1>8, <2>3, <3>1, <4>1
      <4>4. (p \o q)[i] = IF i <= Len(p) THEN p[i] ELSE q[i - Len(p)]
        BY <1>8, <4>3, ConcatProperties
      <4> QED  BY <4>2, <4>3, <4>4
    <3>3. q[j] = IF b[j] \in out THEN << >> ELSE <<b[j]>>
      BY <1>6, <3>2 DEF Singles
    <3>4. c[i] = b[j]
      BY <1>4, <3>2
    <3> QED  BY <2>1, <3>2, <3>3, <3>4
  <2>4. i \in Nat /\ Len(a) \in Nat
    OBVIOUS
  <2>5. i <= Len(a) \/ i > Len(a)
    BY <2>4
  <2> QED  BY <2>2, <2>3, <2>5
<1>12. r = p \o q
  BY <1>9, <1>10, <1>11, SeqEqual
<1>13. Joined(r) = Joined(p) \o Joined(q)
  BY <1>8, <1>12, JoinedConcat
<1> QED  BY <1>1, <1>2, <1>5, <1>6, <1>7, <1>13, WithoutIs

\* Turns that are not there make no difference.
LEMMA WithoutSame ==
  ASSUME NEW E, NEW history \in Seq(E), NEW out, NEW more, \A e \in E : e \in out <=> e \in more
  PROVE Without(history, out) = Without(history, more)
<1>1. \A k \in DOMAIN history : history[k] \in E
  OBVIOUS
<1>2. \A k \in DOMAIN history : history[k] \in out <=> history[k] \in more
  BY <1>1
<1>3. Singles(history, out) = Singles(history, more)
  BY <1>2 DEF Singles
<1> QED  BY <1>3, WithoutIs

LEMMA WithoutNone == ASSUME NEW out PROVE Without(<< >>, out) = << >>
<1>1. PICK history : history = << >>
  OBVIOUS
<1>2. history \in Seq({}) /\ Len(history) = 0
  BY <1>1
<1>3. Singles(history, out) = << >>
  <2>1. PICK pieces : pieces = Singles(history, out)
    OBVIOUS
  <2>2. pieces \in Seq(Seq({})) /\ Len(pieces) = 0
    BY <1>2, <2>1, SinglesTyped
  <2>3. pieces = << >>
    BY <2>2
  <2> QED  BY <2>1, <2>3
<1> QED  BY <1>1, <1>2, <1>3, WithoutIs, JoinedNone

LEMMA WithoutOne ==
  ASSUME NEW E, NEW turn \in E, NEW out PROVE Without(<<turn>>, out) = IF turn \in out THEN << >> ELSE <<turn>>
<1>1. PICK history : history = <<turn>>
  OBVIOUS
<1>2. history \in Seq(E) /\ Len(history) = 1 /\ history[1] = turn
  BY <1>1
<1>3. PICK piece : piece = IF turn \in out THEN << >> ELSE <<turn>>
  OBVIOUS
<1>4. piece \in Seq(E)
  BY <1>3
<1>5. Singles(history, out) = <<piece>>
  <2>1. Singles(history, out) \in Seq(Seq(E)) /\ Len(Singles(history, out)) = 1
    BY <1>2, SinglesTyped
  <2>2. Singles(history, out)[1] = piece
    BY <1>2, <1>3 DEF Singles
  <2> QED  BY <2>1, <2>2
<1>6. Joined(<<piece>>) = piece
  BY <1>4, JoinedOne
<1> QED  BY <1>1, <1>2, <1>3, <1>5, <1>6, WithoutIs

LEMMA WithoutAppend ==
  ASSUME NEW E, NEW history \in Seq(E), NEW turn \in E, NEW out
  PROVE Without(Append(history, turn), out) =
          IF turn \in out THEN Without(history, out) ELSE Append(Without(history, out), turn)
<1>1. PICK last : last = <<turn>>
  OBVIOUS
<1>2. last \in Seq(E) /\ Append(history, turn) = history \o last
  BY <1>1
<1>3. PICK said \in Seq(E) : said = Without(history, out)
  BY WithoutTyped
<1>4. Without(Append(history, turn), out) = said \o Without(last, out)
  <2>1. Without(history \o last, out) = Without(history, out) \o Without(last, out)
    BY <1>2, WithoutConcat
  <2> QED  BY <1>2, <1>3, <2>1
<1>5. Without(last, out) = IF turn \in out THEN << >> ELSE <<turn>>
  BY <1>1, WithoutOne
<1>6. said \o << >> = said /\ said \o <<turn>> = Append(said, turn)
  BY <1>3
<1> QED  BY <1>3, <1>4, <1>5, <1>6

\* A thread's turns up to a segment's last one, if it has that.
CutAt(all, last) ==
  LET ends == {k \in DOMAIN all : all[k] = last}
  IN IF ends = {} THEN all ELSE SubSeq(all, 1, CHOOSE k \in ends : TRUE)
Once(history) == \A i \in DOMAIN history : \A j \in DOMAIN history : history[i] = history[j] => i = j

LEMMA CutIs ==
  ASSUME NEW segment
  PROVE /\ Cut(segment) = IF segment.thread \in DOMAIN native THEN CutAt(native[segment.thread], segment.last) ELSE << >>
        /\ Cut(segment)' =
             IF segment.thread \in DOMAIN native' THEN CutAt(native'[segment.thread], segment.last) ELSE << >>
<1>1. Cut(segment) = IF segment.thread \in DOMAIN native THEN CutAt(native[segment.thread], segment.last) ELSE << >>
  <2>1. PICK all : all = native[segment.thread]
    OBVIOUS
  <2>2. PICK ends : ends = {k \in DOMAIN all : all[k] = segment.last}
    OBVIOUS
  <2>3. CutAt(all, segment.last) = IF ends = {} THEN all ELSE SubSeq(all, 1, CHOOSE k \in ends : TRUE)
    BY <2>2 DEF CutAt
  <2>4. CASE segment.thread \in DOMAIN native
    <3>1. Cut(segment) = IF ends = {} THEN all ELSE SubSeq(all, 1, CHOOSE k \in ends : TRUE)
      BY <2>1, <2>2, <2>4 DEF Cut
    <3> QED  BY <2>1, <2>3, <2>4, <3>1
  <2>5. CASE segment.thread \notin DOMAIN native
    BY <2>5 DEF Cut
  <2> QED  BY <2>4, <2>5
<1>2. Cut(segment)' = IF segment.thread \in DOMAIN native' THEN CutAt(native'[segment.thread], segment.last) ELSE << >>
  <2>1. PICK all : all = native'[segment.thread]
    OBVIOUS
  <2>2. PICK ends : ends = {k \in DOMAIN all : all[k] = segment.last}
    OBVIOUS
  <2>3. CutAt(all, segment.last) = IF ends = {} THEN all ELSE SubSeq(all, 1, CHOOSE k \in ends : TRUE)
    BY <2>2 DEF CutAt
  <2>4. CASE segment.thread \in DOMAIN native'
    <3>1. Cut(segment)' = IF ends = {} THEN all ELSE SubSeq(all, 1, CHOOSE k \in ends : TRUE)
      BY <2>1, <2>2, <2>4 DEF Cut
    <3> QED  BY <2>1, <2>3, <2>4, <3>1
  <2>5. CASE segment.thread \notin DOMAIN native'
    BY <2>5 DEF Cut
  <2> QED  BY <2>4, <2>5
<1> QED  BY <1>1, <1>2

LEMMA CutAtEnd ==
  ASSUME NEW all, NEW last
  PROVE \/ (\A k \in DOMAIN all : all[k] # last) /\ CutAt(all, last) = all
        \/ \E k \in DOMAIN all : all[k] = last /\ CutAt(all, last) = SubSeq(all, 1, k)
<1>1. PICK ends : ends = {k \in DOMAIN all : all[k] = last}
  OBVIOUS
<1>2. CutAt(all, last) = IF ends = {} THEN all ELSE SubSeq(all, 1, CHOOSE k \in ends : TRUE)
  BY <1>1 DEF CutAt
<1>3. CASE ends = {}
  BY <1>1, <1>2, <1>3
<1>4. CASE ends # {}
  <2>1. PICK n : n = CHOOSE k \in ends : TRUE
    OBVIOUS
  <2>2. n \in ends
    BY <1>4, <2>1
  <2> QED  BY <1>1, <1>2, <1>4, <2>1, <2>2
<1> QED  BY <1>3, <1>4

LEMMA CutAtFirsts ==
  ASSUME NEW E, NEW all \in Seq(E), NEW last
  PROVE /\ CutAt(all, last) \in Seq(E) /\ Len(CutAt(all, last)) <= Len(all)
        /\ \A n \in 0 .. Len(CutAt(all, last)) : SubSeq(CutAt(all, last), 1, n) = SubSeq(all, 1, n)
<1>1. CASE CutAt(all, last) = all
  BY <1>1
<1>2. CASE \E k \in DOMAIN all : CutAt(all, last) = SubSeq(all, 1, k)
  <2>1. PICK k \in DOMAIN all : CutAt(all, last) = SubSeq(all, 1, k)
    BY <1>2
  <2>2. PICK cut : cut = SubSeq(all, 1, k)
    OBVIOUS
  <2>3. k \in 1 .. Len(all)
    BY <2>1
  <2>4. cut \in Seq(E) /\ Len(cut) = k /\ \A i \in 1 .. k : cut[i] = all[i]
    BY <2>2, <2>3
  <2>5. ASSUME NEW n \in 0 .. k PROVE SubSeq(cut, 1, n) = SubSeq(all, 1, n)
    <3>1. PICK a : a = SubSeq(cut, 1, n)
      OBVIOUS
    <3>2. PICK b : b = SubSeq(all, 1, n)
      OBVIOUS
    <3>3. a \in Seq(E) /\ b \in Seq(E) /\ Len(a) = n /\ Len(b) = n
      BY <2>3, <2>4, <3>1, <3>2
    <3>4. \A i \in 1 .. n : a[i] = cut[i] /\ b[i] = all[i] /\ i \in 1 .. k
      BY <2>3, <2>4, <3>1, <3>2
    <3>5. \A i \in 1 .. n : a[i] = b[i]
      BY <2>4, <3>4
    <3>6. a = b
      BY <3>3, <3>5, SeqEqual
    <3> QED  BY <3>1, <3>2, <3>6
  <2> QED  BY <2>1, <2>2, <2>3, <2>4, <2>5
<1> QED  BY <1>1, <1>2, CutAtEnd

LEMMA CutAtNone == ASSUME NEW all, NEW last, \A k \in DOMAIN all : all[k] # last PROVE CutAt(all, last) = all
BY CutAtEnd

LEMMA CutAtLast ==
  ASSUME NEW E, NEW all \in Seq(E), Once(all), all # << >> PROVE CutAt(all, all[Len(all)]) = all
<1>1. PICK last : last = all[Len(all)]
  OBVIOUS
<1>2. Len(all) \in DOMAIN all
  OBVIOUS
<1>3. PICK k \in DOMAIN all : all[k] = last /\ CutAt(all, last) = SubSeq(all, 1, k)
  BY <1>1, <1>2, CutAtEnd
<1>4. k = Len(all)
  BY <1>1, <1>2, <1>3 DEF Once
<1>5. SubSeq(all, 1, Len(all)) = all
  OBVIOUS
<1> QED  BY <1>1, <1>3, <1>4, <1>5

\* A turn said later is not the last one of a segment that has its last.
LEMMA CutAtAppend ==
  ASSUME NEW E, NEW all \in Seq(E), Once(all), NEW turn \in E, NEW last, turn # last, \E k \in DOMAIN all : all[k] = last
  PROVE CutAt(Append(all, turn), last) = CutAt(all, last)
<1>1. PICK k \in DOMAIN all : all[k] = last /\ CutAt(all, last) = SubSeq(all, 1, k)
  BY CutAtEnd
<1>2. PICK more : more = Append(all, turn)
  OBVIOUS
<1>3. more \in Seq(E) /\ Len(more) = Len(all) + 1 /\ more[Len(all) + 1] = turn /\ \A i \in 1 .. Len(all) : more[i] = all[i]
  BY <1>2
<1>4. k \in 1 .. Len(all) /\ k \in DOMAIN more /\ more[k] = last
  BY <1>1, <1>3
<1>5. PICK n \in DOMAIN more : more[n] = last /\ CutAt(more, last) = SubSeq(more, 1, n)
  BY <1>4, CutAtEnd
<1>6. n \in 1 .. Len(all)
  BY <1>3, <1>5
<1>7. n = k
  BY <1>1, <1>3, <1>5, <1>6 DEF Once
<1>8. SubSeq(more, 1, k) = SubSeq(all, 1, k)
  <2>1. PICK a : a = SubSeq(more, 1, k)
    OBVIOUS
  <2>2. PICK b : b = SubSeq(all, 1, k)
    OBVIOUS
  <2>3. a \in Seq(E) /\ b \in Seq(E) /\ Len(a) = k /\ Len(b) = k
    BY <1>3, <1>4, <2>1, <2>2
  <2>4. \A i \in 1 .. k : a[i] = more[i] /\ b[i] = all[i] /\ i \in 1 .. Len(all)
    BY <1>3, <1>4, <2>1, <2>2
  <2>5. \A i \in 1 .. k : a[i] = b[i]
    BY <1>3, <2>4
  <2>6. a = b
    BY <2>3, <2>5, SeqEqual
  <2> QED  BY <2>1, <2>2, <2>6
<1> QED  BY <1>1, <1>2, <1>5, <1>7, <1>8

-----------------------------------------------------------------------------
(* The histories that are stitched *)

LEMMA StitchedIs ==
  ASSUME NEW E, NEW parts \in Seq(Seq(E)), NEW segs, Len(segs) = Len(parts),
         \A i \in 1 .. Len(parts) : Part(segs[i]) = parts[i]
  PROVE Stitched(segs) = Joined(parts)
<1>1. PICK m : m = Len(parts)
  OBVIOUS
<1>2. m \in Nat /\ Len(segs) = m
  BY <1>1
<1>3. PICK g : g \in [0 .. m -> Seq(E)] /\ Joins(parts, m, g)
  BY <1>1, JoinsExists
<1>4. Glues(g, m, parts) /\ g[m] = Joined(parts)
  BY <1>1, <1>2, <1>3, JoinsGlues, GluesToJoined
<1>5. \A i \in 1 .. m : Part(segs[i]) = parts[i]
  BY <1>1
<1> DEFINE Stitches(f) == f = [i \in 0 .. m |-> IF i = 0 THEN << >> ELSE Glued(f[i - 1], Part(segs[i]))]
<1>6. Stitches(g)
  <2>1. ASSUME NEW i \in 0 .. m PROVE g[i] = IF i = 0 THEN << >> ELSE Glued(g[i - 1], Part(segs[i]))
    <3>1. i # 0 => i \in 1 .. m
      BY <1>2
    <3> QED  BY <1>4, <1>5, <3>1 DEF Glues
  <2>2. g = [i \in 0 .. m |-> g[i]]
    BY <1>3
  <2> QED  BY <2>1, <2>2
<1>7. PICK f : f = CHOOSE upTo : Stitches(upTo)
  OBVIOUS
<1>8. Stitched(segs) = f[m]
  BY <1>2, <1>7 DEF Stitched, Glued
<1> HIDE DEF Stitches
<1>9. Stitches(f)
  BY <1>6, <1>7, Zenon
<1>10. \A i \in 0 .. m : f[i] = IF i = 0 THEN << >> ELSE Glued(f[i - 1], Part(segs[i]))
  BY <1>9 DEF Stitches
<1>11. f[0] = << >>
  BY <1>2, <1>10
<1>12. ASSUME NEW i \in 1 .. m PROVE f[i] = Glued(f[i - 1], parts[i])
  <2>1. i \in 0 .. m /\ i # 0
    BY <1>2
  <2> QED  BY <1>5, <1>10, <2>1
<1>13. Glues(f, m, parts)
  BY <1>11, <1>12 DEF Glues
<1> QED  BY <1>1, <1>8, <1>13, GluesToJoined

LEMMA StitchedThen ==
  ASSUME NEW E, NEW parts \in Seq(Seq(E)), NEW segs, Len(segs) = Len(parts),
         \A i \in 1 .. Len(parts) : Part(segs[i])' = parts[i]
  PROVE Stitched(segs)' = Joined(parts)
<1>1. PICK m : m = Len(parts)
  OBVIOUS
<1>2. m \in Nat /\ Len(segs) = m
  BY <1>1
<1>3. PICK g : g \in [0 .. m -> Seq(E)] /\ Joins(parts, m, g)
  BY <1>1, JoinsExists
<1>4. Glues(g, m, parts) /\ g[m] = Joined(parts)
  BY <1>1, <1>2, <1>3, JoinsGlues, GluesToJoined
<1>5. \A i \in 1 .. m : Part(segs[i])' = parts[i]
  BY <1>1
<1> DEFINE Stitches(f) == f = [i \in 0 .. m |-> IF i = 0 THEN << >> ELSE Glued(f[i - 1], Part(segs[i])')]
<1>6. Stitches(g)
  <2>1. ASSUME NEW i \in 0 .. m PROVE g[i] = IF i = 0 THEN << >> ELSE Glued(g[i - 1], Part(segs[i])')
    <3>1. i # 0 => i \in 1 .. m
      BY <1>2
    <3> QED  BY <1>4, <1>5, <3>1 DEF Glues
  <2>2. g = [i \in 0 .. m |-> g[i]]
    BY <1>3
  <2> QED  BY <2>1, <2>2
<1>7. PICK f : f = CHOOSE upTo : Stitches(upTo)
  OBVIOUS
<1>8. Stitched(segs)' = f[m]
  BY <1>2, <1>7 DEF Stitched, Glued
<1> HIDE DEF Stitches
<1>9. Stitches(f)
  BY <1>6, <1>7, Zenon
<1>10. \A i \in 0 .. m : f[i] = IF i = 0 THEN << >> ELSE Glued(f[i - 1], Part(segs[i])')
  BY <1>9 DEF Stitches
<1>11. f[0] = << >>
  BY <1>2, <1>10
<1>12. ASSUME NEW i \in 1 .. m PROVE f[i] = Glued(f[i - 1], parts[i])
  <2>1. i \in 0 .. m /\ i # 0
    BY <1>2
  <2> QED  BY <1>5, <1>10, <2>1
<1>13. Glues(f, m, parts)
  BY <1>11, <1>12 DEF Glues
<1> QED  BY <1>1, <1>8, <1>13, GluesToJoined

LEMMA JoinedInTwo ==
  ASSUME NEW E, NEW pieces \in Seq(Seq(E)), NEW k \in 0 .. Len(pieces)
  PROVE /\ SubSeq(pieces, 1, k) \in Seq(Seq(E)) /\ SubSeq(pieces, k + 1, Len(pieces)) \in Seq(Seq(E))
        /\ Joined(pieces) = Joined(SubSeq(pieces, 1, k)) \o Joined(SubSeq(pieces, k + 1, Len(pieces)))
<1>1. PICK m : m = Len(pieces)
  OBVIOUS
<1>2. PICK a : a = SubSeq(pieces, 1, k)
  OBVIOUS
<1>3. PICK b : b = SubSeq(pieces, k + 1, m)
  OBVIOUS
<1>4. a \in Seq(Seq(E)) /\ b \in Seq(Seq(E))
  BY <1>1, <1>2, <1>3
<1>5. a \o b = pieces
  <2>1. 1 \in 1 .. m + 1 /\ k \in 1 - 1 .. m /\ m \in k .. m
    BY <1>1
  <2>2. SubSeq(pieces, 1, k) \o SubSeq(pieces, k + 1, m) = SubSeq(pieces, 1, m)
    BY <1>1, <2>1, ConcatAdjacentSubSeq
  <2>3. SubSeq(pieces, 1, m) = pieces
    BY <1>1
  <2> QED  BY <1>2, <1>3, <2>2, <2>3
<1>6. Joined(a \o b) = Joined(a) \o Joined(b)
  BY <1>4, JoinedConcat
<1> QED  BY <1>1, <1>2, <1>3, <1>4, <1>5, <1>6

LEMMA JoinedInThree ==
  ASSUME NEW E, NEW pieces \in Seq(Seq(E)), NEW k \in 1 .. Len(pieces)
  PROVE Joined(pieces) = (Joined(SubSeq(pieces, 1, k - 1)) \o pieces[k]) \o Joined(SubSeq(pieces, k + 1, Len(pieces)))
<1>1. PICK m : m = Len(pieces)
  OBVIOUS
<1>2. PICK a : a = SubSeq(pieces, 1, k - 1)
  OBVIOUS
<1>3. PICK c : c = SubSeq(pieces, 1, k)
  OBVIOUS
<1>4. k \in 0 .. m /\ k - 1 \in 0 .. m /\ m \in Nat
  BY <1>1
<1>5. Joined(pieces) = Joined(c) \o Joined(SubSeq(pieces, k + 1, m))
  BY <1>1, <1>3, <1>4, JoinedInTwo
<1>6. a \in Seq(Seq(E)) /\ pieces[k] \in Seq(E)
  BY <1>1, <1>2, <1>4
<1>7. c = Append(a, pieces[k])
  <2>1. k \in 1 .. Len(pieces) /\ 1 \in 1 .. Len(pieces) /\ k \in 1 .. Len(pieces)
    BY <1>1
  <2>2. SubSeq(pieces, 1, k) = SubSeq(pieces, 1, k - 1) \o <<pieces[k]>>
    BY <2>1, SubSeqRecursiveSecond
  <2>3. Append(a, pieces[k]) = a \o <<pieces[k]>>
    BY <1>6, AppendIsConcat
  <2> QED  BY <1>2, <1>3, <2>2, <2>3
<1>8. Joined(c) = Joined(a) \o pieces[k]
  BY <1>6, <1>7, JoinedAppend
<1> QED  BY <1>1, <1>2, <1>5, <1>8

\* Turns are numbers.
Numbers == Nat

\* What is said in the segments of a chat, given what is said in each.
Views(part) == part \in [Segments -> Seq(Numbers)]
View(part, segs) == Joined([i \in 1 .. Len(segs) |-> part[segs[i]]])

LEMMA PiecesTyped ==
  ASSUME NEW part, Views(part), NEW segs \in Seq(Segments), NEW pieces, pieces = [i \in 1 .. Len(segs) |-> part[segs[i]]]
  PROVE /\ pieces \in Seq(Seq(Numbers)) /\ Len(pieces) = Len(segs)
        /\ \A i \in 1 .. Len(segs) : segs[i] \in Segments /\ pieces[i] = part[segs[i]]
<1>1. PICK m : m = Len(segs)
  OBVIOUS
<1>2. m \in Nat /\ pieces = [i \in 1 .. m |-> part[segs[i]]]
  BY <1>1
<1>3. \A i \in 1 .. m : segs[i] \in Segments
  BY <1>1
<1>4. \A i \in 1 .. m : part[segs[i]] \in Seq(Numbers)
  BY <1>3 DEF Views
<1>5. pieces \in [1 .. m -> Seq(Numbers)]
  BY <1>2, <1>4
<1>6. pieces \in Seq(Seq(Numbers)) /\ Len(pieces) = m
  BY <1>2, <1>5
<1> QED  BY <1>1, <1>2, <1>3, <1>6

LEMMA ViewTyped == ASSUME NEW part, Views(part), NEW segs \in Seq(Segments) PROVE View(part, segs) \in Seq(Numbers)
<1>1. PICK pieces : pieces = [i \in 1 .. Len(segs) |-> part[segs[i]]]
  OBVIOUS
<1>2. pieces \in Seq(Seq(Numbers))
  BY <1>1, PiecesTyped
<1>3. View(part, segs) = Joined(pieces)
  BY <1>1 DEF View
<1> QED  BY <1>2, <1>3, JoinedTyped

LEMMA ViewAlike ==
  ASSUME NEW p, Views(p), NEW q, Views(q), NEW a \in Seq(Segments), NEW b \in Seq(Segments), Len(a) = Len(b),
         \A i \in 1 .. Len(a) : p[a[i]] = q[b[i]]
  PROVE View(p, a) = View(q, b)
<1>1. PICK c : c = [i \in 1 .. Len(a) |-> p[a[i]]]
  OBVIOUS
<1>2. c = [i \in 1 .. Len(b) |-> q[b[i]]]
  BY <1>1
<1> QED  BY <1>1, <1>2 DEF View

LEMMA ViewNone == ASSUME NEW part PROVE View(part, << >>) = << >>
<1>1. PICK segs : segs = << >>
  OBVIOUS
<1>2. Len(segs) = 0
  BY <1>1
<1>3. PICK pieces : pieces = [i \in 1 .. Len(segs) |-> part[segs[i]]]
  OBVIOUS
<1>4. pieces = << >>
  <2>1. 1 .. Len(segs) = {}
    BY <1>2
  <2>2. pieces = [i \in {} |-> part[segs[i]]]
    BY <1>3, <2>1
  <2> QED  BY <2>2
<1> QED  BY <1>1, <1>3, <1>4, JoinedNone DEF View

LEMMA ViewAppend ==
  ASSUME NEW part, Views(part), NEW segs \in Seq(Segments), NEW segment \in Segments
  PROVE View(part, Append(segs, segment)) = View(part, segs) \o part[segment]
<1>1. PICK more : more = Append(segs, segment)
  OBVIOUS
<1>2. PICK a : a = [i \in 1 .. Len(segs) |-> part[segs[i]]]
  OBVIOUS
<1>3. PICK b : b = [i \in 1 .. Len(more) |-> part[more[i]]]
  OBVIOUS
<1>4. /\ more \in Seq(Segments) /\ Len(more) = Len(segs) + 1 /\ more[Len(segs) + 1] = segment
      /\ \A i \in 1 .. Len(segs) : more[i] = segs[i]
  BY <1>1
<1>5. /\ a \in Seq(Seq(Numbers)) /\ Len(a) = Len(segs)
      /\ \A i \in 1 .. Len(segs) : a[i] = part[segs[i]]
  BY <1>2, PiecesTyped
<1>6. /\ b \in Seq(Seq(Numbers)) /\ Len(b) = Len(more)
      /\ \A i \in 1 .. Len(more) : b[i] = part[more[i]]
  BY <1>3, <1>4, PiecesTyped
<1>7. PICK piece \in Seq(Numbers) : piece = part[segment]
  BY DEF Views
<1>8. b = Append(a, piece)
  <2>1. PICK c : c = Append(a, piece)
    OBVIOUS
  <2>2. PICK m : m = Len(segs)
    OBVIOUS
  <2>3. m \in Nat /\ Len(a) = m /\ Len(b) = m + 1
    BY <1>4, <1>5, <1>6, <2>2
  <2>4. c \in Seq(Seq(Numbers)) /\ Len(c) = m + 1 /\ c[m + 1] = piece /\ \A i \in 1 .. m : c[i] = a[i]
    BY <1>5, <1>7, <2>1, <2>3
  <2>5. ASSUME NEW i \in 1 .. m + 1 PROVE b[i] = c[i]
    <3>1. CASE i = m + 1
      <4>1. m + 1 \in 1 .. m + 1
        BY <2>3
      <4>2. b[m + 1] = part[more[m + 1]] /\ more[m + 1] = segment
        BY <1>4, <1>6, <2>2, <2>3, <4>1
      <4> QED  BY <1>7, <2>4, <3>1, <4>2
    <3>2. CASE i # m + 1
      <4>1. i \in 1 .. m
        BY <2>3, <3>2
      <4>2. b[i] = part[more[i]] /\ more[i] = segs[i]
        BY <1>4, <1>6, <2>2, <2>3, <4>1
      <4>3. c[i] = part[segs[i]]
        BY <1>5, <2>2, <2>4, <4>1
      <4> QED  BY <4>2, <4>3
    <3> QED  BY <3>1, <3>2
  <2>6. Len(b) = Len(c) /\ \A i \in 1 .. Len(b) : b[i] = c[i]
    BY <2>3, <2>4, <2>5
  <2>7. b = c
    BY <1>6, <2>4, <2>6, SeqEqual
  <2> QED  BY <2>1, <2>7
<1>9. Joined(b) = Joined(a) \o piece
  BY <1>5, <1>7, <1>8, JoinedAppend
<1>10. View(part, more) = Joined(b) /\ View(part, segs) = Joined(a)
  BY <1>2, <1>3 DEF View
<1> QED  BY <1>1, <1>7, <1>9, <1>10

LEMMA ViewOne == ASSUME NEW part, Views(part), NEW segment \in Segments PROVE View(part, <<segment>>) = part[segment]
<1>1. PICK segs : segs = << >>
  OBVIOUS
<1>2. segs \in Seq(Segments) /\ Append(segs, segment) = <<segment>>
  BY <1>1
<1>3. View(part, <<segment>>) = View(part, segs) \o part[segment]
  BY <1>2, ViewAppend
<1>4. View(part, segs) = << >>
  BY <1>1, ViewNone
<1>5. part[segment] \in Seq(Numbers)
  BY DEF Views
<1>6. << >> \o part[segment] = part[segment]
  BY <1>5
<1> QED  BY <1>3, <1>4, <1>6

\* The history before a segment, in it, and after it.
LEMMA ViewParted ==
  ASSUME NEW part, Views(part), NEW segs \in Seq(Segments), NEW k \in 1 .. Len(segs)
  PROVE /\ SubSeq(segs, 1, k - 1) \in Seq(Segments) /\ SubSeq(segs, k + 1, Len(segs)) \in Seq(Segments)
        /\ View(part, segs) =
             (View(part, SubSeq(segs, 1, k - 1)) \o part[segs[k]]) \o View(part, SubSeq(segs, k + 1, Len(segs)))
<1>1. PICK m : m = Len(segs)
  OBVIOUS
<1>2. m \in Nat /\ k \in 1 .. m
  BY <1>1
<1>3. PICK before : before = SubSeq(segs, 1, k - 1)
  OBVIOUS
<1>4. PICK after : after = SubSeq(segs, k + 1, m)
  OBVIOUS
<1>5. /\ before \in Seq(Segments) /\ Len(before) = k - 1 /\ \A i \in 1 .. k - 1 : before[i] = segs[i]
  BY <1>1, <1>2, <1>3
<1>6. /\ after \in Seq(Segments) /\ Len(after) = m - k /\ \A i \in 1 .. m - k : after[i] = segs[k + i]
  BY <1>1, <1>2, <1>4
<1>7. PICK pieces : pieces = [i \in 1 .. Len(segs) |-> part[segs[i]]]
  OBVIOUS
<1>8. /\ pieces \in Seq(Seq(Numbers)) /\ Len(pieces) = m /\ \A i \in 1 .. m : pieces[i] = part[segs[i]]
  BY <1>1, <1>7, PiecesTyped
<1>9. PICK a : a = [i \in 1 .. Len(before) |-> part[before[i]]]
  OBVIOUS
<1>10. /\ a \in Seq(Seq(Numbers)) /\ Len(a) = k - 1 /\ \A i \in 1 .. k - 1 : a[i] = part[before[i]]
  <2> before \in Seq(Segments)
    BY <1>5
  <2>1. a \in Seq(Seq(Numbers)) /\ Len(a) = Len(before) /\ \A i \in 1 .. Len(before) : a[i] = part[before[i]]
    BY <1>9, PiecesTyped
  <2> QED  BY <1>5, <2>1
<1>11. PICK b : b = [i \in 1 .. Len(after) |-> part[after[i]]]
  OBVIOUS
<1>12. /\ b \in Seq(Seq(Numbers)) /\ Len(b) = m - k /\ \A i \in 1 .. m - k : b[i] = part[after[i]]
  <2> after \in Seq(Segments)
    BY <1>6
  <2>1. b \in Seq(Seq(Numbers)) /\ Len(b) = Len(after) /\ \A i \in 1 .. Len(after) : b[i] = part[after[i]]
    BY <1>11, PiecesTyped
  <2> QED  BY <1>6, <2>1
<1>13. a = SubSeq(pieces, 1, k - 1)
  <2>1. PICK c : c = SubSeq(pieces, 1, k - 1)
    OBVIOUS
  <2>2. c \in Seq(Seq(Numbers)) /\ Len(c) = k - 1 /\ \A i \in 1 .. k - 1 : c[i] = pieces[i] /\ i \in 1 .. m
    BY <1>2, <1>8, <2>1
  <2>3. ASSUME NEW i \in 1 .. k - 1 PROVE a[i] = c[i]
    <3>1. a[i] = part[segs[i]]
      BY <1>5, <1>10
    <3>2. c[i] = part[segs[i]]
      BY <1>8, <2>2
    <3> QED  BY <3>1, <3>2
  <2>4. a = c
    BY <1>10, <2>2, <2>3, SeqEqual
  <2> QED  BY <2>1, <2>4
<1>14. b = SubSeq(pieces, k + 1, m)
  <2>1. PICK c : c = SubSeq(pieces, k + 1, m)
    OBVIOUS
  <2>2. c \in Seq(Seq(Numbers)) /\ Len(c) = m - k /\ \A i \in 1 .. m - k : c[i] = pieces[k + i] /\ k + i \in 1 .. m
    BY <1>2, <1>8, <2>1
  <2>3. ASSUME NEW i \in 1 .. m - k PROVE b[i] = c[i]
    <3>1. b[i] = part[segs[k + i]]
      BY <1>6, <1>12
    <3>2. c[i] = part[segs[k + i]]
      BY <1>8, <2>2
    <3> QED  BY <3>1, <3>2
  <2>4. b = c
    BY <1>12, <2>2, <2>3, SeqEqual
  <2> QED  BY <2>1, <2>4
<1>15. Joined(pieces) = (Joined(a) \o pieces[k]) \o Joined(b)
  BY <1>2, <1>8, <1>13, <1>14, JoinedInThree
<1>16. View(part, segs) = Joined(pieces) /\ View(part, before) = Joined(a) /\ View(part, after) = Joined(b)
  BY <1>7, <1>9, <1>11 DEF View
<1> QED  BY <1>1, <1>3, <1>4, <1>5, <1>6, <1>8, <1>15, <1>16

LEMMA FirstsOf ==
  ASSUME NEW E, NEW a \in Seq(E), NEW b \in Seq(E)
  PROVE SubSeq(a \o b, 1, Len(a)) = a /\ Len(a) <= Len(a \o b)
<1>1. PICK c : c = a \o b
  OBVIOUS
<1>2. c \in Seq(E) /\ Len(c) = Len(a) + Len(b) /\ \A i \in 1 .. Len(a) : c[i] = a[i]
  BY <1>1
<1>3. PICK d : d = SubSeq(c, 1, Len(a))
  OBVIOUS
<1>4. d \in Seq(E) /\ Len(d) = Len(a) /\ \A i \in 1 .. Len(a) : d[i] = c[i]
  BY <1>2, <1>3
<1>5. \A i \in 1 .. Len(d) : d[i] = a[i]
  BY <1>2, <1>4
<1>6. d = a
  BY <1>4, <1>5, SeqEqual
<1> QED  BY <1>1, <1>2, <1>3, <1>6

LEMMA MiddleOf ==
  ASSUME NEW E, NEW a \in Seq(E), NEW b \in Seq(E), NEW c \in Seq(E)
  PROVE SubSeq((a \o b) \o c, Len(a) + 1, Len(a) + Len(b)) = b /\ Len((a \o b) \o c) = Len(a) + Len(b) + Len(c)
<1>1. PICK s : s = (a \o b) \o c
  OBVIOUS
<1>2. s \in Seq(E) /\ Len(s) = Len(a) + Len(b) + Len(c) /\ \A i \in 1 .. Len(b) : s[Len(a) + i] = b[i]
  BY <1>1
<1>3. PICK d : d = SubSeq(s, Len(a) + 1, Len(a) + Len(b))
  OBVIOUS
<1>4. d \in Seq(E) /\ Len(d) = Len(b) /\ \A i \in 1 .. Len(b) : d[i] = s[Len(a) + i]
  BY <1>2, <1>3
<1>5. \A i \in 1 .. Len(d) : d[i] = b[i]
  BY <1>2, <1>4
<1>6. d = b
  BY <1>4, <1>5, SeqEqual
<1> QED  BY <1>1, <1>2, <1>3, <1>6

LEMMA RestOf ==
  ASSUME NEW E, NEW a \in Seq(E), NEW b \in Seq(E)
  PROVE SubSeq(a \o b, Len(a) + 1, Len(a \o b)) = b
<1>1. PICK none : none = << >>
  OBVIOUS
<1>2. none \in Seq(E) /\ (a \o b) \o none = a \o b /\ Len(none) = 0
  BY <1>1
<1>3. /\ SubSeq((a \o b) \o none, Len(a) + 1, Len(a) + Len(b)) = b
      /\ Len((a \o b) \o none) = Len(a) + Len(b) + Len(none)
  BY <1>2, MiddleOf
<1>4. Len(a \o b) = Len(a) + Len(b)
  OBVIOUS
<1> QED  BY <1>2, <1>3, <1>4

\* The first turns of a thread say the first of what it says.
Begins(first, all) == \E rest \in Seq(Numbers) : all = first \o rest

LEMMA WithoutFirsts ==
  ASSUME NEW history \in Seq(Numbers), NEW n \in 0 .. Len(history), NEW out
  PROVE Begins(Without(SubSeq(history, 1, n), out), Without(history, out))
<1>1. PICK m : m = Len(history)
  OBVIOUS
<1>2. PICK a : a = SubSeq(history, 1, n)
  OBVIOUS
<1>3. PICK b : b = SubSeq(history, n + 1, m)
  OBVIOUS
<1>4. a \in Seq(Numbers) /\ b \in Seq(Numbers)
  BY <1>1, <1>2, <1>3
<1>5. a \o b = history
  <2>1. 1 \in 1 .. m + 1 /\ n \in 1 - 1 .. m /\ m \in n .. m
    BY <1>1
  <2>2. SubSeq(history, 1, n) \o SubSeq(history, n + 1, m) = SubSeq(history, 1, m)
    BY <1>1, <2>1, ConcatAdjacentSubSeq
  <2>3. SubSeq(history, 1, m) = history
    BY <1>1
  <2> QED  BY <1>2, <1>3, <2>2, <2>3
<1>6. Without(a \o b, out) = Without(a, out) \o Without(b, out)
  BY <1>4, WithoutConcat
<1>7. Without(b, out) \in Seq(Numbers)
  BY <1>4, WithoutTyped
<1> QED  BY <1>2, <1>5, <1>6, <1>7 DEF Begins

Regroups(a, b, c) == (a \o b) \o c = a \o (b \o c)
LEMMA Regroup == ASSUME NEW a \in Seq(Numbers), NEW b \in Seq(Numbers), NEW c \in Seq(Numbers) PROVE Regroups(a, b, c)
BY Associates DEF Regroups

\* The second, after the first, in the whole.
SecondIn(a, b, all) ==
  /\ Len(a) + Len(b) \in 0 .. Len(all) /\ a \o b = SubSeq(all, 1, Len(a) + Len(b))
  /\ b = SubSeq(all, Len(a) + 1, Len(a) + Len(b))

LEMMA FirstTwo ==
  ASSUME NEW a \in Seq(Numbers), NEW b \in Seq(Numbers), NEW c \in Seq(Numbers), NEW d \in Seq(Numbers),
         NEW all, all = (a \o (b \o c)) \o d
  PROVE SecondIn(a, b, all)
<1>1. PICK ab : ab = a \o b
  OBVIOUS
<1>2. PICK cd : cd = c \o d
  OBVIOUS
<1>3. ab \in Seq(Numbers) /\ Len(ab) = Len(a) + Len(b) /\ cd \in Seq(Numbers)
  BY <1>1, <1>2
<1>4. a \o (b \o c) = ab \o c
  <2>1. Regroups(a, b, c)
    BY Regroup
  <2> QED  BY <1>1, <2>1 DEF Regroups
<1>5. all = ab \o cd
  <2>0. ab \in Seq(Numbers) /\ c \in Seq(Numbers) /\ d \in Seq(Numbers)
    BY <1>3
  <2>1. (ab \o c) \o d = ab \o (c \o d)
    <3>1. Regroups(ab, c, d)
      BY <2>0, Regroup
    <3> QED  BY <3>1 DEF Regroups
  <2>2. all = (ab \o c) \o d
    BY <1>4
  <2> QED  BY <1>2, <2>1, <2>2
<1>6. SubSeq(ab \o cd, 1, Len(ab)) = ab /\ Len(ab) <= Len(ab \o cd)
  BY <1>3, FirstsOf
<1>7. SubSeq((a \o b) \o cd, Len(a) + 1, Len(a) + Len(b)) = b
  BY <1>3, MiddleOf
<1>8. Len(all) \in Nat /\ Len(a) \in Nat /\ Len(b) \in Nat
  <2>1. ab \o cd \in Seq(Numbers)
    BY <1>3
  <2> QED  BY <1>5, <2>1
<1> QED  BY <1>1, <1>3, <1>5, <1>6, <1>7, <1>8 DEF SecondIn

\* What is kept up to the n-th turn of a segment is the first of the history.
LEMMA KeptIsFirst ==
  ASSUME NEW part, Views(part), NEW segs \in Seq(Segments), NEW at \in 1 .. Len(segs),
         NEW cut \in Seq(Numbers), NEW n \in 0 .. Len(cut), NEW out, part[segs[at]] = Without(cut, out),
         NEW older, older = View(part, SubSeq(segs, 1, at - 1)), NEW kept, kept = Without(SubSeq(cut, 1, n), out),
         NEW all, all = View(part, segs)
  PROVE older \in Seq(Numbers) /\ kept \in Seq(Numbers) /\ SecondIn(older, kept, all)
<1>0. PICK after : after = View(part, SubSeq(segs, at + 1, Len(segs)))
  OBVIOUS
<1>1. View(part, segs) = (older \o part[segs[at]]) \o after /\ after \in Seq(Numbers)
  <2>1. SubSeq(segs, at + 1, Len(segs)) \in Seq(Segments) /\ View(part, segs) = (older \o part[segs[at]]) \o after
    BY <1>0, ViewParted
  <2>2. after \in Seq(Numbers)
    BY <1>0, <2>1, ViewTyped
  <2> QED  BY <2>1, <2>2
<1>2. older \in Seq(Numbers)
  <2>1. SubSeq(segs, 1, at - 1) \in Seq(Segments)
    BY ViewParted
  <2> QED  BY <2>1, ViewTyped
<1>3. PICK rest \in Seq(Numbers) : part[segs[at]] = kept \o rest
  <2>1. Begins(kept, part[segs[at]])
    BY WithoutFirsts
  <2> QED  BY <2>1 DEF Begins
<1>4. kept \in Seq(Numbers)
  <2>1. SubSeq(cut, 1, n) \in Seq(Numbers)
    OBVIOUS
  <2> QED  BY <2>1, WithoutTyped
<1>5. rest \in Seq(Numbers) /\ after \in Seq(Numbers) /\ all = (older \o (kept \o rest)) \o after
  BY <1>1, <1>3
<1>6. SecondIn(older, kept, all)
  <2>1. older \in Seq(Numbers) /\ kept \in Seq(Numbers) /\ rest \in Seq(Numbers) /\ after \in Seq(Numbers)
    BY <1>2, <1>4, <1>5
  <2>2. all = (older \o (kept \o rest)) \o after
    BY <1>5
  <2> QED  BY <2>1, <2>2, FirstTwo
<1> QED  BY <1>2, <1>4, <1>6

\* A history without a run of its turns.
CutOut(old, new) ==
  \E from \in DOMAIN old : \E to \in from .. Len(old) :
    new = SubSeq(old, 1, from - 1) \o SubSeq(old, to + 1, Len(old))

LEMMA CutOutMiddle ==
  ASSUME NEW a \in Seq(Numbers), NEW b \in Seq(Numbers), NEW c \in Seq(Numbers), b # << >>, NEW old, old = (a \o b) \o c
  PROVE CutOut(old, a \o c)
<1>1. PICK from : from = Len(a) + 1
  OBVIOUS
<1>2. PICK to : to = Len(a) + Len(b)
  OBVIOUS
<1>3. PICK ab : ab = a \o b
  OBVIOUS
<1>4. PICK bc : bc = b \o c
  OBVIOUS
<1>5. ab \in Seq(Numbers) /\ Len(ab) = Len(a) + Len(b) /\ bc \in Seq(Numbers) /\ Len(bc) = Len(b) + Len(c)
  BY <1>3, <1>4
<1>6. old = ab \o c /\ old = a \o bc
  <2>1. Regroups(a, b, c)
    BY Regroup
  <2> QED  BY <1>3, <1>4, <2>1 DEF Regroups
<1>7. old \in Seq(Numbers) /\ Len(old) = Len(a) + Len(bc)
  <2>0. bc \in Seq(Numbers)
    BY <1>5
  <2>1. a \o bc \in Seq(Numbers) /\ Len(a \o bc) = Len(a) + Len(bc)
    BY <2>0
  <2> QED  BY <1>6, <2>1
<1>8. Len(a) \in Nat /\ Len(b) \in Nat /\ Len(c) \in Nat /\ Len(b) > 0
  OBVIOUS
<1>9. SubSeq(old, 1, Len(a)) = a
  BY <1>5, <1>6, FirstsOf
<1>10. SubSeq(old, to + 1, Len(old)) = c
  BY <1>2, <1>5, <1>6, RestOf
<1>11. from \in 1 .. Len(old) /\ to \in from .. Len(old) /\ from - 1 = Len(a)
  BY <1>1, <1>2, <1>5, <1>7, <1>8
<1>12. from \in DOMAIN old
  BY <1>7, <1>11
<1> QED  BY <1>9, <1>10, <1>11, <1>12 DEF CutOut

LEMMA ViewEmptied ==
  ASSUME NEW p, Views(p), NEW q, Views(q), NEW segs \in Seq(Segments), NEW k \in 1 .. Len(segs), q[segs[k]] = << >>,
         \A i \in 1 .. Len(segs) : i # k => p[segs[i]] = q[segs[i]],
         NEW old, old = View(p, segs), NEW new, new = View(q, segs)
  PROVE new = old \/ CutOut(old, new)
<1>1. PICK before : before = SubSeq(segs, 1, k - 1)
  OBVIOUS
<1>2. PICK after : after = SubSeq(segs, k + 1, Len(segs))
  OBVIOUS
<1>3. before \in Seq(Segments) /\ after \in Seq(Segments)
  BY <1>1, <1>2, ViewParted
<1>4. View(p, before) = View(q, before)
  <2>1. Len(before) = k - 1 /\ \A i \in 1 .. k - 1 : before[i] = segs[i]
    BY <1>1
  <2>2. \A i \in 1 .. Len(before) : before[i] = segs[i] /\ i \in 1 .. Len(segs) /\ i # k
    BY <2>1
  <2>3. \A i \in 1 .. Len(before) : p[before[i]] = q[before[i]]
    BY <2>2
  <2> QED  BY <1>3, <2>3, ViewAlike
<1>5. View(p, after) = View(q, after)
  <2>1. Len(after) = Len(segs) - k /\ \A i \in 1 .. Len(segs) - k : after[i] = segs[k + i]
    BY <1>2
  <2>2. \A i \in 1 .. Len(after) : after[i] = segs[k + i] /\ k + i \in 1 .. Len(segs) /\ k + i # k
    BY <2>1
  <2>3. ASSUME NEW i \in 1 .. Len(after) PROVE p[after[i]] = q[after[i]]
    <3>1. PICK j : j = k + i
      OBVIOUS
    <3>2. after[i] = segs[j] /\ j \in 1 .. Len(segs) /\ j # k
      BY <2>2, <3>1
    <3> QED  BY <3>2
  <2> QED  BY <1>3, <2>3, ViewAlike
<1>6. PICK a \in Seq(Numbers) : a = View(p, before)
  BY <1>3, ViewTyped
<1>7. PICK c \in Seq(Numbers) : c = View(p, after)
  BY <1>3, ViewTyped
<1>8. PICK b \in Seq(Numbers) : b = p[segs[k]]
  BY DEF Views
<1>9. old = (a \o b) \o c
  BY <1>1, <1>2, <1>6, <1>7, <1>8, ViewParted
<1>10. new = a \o c
  <2>1. new = (a \o << >>) \o c
    BY <1>1, <1>2, <1>4, <1>5, <1>6, <1>7, ViewParted
  <2>2. a \o << >> = a
    BY <1>6
  <2> QED  BY <2>1, <2>2
<1>11. CASE b = << >>
  <2>1. a \o b = a
    BY <1>6, <1>11
  <2> QED  BY <1>9, <1>10, <2>1
<1>12. CASE b # << >>
  <2>1. a \in Seq(Numbers) /\ b \in Seq(Numbers) /\ c \in Seq(Numbers)
    BY <1>6, <1>7, <1>8
  <2> QED  BY <1>9, <1>10, <1>12, <2>1, CutOutMiddle
<1> QED  BY <1>11, <1>12

-----------------------------------------------------------------------------
(* What the threads of a state say *)

LEMMA SeqWider == ASSUME NEW S, NEW N, S \subseteq N, NEW s \in Seq(S) PROVE s \in Seq(N)
<1>1. Len(s) \in Nat /\ s = [i \in 1 .. Len(s) |-> s[i]] /\ \A i \in 1 .. Len(s) : s[i] \in S
  OBVIOUS
<1> QED  BY <1>1

LEMMA TurnsTyped ==
  ASSUME ThreadsOK, NEW segment
  PROVE Cut(segment) \in Seq(1 .. turns) /\ Cut(segment) \in Seq(Numbers) /\ Part(segment) \in Seq(Numbers)
<1>1. Cut(segment) \in Seq(1 .. turns)
  <2>1. CASE segment.thread \in DOMAIN native
    <3>1. native[segment.thread] \in Seq(1 .. turns)
      BY <2>1 DEF ThreadsOK
    <3>2. CutAt(native[segment.thread], segment.last) \in Seq(1 .. turns)
      BY <3>1, CutAtFirsts
    <3> QED  BY <2>1, <3>2, CutIs
  <2>2. CASE segment.thread \notin DOMAIN native
    <3>1. Cut(segment) = << >>
      BY <2>2, CutIs
    <3> QED  BY <3>1
  <2> QED  BY <2>1, <2>2
<1>2. Cut(segment) \in Seq(Numbers)
  <2>1. turns \in Nat
    BY BoundsAssumption DEF ThreadsOK
  <2>2. 1 .. turns \subseteq Numbers
    BY <2>1 DEF Numbers
  <2> QED  BY <1>1, <2>2, SeqWider
<1>3. Part(segment) \in Seq(Numbers)
  BY <1>2, WithoutTyped DEF Part, Said
<1> QED  BY <1>1, <1>2, <1>3

LEMMA TurnsTypedThen ==
  ASSUME ThreadsOK', NEW segment
  PROVE Cut(segment)' \in Seq(1 .. turns') /\ Cut(segment)' \in Seq(Numbers) /\ Part(segment)' \in Seq(Numbers)
<1>1. Cut(segment)' \in Seq(1 .. turns')
  <2>1. CASE segment.thread \in DOMAIN native'
    <3>1. native'[segment.thread] \in Seq(1 .. turns')
      BY <2>1 DEF ThreadsOK
    <3>2. CutAt(native'[segment.thread], segment.last) \in Seq(1 .. turns')
      BY <3>1, CutAtFirsts
    <3> QED  BY <2>1, <3>2, CutIs
  <2>2. CASE segment.thread \notin DOMAIN native'
    <3>1. Cut(segment)' = << >>
      BY <2>2, CutIs
    <3> QED  BY <3>1
  <2> QED  BY <2>1, <2>2
<1>2. Cut(segment)' \in Seq(Numbers)
  <2>1. turns' \in Nat
    BY BoundsAssumption DEF ThreadsOK
  <2>2. 1 .. turns' \subseteq Numbers
    BY <2>1 DEF Numbers
  <2> QED  BY <1>1, <2>2, SeqWider
<1>3. Part(segment)' \in Seq(Numbers)
  <2>1. Part(segment)' = Without(Cut(segment)', noops')
    BY DEF Part, Said
  <2> QED  BY <1>2, <2>1, WithoutTyped
<1> QED  BY <1>1, <1>2, <1>3

\* What each segment says.
PartsSaid == [segment \in Segments |-> Part(segment)]

LEMMA PartsTyped == ASSUME ThreadsOK PROVE Views(PartsSaid) /\ \A segment \in Segments : PartsSaid[segment] = Part(segment)
BY TurnsTyped DEF Views, PartsSaid
LEMMA PartsTypedThen ==
  ASSUME ThreadsOK' PROVE Views(PartsSaid') /\ \A segment \in Segments : PartsSaid'[segment] = Part(segment)'
BY TurnsTypedThen DEF Views, PartsSaid

LEMMA StitchedView == ASSUME ThreadsOK, NEW segs \in Seq(Segments) PROVE Stitched(segs) = View(PartsSaid, segs)
<1>1. PICK pieces : pieces = [i \in 1 .. Len(segs) |-> PartsSaid[segs[i]]]
  OBVIOUS
<1>2. Views(PartsSaid)
  BY PartsTyped
<1>3. /\ pieces \in Seq(Seq(Numbers)) /\ Len(pieces) = Len(segs)
      /\ \A i \in 1 .. Len(segs) : segs[i] \in Segments /\ pieces[i] = PartsSaid[segs[i]]
  BY <1>1, <1>2, PiecesTyped
<1>4. \A i \in 1 .. Len(pieces) : Part(segs[i]) = pieces[i]
  BY <1>3, PartsTyped
<1>5. Stitched(segs) = Joined(pieces)
  BY <1>3, <1>4, StitchedIs
<1> QED  BY <1>1, <1>5 DEF View

LEMMA StitchedViewThen == ASSUME ThreadsOK', NEW segs \in Seq(Segments) PROVE Stitched(segs)' = View(PartsSaid', segs)
<1>1. PICK part : part = PartsSaid'
  OBVIOUS
<1>2. Views(part) /\ \A segment \in Segments : part[segment] = Part(segment)'
  BY <1>1, PartsTypedThen
<1>3. PICK pieces : pieces = [i \in 1 .. Len(segs) |-> part[segs[i]]]
  OBVIOUS
<1>4. /\ pieces \in Seq(Seq(Numbers)) /\ Len(pieces) = Len(segs)
      /\ \A i \in 1 .. Len(segs) : segs[i] \in Segments /\ pieces[i] = part[segs[i]]
  BY <1>2, <1>3, PiecesTyped
<1>5. \A i \in 1 .. Len(pieces) : Part(segs[i])' = pieces[i]
  BY <1>2, <1>4
<1>6. Stitched(segs)' = Joined(pieces)
  BY <1>4, <1>5, StitchedThen
<1> QED  BY <1>1, <1>3, <1>6 DEF View

LEMMA StitchedTyped ==
  ASSUME NEW segs \in Seq(Segments)
  PROVE (ThreadsOK => Stitched(segs) \in Seq(Numbers)) /\ (ThreadsOK' => Stitched(segs)' \in Seq(Numbers))
<1>1. ASSUME ThreadsOK PROVE Stitched(segs) \in Seq(Numbers)
  BY <1>1, PartsTyped, StitchedView, ViewTyped
<1>2. ASSUME ThreadsOK' PROVE Stitched(segs)' \in Seq(Numbers)
  <2>1. PICK part : part = PartsSaid'
    OBVIOUS
  <2>2. Views(part) /\ Stitched(segs)' = View(part, segs)
    BY <1>2, <2>1, PartsTypedThen, StitchedViewThen
  <2> QED  BY <2>2, ViewTyped
<1> QED  BY <1>1, <1>2

\* Segments that say the same, before and after a step.
LEMMA StitchedStays ==
  ASSUME ThreadsOK, ThreadsOK', NEW segs \in Seq(Segments), NEW then \in Seq(Segments), Len(then) = Len(segs),
         \A i \in 1 .. Len(segs) : Part(then[i])' = Part(segs[i])
  PROVE Stitched(then)' = Stitched(segs)
<1>1. PICK part : part = PartsSaid'
  OBVIOUS
<1>2. PICK was : was = PartsSaid
  OBVIOUS
<1>3. /\ Views(part) /\ Stitched(then)' = View(part, then) /\ \A segment \in Segments : part[segment] = Part(segment)'
      /\ Views(was) /\ Stitched(segs) = View(was, segs) /\ \A segment \in Segments : was[segment] = Part(segment)
  BY <1>1, <1>2, PartsTyped, PartsTypedThen, StitchedView, StitchedViewThen
<1>4. \A i \in 1 .. Len(segs) : segs[i] \in Segments /\ then[i] \in Segments
  OBVIOUS
<1>5. \A i \in 1 .. Len(segs) : was[segs[i]] = part[then[i]]
  BY <1>3, <1>4
<1> QED  BY <1>3, <1>5, ViewAlike

LEMMA StitchedOn ==
  ASSUME NEW segs \in Seq(Segments), NEW segment \in Segments
  PROVE /\ ThreadsOK => Stitched(Append(segs, segment)) = Stitched(segs) \o Part(segment)
        /\ ThreadsOK' => Stitched(Append(segs, segment))' = Stitched(segs)' \o Part(segment)'
<1>1. Append(segs, segment) \in Seq(Segments)
  OBVIOUS
<1>2. ASSUME ThreadsOK PROVE Stitched(Append(segs, segment)) = Stitched(segs) \o Part(segment)
  <2>1. PICK part : part = PartsSaid
    OBVIOUS
  <2>2. Views(part) /\ \A s \in Segments : part[s] = Part(s)
    BY <1>2, <2>1, PartsTyped
  <2>3. Stitched(segs) = View(part, segs) /\ Stitched(Append(segs, segment)) = View(part, Append(segs, segment))
    BY <1>1, <1>2, <2>1, StitchedView
  <2>4. View(part, Append(segs, segment)) = View(part, segs) \o part[segment]
    BY <2>2, ViewAppend
  <2> QED  BY <2>2, <2>3, <2>4
<1>3. ASSUME ThreadsOK' PROVE Stitched(Append(segs, segment))' = Stitched(segs)' \o Part(segment)'
  <2>1. PICK part : part = PartsSaid'
    OBVIOUS
  <2>2. Views(part) /\ \A s \in Segments : part[s] = Part(s)'
    BY <1>3, <2>1, PartsTypedThen
  <2>3. PICK more \in Seq(Segments) : more = Append(segs, segment)
    BY <1>1
  <2>4. Stitched(segs)' = View(part, segs) /\ Stitched(more)' = View(part, more)
    BY <1>3, <2>1, StitchedViewThen
  <2>5. View(part, Append(segs, segment)) = View(part, segs) \o part[segment]
    BY <2>2, ViewAppend
  <2> QED  BY <2>2, <2>3, <2>4, <2>5
<1> QED  BY <1>2, <1>3

-----------------------------------------------------------------------------
(* Threads that a step leaves as they are, for those who list them *)

NoopsGrow == noops' = noops \/ noops' = noops \cup {NextTurn}
Same(t) == (t \in DOMAIN native <=> t \in DOMAIN native') /\ (t \in DOMAIN native => native'[t] = native[t])
Elsewhere(thread) == NoopsGrow /\ \A t : t # thread => Same(t)

\* A segment with the turns it had.
Frozen(segment) ==
  /\ Cut(segment)' = Cut(segment) /\ Part(segment)' = Part(segment)
  /\ segment.thread \in DOMAIN native <=> segment.thread \in DOMAIN native'

LEMMA NoopsApart ==
  ASSUME ThreadsOK, NoopsGrow, NEW history \in Seq(1 .. turns)
  PROVE Without(history, noops') = Without(history, noops)
<1>1. \A e \in 1 .. turns : e \in noops' <=> e \in noops
  <2>1. turns \in Nat
    BY BoundsAssumption DEF ThreadsOK
  <2>2. \A e \in 1 .. turns : e # NextTurn
    BY <2>1 DEF NextTurn
  <2> QED  BY <2>2 DEF NoopsGrow
<1>2. PICK E : E = 1 .. turns
  OBVIOUS
<1>3. PICK out : out = noops'
  OBVIOUS
<1>4. PICK less : less = noops
  OBVIOUS
<1>5. history \in Seq(E) /\ \A e \in E : e \in out <=> e \in less
  BY <1>1, <1>2, <1>3, <1>4
<1>6. Without(history, out) = Without(history, less)
  BY <1>5, WithoutSame
<1> QED  BY <1>3, <1>4, <1>6

LEMMA CutFrozen ==
  ASSUME ThreadsOK, NoopsGrow, NEW segment, Cut(segment)' = Cut(segment),
         segment.thread \in DOMAIN native <=> segment.thread \in DOMAIN native'
  PROVE Frozen(segment)
<1>1. PICK history : history = Cut(segment)
  OBVIOUS
<1>2. history \in Seq(1 .. turns)
  BY <1>1, TurnsTyped
<1>3. Without(history, noops') = Without(history, noops)
  BY <1>2, NoopsApart
<1>4. Part(segment)' = Without(history, noops') /\ Part(segment) = Without(history, noops)
  BY <1>1 DEF Part, Said
<1> QED  BY <1>3, <1>4 DEF Frozen

LEMMA SameFrozen == ASSUME ThreadsOK, NoopsGrow, NEW segment, Same(segment.thread) PROVE Frozen(segment)
<1>1. Cut(segment)' = Cut(segment)
  BY CutIs DEF Same
<1> QED  BY <1>1, CutFrozen DEF Same

LEMMA MoreFirsts ==
  ASSUME NEW E, NEW all \in Seq(E), NEW turn, NEW k \in 1 .. Len(all)
  PROVE SubSeq(Append(all, turn), 1, k) = SubSeq(all, 1, k)
<1>1. PICK E2 : E2 = E \cup {turn}
  OBVIOUS
<1>2. all \in Seq(E2)
  BY <1>1, SeqWider
<1>3. PICK more : more = Append(all, turn)
  OBVIOUS
<1>4. more \in Seq(E2) /\ Len(more) = Len(all) + 1 /\ \A i \in 1 .. Len(all) : more[i] = all[i]
  BY <1>1, <1>2, <1>3
<1>5. PICK a : a = SubSeq(more, 1, k)
  OBVIOUS
<1>6. PICK b : b = SubSeq(all, 1, k)
  OBVIOUS
<1>7. a \in Seq(E2) /\ Len(a) = k /\ \A i \in 1 .. k : a[i] = more[i]
  BY <1>4, <1>5
<1>8. b \in Seq(E2) /\ Len(b) = k /\ \A i \in 1 .. k : b[i] = all[i]
  BY <1>2, <1>6
<1>9. \A i \in 1 .. k : a[i] = b[i]
  BY <1>4, <1>7, <1>8
<1>10. a = b
  BY <1>7, <1>8, <1>9, SeqEqual
<1> QED  BY <1>3, <1>5, <1>6, <1>10

\* What is said in a thread comes after the last turn that a segment counts.
LEMMA SaidFrozen ==
  ASSUME ThreadsOK, NoopsGrow, NEW thread \in DOMAIN native, Say(thread, NextTurn), NEW segment, segment.thread = thread,
         segment.last \in Range(native[thread])
  PROVE Frozen(segment)
<1>1. PICK all : all = native[thread]
  OBVIOUS
<1>2. all \in Seq(1 .. turns) /\ turns \in Nat
  BY <1>1, BoundsAssumption DEF ThreadsOK
<1>3. native'[thread] = Append(all, NextTurn) /\ DOMAIN native' = DOMAIN native
  BY <1>1 DEF Say
<1>4. PICK last : last = segment.last
  OBVIOUS
<1>5. PICK j \in DOMAIN all : all[j] = last
  BY <1>1, <1>4 DEF Range
<1>6. last # NextTurn
  BY <1>2, <1>5 DEF NextTurn
<1>7. CutAt(Append(all, NextTurn), last) = CutAt(all, last)
  <2>1. PICK more : more = Append(all, NextTurn)
    OBVIOUS
  <2>2. /\ DOMAIN all = 1 .. Len(all) /\ DOMAIN more = 1 .. Len(all) + 1 /\ Len(all) \in Nat
        /\ more[Len(all) + 1] = NextTurn /\ \A k \in 1 .. Len(all) : more[k] = all[k]
    BY <1>2, <2>1
  <2>3. {k \in DOMAIN more : more[k] = last} = {k \in DOMAIN all : all[k] = last}
    BY <1>6, <2>2
  <2>4. PICK ends : ends = {k \in DOMAIN all : all[k] = last}
    OBVIOUS
  <2>5. PICK k : k = CHOOSE e \in ends : TRUE
    OBVIOUS
  <2>6. k \in 1 .. Len(all)
    BY <1>5, <2>2, <2>4, <2>5
  <2>7. SubSeq(more, 1, k) = SubSeq(all, 1, k)
    BY <1>2, <2>1, <2>6, MoreFirsts
  <2>8. CutAt(more, last) = SubSeq(more, 1, k) /\ CutAt(all, last) = SubSeq(all, 1, k)
    BY <1>5, <2>3, <2>4, <2>5 DEF CutAt
  <2> QED  BY <2>1, <2>7, <2>8
<1>8. Cut(segment)' = CutAt(Append(all, NextTurn), last) /\ Cut(segment) = CutAt(all, last)
  BY <1>1, <1>3, <1>4, CutIs
<1> QED  BY <1>3, <1>7, <1>8, CutFrozen

\* A chat's own segment, its row or one after it.
Own(segs, chat, i) == \E row \in 1 .. i : segs[row].thread = chat

\* An older segment of a source's, where the source's thread goes on.
Longer(c, segs, i) == i \in 1 .. Len(segs) - 1 /\ ~Own(segs, c, i) /\ Frozen(segs[i]) /\ ~Rolling(c, i)
StillAs(c) == \A i \in DOMAIN SegmentsOf(c) : Same(SegmentsOf(c)[i].thread) \/ Longer(c, SegmentsOf(c), i)

\* Chats: what has a lineage, and what no lineage lists and no request is about to list or discard.
Known(c) == c \in DOMAIN lineages \/ (Unlisted(c) /\ \A y \in Busy : c \notin Passing(y))
Still(own) == NoopsGrow /\ \A c \in DOMAIN provider : c # own /\ Known(c) /\ ~Deleting(c) => StillAs(c)

LEMMA StillApart == ASSUME NEW thread, Elsewhere(thread), NEW c, ~Lists(SegmentsOf(c), thread) PROVE StillAs(c)
BY DEF Elsewhere, StillAs, Lists

LEMMA StillSame == ASSUME native' = native, NoopsGrow, NEW own PROVE Still(own)
BY DEF Still, StillAs, Same

LEMMA StillFrozen ==
  ASSUME ThreadsOK, NoopsGrow, NEW c, StillAs(c), NEW i \in DOMAIN SegmentsOf(c) PROVE Frozen(SegmentsOf(c)[i])
BY SameFrozen DEF StillAs, Longer

LEMMA StillNew ==
  ASSUME ListedInv, NEW t, t \notin DOMAIN provider, NEW all, native' = Put(native, t, all), noops' = noops, NEW own
  PROVE Still(own) /\ Elsewhere(t)
<1>1. Elsewhere(t)
  BY DEF Elsewhere, NoopsGrow, Same, Put
<1>2. ASSUME NEW c \in DOMAIN provider PROVE ~Lists(SegmentsOf(c), t)
  BY <1>2, OwnSegments DEF ListedInv, Lists
<1> QED  BY <1>1, <1>2, StillApart DEF Still, Elsewhere

-----------------------------------------------------------------------------
(* What chats and requests have to show *)

Gone == \A t \in cleaned : t \notin DOMAIN native
HeardOnce == \A t \in DOMAIN native : Once(native[t])

\* Every segment but the last has a last turn; a chat's last thread is there, and its own segments count all of theirs.
Whole(segment) == Part(segment) = Part(Segment(segment.thread, None))
Middles(segs) == \A i \in 1 .. Len(segs) - 1 : segs[i].last # None
LastLive(chat, segs) == Len(segs) > 1 /\ ~Deleting(chat) => segs[Len(segs)].thread \in DOMAIN native
Tails(chat, segs) ==
  ~Deleting(chat) => \A i \in 1 .. Len(segs) - 1 : Own(segs, chat, i) => Whole(segs[i]) \/ Rolling(chat, i)
Shows(chat, segs) == Middles(segs) /\ LastLive(chat, segs) /\ Tails(chat, segs)
LineagesShow == \A chat \in DOMAIN lineages : Shows(chat, lineages[chat])

Live(segs) == \A i \in DOMAIN segs : segs[i].thread \in DOMAIN native
Makes(call, t) == call.made = {t} /\ t \in DOMAIN native

\* A switch leaves its source as a whole, and goes on in a thread with no turns.
SwitchShows(call) ==
  LET source == call.segs[Len(call.segs)]
  IN /\ call.step = "asked" =>
          IF provider[source.thread] = "claude" THEN source.last # None /\ Whole(source)
          ELSE native[source.thread] # << >>
     /\ call.step = "ready" => source.last # None /\ Whole(source) /\ \E b : Makes(call, b) /\ native[b] = << >>
     /\ call.step = "set" =>
          /\ call.chat \in DOMAIN lineages
          /\ \E b : Makes(call, b) /\ b # call.chat /\ lineages[call.chat][Len(lineages[call.chat])].thread = b

\* A fork has the turns it was asked for.
Asked(call) == call.count <= Len(Cut(call.segs[call.at])) /\ call.want = SaidUpTo(call.segs, call.at, call.count)
CopiesAll(call) == call.at = 1 /\ call.count = 0 /\ provider[call.segs[1].thread] = "claude"
ForkShows(call) ==
  /\ Live(call.segs) /\ Asked(call)
  /\ call.step = "asked" /\ CopiesAll(call) => Len(call.segs) = 1 /\ native[call.segs[1].thread] = << >>
  /\ call.step = "ready" => \E f : Makes(call, f) /\ native[f] = SubSeq(Cut(call.segs[call.at]), 1, call.count)

\* A rollback keeps the turns it was asked for, and discards what is no chat.
RevertShows(call) ==
  /\ call.step # "set" => Live(call.segs)
  /\ call.step = "asked" =>
       /\ Asked(call)
       /\ call.drop => call.count = Len(Cut(call.segs[call.at])) /\ call.at < Len(call.segs)
  /\ Dropped(call) \cap DOMAIN lineages = {} /\ call.chat \notin Dropped(call)

\* A deletion leaves what others list.
DeleteShows(call) ==
  Len(call.segs) > 1 =>
    \A i \in 1 .. call.at : call.segs[i].thread \notin DOMAIN native \/ Shared(call.chat, call.segs[i].thread)

CallShows(call) ==
  /\ call.chat \notin newBackends
  /\ ~Deletes(call) => Current(call.chat) \in DOMAIN native
  /\ call.what = "switch" => SwitchShows(call)
  /\ call.what = "fork" => ForkShows(call)
  /\ call.what = "revert" => RevertShows(call)
  /\ call.what = "delete" => DeleteShows(call)

\* Requests that drop segments have none in common, and none is of a chat that another discards.
Drops(call) == call.what \in {"revert", "delete"}
PairShows(call, other) ==
  /\ other.chat \notin Dropped(call)
  /\ Drops(call) /\ Drops(other) => \A i \in DOMAIN call.segs : ~Lists(other.segs, call.segs[i].thread)
CallsShow ==
  /\ \A x \in Busy : CallShows(calls[x])
  /\ \A x \in Busy : \A y \in Busy : x # y => PairShows(calls[x], calls[y])

ShowsInv == Gone /\ HeardOnce /\ LineagesShow /\ CallsShow

-----------------------------------------------------------------------------
(* A chat's turns go on in a thread that others may list *)

LEMMA OfRolling ==
  ASSUME ListedInv, NEW c \in DOMAIN lineages, NEW i, Rolling(c, i)
  PROVE i \in DOMAIN lineages[c] /\ ~Shared(c, lineages[c][i].thread)
<1>1. PICK y \in Calls : RollsIn(calls[y], c, i)
  BY DEF Rolling
<1>2. PICK call : call = calls[y]
  OBVIOUS
<1>3. y \in Busy /\ call.what = "revert" /\ call.step = "ready" /\ call.chat = c /\ call.at = i
  BY <1>1, <1>2 DEF RollsIn, Busy
<1>4. AsTaken(call) /\ RolledAlone(call)
  BY <1>2, <1>3 DEF ListedInv, CallsOK, CallOK
<1>5. call.segs = lineages[c] /\ i \in DOMAIN call.segs /\ ~call.drop
  BY <1>3, <1>4 DEF AsTaken, SegmentsOf
<1> QED  BY <1>3, <1>4, <1>5 DEF RolledAlone, RollsBack

LEMMA LastOwned ==
  ASSUME ListsOK, NEW c \in DOMAIN lineages, NEW segs, segs = lineages[c]
  PROVE /\ Len(segs) \in Nat \ {0} /\ DOMAIN segs = 1 .. Len(segs) /\ segs \in Seq(Segments)
        /\ Own(segs, c, Len(segs)) /\ Owns(segs, c, segs[Len(segs)].thread)
        /\ \A i \in DOMAIN segs : Own(segs, c, i) => Owns(segs, c, segs[i].thread)
<1>1. segs \in Seq(Segments) /\ segs # << >> /\ Lists(segs, c)
  BY DEF ListsOK, LineageOK
<1>2. Len(segs) \in Nat \ {0} /\ DOMAIN segs = 1 .. Len(segs)
  BY <1>1
<1>3. PICK row \in DOMAIN segs : segs[row].thread = c
  BY <1>1 DEF Lists
<1>4. Own(segs, c, Len(segs))
  BY <1>2, <1>3 DEF Own
<1>5. \A i \in DOMAIN segs : Own(segs, c, i) => Owns(segs, c, segs[i].thread)
  <2>1. ASSUME NEW i \in DOMAIN segs, Own(segs, c, i) PROVE Owns(segs, c, segs[i].thread)
    <3>1. PICK r \in 1 .. i : segs[r].thread = c
      BY <2>1 DEF Own
    <3>2. r \in DOMAIN segs /\ r <= i
      BY <1>2, <2>1, <3>1
    <3> QED  BY <3>1, <3>2 DEF Owns
  <2> QED  BY <2>1
<1> QED  BY <1>1, <1>2, <1>4, <1>5

LEMMA StillSaid ==
  ASSUME ListedInv, ApartInv, HoldInv, Gone, LineagesShow, NEW own \in DOMAIN provider, Known(own),
         NEW thread \in DOMAIN native, thread = Current(own), Say(thread, NextTurn), NoopsGrow
  PROVE Still(own) /\ Elsewhere(thread)
<1>1. Elsewhere(thread)
  BY DEF Elsewhere, Same, Say
<1>2. ASSUME NEW c \in DOMAIN provider, c # own, Known(c), ~Deleting(c), NEW segs, segs = SegmentsOf(c),
             NEW i \in DOMAIN segs, segs[i].thread = thread
      PROVE Longer(c, segs, i)
  <2>1. own \in DOMAIN lineages
    BY <1>2 DEF Current, SegmentsOf, Segment, Known, Lists, Unlisted, Last
  <2>2. PICK list : list = lineages[own]
    OBVIOUS
  <2>3. Lists(list, thread) /\ Owns(list, own, thread)
    <3>1. thread = list[Len(list)].thread
      BY <2>1, <2>2 DEF Current, SegmentsOf, Last
    <3> QED  BY <2>1, <2>2, <3>1, LastOwned DEF ListedInv, Lists
  <2>4. c \in DOMAIN lineages /\ segs = lineages[c]
    <3>1. CASE c \notin DOMAIN lineages
      <4>1. segs = <<Segment(c, None)>>
        BY <1>2, <3>1 DEF SegmentsOf
      <4>2. thread = c
        BY <1>2, <4>1 DEF Segment
      <4>3. Unlisted(c)
        BY <1>2, <3>1 DEF Known
      <4> QED  BY <2>1, <2>2, <2>3, <4>2, <4>3 DEF Unlisted
    <3> QED  BY <1>2, <3>1 DEF SegmentsOf
  <2>5. Len(segs) \in Nat \ {0} /\ DOMAIN segs = 1 .. Len(segs) /\ Own(segs, c, Len(segs))
    BY <2>4, LastOwned DEF ListedInv
  <2>6. ~Own(segs, c, i)
    <3>1. Own(segs, c, i) => Owns(segs, c, thread)
      BY <1>2, <2>4, LastOwned DEF ListedInv
    <3> QED  BY <1>2, <2>1, <2>2, <2>3, <2>4, <3>1 DEF ApartInv, OwnApart
  <2>7. i \in 1 .. Len(segs) - 1
    BY <1>2, <2>5, <2>6
  <2>8. ~Rolling(c, i)
    BY <1>2, <2>1, <2>2, <2>3, <2>4, OfRolling DEF Shared
  <2>9. segs[i].last \in Range(native[thread])
    <3>1. Len(segs) > 1
      BY <2>5, <2>7
    <3>2. Counts(segs[i])
      BY <1>2, <2>4, <2>8, <3>1 DEF HoldInv, SegmentsCount
    <3>3. segs[i].last # None
      BY <2>4, <2>7 DEF LineagesShow, Shows, Middles
    <3> QED  BY <1>2, <3>2, <3>3 DEF Counts, Gone
  <2>10. Frozen(segs[i])
    BY <1>2, <2>9, SaidFrozen DEF ListedInv
  <2> QED  BY <2>6, <2>7, <2>8, <2>10 DEF Longer
<1>3. Still(own)
  <2>1. ASSUME NEW c \in DOMAIN provider, c # own, Known(c), ~Deleting(c), NEW i \in DOMAIN SegmentsOf(c)
        PROVE Same(SegmentsOf(c)[i].thread) \/ Longer(c, SegmentsOf(c), i)
    <3>1. CASE SegmentsOf(c)[i].thread = thread
      BY <1>2, <2>1, <3>1
    <3>2. CASE SegmentsOf(c)[i].thread # thread
      BY <1>1, <3>2 DEF Elsewhere
    <3> QED  BY <3>1, <3>2
  <2> QED  BY <2>1 DEF Still, StillAs
<1> QED  BY <1>1, <1>3

-----------------------------------------------------------------------------
(* What a step leaves to the other chats and requests *)

LEMMA PassingIs == ASSUME NEW x \in Busy PROVE Passing(x) = calls[x].made \cup Dropped(calls[x])
BY DEF Passing, Dropped, Doing, Busy

LEMMA PassedBy ==
  ASSUME ListedInv, CallsShow, NEW z \in Busy, NEW t \in calls[z].made
  PROVE /\ calls[z].what \in {"switch", "fork"} /\ calls[z].step # "asked" /\ t \in DOMAIN provider
        /\ calls[z].step = "ready" => t \notin DOMAIN lineages /\ Unlisted(t)
        /\ calls[z].step = "set" =>
             calls[z].chat \in DOMAIN lineages /\ Lists(lineages[calls[z].chat], t) /\ t # calls[z].chat
<1>1. PICK call : call = calls[z]
  OBVIOUS
<1>2. CallTyped(call) /\ MadeNew(call) /\ AsTaken(call) /\ CallShows(call) /\ t \in call.made
  BY <1>1 DEF ListedInv, CallsOK, CallOK, CallsShow
<1>3. call.what \in {"switch", "fork", "revert", "delete"} /\ call.step \in {"asked", "ready", "set"} /\ t \in DOMAIN provider
  BY <1>2 DEF CallTyped, Requests
<1>4. call.what \in {"switch", "fork"} /\ call.step # "asked"
  BY <1>2, <1>3 DEF MadeNew
<1>5. call.step = "ready" => t \notin DOMAIN lineages /\ Unlisted(t)
  BY <1>2 DEF MadeNew
<1>6. ASSUME call.step = "set" PROVE call.chat \in DOMAIN lineages /\ Lists(lineages[call.chat], t) /\ t # call.chat
  <2>1. call.what = "switch"
    BY <1>2, <1>4, <1>6 DEF AsTaken
  <2>2. PICK b : Makes(call, b) /\ b # call.chat /\ lineages[call.chat][Len(lineages[call.chat])].thread = b
    BY <1>2, <1>6, <2>1 DEF CallShows, SwitchShows
  <2>3. call.chat \in DOMAIN lineages
    BY <1>2, <1>6, <2>1 DEF CallShows, SwitchShows
  <2>4. t = b
    BY <1>2, <2>2 DEF Makes
  <2>5. Len(lineages[call.chat]) \in DOMAIN lineages[call.chat]
    <3>1. ListsOK
      BY DEF ListedInv
    <3>2. PICK segs : segs = lineages[call.chat]
      OBVIOUS
    <3>3. Len(segs) \in Nat \ {0} /\ DOMAIN segs = 1 .. Len(segs)
      BY <2>3, <3>1, <3>2, LastOwned
    <3> QED  BY <3>2, <3>3
  <2> QED  BY <2>2, <2>3, <2>4, <2>5 DEF Lists
<1> QED  BY <1>1, <1>3, <1>4, <1>5, <1>6

LEMMA ChatKnown == ASSUME ListedInv, CallsShow, NEW y \in Busy PROVE Known(calls[y].chat) /\ calls[y].chat \in DOMAIN provider
<1>1. PICK call : call = calls[y]
  OBVIOUS
<1>2. CallTyped(call) /\ MadeNew(call) /\ ChatFree(call) /\ CallShows(call)
  BY <1>1 DEF ListedInv, CallsOK, CallOK, CallsShow
<1>3. call.chat \in DOMAIN provider
  BY <1>2 DEF CallTyped
<1>4. ASSUME call.chat \notin DOMAIN lineages, NEW z \in Busy PROVE call.chat \notin Passing(z)
  <2>1. call.chat \notin Dropped(calls[z])
    <3>1. CASE z = y
      BY <1>1, <1>2, <3>1 DEF CallShows, RevertShows, Dropped
    <3>2. CASE z # y
      BY <1>1, <3>2 DEF CallsShow, PairShows
    <3> QED  BY <3>1, <3>2
  <2>2. ASSUME call.chat \in calls[z].made PROVE FALSE
    <3>1. Unlisted(call.chat)
      BY <1>2, <1>4 DEF ChatFree
    <3>2. calls[z].step = "ready"
      <4>1. calls[z].step \in {"asked", "ready", "set"}
        BY DEF ListedInv, CallsOK, CallOK, CallTyped, Requests
      <4> QED  BY <2>2, <3>1, <4>1, PassedBy DEF Unlisted
    <3>3. CASE z = y
      BY <1>1, <1>2, <2>2, <3>2, <3>3 DEF MadeNew
    <3>4. CASE z # y
      <4>1. Apart(calls[z], call)
        BY <1>1, <3>4 DEF ListedInv, CallsOK
      <4> QED  BY <2>2, <3>2, <4>1 DEF Apart
    <3> QED  BY <3>3, <3>4
  <2> QED  BY <2>1, <2>2, PassingIs
<1> QED  BY <1>1, <1>2, <1>3, <1>4 DEF Known, ChatFree

\* A chat's lineage, when a step leaves it.
LEMMA ChatShows ==
  ASSUME ListedInv, NoopsGrow, NEW c \in DOMAIN lineages, NEW segs, segs = lineages[c], Shows(c, segs),
         ~Deleting(c) => StillAs(c), Deleting(c) => Deleting(c)', \A i : Rolling(c, i) => Rolling(c, i)'
  PROVE Shows(c, segs)'
<1>1. Len(segs) \in Nat \ {0} /\ DOMAIN segs = 1 .. Len(segs) /\ Own(segs, c, Len(segs)) /\ segs = SegmentsOf(c)
  BY LastOwned DEF ListedInv, SegmentsOf
<1>2. Middles(segs)'
  BY DEF Shows, Middles
<1>3. ASSUME ~Deleting(c)' PROVE ~Deleting(c) /\ \A i \in DOMAIN segs : Same(segs[i].thread) \/ Longer(c, segs, i)
  BY <1>1, <1>3 DEF StillAs
<1>4. LastLive(c, segs)'
  <2>1. ASSUME ~Deleting(c)', Len(segs) > 1 PROVE segs[Len(segs)].thread \in DOMAIN native'
    <3>1. segs[Len(segs)].thread \in DOMAIN native
      BY <1>3, <2>1 DEF Shows, LastLive
    <3>2. Same(segs[Len(segs)].thread)
      BY <1>1, <1>3, <2>1 DEF Longer
    <3> QED  BY <3>1, <3>2 DEF Same
  <2> QED  BY <2>1 DEF LastLive
<1>5. Tails(c, segs)'
  <2>1. ASSUME ~Deleting(c)', NEW i \in 1 .. Len(segs) - 1, Own(segs, c, i) PROVE Whole(segs[i])' \/ Rolling(c, i)'
    <3>1. Whole(segs[i]) \/ Rolling(c, i)
      BY <1>3, <2>1 DEF Shows, Tails
    <3>2. Same(segs[i].thread)
      BY <1>1, <1>3, <2>1 DEF Longer
    <3>3. PICK none : none = Segment(segs[i].thread, None)
      OBVIOUS
    <3>4. none.thread = segs[i].thread
      BY <3>3 DEF Segment
    <3>5. Frozen(none) /\ Frozen(segs[i])
      BY <3>2, <3>4, SameFrozen DEF ListedInv
    <3>6. Whole(segs[i]) => Part(segs[i]) = Part(none)
      BY <3>3 DEF Whole
    <3>7. Part(segs[i])' = Part(none)' => Whole(segs[i])'
      BY <3>3 DEF Whole
    <3> QED  BY <3>1, <3>5, <3>6, <3>7 DEF Frozen
  <2> QED  BY <2>1 DEF Tails, Own
<1> QED  BY <1>2, <1>4, <1>5 DEF Shows

LEMMA SaidUpToStays ==
  ASSUME ThreadsOK, ThreadsOK', NoopsGrow, NEW segs \in Seq(Segments), \A j \in 1 .. Len(segs) : Frozen(segs[j]),
         NEW i \in 1 .. Len(segs), NEW k \in Nat, k <= Len(Cut(segs[i]))
  PROVE SaidUpTo(segs, i, k)' = SaidUpTo(segs, i, k)
<1>1. PICK older : older = SubSeq(segs, 1, i - 1)
  OBVIOUS
<1>2. older \in Seq(Segments) /\ Len(older) = i - 1 /\ \A j \in 1 .. i - 1 : older[j] = segs[j] /\ j \in 1 .. Len(segs)
  BY <1>1
<1>3. \A j \in 1 .. Len(older) : Part(older[j])' = Part(older[j])
  BY <1>2 DEF Frozen
<1>4. Stitched(older)' = Stitched(older)
  BY <1>2, <1>3, StitchedStays
<1>5. PICK cut : cut = Cut(segs[i])
  OBVIOUS
<1>6. cut \in Seq(1 .. turns) /\ Cut(segs[i])' = cut
  BY <1>5, TurnsTyped DEF Frozen
<1>7. PICK first : first = SubSeq(cut, 1, k)
  OBVIOUS
<1>8. first \in Seq(1 .. turns)
  BY <1>5, <1>6, <1>7, FirstTurns
<1>9. Without(first, noops') = Without(first, noops)
  BY <1>8, NoopsApart
<1>10. Said(SubSeq(Cut(segs[i]), 1, k))' = Without(first, noops') /\ Said(SubSeq(Cut(segs[i]), 1, k)) = Without(first, noops)
  BY <1>5, <1>6, <1>7 DEF Said
<1>11. /\ SaidUpTo(segs, i, k)' = Len(Stitched(older)') + Len(Said(SubSeq(Cut(segs[i]), 1, k))')
       /\ SaidUpTo(segs, i, k) = Len(Stitched(older)) + Len(Said(SubSeq(Cut(segs[i]), 1, k)))
  BY <1>1 DEF SaidUpTo
<1> QED  BY <1>4, <1>9, <1>10, <1>11

\* What a step leaves of a request: its chat's segments, and what it made.
LeavesChat(call) ==
  /\ call.chat \notin newBackends'
  /\ SegmentsOf(call.chat)' = SegmentsOf(call.chat)
  /\ call.chat \in DOMAIN lineages <=> call.chat \in DOMAIN lineages'
  /\ ~Deletes(call) => StillAs(call.chat)
LeavesMade(call) == call.step = "ready" => \A t \in call.made : Same(t)
LeavesDropped(call) == call.what = "revert" => Dropped(call) \cap DOMAIN lineages' = {}
LeavesDeleted(call) ==
  call.what = "delete" =>
    \A i \in 1 .. call.at :
      LET t == call.segs[i].thread
      IN (t \notin DOMAIN native => t \notin DOMAIN native') /\ (Shared(call.chat, t) => Shared(call.chat, t)' \/ t \notin DOMAIN native')
Leaves(call) == LeavesChat(call) /\ LeavesMade(call) /\ LeavesDropped(call) /\ LeavesDeleted(call)

LEMMA CallLast ==
  ASSUME ListedInv, NEW y \in Busy, NEW call, call = calls[y], NEW own, own = SegmentsOf(call.chat)
  PROVE /\ own \in Seq(Segments) /\ Len(own) \in Nat \ {0} /\ DOMAIN own = 1 .. Len(own)
        /\ Current(call.chat) = own[Len(own)].thread /\ call.segs \in Seq(Segments) /\ Len(call.segs) \in Nat \ {0}
        /\ DOMAIN call.segs = 1 .. Len(call.segs) /\ AsTaken(call) /\ MadeNew(call)
        /\ call.what \in {"switch", "fork", "revert", "delete"} /\ call.step \in {"asked", "ready", "set"}
        /\ call # Idle /\ call.at \in Nat /\ call.count \in Nat /\ call.drop \in BOOLEAN
        /\ \A i \in DOMAIN call.segs : call.segs[i].thread \in DOMAIN provider
<1>1. CallOK(call)
  BY DEF ListedInv, CallsOK
<1>2. call.chat \in DOMAIN provider
  BY <1>1 DEF CallOK, CallTyped
<1>3. own \in Seq(Segments) /\ Len(own) \in Nat \ {0} /\ DOMAIN own = 1 .. Len(own)
  BY <1>2, OwnSegments DEF ListedInv
<1>4. Current(call.chat) = own[Len(own)].thread
  BY DEF Current, Last
<1>5. call.segs \in Seq(Segments) /\ call.segs # << >> /\ call # Idle
  BY <1>1 DEF CallOK, CallTyped, Requests, Busy
<1> QED  BY <1>1, <1>3, <1>4, <1>5 DEF CallOK, CallTyped, Requests

LEMMA SwitchStays ==
  ASSUME ListedInv, NoopsGrow, NEW y \in Busy, NEW call, call = calls[y], CallShows(call), LeavesChat(call), LeavesMade(call),
         \A t \in DOMAIN provider : provider'[t] = provider[t], call.what = "switch"
  PROVE SwitchShows(call)'
<1>1. PICK own : own = SegmentsOf(call.chat)
  OBVIOUS
<1>2. /\ Len(own) \in Nat \ {0} /\ DOMAIN own = 1 .. Len(own) /\ Len(call.segs) \in Nat \ {0}
      /\ Current(call.chat) = own[Len(own)].thread /\ DOMAIN call.segs = 1 .. Len(call.segs) /\ AsTaken(call)
      /\ call.step \in {"asked", "ready", "set"} /\ \A i \in DOMAIN call.segs : call.segs[i].thread \in DOMAIN provider
  BY <1>1, CallLast
<1>3. ~Deletes(call)
  BY DEF Deletes
<1>4. Same(Current(call.chat)) /\ Current(call.chat) \in DOMAIN native
  BY <1>1, <1>2, <1>3 DEF LeavesChat, StillAs, Longer, CallShows
<1>5. PICK source : source = call.segs[Len(call.segs)]
  OBVIOUS
<1>6. call.step # "set" => source.thread = Current(call.chat)
  BY <1>1, <1>2, <1>5 DEF AsTaken, SameButLast
<1>7. provider'[source.thread] = provider[source.thread]
  BY <1>2, <1>5
<1>8. ASSUME call.step # "set", Whole(source) PROVE Whole(source)'
  <2>1. PICK none : none = Segment(source.thread, None)
    OBVIOUS
  <2>2. none.thread = source.thread
    BY <2>1 DEF Segment
  <2>3. Frozen(none) /\ Frozen(source)
    BY <1>4, <1>6, <1>8, <2>2, SameFrozen DEF ListedInv
  <2>4. Part(source) = Part(none)
    BY <1>8, <2>1 DEF Whole
  <2>5. Part(source)' = Part(none)' => Whole(source)'
    BY <2>1 DEF Whole
  <2> QED  BY <2>3, <2>4, <2>5 DEF Frozen
<1>9. ASSUME call.step = "asked"
      PROVE IF provider'[source.thread] = "claude" THEN source.last # None /\ Whole(source)'
            ELSE native'[source.thread] # << >>
  BY <1>4, <1>5, <1>6, <1>7, <1>8, <1>9 DEF CallShows, SwitchShows, Same
<1>10. ASSUME call.step = "ready"
       PROVE source.last # None /\ Whole(source)' /\ \E b : call.made = {b} /\ b \in DOMAIN native' /\ native'[b] = << >>
  <2>1. source.last # None /\ Whole(source) /\ \E b : Makes(call, b) /\ native[b] = << >>
    BY <1>5, <1>10 DEF CallShows, SwitchShows
  <2>2. PICK b : Makes(call, b) /\ native[b] = << >>
    BY <2>1
  <2>3. Same(b) /\ call.made = {b} /\ b \in DOMAIN native
    BY <1>10, <2>2 DEF LeavesMade, Makes
  <2> QED  BY <1>8, <1>10, <2>1, <2>2, <2>3 DEF Same
<1>11. ASSUME call.step = "set"
       PROVE /\ call.chat \in DOMAIN lineages'
             /\ \E b : call.made = {b} /\ b \in DOMAIN native' /\ b # call.chat
                       /\ lineages'[call.chat][Len(lineages'[call.chat])].thread = b
  <2>1. call.chat \in DOMAIN lineages /\ \E b : Makes(call, b) /\ b # call.chat /\ lineages[call.chat][Len(lineages[call.chat])].thread = b
    BY <1>11 DEF CallShows, SwitchShows
  <2>2. lineages[call.chat] = own /\ call.chat \in DOMAIN lineages' /\ lineages'[call.chat] = own
    BY <1>1, <2>1 DEF LeavesChat, SegmentsOf
  <2> QED  BY <1>2, <1>4, <2>1, <2>2 DEF Makes, Same
<1> QED  BY <1>5, <1>9, <1>10, <1>11 DEF SwitchShows, Makes

LEMMA AskedStays ==
  ASSUME ListedInv, ThreadsOK', NoopsGrow, NEW y \in Busy, NEW call, call = calls[y], LeavesChat(call),
         ~Deletes(call), call.segs = SegmentsOf(call.chat)
  PROVE /\ \A i \in DOMAIN call.segs : Frozen(call.segs[i])
        /\ Live(call.segs) => Live(call.segs)'
        /\ call.at \in DOMAIN call.segs /\ Asked(call) => Asked(call)' /\ Cut(call.segs[call.at])' = Cut(call.segs[call.at])
<1>1. /\ call.segs \in Seq(Segments) /\ DOMAIN call.segs = 1 .. Len(call.segs) /\ call.count \in Nat
  BY CallLast
<1>2. ThreadsOK
  BY DEF ListedInv
<1>3. \A i \in DOMAIN call.segs : Frozen(call.segs[i])
  BY <1>2, StillFrozen DEF LeavesChat
<1>4. Live(call.segs) => Live(call.segs)'
  BY <1>3 DEF Live, Frozen
<1>5. ASSUME call.at \in DOMAIN call.segs, Asked(call)
      PROVE Asked(call)' /\ Cut(call.segs[call.at])' = Cut(call.segs[call.at])
  <2>1. Cut(call.segs[call.at])' = Cut(call.segs[call.at])
    BY <1>3, <1>5 DEF Frozen
  <2>2. PICK segs : segs = call.segs
    OBVIOUS
  <2>3. PICK at : at = call.at
    OBVIOUS
  <2>4. PICK count : count = call.count
    OBVIOUS
  <2>5. segs \in Seq(Segments) /\ at \in 1 .. Len(segs) /\ count \in Nat /\ \A j \in 1 .. Len(segs) : Frozen(segs[j])
    BY <1>1, <1>3, <1>5, <2>2, <2>3, <2>4
  <2>6. count <= Len(Cut(segs[at])) /\ call.want = SaidUpTo(segs, at, count)
    BY <1>5, <2>2, <2>3, <2>4 DEF Asked
  <2>7. SaidUpTo(segs, at, count)' = SaidUpTo(segs, at, count)
    BY <1>2, <2>5, <2>6, SaidUpToStays
  <2>8. SaidUpTo(call.segs, call.at, call.count)' = SaidUpTo(segs, at, count)'
    BY <2>2, <2>3, <2>4
  <2> QED  BY <2>1, <2>2, <2>3, <2>4, <2>6, <2>7, <2>8 DEF Asked
<1> QED  BY <1>3, <1>4, <1>5

LEMMA ForkStays ==
  ASSUME ListedInv, ThreadsOK', NoopsGrow, NEW y \in Busy, NEW call, call = calls[y], CallShows(call), LeavesChat(call),
         LeavesMade(call), \A t \in DOMAIN provider : provider'[t] = provider[t], call.what = "fork"
  PROVE ForkShows(call)'
<1>1. /\ Len(call.segs) \in Nat \ {0} /\ DOMAIN call.segs = 1 .. Len(call.segs) /\ AsTaken(call)
      /\ \A i \in DOMAIN call.segs : call.segs[i].thread \in DOMAIN provider
  BY CallLast
<1>2. call.segs = SegmentsOf(call.chat) /\ call.at \in DOMAIN call.segs /\ ~Deletes(call)
  BY <1>1 DEF AsTaken, Deletes
<1>3. ForkShows(call)
  BY DEF CallShows
<1>4. /\ Live(call.segs)' /\ Asked(call)' /\ Cut(call.segs[call.at])' = Cut(call.segs[call.at])
  BY <1>2, <1>3, AskedStays DEF ForkShows
<1>5. ASSUME call.step = "asked", CopiesAll(call)' PROVE Len(call.segs) = 1 /\ native'[call.segs[1].thread] = << >>
  <2>1. CopiesAll(call)
    BY <1>1, <1>5 DEF CopiesAll
  <2>2. Len(call.segs) = 1 /\ native[call.segs[1].thread] = << >> /\ call.segs[1].thread \in DOMAIN native
    BY <1>1, <1>3, <1>5, <2>1 DEF ForkShows, Live
  <2>3. Same(call.segs[1].thread)
    <3>1. StillAs(call.chat) /\ 1 \in DOMAIN call.segs
      BY <1>1, <1>2 DEF LeavesChat
    <3> QED  BY <1>2, <2>2, <3>1 DEF StillAs, Longer
  <2> QED  BY <2>2, <2>3 DEF Same
<1>6. ASSUME call.step = "ready"
      PROVE \E f : Makes(call, f)' /\ native'[f] = SubSeq(Cut(call.segs[call.at])', 1, call.count)
  <2>1. PICK f : Makes(call, f) /\ native[f] = SubSeq(Cut(call.segs[call.at]), 1, call.count)
    BY <1>3, <1>6 DEF ForkShows
  <2>2. Same(f) /\ f \in DOMAIN native
    BY <1>6, <2>1 DEF LeavesMade, Makes
  <2>3. Makes(call, f)'
    BY <2>1, <2>2 DEF Makes, Same
  <2> QED  BY <1>4, <2>1, <2>2, <2>3 DEF Same
<1> QED  BY <1>4, <1>5, <1>6 DEF ForkShows

LEMMA RevertStays ==
  ASSUME ListedInv, ThreadsOK', NoopsGrow, NEW y \in Busy, NEW call, call = calls[y], CallShows(call), LeavesChat(call),
         LeavesDropped(call), call.what = "revert"
  PROVE RevertShows(call)'
<1>1. AsTaken(call) /\ ~Deletes(call) /\ RevertShows(call)
  BY CallLast DEF Deletes, CallShows
<1>2. call.step # "set" => call.segs = SegmentsOf(call.chat) /\ call.at \in DOMAIN call.segs
  BY <1>1 DEF AsTaken
<1>3. call.step # "set" => Live(call.segs)'
  BY <1>1, <1>2, AskedStays DEF RevertShows
<1>4. ASSUME call.step = "asked"
      PROVE Asked(call)' /\ (call.drop => call.count = Len(Cut(call.segs[call.at])') /\ call.at < Len(call.segs))
  <2>1. Asked(call)' /\ Cut(call.segs[call.at])' = Cut(call.segs[call.at])
    BY <1>1, <1>2, <1>4, AskedStays DEF RevertShows
  <2> QED  BY <1>1, <1>4, <2>1 DEF RevertShows
<1>5. Dropped(call)' = Dropped(call)
  BY DEF Dropped
<1> QED  BY <1>1, <1>3, <1>4, <1>5 DEF RevertShows, LeavesDropped

LEMMA DeleteStays ==
  ASSUME NEW call, DeleteShows(call), LeavesDeleted(call), call.what = "delete"
  PROVE DeleteShows(call)'
BY DEF DeleteShows, LeavesDeleted

LEMMA CallStays ==
  ASSUME ListedInv, ThreadsOK', NoopsGrow, NEW y \in Busy, NEW call, call = calls[y], CallShows(call), Leaves(call),
         \A t \in DOMAIN provider : provider'[t] = provider[t]
  PROVE CallShows(call)'
<1>1. LeavesChat(call) /\ LeavesMade(call) /\ LeavesDropped(call) /\ LeavesDeleted(call)
  BY DEF Leaves
<1>2. ASSUME ~Deletes(call) PROVE Current(call.chat)' \in DOMAIN native'
  <2>1. PICK own : own = SegmentsOf(call.chat)
    OBVIOUS
  <2>2. Len(own) \in Nat \ {0} /\ DOMAIN own = 1 .. Len(own) /\ Current(call.chat) = own[Len(own)].thread
    BY <2>1, CallLast
  <2>3. Same(Current(call.chat)) /\ Current(call.chat) \in DOMAIN native
    BY <1>1, <1>2, <2>1, <2>2 DEF LeavesChat, StillAs, Longer, CallShows
  <2>4. Current(call.chat)' = Current(call.chat)
    BY <1>1 DEF LeavesChat, Current
  <2> QED  BY <2>3, <2>4 DEF Same
<1>3. Deletes(call)' = Deletes(call)
  BY DEF Deletes, Idle
<1>4. call.what = "switch" => SwitchShows(call)'
  BY <1>1, SwitchStays
<1>5. call.what = "fork" => ForkShows(call)'
  BY <1>1, ForkStays
<1>6. call.what = "revert" => RevertShows(call)'
  BY <1>1, RevertStays
<1>7. call.what = "delete" => DeleteShows(call)'
  BY <1>1, DeleteStays DEF CallShows
<1> QED  BY <1>1, <1>2, <1>3, <1>4, <1>5, <1>6, <1>7 DEF CallShows, LeavesChat

\* One request goes on.
LEMMA CallsShowStep ==
  ASSUME ListedInv, CallsShow, ThreadsOK', NoopsGrow, \A t \in DOMAIN provider : provider'[t] = provider[t],
         NEW x \in Calls, NEW next, calls' = [calls EXCEPT ![x] = next],
         \A y \in Busy \ {x} : \A call : call = calls[y] => Leaves(call),
         next = Idle \/ (CallShows(next)' /\ \A other \in Others(x) : PairShows(next, other) /\ PairShows(other, next))
  PROVE CallsShow'
<1>1. DOMAIN calls = Calls
  BY DEF ListedInv, CallsOK
<1>2. Busy' \subseteq Calls /\ \A y \in Busy' : (y = x /\ next # Idle /\ calls'[y] = next) \/ (y # x /\ y \in Busy /\ calls'[y] = calls[y])
  BY <1>1 DEF Busy
<1>3. ASSUME NEW y \in Busy' PROVE CallShows(calls[y])'
  <2>1. PICK call : call = calls'[y]
    OBVIOUS
  <2>2. CASE y = x
    <3>1. call = next /\ next # Idle
      BY <1>2, <1>3, <2>1, <2>2
    <3>2. CallShows(call)'
      BY <3>1
    <3> QED  BY <2>1, <3>2
  <2>3. CASE y # x
    <3>1. y \in Busy /\ call = calls[y]
      BY <1>2, <1>3, <2>1, <2>3
    <3>2. CallShows(call) /\ Leaves(call)
      BY <2>3, <3>1 DEF CallsShow
    <3>3. CallShows(call)'
      BY <3>1, <3>2, CallStays
    <3> QED  BY <2>1, <3>3
  <2> QED  BY <2>2, <2>3
<1>4. ASSUME NEW y \in Busy', NEW z \in Busy', y # z PROVE PairShows(calls[y], calls[z])'
  <2>1. PICK a : a = calls'[y]
    OBVIOUS
  <2>2. PICK b : b = calls'[z]
    OBVIOUS
  <2>3. PairShows(a, b)
    <3>1. CASE y = x
      <4>1. z \in Busy \ {x} /\ b = calls[z] /\ a = next /\ next # Idle
        BY <1>2, <1>4, <2>1, <2>2, <3>1
      <4> QED  BY <4>1 DEF Others
    <3>2. CASE z = x
      <4>1. y \in Busy \ {x} /\ a = calls[y] /\ b = next /\ next # Idle
        BY <1>2, <1>4, <2>1, <2>2, <3>2
      <4> QED  BY <4>1 DEF Others
    <3>3. CASE y # x /\ z # x
      <4>1. y \in Busy /\ z \in Busy /\ a = calls[y] /\ b = calls[z]
        BY <1>2, <1>4, <2>1, <2>2, <3>3
      <4> QED  BY <1>4, <4>1 DEF CallsShow
    <3> QED  BY <3>1, <3>2, <3>3
  <2> QED  BY <2>1, <2>2, <2>3 DEF PairShows, Dropped, Drops, Lists
<1> QED  BY <1>3, <1>4 DEF CallsShow

LEMMA PairGoesOn ==
  ASSUME NEW call, NEW next, NEW other, PairShows(call, other), PairShows(other, call), next.chat = call.chat,
         Dropped(next) \subseteq Dropped(call), Drops(next) => Drops(call) /\ next.segs = call.segs
  PROVE PairShows(next, other) /\ PairShows(other, next)
BY DEF PairShows

-----------------------------------------------------------------------------
(* Steps that leave the lineages *)

Shrinks == \A t \in DOMAIN provider : t \in DOMAIN native' => t \in DOMAIN native
Grows == \A t \in DOMAIN provider : provider'[t] = provider[t] /\ (t \in newBackends' => t \in newBackends)

LEMMA DeletesOwn ==
  ASSUME ListedInv, NEW y \in Busy, NEW call, call = calls[y] PROVE Deleting(call.chat) => Deletes(call)
<1>1. ASSUME NEW z \in Calls, Deletes(calls[z]), calls[z].chat = call.chat PROVE Deletes(call)
  <2>1. z \in Busy
    BY <1>1 DEF Deletes, Busy
  <2>2. z # y => calls[z].chat # call.chat
    BY <2>1 DEF ListedInv, CallsOK, Apart
  <2> QED  BY <1>1, <2>2
<1> QED  BY <1>1 DEF Deleting

LEMMA OthersStill ==
  ASSUME ListedInv, CallsShow, NEW own, Still(own), NEW y \in Busy, NEW call, call = calls[y], call.chat # own, ~Deletes(call)
  PROVE StillAs(call.chat)
<1>1. Known(call.chat) /\ call.chat \in DOMAIN provider
  BY ChatKnown
<1>2. ~Deleting(call.chat)
  BY DeletesOwn
<1> QED  BY <1>1, <1>2 DEF Still

LEMMA OthersLeave ==
  ASSUME ListedInv, CallsShow, NEW own, Still(own), Shrinks, Grows, lineages' = lineages,
         NEW y \in Busy, NEW call, call = calls[y], call.chat # own, LeavesMade(call)
  PROVE Leaves(call)
<1>1. /\ DOMAIN call.segs = 1 .. Len(call.segs) /\ AsTaken(call) /\ \A i \in DOMAIN call.segs : call.segs[i].thread \in DOMAIN provider
      /\ call.at \in Nat /\ Len(call.segs) \in Nat
  BY CallLast
<1>2. call.chat \in DOMAIN provider /\ CallShows(call)
  BY ChatKnown DEF CallsShow
<1>3. LeavesChat(call)
  BY <1>2, OthersStill DEF LeavesChat, SegmentsOf, Grows, CallShows
<1>4. LeavesDropped(call)
  BY <1>2 DEF LeavesDropped, CallShows, RevertShows
<1>5. LeavesDeleted(call)
  <2>1. ASSUME call.what = "delete", NEW i \in 1 .. call.at, NEW t, t = call.segs[i].thread
        PROVE (t \notin DOMAIN native => t \notin DOMAIN native') /\ (Shared(call.chat, t) => Shared(call.chat, t)')
    <3>1. i \in DOMAIN call.segs
      BY <1>1, <2>1 DEF AsTaken
    <3> QED  BY <1>1, <2>1, <3>1 DEF Shrinks, Shared
  <2> QED  BY <2>1 DEF LeavesDeleted
<1> QED  BY <1>3, <1>4, <1>5 DEF Leaves

\* The lineages of other chats.
LEMMA OtherLineages ==
  ASSUME ListedInv, LineagesShow, NEW own, Still(own), NEW x \in Calls, NEW next, calls' = [calls EXCEPT ![x] = next],
         calls[x] = Idle \/ calls[x].chat = own, NEW c \in DOMAIN lineages, c # own, NEW segs, segs = lineages[c]
  PROVE Shows(c, segs)'
<1>1. c \in DOMAIN provider /\ Known(c) /\ DOMAIN calls = Calls
  BY DEF ListedInv, ListsOK, Known, CallsOK
<1>2. \A y \in Calls : calls[y] # Idle /\ calls[y].chat = c => y # x /\ calls'[y] = calls[y]
  BY <1>1
<1>3. Deleting(c) => Deleting(c)'
  BY <1>2 DEF Deleting, Deletes, Idle
<1>4. \A i : Rolling(c, i) => Rolling(c, i)'
  BY <1>2 DEF Rolling, RollsIn, Idle
<1>5. Shows(c, segs)
  BY DEF LineagesShow
<1>6. ~Deleting(c) => StillAs(c)
  BY <1>1 DEF Still
<1> QED  BY <1>3, <1>4, <1>5, <1>6, ChatShows DEF Still

LEMMA ShowsStep ==
  ASSUME ListedInv, ThreadsOK', ShowsInv, lineages' = lineages, Grows, Shrinks, NEW own, Still(own),
         NEW x \in Calls, NEW next, calls' = [calls EXCEPT ![x] = next], calls[x] = Idle \/ calls[x].chat = own,
         \A y \in Busy \ {x} : calls[y].chat # own /\ LeavesMade(calls[y]),
         Gone', HeardOnce', own \in DOMAIN lineages => Shows(own, lineages[own])',
         next = Idle \/ (CallShows(next)' /\ \A other \in Others(x) : PairShows(next, other) /\ PairShows(other, next))
  PROVE ShowsInv'
<1>1. LineagesShow'
  <2>1. ASSUME NEW c \in DOMAIN lineages' PROVE Shows(c, lineages[c])'
    <3>1. PICK segs : segs = lineages[c]
      OBVIOUS
    <3>2. CASE c # own
      <4>1. Shows(c, segs)'
        BY <2>1, <3>1, <3>2, OtherLineages DEF ShowsInv
      <4> QED  BY <3>1, <4>1
    <3> QED  BY <2>1, <3>2
  <2> QED  BY <2>1 DEF LineagesShow
<1>2. ASSUME NEW y \in Busy \ {x}, NEW call, call = calls[y] PROVE Leaves(call)
  BY <1>2, OthersLeave DEF ShowsInv
<1>3. CallsShow'
  BY <1>2, CallsShowStep DEF ShowsInv, Grows, Still
<1> QED  BY <1>1, <1>3 DEF ShowsInv

\* The same when no request goes on.
LEMMA ShowsStays ==
  ASSUME ListedInv, ThreadsOK', ShowsInv, lineages' = lineages, calls' = calls, Grows, Shrinks, NEW own, Still(own),
         \A y \in Busy : calls[y].chat # own /\ LeavesMade(calls[y]),
         Gone', HeardOnce', own \in DOMAIN lineages => Shows(own, lineages[own])'
  PROVE ShowsInv'
<1>1. LineagesShow'
  <2>1. ASSUME NEW c \in DOMAIN lineages' PROVE Shows(c, lineages[c])'
    <3>1. PICK segs : segs = lineages[c]
      OBVIOUS
    <3>2. CASE c # own
      <4>1. c \in DOMAIN provider /\ Known(c) /\ c \in DOMAIN lineages
        BY <2>1 DEF ListedInv, ListsOK, Known
      <4>2. (Deleting(c) => Deleting(c)') /\ \A i : Rolling(c, i) => Rolling(c, i)'
        BY DEF Deleting, Rolling
      <4>3. Shows(c, segs)
        BY <3>1, <4>1 DEF ShowsInv, LineagesShow
      <4>4. ~Deleting(c) => StillAs(c)
        BY <3>2, <4>1 DEF Still
      <4>5. Shows(c, segs)'
        BY <3>1, <4>1, <4>2, <4>3, <4>4, ChatShows DEF Still
      <4> QED  BY <3>1, <4>5
    <3> QED  BY <2>1, <3>2
  <2> QED  BY <2>1 DEF LineagesShow
<1>2. ASSUME NEW y \in Busy' PROVE CallShows(calls[y])'
  <2>1. PICK call : call = calls[y]
    OBVIOUS
  <2>2. y \in Busy
    BY <1>2 DEF Busy
  <2>3. CallShows(call) /\ Leaves(call)
    BY <2>1, <2>2, OthersLeave DEF ShowsInv, CallsShow
  <2>4. CallShows(call)'
    BY <2>1, <2>2, <2>3, CallStays DEF Grows, Still
  <2> QED  BY <2>1, <2>4
<1>3. \A y \in Busy' : \A z \in Busy' : y # z => PairShows(calls[y], calls[z])'
  BY DEF ShowsInv, CallsShow, Busy, PairShows, Dropped, Drops, Lists
<1> QED  BY <1>1, <1>2, <1>3 DEF ShowsInv, CallsShow

-----------------------------------------------------------------------------
(* What a step leaves that touches the threads of one chat *)

Sound == ListedInv /\ ApartInv /\ HoldInv

LEMMA OncePlus == ASSUME NEW E, NEW all \in Seq(E), Once(all), NEW turn, turn \notin E PROVE Once(Append(all, turn))
<1>1. PICK more : more = Append(all, turn)
  OBVIOUS
<1>2. /\ DOMAIN all = 1 .. Len(all) /\ Len(all) \in Nat /\ DOMAIN more = 1 .. Len(all) + 1
      /\ \A k \in 1 .. Len(all) : more[k] = all[k] /\ all[k] # turn
  BY <1>1
<1>3. more[Len(all) + 1] = turn
  BY <1>1
<1>4. ASSUME NEW i \in DOMAIN more, NEW j \in DOMAIN more, more[i] = more[j] PROVE i = j
  <2>1. (i \in 1 .. Len(all) \/ i = Len(all) + 1) /\ (j \in 1 .. Len(all) \/ j = Len(all) + 1)
    BY <1>2, <1>4
  <2>2. CASE i \in 1 .. Len(all) /\ j \in 1 .. Len(all)
    BY <1>2, <1>4, <2>2 DEF Once
  <2>3. CASE i \in 1 .. Len(all) /\ j = Len(all) + 1
    BY <1>2, <1>3, <1>4, <2>3
  <2>4. CASE i = Len(all) + 1 /\ j \in 1 .. Len(all)
    BY <1>2, <1>3, <1>4, <2>4
  <2> QED  BY <2>1, <2>2, <2>3, <2>4
<1> QED  BY <1>1, <1>4 DEF Once

LEMMA OnceFirsts == ASSUME NEW E, NEW all \in Seq(E), Once(all), NEW n \in 0 .. Len(all) PROVE Once(SubSeq(all, 1, n))
<1>1. PICK a : a = SubSeq(all, 1, n)
  OBVIOUS
<1>2. DOMAIN a = 1 .. n /\ \A k \in 1 .. n : a[k] = all[k] /\ k \in DOMAIN all
  BY <1>1
<1> QED  BY <1>1, <1>2 DEF Once

LEMMA OnceFew == ASSUME NEW turn PROVE Once(<< >>) /\ Once(<<turn>>)
BY DEF Once

\* Something is said in a chat.
LEMMA SaidShows ==
  ASSUME Sound, ShowsInv, NEW own \in DOMAIN provider, Known(own), NEW thread \in DOMAIN native, thread = Current(own),
         Say(thread, NextTurn), NoopsGrow, cleaned' = cleaned
  PROVE /\ Still(own) /\ Elsewhere(thread) /\ Shrinks /\ Gone' /\ HeardOnce'
        /\ \A y \in Busy : calls[y].chat # own => LeavesMade(calls[y])
<1>1. Still(own) /\ Elsewhere(thread)
  BY StillSaid DEF Sound, ShowsInv
<1>2. DOMAIN native' = DOMAIN native
  BY DEF Say
<1>3. HeardOnce'
  <2>1. ASSUME NEW t \in DOMAIN native' PROVE Once(native'[t])
    <3>1. PICK all : all = native[t]
      OBVIOUS
    <3>2. PICK E : E = 1 .. turns
      OBVIOUS
    <3>3. all \in Seq(E) /\ Once(all) /\ turns \in Nat
      BY <1>2, <2>1, <3>1, <3>2, BoundsAssumption DEF Sound, ListedInv, ThreadsOK, ShowsInv, HeardOnce
    <3>4. NextTurn \notin E
      BY <3>2, <3>3 DEF NextTurn
    <3>5. Once(Append(all, NextTurn))
      BY <3>3, <3>4, OncePlus
    <3>6. native'[t] = all \/ native'[t] = Append(all, NextTurn)
      BY <1>2, <2>1, <3>1 DEF Say
    <3> QED  BY <3>3, <3>5, <3>6
  <2> QED  BY <2>1 DEF HeardOnce
<1>4. ASSUME NEW y \in Busy, calls[y].chat # own, calls[y].step = "ready", NEW t \in calls[y].made PROVE Same(t)
  <2>1. Unlisted(t) /\ t \notin DOMAIN lineages
    BY <1>4, PassedBy DEF Sound, ShowsInv
  <2>2. t # thread
    <3>1. CASE own \in DOMAIN lineages
      <4>1. PICK segs : segs = lineages[own]
        OBVIOUS
      <4>2. Len(segs) \in DOMAIN segs /\ thread = segs[Len(segs)].thread
        BY <3>1, <4>1, LastOwned DEF Sound, ListedInv, Current, SegmentsOf, Last
      <4> QED  BY <2>1, <3>1, <4>1, <4>2 DEF Unlisted, Lists
    <3>2. CASE own \notin DOMAIN lineages
      <4>1. thread = own
        BY <3>2 DEF Current, SegmentsOf, Last, Segment
      <4>2. own \notin Passing(y)
        BY <3>2 DEF Known
      <4> QED  BY <1>4, <4>1, <4>2, PassingIs
    <3> QED  BY <3>1, <3>2
  <2> QED  BY <1>1, <2>2 DEF Elsewhere
<1> QED  BY <1>1, <1>2, <1>3, <1>4 DEF Shrinks, Gone, ShowsInv, LeavesMade

\* A thread is made.
LEMMA NewShows ==
  ASSUME Sound, ShowsInv, NEW t, t \notin DOMAIN provider, NEW all, Once(all), native' = Put(native, t, all),
         noops' = noops, cleaned' = cleaned, NEW own
  PROVE /\ Still(own) /\ Elsewhere(t) /\ Shrinks /\ Gone' /\ HeardOnce' /\ \A y \in Busy : LeavesMade(calls[y])
        /\ t \in DOMAIN native' /\ native'[t] = all
<1>1. Still(own) /\ Elsewhere(t)
  BY StillNew DEF Sound
<1>2. DOMAIN native' = DOMAIN native \cup {t} /\ native'[t] = all /\ \A o \in DOMAIN native \ {t} : native'[o] = native[o]
  BY DEF Put
<1>3. Gone'
  BY <1>2 DEF Gone, ShowsInv, Sound, ListedInv, ThreadsOK
<1>4. HeardOnce'
  BY <1>2 DEF HeardOnce, ShowsInv
<1>5. ASSUME NEW y \in Busy PROVE LeavesMade(calls[y])
  <2>1. \A o \in calls[y].made : o \in DOMAIN provider
    BY DEF Sound, ListedInv, CallsOK, CallOK, CallTyped
  <2> QED  BY <1>1, <2>1 DEF LeavesMade, Elsewhere
<1> QED  BY <1>1, <1>2, <1>3, <1>4, <1>5 DEF Shrinks

\* Threads of a request's go, or none.
Loses(gone) == DOMAIN native' = DOMAIN native \ gone /\ \A t \in DOMAIN native' : native'[t] = native[t]
LEMMA LosesShows ==
  ASSUME Sound, ShowsInv, NEW gone, Loses(gone), noops' = noops, cleaned' = cleaned,
         NEW x \in Busy, \A t \in gone : Lists(calls[x].segs, t) \/ t \in calls[x].made
  PROVE /\ NoopsGrow /\ Shrinks /\ Gone' /\ HeardOnce' /\ \A y \in Busy \ {x} : LeavesMade(calls[y])
        /\ \A t : t \notin gone => Same(t)
<1>1. \A t : t \notin gone => Same(t)
  BY DEF Same, Loses
<1>2. ASSUME NEW y \in Busy \ {x} PROVE LeavesMade(calls[y])
  <2>1. Apart(calls[y], calls[x])
    BY DEF Sound, ListedInv, CallsOK
  <2> QED  BY <1>1, <2>1 DEF LeavesMade, Apart
<1> QED  BY <1>1, <1>2 DEF NoopsGrow, Shrinks, Gone, HeardOnce, ShowsInv, Loses

LEMMA StillLess ==
  ASSUME NoopsGrow, NEW gone, \A t : t \notin gone => Same(t), NEW own,
         \A c \in DOMAIN provider : c # own /\ Known(c) => \A t \in gone : ~Lists(SegmentsOf(c), t)
  PROVE Still(own)
BY DEF Still, StillAs, Lists

\* A chat's own lineage, whose last thread stays where it is.
LEMMA OwnShows ==
  ASSUME ListedInv, NoopsGrow, NEW c \in DOMAIN lineages, NEW segs, segs = lineages[c], Shows(c, segs),
         Deleting(c) => Deleting(c)', \A i : Rolling(c, i) => Rolling(c, i)',
         ~Deleting(c)' /\ Len(segs) > 1 =>
           /\ segs[Len(segs)].thread \in DOMAIN native => segs[Len(segs)].thread \in DOMAIN native'
           /\ \A i \in 1 .. Len(segs) - 1 : Same(segs[i].thread) \/ Rolling(c, i)'
  PROVE Shows(c, segs)'
<1>1. Len(segs) \in Nat \ {0} /\ DOMAIN segs = 1 .. Len(segs)
  BY LastOwned DEF ListedInv
<1>2. Middles(segs)'
  BY DEF Shows, Middles
<1>3. LastLive(c, segs)'
  BY DEF Shows, LastLive
<1>4. Tails(c, segs)'
  <2>1. ASSUME ~Deleting(c)', NEW i \in 1 .. Len(segs) - 1, Own(segs, c, i), ~Rolling(c, i)' PROVE Whole(segs[i])'
    <3>1. Whole(segs[i])
      BY <2>1 DEF Shows, Tails
    <3>2. Len(segs) > 1
      BY <1>1, <2>1
    <3>3. Same(segs[i].thread)
      BY <2>1, <3>2
    <3>4. PICK none : none = Segment(segs[i].thread, None)
      OBVIOUS
    <3>5. none.thread = segs[i].thread
      BY <3>4 DEF Segment
    <3>6. Frozen(none) /\ Frozen(segs[i])
      BY <3>3, <3>5, SameFrozen DEF ListedInv
    <3>7. Part(segs[i]) = Part(none) /\ (Part(segs[i])' = Part(none)' => Whole(segs[i])')
      BY <3>1, <3>4 DEF Whole
    <3> QED  BY <3>6, <3>7 DEF Frozen
  <2> QED  BY <2>1 DEF Tails, Own
<1> QED  BY <1>2, <1>3, <1>4 DEF Shows

LEMMA DeletingShows ==
  ASSUME NEW c, NEW segs, Middles(segs), Deleting(c)' PROVE Shows(c, segs)'
BY DEF Shows, Middles, LastLive, Tails

\* A chat that gets a request.
LEMMA OpenShows ==
  ASSUME ListedInv, "Overlap" \notin Allow, NEW chat, Open(chat)
  PROVE /\ chat \in DOMAIN provider /\ chat \in Threads /\ Known(chat) /\ Current(chat) \in DOMAIN native
        /\ chat \notin newBackends /\ ~Deleting(chat) /\ \A i : ~Rolling(chat, i)
        /\ \A y \in Busy : calls[y].chat # chat /\ chat \notin Dropped(calls[y])
<1>1. \A y \in Busy : calls[y].chat # chat /\ chat \notin Passing(y)
  BY DEF Open, CallsOf
<1>2. \A y \in Busy : chat \notin Dropped(calls[y])
  BY <1>1, PassingIs
<1>3. chat \in DOMAIN provider /\ chat \in Threads /\ Current(chat) \in DOMAIN native /\ Known(chat)
  BY <1>1, OpenKnown DEF ListedInv, Known
<1>4. ~Deleting(chat) /\ \A i : ~Rolling(chat, i)
  BY <1>1 DEF Deleting, Deletes, Rolling, RollsIn, Busy
<1> QED  BY <1>1, <1>2, <1>3, <1>4 DEF Open, Listed, IsBackend, IsHidden

LEMMA BeginShows ==
  ASSUME Sound, Sound', ShowsInv, NEW chat \in Threads, NEW p \in Providers, Begin(chat, p) PROVE ShowsInv'
<1>1. chat \notin DOMAIN provider /\ native' = Put(native, chat, <<NextTurn>>) /\ provider' = Put(provider, chat, p)
  BY DEF Begin, Fresh
<1>2. /\ Still(chat) /\ Shrinks /\ Gone' /\ HeardOnce' /\ \A y \in Busy : LeavesMade(calls[y])
  <2>1. PICK all : all = <<NextTurn>>
    OBVIOUS
  <2>2. Once(all)
    BY <2>1, OnceFew
  <2> QED  BY <1>1, <2>1, <2>2, NewShows DEF Begin
<1>3. chat \notin DOMAIN lineages /\ \A y \in Busy : calls[y].chat # chat
  BY <1>1 DEF Sound, ListedInv, ListsOK, CallsOK, CallOK, CallTyped
<1>4. Grows
  BY <1>1 DEF Grows, Put, Begin
<1> QED  BY <1>2, <1>3, <1>4, ShowsStays DEF Begin, Sound, ListedInv

LEMMA StartTurnShows ==
  ASSUME Sound, Sound', ShowsInv, "Overlap" \notin Allow, NEW chat \in Threads, StartTurn(chat) PROVE ShowsInv'
<1>1. Open(chat) /\ Say(Current(chat), NextTurn) /\ UNCHANGED <<provider, lineages, newBackends, calls, noops, cleaned, run>>
  BY DEF StartTurn
<1>2. /\ chat \in DOMAIN provider /\ Known(chat) /\ Current(chat) \in DOMAIN native /\ ~Deleting(chat)
      /\ \A y \in Busy : calls[y].chat # chat
  BY <1>1, OpenShows DEF Sound
<1>3. PICK thread : thread = Current(chat)
  OBVIOUS
<1>4. /\ Still(chat) /\ Elsewhere(thread) /\ Shrinks /\ Gone' /\ HeardOnce' /\ \A y \in Busy : LeavesMade(calls[y])
  BY <1>1, <1>2, <1>3, SaidShows DEF NoopsGrow
<1>5. ASSUME chat \in DOMAIN lineages PROVE Shows(chat, lineages[chat])'
  <2>1. PICK segs : segs = lineages[chat]
    OBVIOUS
  <2>2. Shows(chat, segs) /\ Distinct(segs)
    BY <1>5, <2>1 DEF ShowsInv, LineagesShow, Sound, HoldInv, SegmentsCount
  <2>3. Len(segs) \in Nat \ {0} /\ DOMAIN segs = 1 .. Len(segs) /\ thread = segs[Len(segs)].thread
    BY <1>3, <1>5, <2>1, LastOwned DEF Sound, ListedInv, Current, SegmentsOf, Last
  <2>4. \A i \in 1 .. Len(segs) - 1 : segs[i].thread # thread
    BY <2>2, <2>3 DEF Distinct
  <2>5. DOMAIN native' = DOMAIN native
    BY <1>1 DEF Say
  <2>6. Deleting(chat)' = Deleting(chat) /\ \A i : Rolling(chat, i)' = Rolling(chat, i)
    BY <1>1 DEF Deleting, Rolling
  <2>7. Shows(chat, segs)'
    BY <1>4, <1>5, <2>1, <2>2, <2>4, <2>5, <2>6, OwnShows DEF Elsewhere, Sound
  <2> QED  BY <1>1, <2>1, <2>7
<1>6. Grows
  BY <1>1 DEF Grows
<1> QED  BY <1>1, <1>2, <1>4, <1>5, <1>6, ShowsStays DEF Sound, ListedInv

LEMMA SaidOwn ==
  ASSUME Sound, ShowsInv, lineages' = lineages, NEW chat \in DOMAIN lineages, NEW thread, thread = Current(chat),
         Elsewhere(thread), DOMAIN native' = DOMAIN native,
         Deleting(chat) => Deleting(chat)', \A i : Rolling(chat, i) => Rolling(chat, i)'
  PROVE Shows(chat, lineages[chat])'
<1>1. PICK segs : segs = lineages[chat]
  OBVIOUS
<1>2. Shows(chat, segs) /\ Distinct(segs)
  BY <1>1 DEF ShowsInv, LineagesShow, Sound, HoldInv, SegmentsCount
<1>3. Len(segs) \in Nat \ {0} /\ DOMAIN segs = 1 .. Len(segs) /\ thread = segs[Len(segs)].thread
  BY <1>1, LastOwned DEF Sound, ListedInv, Current, SegmentsOf, Last
<1>4. \A i \in 1 .. Len(segs) - 1 : segs[i].thread # thread
  BY <1>2, <1>3 DEF Distinct
<1>5. Shows(chat, segs)'
  BY <1>1, <1>2, <1>4, OwnShows DEF Elsewhere, Sound
<1> QED  BY <1>1, <1>5

\* A request that goes on and neither deletes nor rolls back.
LEMMA QuietOn ==
  ASSUME ListedInv, NEW x \in Calls, NEW next, calls' = [calls EXCEPT ![x] = next], Early(calls[x]), NEW c
  PROVE (Deleting(c) => Deleting(c)') /\ \A i : Rolling(c, i) => Rolling(c, i)'
<1>1. \A y \in Calls \ {x} : calls'[y] = calls[y]
  BY DEF ListedInv, CallsOK
<1> QED  BY <1>1 DEF Deleting, Rolling, RollsIn, Early

LEMMA RequestApart ==
  ASSUME ListedInv, NEW x \in Busy PROVE \A y \in Busy \ {x} : calls[y].chat # calls[x].chat
BY DEF ListedInv, CallsOK, Apart

LEMMA StartSwitchedShows ==
  ASSUME Sound, Sound', ShowsInv, NEW x \in Calls, StartSwitched(x) PROVE ShowsInv'
<1>1. PICK backend \in calls[x].made : Say(backend, NextTurn)
  BY DEF StartSwitched
<1>2. /\ x \in Busy /\ calls' = [calls EXCEPT ![x] = Idle] /\ backend \in DOMAIN native
      /\ calls[x].what = "switch" /\ calls[x].step = "set"
      /\ UNCHANGED <<provider, lineages, newBackends, noops, cleaned, run>>
  BY DoingBusy DEF StartSwitched, Ends, Doing
<1>3. PICK call : call = calls[x]
  OBVIOUS
<1>4. CallShows(call) /\ Known(call.chat) /\ call.chat \in DOMAIN provider
  BY <1>2, <1>3, ChatKnown DEF Sound, ShowsInv, CallsShow
<1>5. call.chat \in DOMAIN lineages /\ Current(call.chat) = backend
  BY <1>1, <1>2, <1>3, <1>4 DEF CallShows, SwitchShows, Makes, Current, SegmentsOf, Last
<1>6. /\ Still(call.chat) /\ Elsewhere(backend) /\ Shrinks /\ Gone' /\ HeardOnce'
      /\ \A y \in Busy : calls[y].chat # call.chat => LeavesMade(calls[y])
  BY <1>1, <1>2, <1>4, <1>5, SaidShows DEF NoopsGrow
<1>7. Early(call)
  BY <1>2, <1>3 DEF Early, Deletes
<1>8. (Deleting(call.chat) => Deleting(call.chat)') /\ \A i : Rolling(call.chat, i) => Rolling(call.chat, i)'
  BY <1>2, <1>3, <1>7, QuietOn DEF Sound
<1>9. Shows(call.chat, lineages[call.chat])'
  <2>1. DOMAIN native' = DOMAIN native
    BY <1>1 DEF Say
  <2> QED  BY <1>2, <1>5, <1>6, <1>8, <2>1, SaidOwn
<1>10. \A y \in Busy \ {x} : calls[y].chat # call.chat /\ LeavesMade(calls[y])
  BY <1>2, <1>3, <1>6, RequestApart DEF Sound
<1>11. Grows
  BY <1>2 DEF Grows
<1> QED  BY <1>2, <1>3, <1>6, <1>9, <1>10, <1>11, ShowsStep DEF Sound, ListedInv

LEMMA FailSwitchShows ==
  ASSUME Sound, Sound', ShowsInv, "LateFailures" \notin Allow, NEW x \in Calls, FailSwitch(x) PROVE ShowsInv'
<1>1. PICK gone : gone = {t \in calls[x].made : provider[t] = "claude"}
  OBVIOUS
<1>2. /\ x \in Busy /\ calls' = [calls EXCEPT ![x] = Idle] /\ calls[x].what = "switch" /\ calls[x].step \in {"asked", "ready"}
      /\ UNCHANGED <<provider, lineages, newBackends, turns, noops, cleaned, run>>
  BY DoingBusy DEF FailSwitch, Ends, Doing
<1>3. Loses(gone)
  BY <1>1 DEF FailSwitch, Loses, Restrict
<1>4. PICK call : call = calls[x]
  OBVIOUS
<1>5. /\ NoopsGrow /\ Shrinks /\ Gone' /\ HeardOnce' /\ \A y \in Busy \ {x} : LeavesMade(calls[y])
      /\ \A t : t \notin gone => Same(t)
  BY <1>1, <1>2, <1>3, LosesShows
<1>6. \A t \in gone : t \notin DOMAIN lineages /\ Unlisted(t) /\ t \in Passing(x)
  BY <1>1, <1>2, PassedBy, PassingIs DEF Sound, ShowsInv
<1>7. Still(call.chat)
  <2>1. ASSUME NEW c \in DOMAIN provider, Known(c), NEW t \in gone PROVE ~Lists(SegmentsOf(c), t)
    BY <1>2, <1>6, <2>1 DEF Known, Unlisted, SegmentsOf, Segment, Lists
  <2> QED  BY <1>2, <1>5, <2>1, StillLess
<1>8. Early(call)
  BY <1>2, <1>4 DEF Early, Deletes
<1>9. (Deleting(call.chat) => Deleting(call.chat)') /\ \A i : Rolling(call.chat, i) => Rolling(call.chat, i)'
  BY <1>2, <1>4, <1>8, QuietOn DEF Sound
<1>10. ASSUME call.chat \in DOMAIN lineages PROVE Shows(call.chat, lineages[call.chat])'
  <2>1. PICK segs : segs = lineages[call.chat]
    OBVIOUS
  <2>2. Shows(call.chat, segs)
    BY <1>10, <2>1 DEF ShowsInv, LineagesShow
  <2>3. Len(segs) \in Nat \ {0} /\ DOMAIN segs = 1 .. Len(segs)
    BY <1>10, <2>1, LastOwned DEF Sound, ListedInv
  <2>4. \A i \in DOMAIN segs : Same(segs[i].thread)
    BY <1>5, <1>6, <1>10, <2>1 DEF Unlisted, Lists
  <2>5. Shows(call.chat, segs)'
    BY <1>5, <1>9, <1>10, <2>1, <2>2, <2>3, <2>4, OwnShows DEF Sound, Same
  <2> QED  BY <1>2, <2>1, <2>5
<1>11. \A y \in Busy \ {x} : calls[y].chat # call.chat /\ LeavesMade(calls[y])
  BY <1>2, <1>4, <1>5, RequestApart DEF Sound
<1>12. Grows
  BY <1>2 DEF Grows
<1> QED  BY <1>2, <1>4, <1>5, <1>7, <1>10, <1>11, <1>12, ShowsStep DEF Sound, ListedInv

\* A request ends, or goes on with less, and threads stay.
LEMMA SameShows ==
  ASSUME Sound, Sound', ShowsInv, UNCHANGED <<provider, native, lineages, newBackends, noops, cleaned>>,
         NEW x \in Calls, NEW next, calls' = [calls EXCEPT ![x] = next], Early(calls[x]),
         NEW own, own \in DOMAIN provider, calls[x] = Idle \/ calls[x].chat = own, \A y \in Busy \ {x} : calls[y].chat # own,
         next = Idle \/ (CallShows(next)' /\ \A other \in Others(x) : PairShows(next, other) /\ PairShows(other, next))
  PROVE ShowsInv'
<1>1. NoopsGrow /\ Grows /\ Shrinks /\ Gone' /\ HeardOnce' /\ \A t : Same(t)
  BY DEF NoopsGrow, Grows, Shrinks, Gone, HeardOnce, ShowsInv, Same
<1>2. Still(own) /\ \A y \in Busy \ {x} : LeavesMade(calls[y])
  BY <1>1, StillSame DEF LeavesMade
<1>3. (Deleting(own) => Deleting(own)') /\ \A i : Rolling(own, i) => Rolling(own, i)'
  BY QuietOn DEF Sound
<1>4. ASSUME own \in DOMAIN lineages PROVE Shows(own, lineages[own])'
  <2>1. PICK segs : segs = lineages[own]
    OBVIOUS
  <2>2. Shows(own, segs)
    BY <1>4, <2>1 DEF ShowsInv, LineagesShow
  <2>3. Shows(own, segs)'
    BY <1>1, <1>3, <1>4, <2>1, <2>2, OwnShows DEF Sound, Same
  <2> QED  BY <2>1, <2>3
<1> QED  BY <1>1, <1>2, <1>4, ShowsStep DEF Sound, ListedInv

LEMMA RefuseShows == ASSUME Sound, Sound', ShowsInv, NEW x \in Calls, Refuse(x) PROVE ShowsInv'
<1>1. /\ x \in Busy /\ calls' = [calls EXCEPT ![x] = Idle] /\ calls[x].what \in {"fork", "revert"} /\ calls[x].step = "asked"
      /\ UNCHANGED <<provider, native, lineages, newBackends, noops, cleaned>>
  BY DoingBusy DEF Refuse, Ends, Doing
<1>2. Early(calls[x])
  BY <1>1 DEF Early, Deletes
<1>3. calls[x].chat \in DOMAIN provider /\ \A y \in Busy \ {x} : calls[y].chat # calls[x].chat
  BY <1>1, ChatKnown, RequestApart DEF Sound, ShowsInv
<1> QED  BY <1>1, <1>2, <1>3, SameShows

\* A thread of a chat's that no other lineage lists is no other chat's.
LEMMA OwnAlone ==
  ASSUME NEW chat, NEW thread, Lists(SegmentsOf(chat), thread), ~Shared(chat, thread), NEW c, c # chat, Known(c)
  PROVE ~Lists(SegmentsOf(c), thread)
<1>1. CASE c \in DOMAIN lineages
  BY <1>1 DEF Shared, SegmentsOf
<1>2. CASE c \notin DOMAIN lineages
  <2>1. Unlisted(c) /\ (Lists(SegmentsOf(c), thread) => thread = c)
    BY <1>2 DEF Known, SegmentsOf, Lists, Segment
  <2>2. thread # c
    BY <2>1 DEF Unlisted, SegmentsOf, Lists, Segment
  <2> QED  BY <2>1, <2>2
<1> QED  BY <1>1, <1>2

LEMMA GoneOwn ==
  ASSUME Sound, ShowsInv, NoopsGrow, NEW chat, NEW thread, Lists(SegmentsOf(chat), thread), ~Shared(chat, thread),
         \A t : t # thread => Same(t)
  PROVE Still(chat)
<1>1. \A c \in DOMAIN provider : c # chat /\ Known(c) => ~Lists(SegmentsOf(c), thread)
  BY OwnAlone
<1>2. PICK gone : gone = {thread}
  OBVIOUS
<1>3. (\A t : t \notin gone => Same(t)) /\ \A c \in DOMAIN provider : c # chat /\ Known(c) => \A t \in gone : ~Lists(SegmentsOf(c), t)
  BY <1>1, <1>2
<1> QED  BY <1>3, StillLess

LEMMA DeleteOnlyShows == ASSUME Sound, Sound', ShowsInv, NEW x \in Calls, DeleteOnly(x) PROVE ShowsInv'
<1>1. PICK call : call = calls[x]
  OBVIOUS
<1>2. PICK thread : thread = call.segs[1].thread
  OBVIOUS
<1>3. /\ x \in Busy /\ call.what = "delete" /\ call # Idle /\ Len(call.segs) = 1 /\ calls' = [calls EXCEPT ![x] = Idle]
      /\ native' = Restrict(native, DOMAIN native \ {thread})
      /\ UNCHANGED <<provider, lineages, newBackends, turns, noops, cleaned, run>>
  BY <1>1, <1>2, DoingBusy DEF DeleteOnly, Ends, Doing
<1>4. call.segs = SegmentsOf(call.chat) /\ call.chat \in DOMAIN provider /\ Len(call.segs) \in Nat /\ DOMAIN call.segs = 1 .. Len(call.segs)
  BY <1>1, <1>3, OfCall DEF CallOK, AsTaken, CallTyped, Sound
<1>5. thread = call.chat /\ Lists(call.segs, thread)
  <2>1. Lists(call.segs, call.chat)
    BY <1>4, OwnSegments DEF Sound, ListedInv
  <2>2. PICK i \in DOMAIN call.segs : call.segs[i].thread = call.chat
    BY <2>1 DEF Lists
  <2>3. i \in 1 .. Len(call.segs) /\ Len(call.segs) = 1
    BY <1>3, <1>4
  <2>4. i = 1
    BY <2>3
  <2> QED  BY <1>2, <2>1, <2>2, <2>4
<1>6. ~Shared(call.chat, thread)
  BY <1>1, <1>3, <1>5 DEF Sound, HoldInv, CallsHold, DeletedAlone
<1>7. PICK gone : gone = {thread}
  OBVIOUS
<1>8. Loses(gone)
  BY <1>3, <1>7 DEF Loses, Restrict
<1>9. /\ NoopsGrow /\ Shrinks /\ Gone' /\ HeardOnce' /\ \A y \in Busy \ {x} : LeavesMade(calls[y])
      /\ \A t : t \notin gone => Same(t)
  BY <1>1, <1>3, <1>5, <1>7, <1>8, LosesShows
<1>10. Still(call.chat)
  BY <1>4, <1>5, <1>6, <1>7, <1>9, GoneOwn
<1>11. ASSUME call.chat \in DOMAIN lineages PROVE Shows(call.chat, lineages[call.chat])'
  <2>1. PICK segs : segs = lineages[call.chat]
    OBVIOUS
  <2>2. Len(segs) = 1
    BY <1>3, <1>4, <1>11, <2>1 DEF SegmentsOf
  <2>3. Shows(call.chat, segs)'
    BY <2>2 DEF Shows, Middles, LastLive, Tails
  <2> QED  BY <1>3, <2>1, <2>3
<1>12. \A y \in Busy \ {x} : calls[y].chat # call.chat /\ LeavesMade(calls[y])
  BY <1>1, <1>3, <1>9, RequestApart DEF Sound
<1>13. Grows
  BY <1>3 DEF Grows
<1> QED  BY <1>1, <1>3, <1>9, <1>10, <1>11, <1>12, <1>13, ShowsStep DEF Sound, ListedInv

LEMMA DeleteSegmentShows == ASSUME Sound, Sound', ShowsInv, NEW x \in Calls, DeleteSegment(x) PROVE ShowsInv'
<1>1. PICK call : call = calls[x]
  OBVIOUS
<1>2. PICK at : at = call.at + 1
  OBVIOUS
<1>3. PICK thread : thread = call.segs[at].thread
  OBVIOUS
<1>4. PICK next : next = [call EXCEPT !.at = at]
  OBVIOUS
<1>5. /\ x \in Busy /\ call # Idle /\ call.what = "delete" /\ Len(call.segs) > 1 /\ call.at < Len(call.segs)
      /\ calls' = [calls EXCEPT ![x] = next] /\ UNCHANGED <<provider, lineages, newBackends, turns, noops, cleaned, run>>
      /\ native' = IF Shared(call.chat, thread) THEN native ELSE Restrict(native, DOMAIN native \ {thread})
  BY <1>1, <1>2, <1>3, <1>4, DoingBusy DEF DeleteSegment, Doing
<1>6. /\ CallOK(call) /\ call \in Requests(call.want) /\ call.segs = SegmentsOf(call.chat) /\ call.at \in Nat
      /\ DOMAIN call.segs = 1 .. Len(call.segs) /\ Len(call.segs) \in Nat /\ call.chat \in DOMAIN provider
  BY <1>1, <1>5, OfCall DEF CallOK, AsTaken, CallTyped, Sound
<1>7. at \in DOMAIN call.segs /\ at \in Nat /\ Lists(call.segs, thread)
  BY <1>2, <1>3, <1>5, <1>6 DEF Lists
<1>8. PICK gone : gone = IF Shared(call.chat, thread) THEN {} ELSE {thread}
  OBVIOUS
<1>9. Loses(gone)
  BY <1>5, <1>8 DEF Loses, Restrict
<1>10. /\ NoopsGrow /\ Shrinks /\ Gone' /\ HeardOnce' /\ \A y \in Busy \ {x} : LeavesMade(calls[y])
       /\ \A t : t \notin gone => Same(t)
  BY <1>1, <1>5, <1>7, <1>8, <1>9, LosesShows
<1>11. Still(call.chat)
  <2>1. CASE Shared(call.chat, thread)
    BY <1>5, <1>10, <2>1, StillSame
  <2>2. CASE ~Shared(call.chat, thread)
    BY <1>6, <1>7, <1>8, <1>10, <2>2, GoneOwn
  <2> QED  BY <2>1, <2>2
<1>12. /\ next.what = "delete" /\ next.segs = call.segs /\ next.at = at /\ next.chat = call.chat /\ next # Idle
  <2>1. next.what = "delete" /\ next.segs = call.segs /\ next.at = at /\ next.chat = call.chat /\ next.step = call.step
    BY <1>4, <1>5, <1>6 DEF Requests
  <2> QED  BY <1>6, <2>1 DEF Requests, Idle
<1>13. Deletes(next)
  BY <1>2, <1>6, <1>12 DEF Deletes
<1>14. Deleting(call.chat)'
  <2>1. calls'[x] = next
    BY <1>5 DEF Sound, ListedInv, CallsOK
  <2> QED  BY <1>12, <1>13, <2>1 DEF Deleting
<1>15. ASSUME call.chat \in DOMAIN lineages PROVE Shows(call.chat, lineages[call.chat])'
  <2>1. PICK segs : segs = lineages[call.chat]
    OBVIOUS
  <2>2. Middles(segs)
    BY <1>15, <2>1 DEF ShowsInv, LineagesShow, Shows
  <2>3. Shows(call.chat, segs)'
    BY <1>14, <2>2, DeletingShows
  <2> QED  BY <1>5, <2>1, <2>3
<1>16. CallShows(next)'
  <2>1. CallShows(call)
    BY <1>1, <1>5 DEF ShowsInv, CallsShow
  <2>2. ASSUME NEW i \in 1 .. at PROVE call.segs[i].thread \notin DOMAIN native' \/ Shared(call.chat, call.segs[i].thread)
    <3>1. CASE i = at
      BY <1>3, <1>8, <1>9, <3>1 DEF Loses
    <3>2. CASE i # at
      <4>1. i \in 1 .. call.at
        BY <1>2, <1>6, <2>2, <3>2
      <4> QED  BY <1>5, <1>9, <2>1, <4>1 DEF CallShows, DeleteShows, Loses
    <3> QED  BY <3>1, <3>2
  <2>3. DeleteShows(next)'
    BY <1>5, <1>12, <2>2 DEF DeleteShows, Shared
  <2> QED  BY <1>5, <1>12, <1>13, <2>1, <2>3 DEF CallShows
<1>17. \A other \in Others(x) : PairShows(next, other) /\ PairShows(other, next)
  <2>1. ASSUME NEW other \in Others(x) PROVE PairShows(call, other) /\ PairShows(other, call)
    BY <1>1, <1>5, <2>1 DEF Others, ShowsInv, CallsShow
  <2>2. Dropped(next) \subseteq Dropped(call) /\ Drops(call)
    BY <1>5, <1>12 DEF Dropped, Drops
  <2> QED  BY <1>12, <2>1, <2>2, PairGoesOn
<1>18. \A y \in Busy \ {x} : calls[y].chat # call.chat /\ LeavesMade(calls[y])
  BY <1>1, <1>5, <1>10, RequestApart DEF Sound
<1>19. Grows
  BY <1>5 DEF Grows
<1>20. x \in Calls /\ calls[x].chat = call.chat
  BY <1>1
<1> QED  BY <1>5, <1>10, <1>11, <1>15, <1>16, <1>17, <1>18, <1>19, <1>20, ShowsStep DEF Sound, ListedInv

LEMMA DiscardShows == ASSUME Sound, Sound', ShowsInv, NEW x \in Calls, Discard(x) PROVE ShowsInv'
<1>1. PICK call : call = calls[x]
  OBVIOUS
<1>2. PICK at : at = call.at + 1
  OBVIOUS
<1>3. PICK next : next = IF at = Len(call.segs) THEN Idle ELSE Discarding(call, at)
  OBVIOUS
<1>4. PICK thread : thread = call.segs[at].thread
  OBVIOUS
<1>5. /\ x \in Busy /\ call # Idle /\ call.what = "revert" /\ call.step = "set" /\ calls' = [calls EXCEPT ![x] = next]
      /\ UNCHANGED <<provider, lineages, newBackends, turns, noops, cleaned, run>>
  BY <1>1, <1>2, <1>3, DoingBusy DEF Discard, Doing, GoesOn, Ends, Discarding
<1>6. /\ CallOK(call) /\ call \in Requests(call.want) /\ Len(call.segs) \in Nat /\ call.at \in Nat /\ call.at < Len(call.segs)
      /\ DOMAIN call.segs = 1 .. Len(call.segs)
  BY <1>1, <1>5, OfCall DEF CallOK, AsTaken, Sound
<1>7. thread \in Dropped(call) /\ Lists(call.segs, thread)
  BY <1>2, <1>4, <1>5, <1>6 DEF Dropped, Lists
<1>8. PICK gone : gone = IF Unlisted(thread) THEN {thread} ELSE {}
  OBVIOUS
<1>9. Loses(gone)
  BY <1>1, <1>2, <1>4, <1>8 DEF Discard, Unlisted, Loses, Restrict
<1>10. /\ NoopsGrow /\ Shrinks /\ Gone' /\ HeardOnce' /\ \A y \in Busy \ {x} : LeavesMade(calls[y])
       /\ \A t : t \notin gone => Same(t)
  BY <1>1, <1>5, <1>7, <1>8, <1>9, LosesShows
<1>11. Still(call.chat)
  <2>1. ASSUME NEW c \in DOMAIN provider, Known(c), NEW t \in gone PROVE ~Lists(SegmentsOf(c), t)
    <3>1. t = thread /\ Unlisted(t) /\ t \in Passing(x)
      BY <1>1, <1>5, <1>7, <1>8, <2>1, PassingIs
    <3> QED  BY <1>5, <2>1, <3>1 DEF Known, Unlisted, SegmentsOf, Segment, Lists
  <2> QED  BY <1>10, <2>1, StillLess
<1>12. CallShows(call) /\ call.chat \in DOMAIN provider
  BY <1>1, <1>5, ChatKnown DEF ShowsInv, CallsShow, Sound
<1>13. Early(calls[x])
  BY <1>1, <1>5 DEF Early, Deletes
<1>14. (Deleting(call.chat) => Deleting(call.chat)') /\ \A i : Rolling(call.chat, i) => Rolling(call.chat, i)'
  BY <1>5, <1>13, QuietOn DEF Sound
<1>15. call.chat \in DOMAIN lineages => \A i \in DOMAIN lineages[call.chat] : Same(lineages[call.chat][i].thread)
  BY <1>8, <1>10 DEF Unlisted, Lists
<1>16. ASSUME call.chat \in DOMAIN lineages PROVE Shows(call.chat, lineages[call.chat])'
  <2>1. PICK segs : segs = lineages[call.chat]
    OBVIOUS
  <2>2. Shows(call.chat, segs)
    BY <1>16, <2>1 DEF ShowsInv, LineagesShow
  <2>3. Len(segs) \in Nat \ {0} /\ DOMAIN segs = 1 .. Len(segs) /\ \A i \in DOMAIN segs : Same(segs[i].thread)
    BY <1>15, <1>16, <2>1, LastOwned DEF Sound, ListedInv
  <2>4. Shows(call.chat, segs)'
    BY <1>10, <1>14, <1>16, <2>1, <2>2, <2>3, OwnShows DEF Sound, Same
  <2> QED  BY <1>5, <2>1, <2>4
<1>17. Current(call.chat)' \in DOMAIN native'
  <2>1. Current(call.chat) \in DOMAIN native /\ Current(call.chat)' = Current(call.chat)
    BY <1>5, <1>12 DEF CallShows, Deletes, Current, SegmentsOf
  <2>2. Same(Current(call.chat))
    <3>1. CASE call.chat \in DOMAIN lineages
      <4>1. PICK segs : segs = lineages[call.chat]
        OBVIOUS
      <4>2. Len(segs) \in DOMAIN segs /\ Current(call.chat) = segs[Len(segs)].thread
        BY <3>1, <4>1, LastOwned DEF Sound, ListedInv, Current, SegmentsOf, Last
      <4> QED  BY <1>15, <3>1, <4>1, <4>2
    <3>2. CASE call.chat \notin DOMAIN lineages
      <4>1. Current(call.chat) = call.chat /\ call.chat # thread
        BY <1>5, <1>7, <1>12, <3>2 DEF CallShows, RevertShows, Current, SegmentsOf, Segment, Last
      <4> QED  BY <1>8, <1>10, <4>1
    <3> QED  BY <3>1, <3>2
  <2> QED  BY <2>1, <2>2 DEF Same
<1>18. next = Idle \/ (CallShows(next)' /\ \A other \in Others(x) : PairShows(next, other) /\ PairShows(other, next))
  <2>1. ASSUME next # Idle
        PROVE /\ next.what = "revert" /\ next.step = "set" /\ next.segs = call.segs /\ next.at = at /\ next.chat = call.chat
              /\ Dropped(next) \subseteq Dropped(call)
    <3>1. next.what = "revert" /\ next.step = "set" /\ next.segs = call.segs /\ next.at = at /\ next.chat = call.chat
      BY <1>3, <1>5, <1>6, <2>1 DEF Discarding, Requests
    <3> QED  BY <1>2, <1>5, <1>6, <2>1, <3>1 DEF Dropped
  <2>2. next # Idle => CallShows(next)'
    <3>1. ASSUME next # Idle PROVE RevertShows(next)'
      BY <1>5, <1>12, <2>1, <3>1 DEF CallShows, RevertShows, Dropped
    <3> QED  BY <1>5, <1>12, <1>17, <2>1, <3>1 DEF CallShows
  <2>3. ASSUME next # Idle, NEW other \in Others(x) PROVE PairShows(next, other) /\ PairShows(other, next)
    <3>1. PairShows(call, other) /\ PairShows(other, call)
      BY <1>1, <1>5, <2>3 DEF Others, ShowsInv, CallsShow
    <3>2. Drops(call)
      BY <1>5 DEF Drops
    <3> QED  BY <2>1, <2>3, <3>1, <3>2, PairGoesOn
  <2> QED  BY <2>2, <2>3
<1>19. \A y \in Busy \ {x} : calls[y].chat # call.chat /\ LeavesMade(calls[y])
  BY <1>1, <1>5, <1>10, RequestApart DEF Sound
<1>20. Grows
  BY <1>5 DEF Grows
<1>21. x \in Calls /\ calls[x].chat = call.chat
  BY <1>1
<1> QED  BY <1>5, <1>10, <1>11, <1>16, <1>18, <1>19, <1>20, <1>21, ShowsStep DEF Sound, ListedInv

LEMMA RevertThreadShows == ASSUME Sound, Sound', ShowsInv, NEW x \in Calls, RevertThread(x) PROVE ShowsInv'
<1>1. PICK call : call = calls[x]
  OBVIOUS
<1>2. PICK next : next = [call EXCEPT !.step = "ready"]
  OBVIOUS
<1>3. PICK thread : thread = call.segs[call.at].thread
  OBVIOUS
<1>4. /\ calls' = [calls EXCEPT ![x] = next] /\ x \in Busy /\ call # Idle /\ call.what = "revert" /\ call.step = "asked"
      /\ ~call.drop /\ UNCHANGED <<provider, lineages, newBackends, turns, noops, cleaned, run>>
      /\ thread \in DOMAIN native /\ native' = [native EXCEPT ![thread] = SubSeq(@, 1, call.count)]
  BY <1>1, <1>2, <1>3, DoingBusy DEF RevertThread, Doing
<1>5. /\ CallOK(call) /\ call \in Requests(call.want) /\ call.segs = SegmentsOf(call.chat) /\ call.at \in DOMAIN call.segs
      /\ ~Shared(call.chat, thread) /\ call.count \in Nat /\ call.count <= Len(native[thread]) /\ call.chat \in DOMAIN provider
  BY <1>1, <1>3, <1>4, OfCall DEF CallOK, AsTaken, RolledAlone, RollsBack, Counted, Sound, CallTyped
<1>6. next.what = "revert" /\ next.step = "ready" /\ next.chat = call.chat /\ next.at = call.at /\ next.segs = call.segs /\ next # Idle
  <2>1. next.what = "revert" /\ next.step = "ready" /\ next.chat = call.chat /\ next.at = call.at /\ next.segs = call.segs
    BY <1>2, <1>4, <1>5 DEF Requests
  <2> QED  BY <2>1 DEF Idle
<1>7. Lists(call.segs, thread)
  BY <1>3, <1>5 DEF Lists
<1>8. DOMAIN native' = DOMAIN native /\ NoopsGrow /\ Shrinks /\ Grows /\ Gone' /\ \A t : t # thread => Same(t)
  BY <1>4 DEF NoopsGrow, Shrinks, Grows, Gone, ShowsInv, Same
<1>9. HeardOnce'
  <2>1. PICK all : all = native[thread]
    OBVIOUS
  <2>2. PICK E : E = 1 .. turns
    OBVIOUS
  <2>3. PICK n : n = call.count
    OBVIOUS
  <2>4. all \in Seq(E) /\ Once(all) /\ n \in 0 .. Len(all)
    BY <1>4, <1>5, <2>1, <2>2, <2>3 DEF Sound, ListedInv, ThreadsOK, ShowsInv, HeardOnce
  <2>5. Once(SubSeq(all, 1, n))
    BY <2>4, OnceFirsts
  <2>6. native'[thread] = SubSeq(all, 1, n)
    BY <1>4, <2>1, <2>3
  <2> QED  BY <1>8, <2>5, <2>6 DEF HeardOnce, ShowsInv, Same
<1>10. Still(call.chat)
  BY <1>5, <1>7, <1>8, GoneOwn
<1>11. \A y \in Busy \ {x} : calls[y].chat # call.chat /\ LeavesMade(calls[y])
  <2>1. ASSUME NEW y \in Busy \ {x} PROVE LeavesMade(calls[y])
    <3>1. Apart(calls[y], call)
      BY <1>1, <1>4 DEF Sound, ListedInv, CallsOK
    <3> QED  BY <1>7, <1>8, <3>1 DEF LeavesMade, Apart
  <2> QED  BY <1>1, <1>4, <2>1, RequestApart DEF Sound
<1>12. Early(calls[x]) /\ x \in Calls /\ calls[x].chat = call.chat
  BY <1>1, <1>4 DEF Early, Deletes
<1>13. (Deleting(call.chat) => Deleting(call.chat)') /\ \A i : Rolling(call.chat, i) => Rolling(call.chat, i)'
  BY <1>4, <1>12, QuietOn DEF Sound
<1>14. ASSUME call.chat \in DOMAIN lineages PROVE Shows(call.chat, lineages[call.chat])'
  <2>1. PICK segs : segs = lineages[call.chat]
    OBVIOUS
  <2>2. Shows(call.chat, segs) /\ Distinct(segs)
    BY <1>14, <2>1 DEF ShowsInv, LineagesShow, Sound, HoldInv, SegmentsCount
  <2>3. Len(segs) \in Nat \ {0} /\ DOMAIN segs = 1 .. Len(segs) /\ call.segs = segs
    BY <1>5, <1>14, <2>1, LastOwned DEF Sound, ListedInv, SegmentsOf
  <2>4. ASSUME NEW i \in 1 .. Len(segs) - 1 PROVE Same(segs[i].thread) \/ Rolling(call.chat, i)'
    <3>1. CASE i # call.at
      BY <1>3, <1>5, <1>8, <2>2, <2>3, <2>4, <3>1 DEF Distinct
    <3>2. CASE i = call.at
      <4>1. calls'[x] = next
        BY <1>4 DEF Sound, ListedInv, CallsOK
      <4> QED  BY <1>6, <3>2, <4>1 DEF Rolling, RollsIn
    <3> QED  BY <3>1, <3>2
  <2>5. Shows(call.chat, segs)'
    BY <1>8, <1>13, <1>14, <2>1, <2>2, <2>4, OwnShows DEF Sound
  <2> QED  BY <1>4, <2>1, <2>5
<1>15. CallShows(call)
  BY <1>1, <1>4 DEF ShowsInv, CallsShow
<1>16. CallShows(next)'
  <2>1. Dropped(next) = {} /\ Live(call.segs)' /\ ~Deletes(next) /\ ~Deletes(call)
    BY <1>4, <1>6, <1>8, <1>15 DEF Dropped, Deletes, CallShows, RevertShows, Live
  <2>2. Current(call.chat)' \in DOMAIN native'
    BY <1>4, <1>8, <1>15, <2>1 DEF CallShows, Current, SegmentsOf
  <2>3. RevertShows(next)'
    BY <1>6, <2>1 DEF RevertShows, Dropped
  <2> QED  BY <1>4, <1>6, <1>15, <2>2, <2>3 DEF CallShows
<1>17. \A other \in Others(x) : PairShows(next, other) /\ PairShows(other, next)
  <2>1. ASSUME NEW other \in Others(x) PROVE PairShows(call, other) /\ PairShows(other, call)
    BY <1>1, <1>4, <2>1 DEF Others, ShowsInv, CallsShow
  <2>2. Dropped(next) \subseteq Dropped(call) /\ Drops(call)
    BY <1>4, <1>6 DEF Dropped, Drops
  <2> QED  BY <1>6, <2>1, <2>2, PairGoesOn
<1> QED  BY <1>4, <1>8, <1>9, <1>10, <1>11, <1>12, <1>14, <1>16, <1>17, ShowsStep DEF Sound, ListedInv

-----------------------------------------------------------------------------
(* Requests that come in *)

LEMMA RequestShows ==
  ASSUME Sound, Sound', ShowsInv, "Overlap" \notin Allow, UNCHANGED <<provider, native, lineages, newBackends, noops, cleaned>>,
         NEW x \in Calls, NEW next, calls[x] = Idle, calls' = [calls EXCEPT ![x] = next], Open(next.chat),
         next.segs = SegmentsOf(next.chat), Dropped(next) = {}, Drops(next) => ~TwinDrops(next.chat), CallShows(next)'
  PROVE ShowsInv'
<1>1. PICK chat : chat = next.chat
  OBVIOUS
<1>2. chat \in DOMAIN provider /\ \A y \in Busy : calls[y].chat # chat /\ chat \notin Dropped(calls[y])
  BY <1>1, OpenShows DEF Sound, ListedInv
<1>3. ASSUME NEW other \in Others(x) PROVE PairShows(next, other) /\ PairShows(other, next)
  <2>1. PICK y \in Busy : other = calls[y]
    BY <1>3 DEF Others
  <2>2. Drops(other) /\ Drops(next) => \A i \in DOMAIN next.segs : ~Lists(other.segs, next.segs[i].thread)
    BY <1>1, <1>2, <2>1 DEF Drops, TwinDrops
  <2> QED  BY <1>1, <1>2, <2>1, <2>2 DEF PairShows, Lists
<1>4. Early(calls[x])
  BY DEF Early, Deletes
<1> QED  BY <1>1, <1>2, <1>3, <1>4, SameShows

LEMMA AskDeleteShows ==
  ASSUME Sound, Sound', ShowsInv, "Overlap" \notin Allow, "TwinDrops" \notin Allow, NEW x \in Calls, NEW chat \in Threads,
         AskDelete(x, chat)
  PROVE ShowsInv'
<1>1. PICK next : next = [what |-> "delete", chat |-> chat, segs |-> SegmentsOf(chat), step |-> "asked",
                          at |-> 0, count |-> 0, drop |-> FALSE, made |-> {}, want |-> 0]
  OBVIOUS
<1>2. /\ calls[x] = Idle /\ calls' = [calls EXCEPT ![x] = next] /\ Open(chat) /\ ~TwinDrops(chat)
      /\ UNCHANGED <<provider, native, lineages, newBackends, turns, noops, cleaned, run>>
  BY <1>1 DEF AskDelete, Take
<1>3. /\ next.what = "delete" /\ next.chat = chat /\ next.segs = SegmentsOf(chat) /\ next.at = 0
  BY <1>1
<1>4. chat \notin newBackends /\ Current(chat)' \in DOMAIN native'
  BY <1>2, OpenShows DEF Sound, Current, SegmentsOf
<1>5. CallShows(next)'
  BY <1>2, <1>3, <1>4 DEF CallShows, DeleteShows
<1>6. Dropped(next) = {}
  BY <1>3 DEF Dropped
<1> QED  BY <1>2, <1>3, <1>5, <1>6, RequestShows

\* A fork, or a rollback, to the first turns of a segment, and what it may ask for.
CopyFits(segs, at, count) ==
  at = 1 /\ count = 0 /\ provider[segs[1].thread] = "claude" => Len(segs) = 1 /\ native[segs[1].thread] = << >>
AsksUpTo(x, what, chat, at, count, drop) ==
  LET segs == SegmentsOf(chat)
  IN /\ Open(chat) /\ Readable(chat) /\ TakeUpTo(x, what, chat, at, count, drop)
     /\ at \in DOMAIN segs /\ count \in Nat /\ count <= Len(Cut(segs[at]))
     /\ what = "fork" => CopyFits(segs, at, count)
     /\ what = "revert" => ~TwinDrops(chat) /\ (drop => count = Len(Cut(segs[at])) /\ at < Len(segs))
     /\ UNCHANGED <<provider, native, lineages, newBackends, turns, noops, cleaned, run>>

LEMMA AskWholeForkIs ==
  ASSUME Sound, NEW x \in Calls, NEW chat \in Threads, AskWholeFork(x, chat)
  PROVE \E at, count : AsksUpTo(x, "fork", chat, at, count, FALSE)
<1>1. PICK segs : segs = SegmentsOf(chat)
  OBVIOUS
<1>2. PICK all : all = native[Current(chat)]
  OBVIOUS
<1>3. PICK at : at = Len(segs)
  OBVIOUS
<1>10. PICK count : count = Len(all)
  OBVIOUS
<1>4. /\ Open(chat) /\ Readable(chat) /\ TakeUpTo(x, "fork", chat, at, count, FALSE)
      /\ UNCHANGED <<provider, native, lineages, newBackends, turns, noops, cleaned, run>>
  BY <1>1, <1>2, <1>3, <1>10 DEF AskWholeFork
<1>5. /\ segs \in Seq(Segments) /\ at \in Nat \ {0} /\ DOMAIN segs = 1 .. at /\ Current(chat) = segs[at].thread
      /\ Current(chat) \in DOMAIN native /\ segs[at].last = None
  BY <1>1, <1>3, <1>4, OpenKnown, OwnSegments DEF Sound, ListedInv, Current, Last
<1>6. all \in Seq(1 .. turns) /\ \A k \in DOMAIN all : all[k] # None
  BY <1>2, <1>5 DEF Sound, ListedInv, ThreadsOK, None
<1>7. Cut(segs[at]) = all
  BY <1>2, <1>5, <1>6, CutIs, CutAtNone
<1>8. CopyFits(segs, at, count)
  BY <1>2, <1>3, <1>5, <1>6, <1>10 DEF CopyFits
<1>9. at \in DOMAIN segs /\ count \in Nat /\ count <= Len(Cut(segs[at]))
  BY <1>5, <1>6, <1>7, <1>10
<1>11. AsksUpTo(x, "fork", chat, at, count, FALSE)
  BY <1>1, <1>4, <1>5, <1>8, <1>9 DEF AsksUpTo
<1> QED  BY <1>11

\* A fork before the second segment has a turn of the first.
LEMMA FirstSaid ==
  ASSUME Sound, ShowsInv, "Overlap" \notin Allow, NEW chat, Open(chat), Readable(chat), NEW segs, segs = SegmentsOf(chat), Len(segs) > 1
  PROVE Cut(segs[1]) # << >>
<1>1. chat \in DOMAIN lineages /\ segs = lineages[chat]
  BY DEF SegmentsOf
<1>2. Len(segs) \in Nat \ {0} /\ DOMAIN segs = 1 .. Len(segs) /\ 1 \in 1 .. Len(segs) - 1
  BY <1>1, LastOwned DEF Sound, ListedInv
<1>3. segs[1].last # None
  BY <1>1, <1>2 DEF ShowsInv, LineagesShow, Shows, Middles
<1>4. segs[1].thread \in DOMAIN native /\ segs[1].thread \notin cleaned
  BY <1>2 DEF Readable, ShowsInv, Gone
<1>5. Counts(segs[1])
  BY <1>1, <1>2, OpenShows DEF Sound, HoldInv, SegmentsCount
<1>6. PICK all : all = native[segs[1].thread]
  OBVIOUS
<1>7. PICK last : last = segs[1].last
  OBVIOUS
<1>8. last \in Range(all)
  BY <1>3, <1>4, <1>5, <1>6, <1>7 DEF Counts
<1>9. PICK E : E = 1 .. turns
  OBVIOUS
<1>10. all \in Seq(E)
  BY <1>4, <1>6, <1>9 DEF Sound, ListedInv, ThreadsOK
<1>11. \E k \in DOMAIN all : all[k] = last
  BY <1>8 DEF Range
<1>12. PICK k \in DOMAIN all : all[k] = last /\ CutAt(all, last) = SubSeq(all, 1, k)
  BY <1>11, CutAtEnd
<1>13. SubSeq(all, 1, k) # << >>
  <2>1. k \in 1 .. Len(all)
    BY <1>10, <1>12
  <2>2. Len(SubSeq(all, 1, k)) = k
    BY <1>10, <2>1
  <2> QED  BY <2>1, <2>2
<1> QED  BY <1>4, <1>6, <1>7, <1>12, <1>13, CutIs

LEMMA AskForkIs ==
  ASSUME Sound, ShowsInv, "Overlap" \notin Allow, "EmptyChats" \notin Allow, NEW x \in Calls, NEW chat \in Threads,
         NEW i \in DOMAIN SegmentsOf(chat), NEW k \in 0 .. MaxTurn, NEW before \in BOOLEAN, AskFork(x, chat, i, k, before)
  PROVE \E at, count : AsksUpTo(x, "fork", chat, at, count, FALSE)
<1>1. PICK segs : segs = SegmentsOf(chat)
  OBVIOUS
<1>2. PICK earlier \in BOOLEAN : earlier <=> i > 1 /\ ((before /\ k <= 1) \/ (k = 0 /\ Cut(segs[i]) = << >>))
  OBVIOUS
<1>3. PICK count : count = IF earlier THEN Len(Cut(segs[i - 1])) ELSE IF before THEN k - 1 ELSE k
  OBVIOUS
<1>4. PICK at : at = IF earlier THEN i - 1 ELSE i
  OBVIOUS
<1>5. /\ Open(chat) /\ Readable(chat) /\ k \in 0 .. Len(Cut(segs[i])) /\ (k = 0 => i > 1)
      /\ ~(before /\ i = 1 /\ k = 1 /\ provider[segs[1].thread] = "claude")
      /\ TakeUpTo(x, "fork", chat, at, count, FALSE)
      /\ UNCHANGED <<provider, native, lineages, newBackends, turns, noops, cleaned, run>>
  BY <1>1, <1>2, <1>3, <1>4 DEF AskFork, HasMarker
<1>6. DOMAIN segs = 1 .. Len(segs) /\ Len(segs) \in Nat /\ \A j \in DOMAIN segs : Len(Cut(segs[j])) \in Nat
  BY <1>1, <1>5, OpenKnown, OwnSegments, CutShorter DEF Sound, ListedInv
<1>7. at \in DOMAIN segs /\ count \in Nat /\ count <= Len(Cut(segs[at]))
  <2>1. CASE earlier
    <3>1. at \in DOMAIN segs
      BY <1>1, <1>2, <1>4, <1>6, <2>1
    <3> QED  BY <1>3, <1>4, <1>6, <2>1, <3>1
  <2>2. CASE ~earlier
    BY <1>1, <1>2, <1>3, <1>4, <1>5, <1>6, <2>2
  <2> QED  BY <2>1, <2>2
<1>8. CopyFits(segs, at, count)
  <2>1. ASSUME at = 1, count = 0, provider[segs[1].thread] = "claude" PROVE FALSE
    <3>1. CASE earlier
      <4>1. i > 1 /\ i \in 1 .. Len(segs) /\ Len(Cut(segs[1])) = 0
        BY <1>1, <1>2, <1>3, <1>4, <1>6, <2>1, <3>1
      <4>2. Len(segs) > 1
        BY <1>6, <4>1
      <4>3. Cut(segs[1]) # << >>
        BY <1>1, <1>5, <4>2, FirstSaid
      <4>4. Cut(segs[1]) \in Seq(1 .. turns)
        BY TurnsTyped DEF Sound, ListedInv
      <4> QED  BY <4>1, <4>3, <4>4
    <3>2. CASE ~earlier
      BY <1>1, <1>3, <1>4, <1>5, <1>6, <2>1, <3>2
    <3> QED  BY <3>1, <3>2
  <2> QED  BY <2>1 DEF CopyFits
<1> QED  BY <1>1, <1>5, <1>7, <1>8 DEF AsksUpTo

LEMMA AskRevertIs ==
  ASSUME Sound, "TwinDrops" \notin Allow, NEW x \in Calls, NEW chat \in Threads,
         NEW i \in DOMAIN SegmentsOf(chat), NEW k \in 0 .. MaxTurn, AskRevert(x, chat, i, k)
  PROVE \E at, count, drop : AsksUpTo(x, "revert", chat, at, count, drop)
<1>1. PICK segs : segs = SegmentsOf(chat)
  OBVIOUS
<1>2. PICK drop \in BOOLEAN : drop = (i > 1 /\ k <= 1)
  OBVIOUS
<1>3. PICK at : at = IF drop THEN i - 1 ELSE i
  OBVIOUS
<1>4. PICK count : count = IF drop THEN Len(Cut(segs[at])) ELSE k - 1
  OBVIOUS
<1>5. /\ Open(chat) /\ Readable(chat) /\ k \in 0 .. Len(Cut(segs[i])) /\ (k = 0 => i > 1) /\ ~TwinDrops(chat)
      /\ TakeUpTo(x, "revert", chat, at, count, drop)
      /\ UNCHANGED <<provider, native, lineages, newBackends, turns, noops, cleaned, run>>
  BY <1>1, <1>2, <1>3, <1>4 DEF AskRevert, HasMarker
<1>8. (drop <=> i > 1 /\ k <= 1) /\ (drop => at = i - 1 /\ count = Len(Cut(segs[at]))) /\ (~drop => at = i /\ count = k - 1)
  BY <1>2, <1>3, <1>4
<1>6. DOMAIN segs = 1 .. Len(segs) /\ Len(segs) \in Nat /\ \A j \in DOMAIN segs : Len(Cut(segs[j])) \in Nat
  BY <1>1, <1>5, OpenKnown, OwnSegments, CutShorter DEF Sound, ListedInv
<1>7. at \in DOMAIN segs /\ count \in Nat /\ count <= Len(Cut(segs[at])) /\ (drop => count = Len(Cut(segs[at])) /\ at < Len(segs))
  <2>1. CASE drop
    <3>1. at \in DOMAIN segs /\ at < Len(segs)
      BY <1>1, <1>6, <1>8, <2>1
    <3> QED  BY <1>6, <1>8, <2>1, <3>1
  <2>2. CASE ~drop
    BY <1>1, <1>5, <1>6, <1>8, <2>2
  <2> QED  BY <2>1, <2>2
<1> QED  BY <1>1, <1>5, <1>7 DEF AsksUpTo

LEMMA AskedUpToShows ==
  ASSUME Sound, Sound', ShowsInv, "Overlap" \notin Allow, NEW x \in Calls, NEW chat, NEW what \in {"fork", "revert"},
         NEW at, NEW count, NEW drop, AsksUpTo(x, what, chat, at, count, drop)
  PROVE ShowsInv'
<1>1. PICK segs : segs = SegmentsOf(chat)
  OBVIOUS
<1>2. PICK next : next = [what |-> what, chat |-> chat, segs |-> segs, step |-> "asked", at |-> at, count |-> count,
                          drop |-> drop, made |-> {}, want |-> SaidUpTo(segs, at, count)]
  OBVIOUS
<1>3. /\ calls[x] = Idle /\ calls' = [calls EXCEPT ![x] = next] /\ Open(chat) /\ Readable(chat)
      /\ at \in DOMAIN segs /\ count \in Nat /\ count <= Len(Cut(segs[at])) /\ (what = "fork" => CopyFits(segs, at, count))
      /\ (what = "revert" => ~TwinDrops(chat) /\ (drop => count = Len(Cut(segs[at])) /\ at < Len(segs)))
      /\ UNCHANGED <<provider, native, lineages, newBackends, turns, noops, cleaned, run>>
  BY <1>1, <1>2 DEF AsksUpTo, TakeUpTo
<1>4. /\ next.what = what /\ next.chat = chat /\ next.segs = segs /\ next.step = "asked" /\ next.at = at
      /\ next.count = count /\ next.drop = drop /\ next.want = SaidUpTo(segs, at, count)
  BY <1>2
<1>5. /\ chat \in DOMAIN provider /\ chat \notin newBackends /\ Current(chat) \in DOMAIN native
  BY <1>3, OpenShows DEF Sound
<1>6. segs \in Seq(Segments) /\ DOMAIN segs = 1 .. Len(segs) /\ \A j \in 1 .. Len(segs) : Frozen(segs[j])
  BY <1>1, <1>3, <1>5, OwnSegments, SameFrozen DEF Sound, ListedInv, NoopsGrow, Same
<1>7. SaidUpTo(segs, at, count)' = SaidUpTo(segs, at, count) /\ Cut(segs[at])' = Cut(segs[at])
  BY <1>3, <1>6, SaidUpToStays DEF Sound, ListedInv, NoopsGrow, Frozen
<1>8. Asked(next)'
  BY <1>3, <1>4, <1>7 DEF Asked
<1>9. Live(segs)'
  BY <1>1, <1>3 DEF Readable, Live
<1>10. SegmentsOf(chat)' = segs /\ Current(chat)' \in DOMAIN native'
  BY <1>1, <1>3, <1>5 DEF SegmentsOf, Current
<1>11. what = "fork" => ForkShows(next)'
  BY <1>3, <1>4, <1>8, <1>9 DEF ForkShows, CopiesAll, CopyFits
<1>12. what = "revert" => RevertShows(next)'
  BY <1>3, <1>4, <1>7, <1>8, <1>9 DEF RevertShows, Dropped
<1>13. CallShows(next)'
  BY <1>3, <1>4, <1>5, <1>10, <1>11, <1>12 DEF CallShows
<1>14. Dropped(next) = {} /\ (Drops(next) => ~TwinDrops(chat))
  BY <1>3, <1>4 DEF Dropped, Drops
<1>15. Open(next.chat) /\ next.segs = SegmentsOf(next.chat) /\ (Drops(next) => ~TwinDrops(next.chat))
  BY <1>1, <1>3, <1>4, <1>14
<1> QED  BY <1>3, <1>13, <1>14, <1>15, RequestShows

\* A finished segment of all its thread's turns, its last one the last that counts.
LEMMA LastWhole ==
  ASSUME ThreadsOK', NEW thread \in DOMAIN native', NEW all, all = native'[thread], NEW last, NEW segment,
         segment = Segment(thread, last), last = None \/ (Once(all) /\ all # << >> /\ last = all[Len(all)])
  PROVE Whole(segment)' /\ Part(segment)' = Without(all, noops')
<1>1. PICK E : E = 1 .. turns'
  OBVIOUS
<1>2. all \in Seq(E) /\ \A k \in DOMAIN all : all[k] # None
  BY <1>1 DEF ThreadsOK, None
<1>3. segment.thread = thread /\ segment.last = last
  BY DEF Segment
<1>4. PICK none : none = Segment(thread, None)
  OBVIOUS
<1>5. none.thread = thread /\ none.last = None
  BY <1>4 DEF Segment
<1>6. CutAt(all, None) = all /\ CutAt(all, last) = all
  BY <1>2, CutAtNone, CutAtLast
<1>7. Cut(segment)' = all /\ Cut(none)' = all
  BY <1>3, <1>5, <1>6, CutIs
<1>8. Part(segment)' = Without(all, noops') /\ Part(none)' = Without(all, noops')
  BY <1>7 DEF Part, Said
<1> QED  BY <1>3, <1>4, <1>8 DEF Whole

\* One whose thread says something of no consequence after it.
LEMMA NoopWhole ==
  ASSUME ThreadsOK', NEW thread \in DOMAIN native', NEW E, NEW all \in Seq(E), native'[thread] = Append(all, NextTurn),
         Once(all), all # << >>, NextTurn \notin E, NEW segment, segment = Segment(thread, all[Len(all)]), NextTurn \in noops'
  PROVE Whole(segment)'
<1>1. PICK last : last = all[Len(all)]
  OBVIOUS
<1>2. segment.thread = thread /\ segment.last = last
  BY <1>1 DEF Segment
<1>3. PICK none : none = Segment(thread, None)
  OBVIOUS
<1>4. none.thread = thread /\ none.last = None
  BY <1>3 DEF Segment
<1>5. PICK more : more = Append(all, NextTurn)
  OBVIOUS
<1>6. Cut(segment)' = all
  <2>1. \E k \in DOMAIN all : all[k] = last
    <3>1. Len(all) \in DOMAIN all
      OBVIOUS
    <3> QED  BY <1>1, <3>1
  <2>2. CutAt(Append(all, NextTurn), last) = CutAt(all, last)
    <3>1. PICK E2 : E2 = E \cup {NextTurn}
      OBVIOUS
    <3>2. PICK turn : turn = NextTurn
      OBVIOUS
    <3>3. all \in Seq(E2) /\ turn \in E2 /\ turn # last
      BY <2>1, <3>1, <3>2, SeqWider
    <3>4. CutAt(Append(all, turn), last) = CutAt(all, last)
      BY <2>1, <3>3, CutAtAppend
    <3> QED  BY <3>2, <3>4
  <2>3. CutAt(all, last) = all
    BY <1>1, CutAtLast
  <2> QED  BY <1>2, <2>2, <2>3, CutIs
<1>7. Cut(none)' = more
  <2>1. \A k \in DOMAIN more : more[k] # None
    BY <1>5 DEF ThreadsOK, None
  <2> QED  BY <1>4, <1>5, <2>1, CutIs, CutAtNone
<1>8. Without(more, noops') = Without(all, noops')
  <2>1. PICK E2 : E2 = E \cup {NextTurn}
    OBVIOUS
  <2>2. PICK turn : turn = NextTurn
    OBVIOUS
  <2>3. PICK out : out = noops'
    OBVIOUS
  <2>4. all \in Seq(E2) /\ turn \in E2 /\ turn \in out
    BY <2>1, <2>2, <2>3, SeqWider
  <2>5. Without(Append(all, turn), out) = Without(all, out)
    BY <2>4, WithoutAppend
  <2> QED  BY <1>5, <2>2, <2>3, <2>5
<1>9. Part(segment)' = Without(all, noops') /\ Part(none)' = Without(more, noops')
  BY <1>6, <1>7 DEF Part, Said
<1> QED  BY <1>2, <1>3, <1>8, <1>9 DEF Whole

\* The last turn that counts of a thread that just said something.
LEMMA SaidWhole ==
  ASSUME ThreadsOK, ThreadsOK', HeardOnce, HeardOnce', NEW thread \in DOMAIN native, Say(thread, NextTurn),
         NEW noop \in BOOLEAN, noop => native[thread] # << >> /\ NextTurn \in noops',
         NEW turn, noop => turn = Last(native[thread]), ~noop => turn = NextTurn,
         NEW segment, segment = Segment(thread, turn)
  PROVE turn # None /\ Whole(segment)'
<1>1. PICK all : all = native[thread]
  OBVIOUS
<1>2. PICK more : more = Append(all, NextTurn)
  OBVIOUS
<1>3. PICK E : E = 1 .. turns
  OBVIOUS
<1>4. all \in Seq(E) /\ turns \in Nat /\ Once(all)
  BY <1>1, <1>3, BoundsAssumption DEF ThreadsOK, HeardOnce
<1>5. thread \in DOMAIN native' /\ native'[thread] = more
  BY <1>1, <1>2 DEF Say
<1>6. more # << >> /\ more[Len(more)] = NextTurn
  <2>1. PICK next : next = NextTurn
    OBVIOUS
  <2>2. more = Append(all, next)
    BY <1>2, <2>1
  <2>3. more # << >> /\ more[Len(more)] = next
    BY <1>4, <2>2
  <2> QED  BY <2>1, <2>3
<1>7. CASE noop
  <2>1. all # << >> /\ NextTurn \in noops' /\ turn = all[Len(all)]
    BY <1>1, <1>7 DEF Last
  <2>2. turn \in E
    BY <1>4, <2>1
  <2>3. NextTurn \notin E
    BY <1>3, <1>4 DEF NextTurn
  <2>4. segment = Segment(thread, all[Len(all)])
    BY <2>1
  <2>5. Whole(segment)'
    BY <1>2, <1>4, <1>5, <2>1, <2>3, <2>4, NoopWhole
  <2> QED  BY <1>3, <2>2, <2>5 DEF None
<1>8. CASE ~noop
  <2>1. turn = more[Len(more)] /\ turn # None
    BY <1>4, <1>6, <1>8 DEF None, NextTurn
  <2>2. Once(more)
    BY <1>5 DEF HeardOnce
  <2>3. Whole(segment)'
    BY <1>5, <1>6, <2>1, <2>2, LastWhole
  <2> QED  BY <2>1, <2>3
<1> QED  BY <1>7, <1>8

LEMMA AskSwitchShows ==
  ASSUME Sound, Sound', ShowsInv, "Overlap" \notin Allow, "EmptyChats" \notin Allow, NEW x \in Calls, NEW chat \in Threads,
         NEW noop \in BOOLEAN, AskSwitch(x, chat, noop)
  PROVE ShowsInv'
<1>1. PICK own : own = SegmentsOf(chat)
  OBVIOUS
<1>2. PICK current : current = Current(chat)
  OBVIOUS
<1>3. Open(chat) /\ current \in DOMAIN native /\ EndsIn(own, current) /\ chat \in DOMAIN provider
  BY <1>1, <1>2, OpenKnown, OwnSegments DEF AskSwitch, Sound, ListedInv, EndsIn, Current, Last
<1>4. /\ Known(chat) /\ chat \notin newBackends
      /\ \A y \in Busy : calls[y].chat # chat /\ chat \notin Dropped(calls[y])
  BY <1>3, OpenShows DEF Sound
<1>5. CASE provider[current] = "claude"
  <2>1. PICK turn : turn = IF noop THEN Last(native[current]) ELSE NextTurn
    OBVIOUS
  <2>2. PICK segs : segs = Ended(own, current, turn)
    OBVIOUS
  <2>3. PICK next : next = [what |-> "switch", chat |-> chat, segs |-> segs, step |-> "asked",
                            at |-> 0, count |-> 0, drop |-> FALSE, made |-> {}, want |-> 0]
    OBVIOUS
  <2>4. /\ Speak /\ Say(current, NextTurn) /\ (noop => native[current] # << >>)
        /\ noops' = IF noop THEN noops \cup {NextTurn} ELSE noops
        /\ calls[x] = Idle /\ calls' = [calls EXCEPT ![x] = next]
        /\ UNCHANGED <<provider, lineages, newBackends, cleaned, run>>
    BY <1>1, <1>2, <1>5, <2>1, <2>2, <2>3 DEF AskSwitch, Take, Ended
  <2>5. NoopsGrow /\ (noop => NextTurn \in noops')
    BY <2>4 DEF NoopsGrow
  <2>6. /\ Still(chat) /\ Elsewhere(current) /\ Shrinks /\ Gone' /\ HeardOnce' /\ \A y \in Busy : LeavesMade(calls[y])
    BY <1>2, <1>3, <1>4, <2>4, <2>5, SaidShows
  <2>7. (noop => turn = Last(native[current])) /\ (~noop => turn = NextTurn)
    BY <2>1
  <2>8. PICK source : source = Segment(current, turn)
    OBVIOUS
  <2>9. turn # None /\ Whole(source)'
    BY <1>3, <2>4, <2>5, <2>6, <2>7, <2>8, SaidWhole DEF Sound, ListedInv, ShowsInv
  <2>10. segs[Len(segs)] = source
    <3>1. turns \in 0 .. MaxTurn /\ native[current] \in Seq(1 .. turns)
      BY <1>3 DEF Sound, ListedInv, ThreadsOK
    <3>2. NextTurn \in 1 .. MaxTurn /\ 1 .. turns \subseteq 1 .. MaxTurn
      BY <2>4, <3>1, BoundsAssumption DEF Speak, NextTurn
    <3>3. noop => Last(native[current]) \in 1 .. turns
      BY <2>4, <3>1 DEF Last
    <3>4. turn \in Turns \cup {None}
      BY <2>1, <3>2, <3>3 DEF Turns
    <3> QED  BY <1>3, <2>2, <2>8, <3>4, EndsAt
  <2>11. next.what = "switch" /\ next.chat = chat /\ next.segs = segs /\ next.step = "asked"
    BY <2>3
  <2>12. source.last = turn /\ source.thread = current
    BY <2>8 DEF Segment
  <2>13. SwitchShows(next)'
    BY <1>5, <2>4, <2>9, <2>10, <2>11, <2>12 DEF SwitchShows
  <2>14. Current(chat)' \in DOMAIN native'
    BY <1>2, <1>3, <2>4 DEF Current, SegmentsOf, Say
  <2>15. CallShows(next)'
    BY <1>4, <2>4, <2>11, <2>13, <2>14 DEF CallShows
  <2>16. \A other \in Others(x) : PairShows(next, other) /\ PairShows(other, next)
    BY <1>4, <2>11 DEF Others, PairShows, Dropped, Drops
  <2>17. Early(calls[x])
    BY <2>4 DEF Early, Deletes
  <2>18. (Deleting(chat) => Deleting(chat)') /\ \A i : Rolling(chat, i) => Rolling(chat, i)'
    BY <2>4, <2>17, QuietOn DEF Sound
  <2>19. chat \in DOMAIN lineages => Shows(chat, lineages[chat])'
    <3>1. DOMAIN native' = DOMAIN native
      BY <2>4 DEF Say
    <3> QED  BY <1>2, <2>4, <2>6, <2>18, <3>1, SaidOwn
  <2>20. Grows
    BY <2>4 DEF Grows
  <2> QED  BY <1>4, <2>4, <2>6, <2>15, <2>16, <2>19, <2>20, ShowsStep DEF Sound, ListedInv
<1>6. CASE provider[current] # "claude"
  <2>1. PICK next : next = [what |-> "switch", chat |-> chat, segs |-> own, step |-> "asked",
                            at |-> 0, count |-> 0, drop |-> FALSE, made |-> {}, want |-> 0]
    OBVIOUS
  <2>2. /\ native[current] # << >> /\ calls[x] = Idle /\ calls' = [calls EXCEPT ![x] = next]
        /\ UNCHANGED <<provider, native, lineages, newBackends, noops, cleaned>>
    BY <1>1, <1>2, <1>6, <2>1 DEF AskSwitch, Take
  <2>3. next.what = "switch" /\ next.chat = chat /\ next.segs = own /\ next.step = "asked"
    BY <2>1
  <2>4. SwitchShows(next)'
    BY <1>3, <1>6, <2>2, <2>3 DEF SwitchShows, EndsIn
  <2>5. Current(chat)' \in DOMAIN native'
    BY <1>2, <1>3, <2>2 DEF Current, SegmentsOf
  <2>6. CallShows(next)'
    BY <1>4, <2>2, <2>3, <2>4, <2>5 DEF CallShows
  <2>7. Dropped(next) = {} /\ ~Drops(next)
    BY <2>3 DEF Dropped, Drops
  <2> QED  BY <1>1, <1>3, <2>2, <2>3, <2>6, <2>7, RequestShows
<1> QED  BY <1>5, <1>6

-----------------------------------------------------------------------------
(* Threads that requests make *)

LEMMA MadeShows ==
  ASSUME Sound, Sound', ShowsInv, NEW x \in Busy, NEW next, calls' = [calls EXCEPT ![x] = next], Early(calls[x]),
         NEW t, t \notin DOMAIN provider, NEW p, provider' = Put(provider, t, p), NEW all, Once(all), native' = Put(native, t, all),
         Backs(t), UNCHANGED <<lineages, noops, cleaned>>, next.chat = calls[x].chat, next.what \in {"switch", "fork"},
         CallShows(next)'
  PROVE ShowsInv'
<1>1. PICK chat : chat = calls[x].chat
  OBVIOUS
<1>2. chat \in DOMAIN provider /\ \A y \in Busy \ {x} : calls[y].chat # chat
  BY <1>1, ChatKnown, RequestApart DEF Sound, ShowsInv
<1>3. /\ Still(chat) /\ Elsewhere(t) /\ Shrinks /\ Gone' /\ HeardOnce' /\ \A y \in Busy : LeavesMade(calls[y])
  BY NewShows
<1>4. (Deleting(chat) => Deleting(chat)') /\ \A i : Rolling(chat, i) => Rolling(chat, i)'
  BY QuietOn DEF Sound, Busy
<1>5. ASSUME chat \in DOMAIN lineages PROVE Shows(chat, lineages[chat])'
  <2>1. PICK segs : segs = lineages[chat]
    OBVIOUS
  <2>2. Shows(chat, segs)
    BY <1>5, <2>1 DEF ShowsInv, LineagesShow
  <2>3. Len(segs) \in Nat \ {0} /\ DOMAIN segs = 1 .. Len(segs)
    BY <1>5, <2>1, LastOwned DEF Sound, ListedInv
  <2>4. \A i \in DOMAIN segs : segs[i].thread # t
    BY <1>5, <2>1 DEF Sound, ListedInv, ListsOK, LineageOK
  <2>5. \A i \in DOMAIN segs : Same(segs[i].thread)
    BY <1>3, <2>4 DEF Elsewhere
  <2>6. Shows(chat, segs)'
    BY <1>3, <1>4, <1>5, <2>1, <2>2, <2>3, <2>5, OwnShows DEF Sound, Same, Elsewhere
  <2> QED  BY <2>1, <2>6
<1>6. Grows
  BY DEF Grows, Put, Backs
<1>7. \A other \in Others(x) : PairShows(next, other) /\ PairShows(other, next)
  <2>1. Dropped(next) = {} /\ ~Drops(next)
    BY DEF Dropped, Drops
  <2>2. \A y \in Busy \ {x} : chat \notin Dropped(calls[y])
    BY <1>1 DEF ShowsInv, CallsShow, PairShows
  <2> QED  BY <1>1, <2>1, <2>2 DEF Others, PairShows
<1> QED  BY <1>1, <1>2, <1>3, <1>5, <1>6, <1>7, ShowsStep DEF Sound, ListedInv, Busy

LEMMA CreateBackendShows ==
  ASSUME Sound, Sound', ShowsInv, NEW x \in Calls, NEW backend \in Threads, CreateBackend(x, backend)
  PROVE ShowsInv'
<1>1. PICK call : call = calls[x]
  OBVIOUS
<1>2. PICK turn : turn = LastTurn(x)
  OBVIOUS
<1>3. PICK source : source = call.segs[Len(call.segs)]
  OBVIOUS
<1>4. PICK segs : segs = Ended(call.segs, source.thread, turn)
  OBVIOUS
<1>5. PICK next : next = [call EXCEPT !.step = "ready", !.made = {backend}, !.segs = segs]
  OBVIOUS
<1>6. x \in Busy /\ call # Idle /\ call.what = "switch" /\ call.step = "asked"
  BY <1>1, DoingBusy DEF CreateBackend, Doing
<1>7. /\ call.segs \in Seq(Segments) /\ call.segs # << >> /\ source = Last(call.segs) /\ call \in Requests(call.want)
      /\ source \in Segments
  BY <1>1, <1>3, <1>6, OfCall DEF Last, CallOK, CallTyped, Sound
<1>8. /\ source.thread \in DOMAIN native /\ calls' = [calls EXCEPT ![x] = next] /\ backend \notin DOMAIN provider
      /\ provider' = Put(provider, backend, Other(provider[source.thread])) /\ native' = Put(native, backend, << >>)
      /\ newBackends' = newBackends \cup {backend} /\ UNCHANGED <<lineages, turns, noops, cleaned, run>>
  <2>1. PICK thread : thread = source.thread
    OBVIOUS
  <2>2. PICK front : front = Front(call.segs)
    OBVIOUS
  <2>3. segs = Append(front, Segment(thread, turn))
    BY <1>4, <2>1, <2>2 DEF Ended
  <2>4. calls' = [calls EXCEPT ![x] = [call EXCEPT !.step = "ready", !.made = {backend}, !.segs = Append(front, Segment(thread, turn))]]
    BY <1>1, <1>2, <1>7, <2>1, <2>2 DEF CreateBackend
  <2>5. calls' = [calls EXCEPT ![x] = next]
    BY <1>5, <2>3, <2>4
  <2> QED  BY <1>1, <1>7, <2>5 DEF CreateBackend, Fresh
<1>9. turn \in Turns \cup {None}
  BY <1>1, <1>2, <1>6, <1>7, <1>8, LastTurnTyped DEF Sound
<1>10. PICK last : last = Segment(source.thread, turn)
  OBVIOUS
<1>11. segs[Len(segs)] = last /\ last.thread = source.thread /\ last.last = turn
  <2>1. PICK was : was = call.segs
    OBVIOUS
  <2>2. PICK thread : thread = source.thread
    OBVIOUS
  <2>3. EndsIn(was, thread)
    BY <1>3, <1>7, <2>1, <2>2 DEF EndsIn
  <2>4. segs = Ended(was, thread, turn)
    BY <1>4, <2>1, <2>2
  <2>5. segs[Len(segs)] = Segment(thread, turn)
    BY <1>9, <2>3, <2>4, EndsAt
  <2> QED  BY <1>10, <2>2, <2>5 DEF Segment
<1>12. next.what = "switch" /\ next.step = "ready" /\ next.chat = call.chat /\ next.segs = segs /\ next.made = {backend}
  BY <1>5, <1>6, <1>7 DEF Requests
<1>13. CallShows(call)
  BY <1>1, <1>6 DEF ShowsInv, CallsShow
<1>14. Same(source.thread)
  BY <1>8 DEF Same, Put, Sound, ListedInv, ThreadsOK
<1>15. turn # None /\ Whole(last)'
  <2>1. CASE provider[source.thread] = "claude"
    <3>1. turn = source.last /\ last = source
      <4>1. turn = source.last
        BY <1>1, <1>2, <1>7, <2>1 DEF LastTurn
      <4> QED  BY <1>7, <1>10, <4>1 DEF Segment, Segments
    <3>2. source.last # None /\ Whole(source)
      BY <1>3, <1>6, <1>13, <2>1 DEF CallShows, SwitchShows
    <3>3. PICK none : none = Segment(source.thread, None)
      OBVIOUS
    <3>4. none.thread = source.thread
      BY <3>3 DEF Segment
    <3>5. Frozen(source) /\ Frozen(none)
      BY <1>8, <1>14, <3>4, SameFrozen DEF Sound, ListedInv, NoopsGrow
    <3>6. Part(source) = Part(none) /\ (Part(source)' = Part(none)' => Whole(source)')
      BY <3>2, <3>3 DEF Whole
    <3> QED  BY <3>1, <3>2, <3>5, <3>6 DEF Frozen
  <2>2. CASE provider[source.thread] # "claude"
    <3>1. native[source.thread] # << >>
      BY <1>3, <1>6, <1>13, <2>2 DEF CallShows, SwitchShows
    <3>2. PICK all : all = native[source.thread]
      OBVIOUS
    <3>3. turn = all[Len(all)]
      BY <1>1, <1>2, <1>7, <2>2, <3>1, <3>2 DEF LastTurn, Last
    <3>4. all \in Seq(1 .. turns) /\ turns \in Nat /\ Once(all) /\ all # << >>
      BY <1>8, <3>1, <3>2, BoundsAssumption DEF Sound, ListedInv, ThreadsOK, ShowsInv, HeardOnce
    <3>5. turn # None
      BY <3>3, <3>4 DEF None
    <3>6. source.thread \in DOMAIN native' /\ native'[source.thread] = all
      BY <1>8, <1>14, <3>2 DEF Same
    <3>7. Whole(last)'
      <4>1. PICK thread : thread = source.thread
        OBVIOUS
      <4>2. thread \in DOMAIN native' /\ all = native'[thread] /\ last = Segment(thread, turn)
        BY <1>10, <3>6, <4>1
      <4> QED  BY <3>3, <3>4, <4>2, LastWhole DEF Sound, ListedInv
    <3> QED  BY <3>5, <3>7
  <2> QED  BY <2>1, <2>2
<1>16. SwitchShows(next)'
  <2>1. Makes(next, backend)' /\ native'[backend] = << >>
    BY <1>8, <1>12 DEF Makes, Put
  <2> QED  BY <1>11, <1>12, <1>15, <2>1 DEF SwitchShows
<1>17. CallShows(next)'
  <2>1. call.chat \in DOMAIN provider /\ call.chat \notin newBackends /\ Current(call.chat) \in DOMAIN native
    BY <1>1, <1>6, <1>13, ChatKnown DEF Sound, ShowsInv, CallShows, Deletes
  <2>2. call.chat \notin newBackends' /\ Current(call.chat)' \in DOMAIN native'
    BY <1>8, <2>1 DEF Current, SegmentsOf, Put
  <2> QED  BY <1>12, <1>16, <2>2 DEF CallShows
<1>18. Early(call)
  BY <1>6 DEF Early, Deletes
<1>19. PICK all : all = << >> /\ Once(all)
  BY DEF Once
<1>20. next.what \in {"switch", "fork"} /\ Backs(backend) /\ native' = Put(native, backend, all)
  BY <1>8, <1>12, <1>19 DEF Backs
<1>21. PICK p : provider' = Put(provider, backend, p)
  BY <1>8
<1> QED  BY <1>1, <1>6, <1>8, <1>12, <1>17, <1>18, <1>19, <1>20, <1>21, MadeShows

LEMMA FirstsOfCut ==
  ASSUME ThreadsOK, NEW segment, segment.thread \in DOMAIN native, NEW all, all = native[segment.thread],
         NEW count \in Nat, count <= Len(Cut(segment))
  PROVE SubSeq(Cut(segment), 1, count) = SubSeq(all, 1, count) /\ count <= Len(all) /\ all \in Seq(1 .. turns)
<1>1. PICK E : E = 1 .. turns
  OBVIOUS
<1>2. PICK last : last = segment.last
  OBVIOUS
<1>3. all \in Seq(E) /\ Cut(segment) = CutAt(all, last)
  BY <1>1, <1>2, CutIs DEF ThreadsOK
<1>4. CutAt(all, last) \in Seq(E) /\ Len(CutAt(all, last)) <= Len(all)
  BY <1>3, CutAtFirsts
<1>5. count \in 0 .. Len(CutAt(all, last)) /\ count <= Len(all)
  BY <1>3, <1>4
<1>6. SubSeq(CutAt(all, last), 1, count) = SubSeq(all, 1, count)
  BY <1>3, <1>5, CutAtFirsts
<1> QED  BY <1>1, <1>3, <1>5, <1>6

LEMMA CopyThreadShows ==
  ASSUME Sound, Sound', ShowsInv, NEW x \in Calls, NEW fork \in Threads, CopyThread(x, fork)
  PROVE ShowsInv'
<1>1. PICK call : call = calls[x]
  OBVIOUS
<1>2. PICK source : source = call.segs[call.at].thread
  OBVIOUS
<1>3. PICK next : next = [call EXCEPT !.step = "ready", !.made = {fork}]
  OBVIOUS
<1>4. PICK history : history = IF provider[source] = "claude" /\ call.at = 1 /\ call.count = 0
                              THEN native[source] ELSE SubSeq(native[source], 1, call.count)
  OBVIOUS
<1>5. /\ x \in Busy /\ call.what = "fork" /\ call.step = "asked" /\ fork \notin DOMAIN provider
      /\ source \in DOMAIN native /\ provider' = Put(provider, fork, provider[source])
      /\ native' = Put(native, fork, history)
      /\ calls' = [calls EXCEPT ![x] = next]
      /\ UNCHANGED <<lineages, newBackends, turns, noops, cleaned, run>>
  BY <1>1, <1>2, <1>3, <1>4, DoingBusy DEF CopyThread, Doing, Fresh
<1>6. CallOK(call) /\ call \in Requests(call.want) /\ call.count \in Nat /\ call # Idle
  BY <1>1, <1>5, OfCall DEF Sound, Busy
<1>7. /\ next.what = "fork" /\ next.chat = call.chat /\ next.step = "ready" /\ next.made = {fork} /\ next.segs = call.segs
      /\ next.want = call.want /\ next.at = call.at /\ next.count = call.count
  BY <1>3, <1>5, <1>6 DEF Requests
<1>8. call.segs = SegmentsOf(call.chat) /\ call.at \in DOMAIN call.segs /\ call.chat \in DOMAIN provider /\ ~Deletes(call)
  BY <1>5, <1>6 DEF CallOK, AsTaken, CallTyped, Deletes
<1>9. CallShows(call) /\ ForkShows(call) /\ Current(call.chat) \in DOMAIN native /\ call.chat \notin newBackends
  BY <1>1, <1>5, <1>8 DEF ShowsInv, CallsShow, CallShows
<1>10. PICK segment : segment = call.segs[call.at]
  OBVIOUS
<1>11. history = SubSeq(Cut(segment), 1, call.count) /\ Once(history)
  <2>1. PICK all : all = native[source]
    OBVIOUS
  <2>2. PICK count \in Nat : count = call.count
    BY <1>6
  <2>3. source = segment.thread /\ count <= Len(Cut(segment))
    BY <1>2, <1>9, <1>10, <2>2 DEF ForkShows, Asked
  <2>4. SubSeq(Cut(segment), 1, count) = SubSeq(all, 1, count) /\ count <= Len(all) /\ all \in Seq(1 .. turns)
    BY <1>5, <2>1, <2>2, <2>3, FirstsOfCut DEF Sound, ListedInv
  <2>5. Once(all)
    BY <1>5, <2>1 DEF ShowsInv, HeardOnce
  <2>6. PICK E : E = 1 .. turns
    OBVIOUS
  <2>7. Once(SubSeq(all, 1, count))
    BY <2>4, <2>5, <2>6, OnceFirsts
  <2>8. CASE provider[source] = "claude" /\ call.at = 1 /\ call.count = 0
    <3>1. CopiesAll(call)
      BY <1>2, <2>8 DEF CopiesAll
    <3>2. all = << >>
      BY <1>2, <1>5, <1>9, <2>1, <2>8, <3>1 DEF ForkShows
    <3>3. SubSeq(all, 1, count) = << >>
      BY <2>2, <2>8, <3>2
    <3> QED  BY <1>4, <2>1, <2>2, <2>4, <2>7, <2>8, <3>2, <3>3
  <2>9. CASE ~(provider[source] = "claude" /\ call.at = 1 /\ call.count = 0)
    BY <1>4, <2>1, <2>2, <2>4, <2>7, <2>9
  <2> QED  BY <2>8, <2>9
<1>12. Elsewhere(fork) /\ fork \in DOMAIN native' /\ native'[fork] = history
  BY <1>5, <1>11, NewShows
<1>13. LeavesChat(call)
  <2>1. ~Lists(SegmentsOf(call.chat), fork)
    BY <1>5, <1>6, <1>8 DEF CallOK, CallTyped, Lists
  <2>2. StillAs(call.chat)
    BY <1>12, <2>1, StillApart
  <2> QED  BY <1>5, <1>9, <2>2 DEF LeavesChat, SegmentsOf
<1>14. Live(call.segs)' /\ Asked(call)' /\ Cut(segment)' = Cut(segment)
  BY <1>1, <1>5, <1>8, <1>9, <1>10, <1>12, <1>13, AskedStays DEF Sound, ListedInv, ForkShows, Elsewhere
<1>15. ForkShows(next)'
  <2>1. Live(next.segs)' /\ Asked(next)'
    BY <1>7, <1>14 DEF Asked
  <2>2. Makes(next, fork)' /\ native'[fork] = SubSeq(Cut(segment)', 1, call.count)
    BY <1>7, <1>11, <1>12, <1>14 DEF Makes
  <2> QED  BY <1>7, <1>10, <2>1, <2>2 DEF ForkShows
<1>16. CallShows(next)'
  <2>1. Current(call.chat)' \in DOMAIN native'
    BY <1>5, <1>9 DEF Current, SegmentsOf, Put
  <2> QED  BY <1>5, <1>7, <1>9, <1>15, <2>1 DEF CallShows
<1>17. Early(call) /\ Backs(fork) /\ next.what \in {"switch", "fork"}
  BY <1>5, <1>7 DEF Early, Deletes, Backs
<1>18. PICK p : provider' = Put(provider, fork, p)
  BY <1>5
<1> QED  BY <1>1, <1>5, <1>7, <1>11, <1>16, <1>17, <1>18, MadeShows

-----------------------------------------------------------------------------
(* What Claude cleans up *)

LEMMA CleanedIs ==
  ASSUME Sound, NEW thread \in Threads, CleanUp(thread)
  PROVE /\ NoopsGrow /\ Shrinks /\ Grows /\ thread \in DOMAIN native /\ \A t : t # thread => Same(t)
        /\ Loses({thread}) /\ cleaned' = cleaned \cup {thread} /\ ~Unlisted(thread)
        /\ \A c \in DOMAIN lineages : lineages[c][Len(lineages[c])].thread # thread
        /\ \A y \in Busy : ~Lists(calls[y].segs, thread)
        /\ UNCHANGED <<provider, lineages, newBackends, calls, turns, noops, run>>
<1>1. /\ native' = Restrict(native, DOMAIN native \ {thread}) /\ cleaned' = cleaned \cup {thread} /\ thread \in DOMAIN native
      /\ UNCHANGED <<provider, lineages, newBackends, calls, turns, noops, run>> /\ ~Unlisted(thread)
      /\ \A c \in DOMAIN lineages : lineages[c][Len(lineages[c])].thread # thread
      /\ \A y \in Busy : ~Lists(calls[y].segs, thread)
  BY DEF CleanUp, Unlisted, Last
<1>2. Loses({thread}) /\ \A t : t # thread => Same(t)
  BY <1>1 DEF Loses, Restrict, Same
<1>3. NoopsGrow /\ Shrinks /\ Grows
  BY <1>1, <1>2 DEF NoopsGrow, Shrinks, Grows, Loses
<1> QED  BY <1>1, <1>2, <1>3

LEMMA GoneSays == ASSUME NEW segment, segment.thread \notin DOMAIN native' PROVE Part(segment)' = << >> /\ Whole(segment)'
<1>1. PICK none : none = Segment(segment.thread, None)
  OBVIOUS
<1>2. none.thread = segment.thread
  BY <1>1 DEF Segment
<1>3. Cut(segment)' = << >> /\ Cut(none)' = << >>
  BY <1>2, CutIs
<1>4. Part(segment)' = Without(<< >>, noops') /\ Part(none)' = Without(<< >>, noops')
  BY <1>3 DEF Part, Said
<1>5. Without(<< >>, noops') = << >>
  BY WithoutNone
<1> QED  BY <1>1, <1>4, <1>5 DEF Whole

LEMMA CleanUpShows == ASSUME Sound, Sound', ShowsInv, NEW thread \in Threads, CleanUp(thread) PROVE ShowsInv'
<1>1. /\ NoopsGrow /\ Shrinks /\ Grows /\ thread \in DOMAIN native /\ \A t : t # thread => Same(t)
      /\ Loses({thread}) /\ cleaned' = cleaned \cup {thread} /\ ~Unlisted(thread)
      /\ \A c \in DOMAIN lineages : lineages[c][Len(lineages[c])].thread # thread
      /\ \A y \in Busy : ~Lists(calls[y].segs, thread)
      /\ UNCHANGED <<provider, lineages, newBackends, calls, turns, noops, run>>
  BY CleanedIs
<1>2. Gone' /\ HeardOnce' /\ thread \notin DOMAIN native'
  BY <1>1 DEF Gone, HeardOnce, ShowsInv, Loses
<1>3. LineagesShow'
  <2>1. ASSUME NEW c \in DOMAIN lineages, NEW segs, segs = lineages[c] PROVE Shows(c, segs)'
    <3>1. Shows(c, segs) /\ Len(segs) \in Nat \ {0} /\ DOMAIN segs = 1 .. Len(segs)
      BY <2>1, LastOwned DEF ShowsInv, LineagesShow, Sound, ListedInv
    <3>2. (Deleting(c)' <=> Deleting(c)) /\ \A i : Rolling(c, i)' <=> Rolling(c, i)
      BY <1>1 DEF Deleting, Rolling
    <3>3. Middles(segs)'
      BY <3>1 DEF Shows, Middles
    <3>4. LastLive(c, segs)'
      <4>1. Same(segs[Len(segs)].thread)
        BY <1>1, <2>1
      <4> QED  BY <3>1, <3>2, <4>1 DEF Shows, LastLive, Same
    <3>5. Tails(c, segs)'
      <4>1. ASSUME ~Deleting(c), NEW i \in 1 .. Len(segs) - 1, Own(segs, c, i), ~Rolling(c, i) PROVE Whole(segs[i])'
        <5>1. CASE segs[i].thread = thread
          BY <1>2, <5>1, GoneSays
        <5>2. CASE segs[i].thread # thread
          <6>1. Whole(segs[i])
            BY <3>1, <4>1 DEF Shows, Tails
          <6>2. PICK none : none = Segment(segs[i].thread, None)
            OBVIOUS
          <6>3. none.thread = segs[i].thread
            BY <6>2 DEF Segment
          <6>4. Frozen(none) /\ Frozen(segs[i])
            BY <1>1, <5>2, <6>3, SameFrozen DEF Sound, ListedInv
          <6>5. Part(segs[i]) = Part(none) /\ (Part(segs[i])' = Part(none)' => Whole(segs[i])')
            BY <6>1, <6>2 DEF Whole
          <6> QED  BY <6>4, <6>5 DEF Frozen
        <5> QED  BY <5>1, <5>2
      <4> QED  BY <3>2, <4>1 DEF Tails, Own
    <3> QED  BY <3>3, <3>4, <3>5 DEF Shows
  <2>2. ASSUME NEW c \in DOMAIN lineages' PROVE Shows(c, lineages[c])'
    <3>1. PICK segs : segs = lineages[c]
      OBVIOUS
    <3>2. Shows(c, segs)'
      BY <1>1, <2>1, <2>2, <3>1
    <3> QED  BY <1>1, <3>1, <3>2
  <2> QED  BY <2>2 DEF LineagesShow
<1>4. ASSUME NEW y \in Busy, NEW call, call = calls[y] PROVE CallShows(call)'
  <2>1. PICK own : own = SegmentsOf(call.chat)
    OBVIOUS
  <2>2. /\ own \in Seq(Segments) /\ Len(own) \in Nat \ {0} /\ DOMAIN own = 1 .. Len(own)
        /\ Current(call.chat) = own[Len(own)].thread /\ Len(call.segs) \in Nat \ {0}
        /\ DOMAIN call.segs = 1 .. Len(call.segs) /\ AsTaken(call) /\ MadeNew(call)
        /\ call.what \in {"switch", "fork", "revert", "delete"} /\ call.step \in {"asked", "ready", "set"}
    BY <1>4, <2>1, CallLast DEF Sound
  <2>3. CallShows(call) /\ ChatFree(call)
    BY <1>4 DEF ShowsInv, CallsShow, Sound, ListedInv, CallsOK, CallOK
  <2>4. Current(call.chat) # thread
    <3>1. CASE call.chat \in DOMAIN lineages
      BY <1>1, <2>1, <2>2, <3>1 DEF SegmentsOf
    <3>2. CASE call.chat \notin DOMAIN lineages
      BY <1>1, <2>3, <3>2 DEF ChatFree, Current, SegmentsOf, Segment, Last
    <3> QED  BY <3>1, <3>2
  <2>5. Current(call.chat)' = Current(call.chat) /\ (Current(call.chat) \in DOMAIN native => Current(call.chat) \in DOMAIN native')
    BY <1>1, <2>4 DEF Current, SegmentsOf, Same
  <2>6. CASE call.step = "set"
    <3>1. call.what \in {"switch", "revert"}
      BY <2>2, <2>6 DEF AsTaken
    <3>2. call.what = "switch" => SwitchShows(call)'
      <4>1. ASSUME call.what = "switch" PROVE SwitchShows(call)'
        <5>1. PICK b : Makes(call, b) /\ b # call.chat /\ lineages[call.chat][Len(lineages[call.chat])].thread = b
          BY <2>3, <2>6, <4>1 DEF CallShows, SwitchShows
        <5>2. call.chat \in DOMAIN lineages
          BY <2>3, <2>6, <4>1 DEF CallShows, SwitchShows
        <5>3. b # thread
          BY <1>1, <5>1, <5>2
        <5>4. Makes(call, b)'
          BY <1>1, <5>1, <5>3 DEF Makes, Same
        <5> QED  BY <1>1, <2>6, <5>1, <5>2, <5>4 DEF SwitchShows
      <4> QED  BY <4>1
    <3>3. call.what = "revert" => RevertShows(call)'
      <4>1. Dropped(call)' = Dropped(call)
        BY DEF Dropped, Idle
      <4> QED  BY <1>1, <2>3, <2>6, <4>1 DEF CallShows, RevertShows
    <3>4. Deletes(call)' = Deletes(call)
      BY DEF Deletes, Idle
    <3> QED  BY <1>1, <2>3, <2>5, <3>1, <3>2, <3>3, <3>4 DEF CallShows
  <2>7. CASE call.step # "set"
    <3>1. \A i \in DOMAIN own : \E j \in DOMAIN call.segs : call.segs[j].thread = own[i].thread
      <4>1. CASE call.segs = own
        BY <4>1
      <4>2. CASE SameButLast(call.segs, own)
        <5>1. ASSUME NEW i \in DOMAIN own PROVE i \in DOMAIN call.segs /\ call.segs[i].thread = own[i].thread
          <6>1. i \in 1 .. Len(own) - 1 \/ i = Len(own)
            BY <2>2
          <6> QED  BY <2>2, <4>2, <6>1 DEF SameButLast
        <5> QED  BY <5>1
      <4> QED  BY <2>1, <2>2, <2>7, <4>1, <4>2 DEF AsTaken
    <3>2. \A i \in DOMAIN own : own[i].thread # thread
      BY <1>1, <1>4, <3>1 DEF Lists
    <3>3. StillAs(call.chat)
      BY <1>1, <2>1, <3>2 DEF StillAs
    <3>4. LeavesChat(call)
      BY <1>1, <2>3, <3>3 DEF LeavesChat, SegmentsOf, CallShows
    <3>5. LeavesMade(call)
      <4>1. ASSUME call.step = "ready", NEW t \in call.made PROVE t # thread
        BY <1>1, <2>2, <4>1 DEF MadeNew
      <4> QED  BY <1>1, <4>1 DEF LeavesMade
    <3>6. LeavesDropped(call) /\ LeavesDeleted(call)
      <4>1. LeavesDropped(call)
        BY <1>1, <2>3 DEF LeavesDropped, CallShows, RevertShows
      <4>2. LeavesDeleted(call)
        <5>1. \A t : t \notin DOMAIN native => t \notin DOMAIN native'
          BY <1>1 DEF Loses
        <5>2. \A t : Shared(call.chat, t)' = Shared(call.chat, t)
          BY <1>1 DEF Shared
        <5> QED  BY <5>1, <5>2 DEF LeavesDeleted
      <4> QED  BY <4>1, <4>2
    <3>7. Leaves(call)
      BY <3>4, <3>5, <3>6 DEF Leaves
    <3> QED  BY <1>1, <1>4, <2>3, <3>7, CallStays DEF Sound, ListedInv, Grows
  <2> QED  BY <2>6, <2>7
<1>5. CallsShow'
  <2>1. ASSUME NEW y \in Busy' PROVE CallShows(calls[y])'
    <3>1. PICK call : call = calls[y]
      OBVIOUS
    <3>2. y \in Busy
      BY <1>1, <2>1 DEF Busy
    <3>3. CallShows(call)'
      BY <1>4, <3>1, <3>2
    <3> QED  BY <1>1, <3>1, <3>3
  <2>2. ASSUME NEW y \in Busy', NEW z \in Busy', y # z PROVE PairShows(calls[y], calls[z])'
    <3>1. PICK call : call = calls[y]
      OBVIOUS
    <3>2. PICK other : other = calls[z]
      OBVIOUS
    <3>3. PairShows(call, other)
      BY <1>1, <2>2, <3>1, <3>2 DEF ShowsInv, CallsShow, Busy
    <3> QED  BY <1>1, <3>1, <3>2, <3>3 DEF PairShows, Dropped, Drops, Lists
  <2> QED  BY <2>1, <2>2 DEF CallsShow
<1> QED  BY <1>2, <1>3, <1>5 DEF ShowsInv

-----------------------------------------------------------------------------
(* Steps that list a chat anew *)

\* One lineage changes, and what others delete is listed as it was.
OnlyAt(key) ==
  /\ \A c : c # key => (c \in DOMAIN lineages' <=> c \in DOMAIN lineages)
  /\ \A c \in DOMAIN lineages : c # key => lineages'[c] = lineages[c]
ListsOn(x, key) ==
  key \in DOMAIN lineages =>
    \A t : Lists(lineages[key], t) =>
      \/ key \in DOMAIN lineages' /\ Lists(lineages'[key], t)
      \/ \A y \in Busy \ {x} : calls[y].what = "delete" => ~Lists(calls[y].segs, t)

LEMMA ListedShows ==
  ASSUME Sound, Sound', ShowsInv, UNCHANGED <<provider, native, newBackends, noops, cleaned>>,
         NEW x \in Busy, NEW next, calls' = [calls EXCEPT ![x] = next], NEW key, OnlyAt(key), ListsOn(x, key),
         key = calls[x].chat \/ (calls[x].step = "ready" /\ key \in calls[x].made /\ Early(calls[x])),
         key \in DOMAIN lineages' => Shows(key, lineages[key])',
         next = Idle \/ (CallShows(next)' /\ \A other \in Others(x) : PairShows(next, other) /\ PairShows(other, next))
  PROVE ShowsInv'
<1>1. NoopsGrow /\ Gone' /\ HeardOnce' /\ \A t : Same(t)
  BY DEF NoopsGrow, Gone, HeardOnce, ShowsInv, Same
<1>2. DOMAIN calls = Calls /\ x \in Calls /\ \A y \in Calls \ {x} : calls'[y] = calls[y]
  BY DEF Sound, ListedInv, CallsOK, Busy
<1>3. ASSUME NEW c \in DOMAIN lineages', c # key PROVE Shows(c, lineages[c])'
  <2>1. PICK segs : segs = lineages[c]
    OBVIOUS
  <2>2. c \in DOMAIN lineages /\ lineages'[c] = segs
    BY <1>3, <2>1 DEF OnlyAt
  <2>3. Shows(c, segs)
    BY <2>1, <2>2 DEF ShowsInv, LineagesShow
  <2>4. (Deleting(c) => Deleting(c)') /\ \A i : Rolling(c, i) => Rolling(c, i)'
    <3>1. CASE c = calls[x].chat
      BY <1>2, <1>3, <3>1, QuietOn DEF Sound
    <3>2. CASE c # calls[x].chat
      BY <1>2, <3>2 DEF Deleting, Rolling, RollsIn
    <3> QED  BY <3>1, <3>2
  <2>5. Shows(c, segs)'
    BY <1>1, <2>1, <2>2, <2>3, <2>4, ChatShows DEF Sound, StillAs
  <2> QED  BY <2>2, <2>5
<1>4. ASSUME NEW y \in Busy \ {x}, NEW call, call = calls[y] PROVE Leaves(call)
  <2>1. Apart(calls[x], call) /\ Apart(call, calls[x]) /\ CallOK(call)
    BY <1>4 DEF Sound, ListedInv, CallsOK
  <2>2. call.chat # key
    BY <2>1 DEF Apart
  <2>3. CallShows(call) /\ PairShows(call, calls[x])
    BY <1>4 DEF ShowsInv, CallsShow
  <2>4. LeavesChat(call)
    BY <1>1, <2>2, <2>3 DEF LeavesChat, SegmentsOf, StillAs, CallShows, OnlyAt
  <2>5. LeavesMade(call)
    BY <1>1 DEF LeavesMade
  <2>6. LeavesDropped(call)
    <3>1. ASSUME key \in Dropped(call) PROVE FALSE
      <4>1. key # calls[x].chat
        BY <2>3, <3>1 DEF PairShows
      <4>2. call # Idle /\ call.what = "revert" /\ call.step = "set" /\ \E i \in call.at + 1 .. Len(call.segs) : call.segs[i].thread = key
        BY <3>1 DEF Dropped
      <4>3. Lists(call.segs, key)
        <5>1. DOMAIN call.segs = 1 .. Len(call.segs) /\ call.at \in Nat /\ Len(call.segs) \in Nat
          BY <1>4, OfCall DEF Sound
        <5>2. PICK i \in call.at + 1 .. Len(call.segs) : call.segs[i].thread = key
          BY <4>2
        <5> QED  BY <5>1, <5>2 DEF Lists
      <4> QED  BY <2>1, <4>1, <4>3 DEF Apart
    <3> QED  BY <2>3, <3>1 DEF LeavesDropped, OnlyAt, CallShows, RevertShows
  <2>7. LeavesDeleted(call)
    <3>1. ASSUME call.what = "delete", NEW i \in 1 .. call.at, NEW t, t = call.segs[i].thread, Shared(call.chat, t)
          PROVE Shared(call.chat, t)'
      <4>1. Lists(call.segs, t)
        <5>1. DOMAIN call.segs = 1 .. Len(call.segs) /\ call.at \in Nat /\ call.at <= Len(call.segs)
          BY <1>4, <2>1, <3>1, OfCall DEF Sound, CallOK, AsTaken
        <5> QED  BY <3>1, <5>1 DEF Lists
      <4>2. PICK d \in DOMAIN lineages \ {call.chat} : Lists(lineages[d], t)
        BY <3>1 DEF Shared
      <4>3. CASE d # key
        BY <4>2, <4>3 DEF OnlyAt, Shared
      <4>4. CASE d = key
        <5>1. key \in DOMAIN lineages' /\ Lists(lineages'[key], t)
          BY <1>4, <3>1, <4>1, <4>2, <4>4 DEF ListsOn
        <5> QED  BY <4>2, <4>4, <5>1 DEF Shared
      <4> QED  BY <4>3, <4>4
    <3> QED  BY <3>1 DEF LeavesDeleted
  <2> QED  BY <2>4, <2>5, <2>6, <2>7 DEF Leaves
<1>5. CallsShow'
  BY <1>1, <1>2, <1>4, CallsShowStep DEF ShowsInv, Sound, ListedInv
<1>6. LineagesShow'
  BY <1>3 DEF LineagesShow
<1> QED  BY <1>1, <1>5, <1>6 DEF ShowsInv

LEMMA PutAt == ASSUME NEW key, NEW list, lineages' = Put(lineages, key, list)
               PROVE OnlyAt(key) /\ key \in DOMAIN lineages' /\ lineages'[key] = list
BY DEF Put, OnlyAt

LEMMA DropAt == ASSUME NEW key, lineages' = Restrict(lineages, DOMAIN lineages \ {key})
                PROVE OnlyAt(key) /\ key \notin DOMAIN lineages'
BY DEF Restrict, OnlyAt

\* While a request of the chat's is neither a rollback half done nor a deletion, nor is anything else of the chat.
LEMMA OnlyRequest ==
  ASSUME ListedInv, NEW x \in Busy, NEW chat, chat = calls[x].chat
  PROVE /\ ~Deletes(calls[x]) => ~Deleting(chat)
        /\ \A i : Rolling(chat, i) => calls[x].what = "revert" /\ calls[x].step = "ready" /\ calls[x].at = i
<1>1. \A y \in Calls : calls[y] # Idle /\ calls[y].chat = chat => y = x
  BY DEF ListedInv, CallsOK, Apart, Busy
<1> QED  BY <1>1 DEF Deleting, Deletes, Rolling, RollsIn

LEMMA OnlyRequestThen ==
  ASSUME ListedInv, NEW x \in Busy, NEW chat, chat = calls[x].chat, NEW next, calls' = [calls EXCEPT ![x] = next],
         ~Deletes(next), ~(next.what = "revert" /\ next.step = "ready") \/ next = Idle
  PROVE ~Deleting(chat)' /\ \A i : ~Rolling(chat, i)'
<1>1. \A y \in Calls : calls[y] # Idle /\ calls[y].chat = chat => y = x
  BY DEF ListedInv, CallsOK, Apart, Busy
<1>2. x \in Calls /\ calls'[x] = next /\ \A y \in Calls \ {x} : calls'[y] = calls[y]
  BY DEF ListedInv, CallsOK, Busy
<1> QED  BY <1>1, <1>2 DEF Deleting, Deletes, Rolling, RollsIn

LEMMA WholeSame ==
  ASSUME ThreadsOK, native' = native, noops' = noops, NEW segment, Whole(segment) PROVE Whole(segment)'
<1>1. PICK none : none = Segment(segment.thread, None)
  OBVIOUS
<1>2. Frozen(none) /\ Frozen(segment)
  BY SameFrozen DEF NoopsGrow, Same
<1>3. Part(segment) = Part(none) /\ (Part(segment)' = Part(none)' => Whole(segment)')
  BY <1>1 DEF Whole
<1> QED  BY <1>2, <1>3 DEF Frozen

LEMMA SetLineageShows == ASSUME Sound, Sound', ShowsInv, NEW x \in Calls, SetLineage(x) PROVE ShowsInv'
<1>1. PICK call : call = calls[x]
  OBVIOUS
<1>2. PICK chat : chat = call.chat
  OBVIOUS
<1>3. PICK own : own = SegmentsOf(chat)
  OBVIOUS
<1>4. PICK next : next = [call EXCEPT !.step = "set"]
  OBVIOUS
<1>5. /\ x \in Busy /\ call # Idle /\ call.what = "switch" /\ call.step = "ready" /\ calls' = [calls EXCEPT ![x] = next]
      /\ UNCHANGED <<provider, native, newBackends, turns, noops, cleaned, run>>
  BY <1>1, <1>4, DoingBusy DEF SetLineage, Doing
<1>6. TookOwn(call, chat, own) /\ \E backend \in call.made : \E list : SwitchedTo(call, chat, backend, list)
  BY <1>1, <1>2, <1>3, SetLineageIs DEF Sound
<1>7. PICK backend \in call.made : \E list : SwitchedTo(call, chat, backend, list)
  BY <1>6
<1>8. PICK list : SwitchedTo(call, chat, backend, list)
  BY <1>7
<1>9. PICK segs : segs = call.segs
  OBVIOUS
<1>10. PICK len : len = Len(segs)
  OBVIOUS
<1>11. /\ len \in Nat \ {0} /\ DOMAIN segs = 1 .. len /\ DOMAIN list = 1 .. len + 1 /\ Len(list) = len + 1
       /\ list[len + 1] = Segment(backend, None) /\ \A i \in 1 .. len : list[i] = segs[i] /\ segs[i].thread = own[i].thread
       /\ \A i \in 1 .. len - 1 : segs[i] = own[i]
       /\ backend \in DOMAIN native /\ lineages' = Put(lineages, chat, list)
  <2>1. /\ len \in Nat \ {0} /\ DOMAIN segs = 1 .. len /\ DOMAIN list = DOMAIN segs \cup {len + 1}
        /\ list[len + 1] = Segment(backend, None) /\ \A i \in DOMAIN segs : list[i] = segs[i] /\ segs[i].thread = own[i].thread
        /\ SameButLast(segs, own)
    BY <1>6, <1>8, <1>9, <1>10 DEF SwitchedTo, GoesOnIn, TookOwn
  <2>2. lineages' = Put(lineages, chat, list) /\ backend \in DOMAIN native
    BY <1>8 DEF SwitchedTo
  <2>3. list \in Seq(Segments)
    BY <2>2, PutAt DEF Sound, ListedInv, ListsOK, LineageOK
  <2>4. DOMAIN list = 1 .. len + 1
    BY <2>1
  <2>5. Len(list) = len + 1
    BY <2>1, <2>3, <2>4
  <2> QED  BY <1>10, <2>1, <2>2, <2>4, <2>5 DEF SameButLast
<1>12. CallShows(call) /\ MadeNew(call)
  BY <1>1, <1>5 DEF ShowsInv, CallsShow, Sound, ListedInv, CallsOK, CallOK
<1>13. /\ segs[len].last # None /\ Whole(segs[len]) /\ call.made = {backend} /\ backend # chat
  <2>1. segs[len].last # None /\ Whole(segs[len]) /\ \E b : call.made = {b}
    BY <1>5, <1>9, <1>10, <1>12 DEF CallShows, SwitchShows, Makes
  <2>2. backend # chat
    BY <1>2, <1>5, <1>7, <1>12 DEF MadeNew
  <2> QED  BY <1>7, <2>1, <2>2
<1>14. next.what = "switch" /\ next.step = "set" /\ next.chat = chat /\ next.made = {backend} /\ next # Idle
  <2>1. call \in Requests(call.want)
    BY <1>1, <1>5, OfCall DEF Sound
  <2> QED  BY <1>2, <1>4, <1>5, <1>13, <2>1 DEF Requests, Idle
<1>15. OnlyAt(chat) /\ chat \in DOMAIN lineages' /\ lineages'[chat] = list
  BY <1>11, PutAt
<1>16. ListsOn(x, chat)
  <2>1. ASSUME chat \in DOMAIN lineages, NEW t, Lists(lineages[chat], t) PROVE Lists(list, t)
    <3>1. own = lineages[chat]
      BY <1>3, <2>1 DEF SegmentsOf
    <3>2. DOMAIN own = 1 .. len
      BY <1>6, <1>9, <1>11 DEF TookOwn
    <3>3. PICK i \in 1 .. len : own[i].thread = t
      BY <2>1, <3>1, <3>2 DEF Lists
    <3>4. i \in DOMAIN list /\ list[i].thread = t
      BY <1>11, <3>3
    <3> QED  BY <3>4 DEF Lists
  <2> QED  BY <1>15, <2>1 DEF ListsOn
<1>17. ~Deleting(chat) /\ \A i : ~Rolling(chat, i)
  BY <1>1, <1>2, <1>5, OnlyRequest DEF Sound, Deletes
<1>18. chat \notin DOMAIN lineages => len = 1
  <2>1. ASSUME chat \notin DOMAIN lineages PROVE len = 1
    <3>1. own = <<Segment(chat, None)>>
      BY <1>3, <2>1 DEF SegmentsOf
    <3>2. Len(own) = len
      BY <1>6, <1>9, <1>10 DEF TookOwn, SameButLast
    <3>3. Len(<<Segment(chat, None)>>) = 1
      OBVIOUS
    <3> QED  BY <3>1, <3>2, <3>3
  <2> QED  BY <2>1
<1>19. chat \in DOMAIN lineages => Shows(chat, own) /\ Len(own) = len
  <2>1. ASSUME chat \in DOMAIN lineages PROVE Shows(chat, own) /\ Len(own) = len
    <3>1. own = lineages[chat]
      BY <1>3, <2>1 DEF SegmentsOf
    <3>2. SameButLast(segs, own)
      BY <1>6, <1>9 DEF TookOwn
    <3> QED  BY <1>10, <2>1, <3>1, <3>2 DEF ShowsInv, LineagesShow, SameButLast
  <2> QED  BY <2>1
<1>20. Shows(chat, list)'
  <2>1. ASSUME NEW i \in 1 .. len PROVE list[i].last # None
    <3>1. CASE i = len
      BY <1>11, <1>13, <3>1
    <3>2. CASE i # len
      <4>1. i \in 1 .. len - 1 /\ len # 1
        BY <1>11, <3>2
      <4>2. own[i].last # None
        BY <1>18, <1>19, <4>1 DEF Shows, Middles
      <4> QED  BY <1>11, <4>1, <4>2
    <3> QED  BY <3>1, <3>2
  <2>2. ASSUME NEW i \in 1 .. len, Own(list, chat, i) PROVE Whole(list[i])
    <3>1. CASE i = len
      BY <1>11, <1>13, <3>1
    <3>2. CASE i # len
      <4>1. i \in 1 .. len - 1 /\ len # 1
        BY <1>11, <3>2
      <4>2. PICK row \in 1 .. i : list[row].thread = chat
        BY <2>2 DEF Own
      <4>3. own[row].thread = chat
        <5>1. row \in 1 .. len
          BY <1>11, <4>1, <4>2
        <5> QED  BY <1>11, <4>2, <5>1
      <4>4. Own(own, chat, i)
        BY <4>2, <4>3 DEF Own
      <4>5. Whole(own[i])
        BY <1>17, <1>18, <1>19, <4>1, <4>4 DEF Shows, Tails
      <4> QED  BY <1>11, <4>1, <4>5
    <3> QED  BY <3>1, <3>2
  <2>3. \A i \in 1 .. len : Own(list, chat, i) => Whole(list[i])'
    BY <1>5, <2>2, WholeSame DEF Sound, ListedInv
  <2>4. len + 1 - 1 = len
    BY <1>11
  <2>5. list[len + 1].thread = backend
    BY <1>11 DEF Segment
  <2> QED  BY <1>5, <1>11, <2>1, <2>3, <2>4, <2>5 DEF Shows, Middles, LastLive, Tails, Own
<1>21. CallShows(next)'
  <2>1. Current(chat)' = backend
    BY <1>11, <1>15 DEF Current, SegmentsOf, Last, Segment
  <2>2. SwitchShows(next)'
    <3>1. Makes(next, backend)' /\ lineages'[chat][Len(lineages'[chat])].thread = backend
      BY <1>5, <1>11, <1>14, <1>15 DEF Makes, Segment
    <3> QED  BY <1>13, <1>14, <1>15, <3>1 DEF SwitchShows
  <2>3. chat \notin newBackends
    BY <1>2, <1>12 DEF CallShows
  <2> QED  BY <1>5, <1>11, <1>14, <2>1, <2>2, <2>3 DEF CallShows
<1>22. \A other \in Others(x) : PairShows(next, other) /\ PairShows(other, next)
  <2>1. ASSUME NEW other \in Others(x) PROVE PairShows(call, other) /\ PairShows(other, call)
    BY <1>1, <1>5, <2>1 DEF Others, ShowsInv, CallsShow
  <2>2. Dropped(next) = {} /\ ~Drops(next)
    BY <1>14 DEF Dropped, Drops
  <2> QED  BY <1>2, <1>14, <2>1, <2>2, PairGoesOn
<1> QED  BY <1>1, <1>2, <1>5, <1>15, <1>16, <1>20, <1>21, <1>22, ListedShows

LEMMA ListForkShows == ASSUME Sound, Sound', ShowsInv, NEW x \in Calls, ListFork(x) PROVE ShowsInv'
<1>1. PICK call : call = calls[x]
  OBVIOUS
<1>2. /\ x \in Busy /\ call # Idle /\ call.what = "fork" /\ call.step = "ready" /\ calls' = [calls EXCEPT ![x] = Idle]
      /\ UNCHANGED <<provider, native, newBackends, turns, noops, cleaned, run>>
  BY <1>1, DoingBusy DEF ListFork, Doing, Ends
<1>3. Early(calls[x])
  BY <1>1, <1>2 DEF Early, Deletes
<1>4. CASE call.at = 1
  <2>1. lineages' = lineages
    BY <1>1, <1>4 DEF ListFork
  <2>2. call.chat \in DOMAIN provider /\ \A y \in Busy \ {x} : calls[y].chat # call.chat
    BY <1>1, <1>2, ChatKnown, RequestApart DEF Sound, ShowsInv
  <2> QED  BY <1>1, <1>2, <1>3, <2>1, <2>2, SameShows
<1>5. CASE call.at # 1
  <2>1. PICK fork \in call.made : \E list : ForkedTo(call, fork, list)
    BY <1>1, <1>5, ListForkIs DEF Sound
  <2>2. PICK list : ForkedTo(call, fork, list)
    BY <2>1
  <2>3. /\ lineages' = Put(lineages, fork, list)
        /\ fork \in DOMAIN native /\ fork \notin DOMAIN lineages /\ ~Lists(call.segs, fork)
        /\ call.chat \in DOMAIN lineages /\ call.segs = lineages[call.chat]
    BY <2>2 DEF ForkedTo
  <2>4. PICK n \in Nat : 1 .. n \subseteq DOMAIN call.segs /\ GoneOn(list, call.segs, n, Segment(fork, None))
    BY <2>2 DEF ForkedTo
  <2>5. OnlyAt(fork) /\ fork \in DOMAIN lineages' /\ lineages'[fork] = list /\ ListsOn(x, fork)
    BY <2>3, PutAt DEF ListsOn
  <2>6. PICK segs : segs = call.segs
    OBVIOUS
  <2>7. DOMAIN segs = 1 .. Len(segs) /\ Len(segs) \in Nat \ {0} /\ Middles(segs)
    BY <2>3, <2>6, LastOwned DEF Sound, ListedInv, ShowsInv, LineagesShow, Shows
  <2>8. /\ Len(list) = n + 1 /\ list[n + 1] = Segment(fork, None) /\ \A i \in 1 .. n : list[i] = segs[i] /\ i \in DOMAIN segs
    <3>1. list \in Seq(Segments)
      BY <2>5 DEF Sound, ListedInv, ListsOK, LineageOK
    <3>2. DOMAIN list = 1 .. n + 1
      BY <2>4 DEF GoneOn
    <3>3. Len(list) = n + 1
      BY <3>1, <3>2
    <3> QED  BY <2>4, <2>6, <3>3 DEF GoneOn
  <2>9. n < Len(segs)
    <3>1. list[n + 1].thread = fork
      BY <2>8 DEF Segment
    <3>2. call.at \in DOMAIN call.segs
      BY <1>1, <1>2, OfCall DEF Sound, CallOK, AsTaken
    <3>3. n = call.at - 1
      <4>1. PICK f \in call.made : lineages' = Put(lineages, f, GoingOn(call.segs, call.at - 1, Segment(f, None)))
        BY <1>1, <1>5 DEF ListFork, GoingOn
      <4>2. call.made = {fork}
        BY <1>1, <1>2, <2>1 DEF ShowsInv, CallsShow, CallShows, ForkShows, Makes
      <4>3. list = GoingOn(call.segs, call.at - 1, Segment(fork, None))
        BY <2>5, <4>1, <4>2 DEF Put
      <4>4. PICK m : m = call.at - 1
        OBVIOUS
      <4>5. m \in Nat /\ Within(m, segs) /\ segs \in Seq(Segments) /\ Segment(fork, None) \in Segments
        <5>1. call.at \in 1 .. Len(segs) /\ segs \in Seq(Segments)
          BY <1>1, <1>2, <2>6, <2>7, <3>2, OfCall DEF Sound
        <5>2. Segment(fork, None) \in Segments
          <6>1. list \in Seq(Segments)
            BY <2>5 DEF Sound, ListedInv, ListsOK, LineageOK
          <6>2. n + 1 \in DOMAIN list
            BY <2>4 DEF GoneOn
          <6> QED  BY <2>8, <6>1, <6>2
        <5> QED  BY <4>4, <5>1, <5>2 DEF Within
      <4>6. GoneOn(list, segs, m, Segment(fork, None))
        BY <2>6, <4>3, <4>4, <4>5, ListGoesOn
      <4>7. 1 .. n + 1 = 1 .. m + 1
        BY <2>4, <4>6 DEF GoneOn
      <4>8. n = m
        BY <4>5, <4>7
      <4> QED  BY <4>4, <4>8
    <3> QED  BY <2>6, <2>7, <3>2, <3>3
  <2>10. Shows(fork, list)'
    <3>1. \A i \in 1 .. n : list[i].last # None
      BY <2>7, <2>8, <2>9 DEF Middles
    <3>2. \A i \in 1 .. n : ~Own(list, fork, i)
      <4>1. \A i \in 1 .. n : list[i].thread # fork
        BY <2>3, <2>6, <2>8 DEF Lists
      <4>2. \A i \in 1 .. n : \A row \in 1 .. i : row \in 1 .. n
        OBVIOUS
      <4> QED  BY <4>1, <4>2 DEF Own
    <3>3. n + 1 - 1 = n /\ list[n + 1].thread = fork
      BY <2>8 DEF Segment
    <3> QED  BY <1>2, <2>3, <2>8, <3>1, <3>2, <3>3 DEF Shows, Middles, LastLive, Tails, Own
  <2> QED  BY <1>1, <1>2, <1>3, <2>1, <2>5, <2>10, ListedShows
<1> QED  BY <1>4, <1>5

LEMMA DeleteLineageShows == ASSUME Sound, Sound', ShowsInv, NEW x \in Calls, DeleteLineage(x) PROVE ShowsInv'
<1>1. PICK call : call = calls[x]
  OBVIOUS
<1>2. PICK chat : chat = call.chat
  OBVIOUS
<1>3. /\ x \in Busy /\ lineages' = Restrict(lineages, DOMAIN lineages \ {chat}) /\ calls' = [calls EXCEPT ![x] = Idle]
      /\ call.what = "delete" /\ UNCHANGED <<provider, native, newBackends, turns, noops, cleaned, run>>
  BY <1>1, <1>2, DoingBusy DEF DeleteLineage, Ends, Doing
<1>4. OnlyAt(chat) /\ chat \notin DOMAIN lineages'
  BY <1>3, DropAt
<1>5. call.segs = SegmentsOf(chat)
  BY <1>1, <1>2, <1>3, OfCall DEF Sound, CallOK, AsTaken
<1>6. ListsOn(x, chat)
  <2>1. ASSUME chat \in DOMAIN lineages, NEW t, Lists(lineages[chat], t), NEW y \in Busy \ {x}, calls[y].what = "delete"
        PROVE ~Lists(calls[y].segs, t)
    <3>1. PairShows(call, calls[y])
      BY <1>1, <1>3, <2>1 DEF ShowsInv, CallsShow
    <3>2. call.segs = lineages[chat]
      BY <1>5, <2>1 DEF SegmentsOf
    <3> QED  BY <1>3, <2>1, <3>1, <3>2 DEF PairShows, Drops, Lists
  <2> QED  BY <2>1 DEF ListsOn
<1> QED  BY <1>1, <1>2, <1>3, <1>4, <1>6, ListedShows

\* A rollback keeps the chat's row, and what it drops is no chat.
Reverting(x, call) ==
  /\ x \in Busy /\ call = calls[x] /\ call.what = "revert"
  /\ call.step = "ready" \/ (call.step = "asked" /\ ~RowDropped(x))
KeepsRow(call, segs) ==
  /\ segs = SegmentsOf(call.chat) /\ DOMAIN segs = 1 .. Len(segs) /\ Len(segs) \in Nat /\ call.at \in DOMAIN segs
  /\ \E row \in 1 .. call.at : segs[row].thread = call.chat
  /\ \A i \in call.at + 1 .. Len(segs) : i \in DOMAIN segs /\ segs[i].thread # call.chat
  /\ call.chat \notin DOMAIN lineages => Len(segs) = 1

LEMMA RowStands == ASSUME Sound, NEW x \in Calls, NEW call, Reverting(x, call), NEW segs, segs = call.segs PROVE KeepsRow(call, segs)
<1>0. x \in Busy /\ call = calls[x] /\ call.what = "revert" /\ (call.step = "ready" \/ (call.step = "asked" /\ ~RowDropped(x)))
  BY DEF Reverting
<1>1. CallOK(call) /\ DOMAIN segs = 1 .. Len(segs) /\ Len(segs) \in Nat /\ segs \in Seq(Segments)
  BY <1>0, OfCall DEF Sound
<1>2. segs = SegmentsOf(call.chat) /\ call.at \in DOMAIN segs /\ call.at \in Nat
  BY <1>0, <1>1 DEF CallOK, AsTaken
<1>3. CASE call.chat \notin DOMAIN lineages
  <2>1. segs = <<Segment(call.chat, None)>>
    BY <1>2, <1>3 DEF SegmentsOf
  <2>2. Len(segs) = 1 /\ segs[1].thread = call.chat
    BY <2>1 DEF Segment
  <2>3. call.at = 1
    BY <1>1, <1>2, <2>2
  <2>4. \A i \in call.at + 1 .. Len(segs) : FALSE
    BY <2>2, <2>3
  <2>5. \E row \in 1 .. call.at : segs[row].thread = call.chat
    BY <2>2, <2>3
  <2> QED  BY <1>1, <1>2, <2>2, <2>4, <2>5 DEF KeepsRow
<1>4. CASE call.chat \in DOMAIN lineages
  <2>1. segs = lineages[call.chat] /\ Distinct(segs) /\ Lists(segs, call.chat)
    BY <1>2, <1>4 DEF SegmentsOf, Sound, HoldInv, SegmentsCount, ListedInv, ListsOK, LineageOK
  <2>2. \E row \in 1 .. call.at : segs[row].thread = call.chat
    <3>1. CASE call.step = "ready"
      BY <1>0, <1>1, <3>1 DEF CallOK, AsTaken, UpTo
    <3>2. CASE call.step = "asked" /\ ~RowDropped(x)
      <4>1. PICK row \in DOMAIN segs : segs[row].thread = call.chat
        BY <2>1 DEF Lists
      <4>2. row \notin call.at + 1 .. Len(segs)
        BY <1>0, <1>2, <3>2, <4>1 DEF RowDropped
      <4>3. row \in 1 .. call.at
        BY <1>1, <1>2, <4>1, <4>2
      <4> QED  BY <4>1, <4>3
    <3> QED  BY <1>0, <3>1, <3>2
  <2>3. PICK row \in 1 .. call.at : segs[row].thread = call.chat
    BY <2>2
  <2>4. row \in DOMAIN segs /\ \A i \in call.at + 1 .. Len(segs) : i \in DOMAIN segs /\ i # row
    BY <1>1, <1>2, <2>3
  <2>5. \A i \in call.at + 1 .. Len(segs) : segs[i].thread # call.chat
    BY <2>1, <2>3, <2>4 DEF Distinct
  <2> QED  BY <1>1, <1>2, <1>4, <2>2, <2>4, <2>5 DEF KeepsRow
<1> QED  BY <1>3, <1>4

LEMMA LaterFree ==
  ASSUME Sound, ShowsInv, NEW x \in Calls, NEW call, Reverting(x, call), NEW i \in call.at + 1 .. Len(call.segs),
         NEW t, t = call.segs[i].thread
  PROVE t # call.chat /\ t \notin DOMAIN lineages /\ \A y \in Busy : calls[y].chat # t
<1>1. PICK segs : segs = call.segs
  OBVIOUS
<1>2. /\ segs = SegmentsOf(call.chat) /\ DOMAIN segs = 1 .. Len(segs) /\ Len(segs) \in Nat /\ call.at \in DOMAIN segs
      /\ \E row \in 1 .. call.at : segs[row].thread = call.chat
      /\ \A j \in call.at + 1 .. Len(segs) : j \in DOMAIN segs /\ segs[j].thread # call.chat
      /\ call.chat \notin DOMAIN lineages => Len(segs) = 1
  BY <1>1, RowStands DEF KeepsRow
<1>3. t # call.chat /\ i \in DOMAIN segs /\ t = segs[i].thread
  BY <1>1, <1>2
<1>4. call.chat \in DOMAIN lineages /\ segs = lineages[call.chat]
  <2>1. Len(segs) # 1
    BY <1>1, <1>2
  <2> QED  BY <1>2, <2>1 DEF SegmentsOf
<1>5. Owns(segs, call.chat, t)
  <2>1. PICK row \in 1 .. call.at : segs[row].thread = call.chat
    BY <1>2
  <2>2. row \in DOMAIN segs /\ row <= i
    BY <1>1, <1>2, <2>1
  <2> QED  BY <1>3, <2>1, <2>2 DEF Owns
<1>6. t \notin DOMAIN lineages
  <2>1. ASSUME t \in DOMAIN lineages PROVE FALSE
    <3>1. PICK list : list = lineages[t]
      OBVIOUS
    <3>2. Lists(list, t)
      BY <2>1, <3>1 DEF Sound, ListedInv, ListsOK, LineageOK
    <3>3. Owns(list, t, t)
      <4>1. PICK j \in DOMAIN list : list[j].thread = t
        BY <3>2 DEF Lists
      <4>2. j <= j
        BY <2>1, <3>1, <4>1 DEF Sound, ListedInv, ListsOK, LineageOK
      <4> QED  BY <4>1, <4>2 DEF Owns
    <3> QED  BY <1>3, <1>4, <1>5, <2>1, <3>1, <3>3 DEF Sound, ApartInv, OwnApart
  <2> QED  BY <2>1
<1>7. ASSUME NEW y \in Busy, calls[y].chat = t PROVE FALSE
  <2>1. Known(t)
    BY <1>7, ChatKnown DEF Sound, ShowsInv
  <2>2. Lists(lineages[call.chat], t)
    BY <1>3, <1>4 DEF Lists
  <2> QED  BY <1>4, <1>6, <2>1, <2>2 DEF Known, Unlisted
<1> QED  BY <1>3, <1>6, <1>7

LEMMA RevertLineageShows == ASSUME Sound, Sound', ShowsInv, NEW x \in Calls, RevertLineage(x) PROVE ShowsInv'
<1>1. PICK call : call = calls[x]
  OBVIOUS
<1>2. PICK chat : chat = call.chat
  OBVIOUS
<1>3. PICK next : next = IF call.at = Len(call.segs) THEN Idle ELSE Discarding(call, call.at)
  OBVIOUS
<1>4. /\ x \in Busy /\ call # Idle /\ call.what = "revert"
      /\ call.step = "ready" \/ (call.step = "asked" /\ call.drop /\ ~RowDropped(x))
      /\ UNCHANGED <<provider, native, newBackends, turns, noops, cleaned, run>>
  BY <1>1, DoingBusy DEF RevertLineage, Doing
<1>5. calls' = [calls EXCEPT ![x] = next]
  BY <1>1, <1>3 DEF RevertLineage, GoesOn, Ends, Discarding
<1>6. PICK segs : segs = call.segs
  OBVIOUS
<1>70. Reverting(x, call)
  BY <1>1, <1>4 DEF Reverting
<1>7. /\ segs = SegmentsOf(chat) /\ DOMAIN segs = 1 .. Len(segs) /\ Len(segs) \in Nat /\ call.at \in DOMAIN segs
      /\ \E row \in 1 .. call.at : segs[row].thread = chat
      /\ chat \notin DOMAIN lineages => Len(segs) = 1
  BY <1>2, <1>6, <1>70, RowStands DEF KeepsRow
<1>8. CallShows(call) /\ Live(segs) /\ chat \notin newBackends
  BY <1>1, <1>2, <1>4, <1>6 DEF ShowsInv, CallsShow, CallShows, RevertShows
<1>9. chat \in DOMAIN native
  <2>1. PICK row \in 1 .. call.at : segs[row].thread = chat
    BY <1>7
  <2>2. row \in DOMAIN segs
    BY <1>7, <2>1
  <2> QED  BY <1>8, <2>1, <2>2 DEF Live
<1>10. OnlyAt(chat) /\ (chat \in DOMAIN lineages' => Shows(chat, lineages[chat])' /\ Current(chat)' \in DOMAIN native)
  <2>1. CASE lineages' = lineages /\ Len(segs) = 1
    <3>1. OnlyAt(chat)
      BY <2>1 DEF OnlyAt
    <3>2. ASSUME chat \in DOMAIN lineages' PROVE Shows(chat, lineages[chat])' /\ Current(chat)' \in DOMAIN native
      <4>1. lineages'[chat] = segs
        BY <1>7, <2>1, <3>2 DEF SegmentsOf
      <4>2. Shows(chat, segs)'
        BY <2>1 DEF Shows, Middles, LastLive, Tails
      <4>3. Current(chat)' = segs[1].thread
        BY <2>1, <3>2, <4>1 DEF Current, SegmentsOf, Last
      <4> QED  BY <1>7, <1>8, <2>1, <4>1, <4>2, <4>3 DEF Live
    <3> QED  BY <3>1, <3>2
  <2>2. CASE lineages' = Restrict(lineages, DOMAIN lineages \ {chat})
    BY <2>2, DropAt
  <2>3. ASSUME NEW list, RevertedTo(call, chat, list)
        PROVE OnlyAt(chat) /\ Shows(chat, lineages[chat])' /\ Current(chat)' \in DOMAIN native
    <3>1. lineages' = Put(lineages, chat, list) /\ chat \in DOMAIN lineages /\ segs = lineages[chat] /\ Len(segs) # 1
      BY <1>6, <2>3 DEF RevertedTo
    <3>2. PICK n \in Nat : /\ call.at = n + 1 /\ 1 .. n + 1 \subseteq DOMAIN segs
                           /\ GoneOn(list, segs, n, Segment(segs[n + 1].thread, None))
      BY <1>6, <2>3 DEF RevertedTo
    <3>3. OnlyAt(chat) /\ chat \in DOMAIN lineages' /\ lineages'[chat] = list
      BY <3>1, PutAt
    <3>4. /\ Len(list) = n + 1 /\ list[n + 1] = Segment(segs[n + 1].thread, None)
          /\ \A i \in 1 .. n : list[i] = segs[i] /\ i \in DOMAIN segs
      <4>1. list \in Seq(Segments)
        BY <3>3 DEF Sound, ListedInv, ListsOK, LineageOK
      <4>2. DOMAIN list = 1 .. n + 1
        BY <3>2 DEF GoneOn
      <4>3. Len(list) = n + 1
        BY <4>1, <4>2
      <4> QED  BY <3>2, <4>3 DEF GoneOn
    <3>5. Shows(chat, segs) /\ ~Deleting(chat) /\ \A i \in 1 .. n : ~Rolling(chat, i)
      <4>1. Shows(chat, segs)
        BY <3>1 DEF ShowsInv, LineagesShow
      <4>2. ~Deleting(chat)
        BY <1>1, <1>2, <1>4, OnlyRequest DEF Sound, Deletes
      <4>3. \A i \in 1 .. n : call.at # i
        BY <3>2
      <4> QED  BY <1>1, <1>2, <1>4, <4>1, <4>2, <4>3, OnlyRequest DEF Sound
    <3>6. n < Len(segs) /\ n + 1 - 1 = n /\ n + 1 \in DOMAIN segs
      BY <1>7, <3>2
    <3>7. \A i \in 1 .. n : i \in 1 .. Len(segs) - 1
      BY <1>7, <3>6
    <3>8. \A i \in 1 .. n : list[i].last # None
      BY <3>4, <3>5, <3>7 DEF Shows, Middles
    <3>9. \A i \in 1 .. n : Own(list, chat, i) => Whole(list[i])
      <4>1. ASSUME NEW i \in 1 .. n, Own(list, chat, i) PROVE Whole(list[i])
        <5>1. PICK row \in 1 .. i : list[row].thread = chat
          BY <4>1 DEF Own
        <5>2. row \in 1 .. n
          BY <4>1, <5>1
        <5>3. Own(segs, chat, i)
          BY <3>4, <5>1, <5>2 DEF Own
        <5>4. Whole(segs[i])
          BY <3>5, <3>7, <4>1, <5>3 DEF Shows, Tails
        <5> QED  BY <3>4, <4>1, <5>4
      <4> QED  BY <4>1
    <3>10. \A i \in 1 .. n : Own(list, chat, i) => Whole(list[i])'
      BY <1>4, <3>9, WholeSame DEF Sound, ListedInv
    <3>11. segs[n + 1].thread \in DOMAIN native /\ list[n + 1].thread = segs[n + 1].thread
      BY <1>8, <3>4, <3>6 DEF Live, Segment
    <3>12. Shows(chat, list)'
      BY <1>4, <3>4, <3>6, <3>8, <3>10, <3>11 DEF Shows, Middles, LastLive, Tails, Own
    <3>13. Current(chat)' = segs[n + 1].thread
      BY <3>3, <3>4, <3>11 DEF Current, SegmentsOf, Last
    <3> QED  BY <3>3, <3>11, <3>12, <3>13
  <2> QED  BY <1>1, <1>2, <1>6, <2>1, <2>2, <2>3, RevertLineageIs DEF Sound
<1>11. ListsOn(x, chat)
  <2>1. ASSUME chat \in DOMAIN lineages, NEW t, Lists(lineages[chat], t), NEW y \in Busy \ {x}, calls[y].what = "delete"
        PROVE ~Lists(calls[y].segs, t)
    <3>1. PairShows(call, calls[y])
      BY <1>1, <1>4, <2>1 DEF ShowsInv, CallsShow
    <3>2. call.segs = lineages[chat]
      BY <1>6, <1>7, <2>1 DEF SegmentsOf
    <3> QED  BY <1>4, <2>1, <3>1, <3>2 DEF PairShows, Drops, Lists
  <2> QED  BY <2>1 DEF ListsOn
<1>12. ASSUME next # Idle PROVE CallShows(next)' /\ \A other \in Others(x) : PairShows(next, other) /\ PairShows(other, next)
  <2>1. next = Discarding(call, call.at) /\ call \in Requests(call.want)
    BY <1>1, <1>3, <1>4, <1>12, OfCall DEF Sound
  <2>2. next.what = "revert" /\ next.step = "set" /\ next.chat = chat /\ next.at = call.at /\ next.segs = segs
    BY <1>2, <1>4, <1>6, <2>1 DEF Discarding, Requests
  <2>3. Dropped(next) = {segs[i].thread : i \in call.at + 1 .. Len(segs)}
    BY <1>12, <2>2 DEF Dropped
  <2>4. \A t \in Dropped(next) : t # chat /\ t \notin DOMAIN lineages /\ \A y \in Busy : calls[y].chat # t
    BY <1>2, <1>6, <1>70, <2>3, LaterFree
  <2>5. RevertShows(next)'
    BY <1>10, <2>2, <2>4 DEF RevertShows, OnlyAt, Dropped
  <2>6. Current(chat)' \in DOMAIN native'
    <3>1. CASE chat \in DOMAIN lineages'
      BY <1>4, <1>10, <3>1
    <3>2. CASE chat \notin DOMAIN lineages'
      BY <1>4, <1>9, <3>2 DEF Current, SegmentsOf, Segment, Last
    <3> QED  BY <3>1, <3>2
  <2>7. CallShows(next)'
    BY <1>4, <1>8, <2>2, <2>5, <2>6 DEF CallShows
  <2>8. ASSUME NEW other \in Others(x) PROVE PairShows(next, other) /\ PairShows(other, next)
    <3>1. PICK y \in Busy \ {x} : other = calls[y]
      BY <2>8 DEF Others
    <3>2. PairShows(call, other) /\ PairShows(other, call)
      BY <1>1, <1>4, <3>1 DEF ShowsInv, CallsShow
    <3> QED  BY <1>2, <1>4, <1>6, <2>2, <2>4, <3>1, <3>2 DEF PairShows, Drops
  <2> QED  BY <2>7, <2>8
<1> QED  BY <1>1, <1>2, <1>4, <1>5, <1>10, <1>11, <1>12, ListedShows

-----------------------------------------------------------------------------
(* From the start, in one run *)

LEMMA ShowsStarts == ASSUME Init PROVE Sound /\ ShowsInv
<1>1. ListedInv /\ HoldInv
  BY ListedStarts, HoldStarts
<1>2. ApartInv
  BY DEF Init, ApartInv, OwnApart, LostAlone, ForksLive, Forks
<1>3. DOMAIN native = {} /\ DOMAIN lineages = {} /\ cleaned = {} /\ Busy = {}
  BY DEF Init, Busy
<1> QED  BY <1>1, <1>2, <1>3 DEF Sound, ShowsInv, Gone, HeardOnce, LineagesShow, CallsShow

LEMMA SoundKeeps ==
  ASSUME "Overlap" \notin Allow, "SharedEdits" \notin Allow, "Collisions" \notin Allow, "LateFailures" \notin Allow,
         "TornCrashes" \notin Allow, Sound, [Next]_vars
  PROVE Sound'
<1>1. ListedInv'
  BY ListedStepKeeps DEF Sound
<1>2. ApartInv'
  BY ApartKeeps DEF Sound
<1>3. HoldInv'
  BY <1>1, HoldKeeps DEF Sound
<1> QED  BY <1>1, <1>2, <1>3 DEF Sound

LEMMA ShowsKeeps ==
  ASSUME "Overlap" \notin Allow, "TwinDrops" \notin Allow, "LateFailures" \notin Allow, "EmptyChats" \notin Allow,
         Sound, Sound', ShowsInv, [Next]_vars, ~Restart
  PROVE ShowsInv'
<1>1. CASE Users
  <2>1. PICK chat \in Threads :
          \/ \E p \in Providers : Begin(chat, p)
          \/ StartTurn(chat)
          \/ \E x \in Calls :
               \/ \E noop \in BOOLEAN : AskSwitch(x, chat, noop)
               \/ AskWholeFork(x, chat)
               \/ \E i \in DOMAIN SegmentsOf(chat), k \in 0 .. MaxTurn :
                    AskRevert(x, chat, i, k) \/ \E before \in BOOLEAN : AskFork(x, chat, i, k, before)
               \/ AskDelete(x, chat)
    BY <1>1 DEF Users
  <2>2. ASSUME NEW x \in Calls,
               AskWholeFork(x, chat) \/ \E i \in DOMAIN SegmentsOf(chat), k \in 0 .. MaxTurn :
                 AskRevert(x, chat, i, k) \/ \E before \in BOOLEAN : AskFork(x, chat, i, k, before)
        PROVE \E what \in {"fork", "revert"} : \E at, count, drop : AsksUpTo(x, what, chat, at, count, drop)
    BY <2>2, AskWholeForkIs, AskForkIs, AskRevertIs
  <2>3. ASSUME NEW x \in Calls, \E what \in {"fork", "revert"} : \E at, count, drop : AsksUpTo(x, what, chat, at, count, drop)
        PROVE ShowsInv'
    BY <2>3, AskedUpToShows
  <2> QED  BY <2>1, <2>2, <2>3, BeginShows, StartTurnShows, AskSwitchShows, AskDeleteShows
<1>2. CASE Gateway
  <2>1. PICK x \in Calls :
          \/ \E t \in Threads : CreateBackend(x, t) \/ CopyThread(x, t)
          \/ SetLineage(x) \/ StartSwitched(x) \/ FailSwitch(x)
          \/ ListFork(x)
          \/ RevertThread(x) \/ RevertLineage(x) \/ Discard(x)
          \/ DeleteOnly(x) \/ DeleteSegment(x) \/ DeleteLineage(x)
          \/ Refuse(x)
    BY <1>2 DEF Gateway
  <2> QED  BY <2>1, CreateBackendShows, CopyThreadShows, SetLineageShows, StartSwitchedShows, FailSwitchShows,
              ListForkShows, RevertThreadShows, RevertLineageShows, DiscardShows, DeleteOnlyShows, DeleteSegmentShows,
              DeleteLineageShows, RefuseShows
<1>3. CASE \E thread \in Threads : CleanUp(thread)
  BY <1>3, CleanUpShows
<1>4. CASE UNCHANGED vars
  <2>1. UNCHANGED <<provider, native, lineages, newBackends, calls, turns, noops, cleaned>>
    BY <1>4 DEF vars
  <2>2. NoopsGrow /\ Gone' /\ HeardOnce' /\ Busy' = Busy /\ \A t : Same(t)
    BY <2>1 DEF NoopsGrow, ShowsInv, Gone, HeardOnce, Busy, Same
  <2>3. ASSUME NEW c \in DOMAIN lineages, NEW segs, segs = lineages[c] PROVE Shows(c, segs)'
    <3>1. Shows(c, segs)
      BY <2>3 DEF ShowsInv, LineagesShow
    <3>2. (Deleting(c) => Deleting(c)') /\ (\A i : Rolling(c, i) => Rolling(c, i)') /\ StillAs(c)
      BY <2>1, <2>2 DEF Deleting, Rolling, StillAs
    <3> QED  BY <2>2, <2>3, <3>1, <3>2, ChatShows DEF Sound
  <2>4. LineagesShow'
    BY <2>1, <2>3 DEF LineagesShow
  <2>5. ASSUME NEW y \in Busy, NEW call, call = calls[y] PROVE CallShows(call)'
    <3>1. CallShows(call)
      BY <2>5 DEF ShowsInv, CallsShow
    <3>2. LeavesChat(call)
      BY <2>1, <2>2, <3>1 DEF LeavesChat, SegmentsOf, StillAs, CallShows
    <3>3. LeavesMade(call) /\ LeavesDropped(call) /\ LeavesDeleted(call)
      BY <2>1, <2>2, <3>1 DEF LeavesMade, LeavesDropped, LeavesDeleted, Shared, CallShows, RevertShows
    <3>4. Leaves(call) /\ \A t \in DOMAIN provider : provider'[t] = provider[t]
      BY <2>1, <3>2, <3>3 DEF Leaves
    <3> QED  BY <2>2, <2>5, <3>1, <3>4, CallStays DEF Sound, ListedInv
  <2>6. \A y \in Busy : CallShows(calls[y])'
    <3>1. ASSUME NEW y \in Busy PROVE CallShows(calls[y])'
      <4>1. PICK call : call = calls[y]
        OBVIOUS
      <4>2. CallShows(call)'
        BY <2>5, <4>1
      <4> QED  BY <2>1, <4>1, <4>2
    <3> QED  BY <3>1
  <2>7. \A y \in Busy : \A z \in Busy : y # z => PairShows(calls[y], calls[z])'
    BY <2>1 DEF ShowsInv, CallsShow, PairShows, Dropped, Drops, Lists
  <2> QED  BY <2>2, <2>4, <2>6, <2>7 DEF ShowsInv, CallsShow
<1> QED  BY <1>1, <1>2, <1>3, <1>4 DEF Next

-----------------------------------------------------------------------------
(* What a user sees *)

Here(c) == \E i \in DOMAIN SegmentsOf(c) : SegmentsOf(c)[i].thread \in DOMAIN native
Visible(c) == c \notin newBackends /\ Known(c) /\ Here(c) /\ ~Deleting(c)
Shown(c) == Stitched(SeenSegments(c))

AllSeen == \A c : Seen(c) <=> Visible(c)

LEMMA SeenIs == Sound /\ ShowsInv => AllSeen
<1> SUFFICES ASSUME Sound, ShowsInv, NEW c PROVE Seen(c) <=> Visible(c)
  BY DEF AllSeen
<1>1. ASSUME NEW d \in DOMAIN lineages PROVE Owns(lineages[d], d, Last(lineages[d]).thread) /\ Lists(lineages[d], Last(lineages[d]).thread)
  <2>1. PICK segs : segs = lineages[d]
    OBVIOUS
  <2>2. Owns(segs, d, segs[Len(segs)].thread) /\ Len(segs) \in DOMAIN segs
    BY <2>1, LastOwned DEF Sound, ListedInv
  <2> QED  BY <2>1, <2>2 DEF Last, Lists
<1>2. c \in DOMAIN lineages => Owns(lineages[c], c, c)
  <2>1. ASSUME c \in DOMAIN lineages PROVE Owns(lineages[c], c, c)
    <3>1. PICK segs : segs = lineages[c]
      OBVIOUS
    <3>2. Lists(segs, c) /\ DOMAIN segs = 1 .. Len(segs)
      BY <2>1, <3>1, LastOwned DEF Sound, ListedInv, ListsOK, LineageOK
    <3>3. PICK i \in DOMAIN segs : segs[i].thread = c
      BY <3>2 DEF Lists
    <3>4. i <= i
      BY <3>2, <3>3
    <3> QED  BY <3>1, <3>3, <3>4 DEF Owns
  <2> QED  BY <2>1
<1>3. IsBackend(c) <=> c \in newBackends \/ (c \notin DOMAIN lineages /\ ~Unlisted(c))
  <2>1. ASSUME Rewritten(c) PROVE c \notin DOMAIN lineages /\ ~Unlisted(c)
    <3>1. PICK d \in DOMAIN lineages : d # c /\ Last(lineages[d]).thread = c
      BY <2>1 DEF Rewritten
    <3> QED  BY <1>1, <1>2, <3>1 DEF Sound, ApartInv, OwnApart, Unlisted
  <2> QED  BY <2>1 DEF IsBackend, IsHidden, Unlisted
<1>4. ASSUME c \in DOMAIN lineages, NEW x \in Busy PROVE c \notin Passing(x)
  <2>1. c \notin Dropped(calls[x])
    <3>1. PICK call : call = calls[x]
      OBVIOUS
    <3>2. c \in Dropped(call) => call.what = "revert"
      BY DEF Dropped
    <3> QED  BY <1>4, <3>1, <3>2 DEF ShowsInv, CallsShow, CallShows, RevertShows
  <2>2. ASSUME c \in calls[x].made PROVE FALSE
    <3>1. PICK call : call = calls[x]
      OBVIOUS
    <3>2. /\ call.what \in {"switch", "fork"} /\ call.step # "asked" /\ call.step # "ready"
          /\ call.step = "set" => call.chat \in DOMAIN lineages
      BY <1>4, <2>2, <3>1, PassedBy DEF Sound, ShowsInv
    <3>3. call.step = "set" /\ call.what = "switch" /\ CallShows(call) /\ c \in call.made
      BY <1>4, <2>2, <3>1, <3>2, CallLast DEF Sound, ShowsInv, CallsShow, AsTaken
    <3>4. PICK b : Makes(call, b) /\ b # call.chat /\ lineages[call.chat][Len(lineages[call.chat])].thread = b
      BY <3>3 DEF CallShows, SwitchShows
    <3>5. c = b /\ Last(lineages[call.chat]).thread = c /\ c # call.chat /\ call.chat \in DOMAIN lineages
      BY <3>2, <3>3, <3>4 DEF Makes, Last
    <3> QED  BY <1>1, <1>2, <1>4, <3>5 DEF Sound, ApartInv, OwnApart
  <2> QED  BY <1>4, <2>1, <2>2, PassingIs
<1>5. (\E x \in Busy : x \in CallsOf(c) /\ calls[x].what = "delete" /\ Halfway(x)) <=> Deleting(c)
  BY DEF Deleting, Deletes, CallsOf, Busy, Halfway
<1> QED  BY <1>3, <1>4, <1>5 DEF Seen, Visible, Here, Known

LEMMA SeenIsThen == Sound' /\ ShowsInv' => AllSeen'
BY SeenIs, PTL

LEMMA SeenAsIs == ASSUME NEW c, \A i : ~Rolling(c, i) PROVE SeenSegments(c) = SegmentsOf(c)
<1>1. {x \in CallsOf(c) : Doing(x, "revert", "ready")} = {}
  <2>1. ASSUME NEW x \in CallsOf(c), Doing(x, "revert", "ready") PROVE FALSE
    <3>1. Rolling(c, calls[x].at)
      BY <2>1 DEF Rolling, RollsIn, CallsOf, Busy, Doing
    <3> QED  BY <3>1
  <2> QED  BY <2>1
<1> QED  BY <1>1 DEF SeenSegments

LEMMA SeenRolled ==
  ASSUME ListedInv, NEW x \in Calls, Doing(x, "revert", "ready"), NEW c, c = calls[x].chat PROVE SeenSegments(c) = Kept(x)
<1>1. x \in Busy
  BY DoingBusy
<1>2. \A y \in CallsOf(c) : y = x
  BY <1>1 DEF ListedInv, CallsOK, Apart, CallsOf
<1>3. {y \in CallsOf(c) : Doing(y, "revert", "ready")} = {x}
  BY <1>1, <1>2 DEF CallsOf
<1>4. (CHOOSE y \in {x} : TRUE) = x
  OBVIOUS
<1>5. PICK rolled : rolled = {y \in CallsOf(c) : Doing(y, "revert", "ready")}
  OBVIOUS
<1>6. SeenSegments(c) = IF rolled = {} THEN SegmentsOf(c) ELSE Kept(CHOOSE y \in rolled : TRUE)
  BY <1>5 DEF SeenSegments
<1> QED  BY <1>3, <1>4, <1>5, <1>6

\* A rollback keeps the older segments, and the one that is current again.
KeepsTo(kept, segs, n) ==
  /\ n \in Nat /\ n < Len(segs) /\ SubSeq(segs, 1, n) \in Seq(Segments) /\ Len(SubSeq(segs, 1, n)) = n
  /\ Segment(segs[n + 1].thread, None) \in Segments
  /\ kept = Append(SubSeq(segs, 1, n), Segment(segs[n + 1].thread, None))
  /\ kept \in Seq(Segments) /\ Len(kept) = n + 1 /\ kept[n + 1] = Segment(segs[n + 1].thread, None)
  /\ \A i \in 1 .. n : kept[i] = segs[i] /\ i \in DOMAIN segs

LEMMA KeptIs ==
  ASSUME ListedInv, NEW x \in Busy, NEW call, call = calls[x], call.what = "revert", call.at \in DOMAIN call.segs,
         NEW n, n = call.at - 1
  PROVE KeepsTo(Kept(x), call.segs, n)
<1>1. PICK segs : segs = call.segs
  OBVIOUS
<1>2. segs \in Seq(Segments) /\ DOMAIN segs = 1 .. Len(segs) /\ Len(segs) \in Nat \ {0}
  BY <1>1, CallLast
<1>3. n \in Nat /\ n < Len(segs) /\ n + 1 = call.at /\ n + 1 \in DOMAIN segs
  BY <1>1, <1>2
<1>4. PICK older : older = SubSeq(segs, 1, n)
  OBVIOUS
<1>5. older \in Seq(Segments) /\ Len(older) = n /\ \A i \in 1 .. n : older[i] = segs[i] /\ i \in DOMAIN segs
  BY <1>2, <1>3, <1>4
<1>6. PICK last : last = Segment(segs[n + 1].thread, None)
  OBVIOUS
<1>7. last \in Segments
  <2>1. segs[n + 1] \in Segments
    BY <1>2, <1>3
  <2> QED  BY <1>6, <2>1 DEF Segment, Segments
<1>8. Kept(x) = Append(older, last)
  BY <1>1, <1>3, <1>4, <1>6 DEF Kept
<1>9. Append(older, last) \in Seq(Segments) /\ Len(Append(older, last)) = n + 1 /\ Append(older, last)[n + 1] = last
      /\ \A i \in 1 .. n : Append(older, last)[i] = older[i]
  <2>1. /\ Append(older, last) \in Seq(Segments) /\ Len(Append(older, last)) = Len(older) + 1
        /\ Append(older, last)[Len(older) + 1] = last /\ \A i \in 1 .. Len(older) : Append(older, last)[i] = older[i]
    BY <1>5, <1>7, AppendProperties
  <2> QED  BY <1>5, <2>1
<1> QED  BY <1>1, <1>3, <1>4, <1>5, <1>6, <1>7, <1>8, <1>9 DEF KeepsTo

\* A step that leaves a chat's threads, or what its segments count of them.
RollsOn(call, c) == call # Idle /\ call.what = "revert" /\ call.step = "ready" /\ call.chat = c

LEMMA ShownStays ==
  ASSUME ListedInv, ThreadsOK', NoopsGrow, NEW c \in DOMAIN provider, SegmentsOf(c)' = SegmentsOf(c), StillAs(c),
         \A y \in Calls : calls'[y] = calls[y] \/ (~RollsOn(calls[y], c) /\ ~RollsOn(calls'[y], c))
  PROVE Shown(c)' = Shown(c)
<1>1. PICK segs : segs = SegmentsOf(c)
  OBVIOUS
<1>2. segs \in Seq(Segments) /\ DOMAIN segs = 1 .. Len(segs) /\ \A i \in DOMAIN segs : Frozen(segs[i])
  BY <1>1, OwnSegments, StillFrozen DEF ListedInv
<1>3. PICK rolled : rolled = {y \in Calls : RollsOn(calls[y], c)}
  OBVIOUS
<1>4. rolled = {y \in Calls : RollsOn(calls'[y], c)}
  BY <1>3
<1>5. {y \in CallsOf(c) : Doing(y, "revert", "ready")} = rolled /\ {y \in CallsOf(c) : Doing(y, "revert", "ready")}' = rolled
  BY <1>3, <1>4 DEF CallsOf, Busy, Doing, RollsOn
<1>6. CASE rolled = {}
  <2>1. SeenSegments(c) = segs /\ SeenSegments(c)' = segs
    BY <1>1, <1>5, <1>6 DEF SeenSegments
  <2>2. Stitched(segs)' = Stitched(segs)
    BY <1>2, StitchedStays DEF ListedInv, Frozen
  <2> QED  BY <2>1, <2>2 DEF Shown
<1>7. CASE rolled # {}
  <2>1. PICK y : y = CHOOSE e \in rolled : TRUE
    OBVIOUS
  <2>2. y \in rolled /\ calls'[y] = calls[y]
    BY <1>3, <1>7, <2>1
  <2>3. SeenSegments(c) = Kept(y) /\ SeenSegments(c)' = Kept(y)'
    BY <1>5, <1>7, <2>1 DEF SeenSegments
  <2>4. Kept(y)' = Kept(y)
    BY <2>2 DEF Kept
  <2>5. PICK call : call = calls[y]
    OBVIOUS
  <2>6. y \in Busy /\ call.what = "revert" /\ call.step = "ready" /\ call.chat = c
    BY <1>3, <2>2, <2>5 DEF RollsOn, Busy
  <2>7. call.segs = segs /\ call.at \in DOMAIN segs
    BY <1>1, <2>5, <2>6, CallLast DEF AsTaken
  <2>8. PICK n : n = call.at - 1
    OBVIOUS
  <2>9. PICK kept : kept = Kept(y)
    OBVIOUS
  <2>10. /\ n \in Nat /\ n < Len(segs) /\ kept \in Seq(Segments) /\ Len(kept) = n + 1
         /\ kept[n + 1] = Segment(segs[n + 1].thread, None) /\ \A i \in 1 .. n : kept[i] = segs[i] /\ i \in DOMAIN segs
    <3>1. call.at \in DOMAIN call.segs
      BY <2>7
    <3>2. KeepsTo(kept, segs, n)
      BY <2>5, <2>6, <2>7, <2>8, <2>9, <3>1, KeptIs
    <3> QED  BY <3>2 DEF KeepsTo
  <2>11. n + 1 = call.at /\ n + 1 \in DOMAIN segs
    BY <1>2, <2>7, <2>8, <2>10
  <2>12. Same(segs[n + 1].thread)
    <3>1. Rolling(c, n + 1)
      BY <2>2, <2>5, <2>6, <2>11, <1>3 DEF Rolling, RollsIn, Busy
    <3> QED  BY <1>1, <2>11, <3>1 DEF StillAs, Longer
  <2>13. Frozen(kept[n + 1])
    <3>1. kept[n + 1].thread = segs[n + 1].thread
      BY <2>10 DEF Segment
    <3> QED  BY <2>12, <3>1, SameFrozen DEF ListedInv
  <2>14. \A i \in 1 .. n + 1 : Frozen(kept[i])
    <3>1. ASSUME NEW i \in 1 .. n + 1 PROVE Frozen(kept[i])
      <4>1. i \in 1 .. n \/ i = n + 1
        BY <2>10, <3>1
      <4> QED  BY <1>2, <2>10, <2>13, <4>1
    <3> QED  BY <3>1
  <2>15. \A i \in 1 .. Len(kept) : Part(kept[i])' = Part(kept[i])
    BY <2>10, <2>14 DEF Frozen
  <2>16. Stitched(kept)' = Stitched(kept)
    BY <2>10, <2>15, StitchedStays DEF ListedInv
  <2> QED  BY <2>3, <2>4, <2>9, <2>16 DEF Shown
<1> QED  BY <1>6, <1>7

-----------------------------------------------------------------------------
(* What is seen of a step *)

Alike(c) == (Seen(c)' <=> Seen(c)) /\ (Seen(c) => Shown(c)' = Shown(c))
AlikeBut(own) == \A c \in Threads : c # own => Alike(c)

LEMMA SeenChatsIs ==
  /\ DOMAIN SeenChats = {c \in Threads : Seen(c)} /\ (\A c \in DOMAIN SeenChats : SeenChats[c] = Shown(c))
  /\ SeenChats = [c \in {d \in Threads : Seen(d)} |-> Shown(c)]
BY DEF SeenChats, Shown

LEMMA SeenChatsIsThen ==
  /\ DOMAIN SeenChats' = {c \in Threads : Seen(c)'} /\ (\A c \in DOMAIN SeenChats' : SeenChats'[c] = Shown(c)')
  /\ SeenChats' = [c \in {d \in Threads : Seen(d)'} |-> Shown(c)']
BY DEF SeenChats, Shown

LEMMA SeenSame == ASSUME \A c \in Threads : Alike(c) PROVE SeenChats' = SeenChats
<1>1. {c \in Threads : Seen(c)'} = {c \in Threads : Seen(c)} /\ \A c \in {d \in Threads : Seen(d)} : Shown(c)' = Shown(c)
  BY DEF Alike
<1> QED  BY <1>1, SeenChatsIs, SeenChatsIsThen

LEMMA SeenSet ==
  ASSUME NEW own \in Threads, AlikeBut(own), Seen(own), Seen(own)', NEW old, old = SeenChats, NEW new, new = SeenChats'
  PROVE new = [old EXCEPT ![own] = Shown(own)']
<1>1. DOMAIN new = DOMAIN old /\ own \in DOMAIN old /\ new[own] = Shown(own)' /\ \A c \in DOMAIN old : c # own => new[c] = old[c]
  BY SeenChatsIs, SeenChatsIsThen DEF AlikeBut, Alike
<1>2. new = [c \in DOMAIN new |-> new[c]] /\ old = [c \in DOMAIN old |-> old[c]]
  BY SeenChatsIs, SeenChatsIsThen
<1> QED  BY <1>1, <1>2

LEMMA SeenGone ==
  ASSUME NEW own \in Threads, AlikeBut(own), ~Seen(own)', NEW old, old = SeenChats, NEW new, new = SeenChats'
  PROVE new = [c \in DOMAIN old \ {own} |-> old[c]]
<1>1. DOMAIN new = DOMAIN old \ {own} /\ \A c \in DOMAIN new : new[c] = old[c]
  BY SeenChatsIs, SeenChatsIsThen DEF AlikeBut, Alike
<1>2. new = [c \in DOMAIN new |-> new[c]]
  BY SeenChatsIsThen
<1> QED  BY <1>1, <1>2

LEMMA SeenMore ==
  ASSUME NEW own \in Threads, AlikeBut(own), ~Seen(own), Seen(own)', NEW old, old = SeenChats, NEW new, new = SeenChats'
  PROVE own \notin DOMAIN old /\ new = Promised!With(old, own, Shown(own)')
<1>1. /\ own \notin DOMAIN old /\ DOMAIN new = DOMAIN old \cup {own} /\ new[own] = Shown(own)' /\ \A c \in DOMAIN old : new[c] = old[c]
  BY SeenChatsIs, SeenChatsIsThen DEF AlikeBut, Alike
<1>2. new = [c \in DOMAIN new |-> new[c]]
  BY SeenChatsIsThen
<1> QED  BY <1>1, <1>2 DEF Promised!With

Request(call) == <<call.what, call.chat, call.want>>
Requesting(call) == call # Idle /\ call.what # "switch"
Goes(x, next) == x \in Calls /\ calls' = [calls EXCEPT ![x] = next]

LEMMA AskedIs == SeenAsked = {Request(calls[x]) : x \in {y \in Calls : Requesting(calls[y])}}
BY DEF SeenAsked, Request, Requesting, Busy

LEMMA AskedIsThen == SeenAsked' = {Request(calls'[x]) : x \in {y \in Calls : Requesting(calls'[y])}}
BY DEF SeenAsked, Request, Requesting, Busy

LEMMA AskedSame ==
  ASSUME ListedInv, NEW x, NEW next, Goes(x, next), Requesting(next) <=> Requesting(calls[x]),
         Requesting(next) => Request(next) = Request(calls[x])
  PROVE SeenAsked' = SeenAsked
<1>1. DOMAIN calls = Calls /\ calls'[x] = next /\ \A y \in Calls : y # x => calls'[y] = calls[y]
  BY DEF ListedInv, CallsOK, Goes
<1>2. \A y \in Calls : (Requesting(calls'[y]) <=> Requesting(calls[y])) /\ (Requesting(calls[y]) => Request(calls'[y]) = Request(calls[y]))
  BY <1>1
<1> QED  BY <1>2, AskedIs, AskedIsThen

LEMMA AskedMore ==
  ASSUME ListedInv, NEW x, NEW next, Goes(x, next), calls[x] = Idle, Requesting(next), CallsOf(next.chat) = {}
  PROVE Request(next) \notin SeenAsked /\ SeenAsked' = SeenAsked \cup {Request(next)}
<1>1. DOMAIN calls = Calls /\ calls'[x] = next /\ x \in Calls /\ \A y \in Calls : y # x => calls'[y] = calls[y]
  BY DEF ListedInv, CallsOK, Goes
<1>2. ~Requesting(calls[x])
  BY DEF Requesting
<1>3. ASSUME NEW y \in Calls, Requesting(calls[y]) PROVE Request(calls[y]) # Request(next)
  BY <1>3 DEF Requesting, CallsOf, Busy, Request
<1> QED  BY <1>1, <1>2, <1>3, AskedIs, AskedIsThen

LEMMA AskedLess ==
  ASSUME ListedInv, NEW x, NEW next, Goes(x, next), Requesting(calls[x]), next = Idle
  PROVE Request(calls[x]) \in SeenAsked /\ SeenAsked' = SeenAsked \ {Request(calls[x])}
<1>1. DOMAIN calls = Calls /\ calls'[x] = next /\ x \in Calls /\ \A y \in Calls : y # x => calls'[y] = calls[y]
  BY DEF ListedInv, CallsOK, Goes
<1>2. ~Requesting(next)
  BY DEF Requesting
<1>3. ASSUME NEW y \in Calls, Requesting(calls[y]), y # x PROVE Request(calls[y]) # Request(calls[x])
  <2>1. x \in Busy /\ y \in Busy
    BY <1>1, <1>3 DEF Requesting, Busy
  <2>2. calls[y].chat # calls[x].chat
    BY <1>3, <2>1 DEF ListedInv, CallsOK, Apart
  <2> QED  BY <2>2 DEF Request
<1> QED  BY <1>1, <1>2, <1>3, AskedIs, AskedIsThen

\* A step does what is promised, or nothing that is seen.
Promises == Promised!Next \/ UNCHANGED <<SeenChats, SeenAsked, run>>

LEMMA StuttersAs == ASSUME run' = run, SeenAsked' = SeenAsked, SeenChats' = SeenChats PROVE Promises
BY DEF Promises

LEMMA AnswersAs ==
  ASSUME ListedInv, run' = run, NEW x, NEW next, Goes(x, next), Requesting(calls[x]),
         next = Idle \/ (Requesting(next) /\ Request(next) = Request(calls[x])),
         NEW old, old = SeenChats, NEW new, new = SeenChats', NEW request, request = Request(calls[x]),
         \/ new = old
         \/ /\ request[2] \in DOMAIN old
            /\ \/ \E fork \in Threads : Promised!Fork(old, new, request, fork) /\ next = Idle
               \/ Promised!RollBack(old, new, request)
               \/ Promised!Delete(old, new, request)
  PROVE Promises
<1>1. PICK before : before = SeenAsked
  OBVIOUS
<1>2. PICK after : after = SeenAsked'
  OBVIOUS
<1>3. request \in before
  <2>1. x \in Calls
    BY DEF Goes
  <2> QED  BY <1>1, <2>1, AskedIs
<1>4. IF next = Idle THEN after = before \ {request} ELSE after = before
  <2>1. CASE next = Idle
    BY <1>1, <1>2, <2>1, AskedLess
  <2>2. CASE next # Idle
    BY <1>1, <1>2, <2>2, AskedSame
  <2> QED  BY <2>1, <2>2
<1>5. Promised!Answer(old, new, before, after)
  BY <1>3, <1>4 DEF Promised!Answer
<1> QED  BY <1>1, <1>2, <1>5 DEF Promises, Promised!Next

LEMMA AsksAs ==
  ASSUME ListedInv, run' = run, NEW x, NEW next, Goes(x, next), calls[x] = Idle, Requesting(next), CallsOf(next.chat) = {},
         SeenChats' = SeenChats, next.what \in {"fork", "revert", "delete"}, next.chat \in Threads, Seen(next.chat),
         next.want \in 0 .. Len(Shown(next.chat))
  PROVE Promises
<1>1. PICK before : before = SeenAsked
  OBVIOUS
<1>2. PICK after : after = SeenAsked'
  OBVIOUS
<1>3. PICK old : old = SeenChats
  OBVIOUS
<1>4. PICK request : request = Request(next)
  OBVIOUS
<1>5. request \notin before /\ after = before \cup {request}
  BY <1>1, <1>2, <1>4, AskedMore
<1>6. request[1] = next.what /\ request[2] = next.chat /\ request[3] = next.want
  BY <1>4 DEF Request
<1>7. next.chat \in DOMAIN old /\ old[next.chat] = Shown(next.chat)
  BY <1>3, SeenChatsIs
<1>8. request \in after \ before
  BY <1>5
<1>9. Promised!Ask(old, old, before, after)
  BY <1>5, <1>6, <1>7, <1>8 DEF Promised!Ask
<1> QED  BY <1>1, <1>2, <1>3, <1>9 DEF Promises, Promised!Next

LEMMA SpeaksAs ==
  ASSUME run' = run, SeenAsked' = SeenAsked, NEW old, old = SeenChats, NEW new, new = SeenChats', NEW own \in Threads, NEW turn \in Turns,
         \A c \in DOMAIN old : turn \notin Range(old[c]),
         Promised!Begin(old, new, own, turn) \/ (own \in DOMAIN old /\ Promised!AddTurn(old, new, own, turn))
  PROVE Promises
<1>1. PICK asked : asked = SeenAsked
  OBVIOUS
<1>2. Promised!Unheard(old, turn)
  BY DEF Promised!Unheard, Promised!Range, Range
<1>3. Promised!Turn(old, new, asked, asked)
  BY <1>2 DEF Promised!Turn
<1> QED  BY <1>1, <1>3 DEF Promises, Promised!Next

LEMMA ExpiresAs ==
  ASSUME run' = run, SeenAsked' = SeenAsked, Promised!Expire(SeenChats, SeenChats')
  PROVE Promises
<1>1. PICK asked : asked = SeenAsked
  OBVIOUS
<1>2. PICK old : old = SeenChats
  OBVIOUS
<1>3. PICK new : new = SeenChats'
  OBVIOUS
<1>4. Promised!CleanUp(old, new, asked, asked)
  BY <1>2, <1>3 DEF Promised!CleanUp
<1> QED  BY <1>1, <1>2, <1>3, <1>4 DEF Promises, Promised!Next

-----------------------------------------------------------------------------
(* Chats that look the same after a step *)

LEMMA UnseenAlike == ASSUME Sound, Sound', ShowsInv, ShowsInv', NEW c, ~Visible(c), ~Visible(c)' PROVE Alike(c) /\ ~Seen(c) /\ ~Seen(c)'
BY SeenIs, SeenIsThen DEF AllSeen, Alike

\* Ids not in use.
LEMMA UnusedUnseen == ListedInv => \A c : c \notin DOMAIN provider => ~Visible(c) /\ SegmentsOf(c) = <<Segment(c, None)>>
<1> SUFFICES ASSUME ListedInv, NEW c, c \notin DOMAIN provider PROVE ~Visible(c) /\ SegmentsOf(c) = <<Segment(c, None)>>
  OBVIOUS
<1>1. SegmentsOf(c) = <<Segment(c, None)>> /\ c \notin DOMAIN native
  BY DEF ListedInv, ListsOK, ThreadsOK, SegmentsOf
<1> QED  BY <1>1 DEF Visible, Here, Segment

UnusedHidden == \A c : c \notin DOMAIN provider => ~Visible(c)
LEMMA UnusedAre == ListedInv => UnusedHidden
BY UnusedUnseen DEF UnusedHidden
LEMMA UnusedUnseenThen == ListedInv' => \A c : c \notin DOMAIN provider' => ~Visible(c)'
<1>1. ListedInv' => UnusedHidden'
  BY UnusedAre, PTL
<1> QED  BY <1>1 DEF UnusedHidden

\* A chat with its own segments, none of which changed for it.
LEMMA QuietAlike ==
  ASSUME Sound, Sound', ShowsInv, ShowsInv', NoopsGrow, NEW c \in DOMAIN provider, SegmentsOf(c)' = SegmentsOf(c),
         c \in newBackends' <=> c \in newBackends, Known(c)' <=> Known(c), Deleting(c)' <=> Deleting(c),
         Known(c) /\ ~Deleting(c) => StillAs(c),
         \A y \in Calls : calls'[y] = calls[y] \/ (~RollsOn(calls[y], c) /\ ~RollsOn(calls'[y], c))
  PROVE Alike(c)
<1>1. ASSUME Known(c), ~Deleting(c) PROVE (Here(c)' <=> Here(c)) /\ Shown(c)' = Shown(c)
  <2>1. \A i \in DOMAIN SegmentsOf(c) : Frozen(SegmentsOf(c)[i])
    BY <1>1, StillFrozen DEF Sound, ListedInv
  <2>2. Here(c)' <=> Here(c)
    BY <2>1 DEF Here, Frozen
  <2>3. Shown(c)' = Shown(c)
    BY <1>1, ShownStays DEF Sound, ListedInv
  <2> QED  BY <2>2, <2>3
<1>2. Visible(c)' <=> Visible(c)
  BY <1>1 DEF Visible
<1>3. Visible(c) => Shown(c)' = Shown(c)
  BY <1>1 DEF Visible
<1> QED  BY <1>2, <1>3, SeenIs, SeenIsThen DEF AllSeen, Alike

PassedOf(call) == IF call = Idle THEN {} ELSE call.made \cup Dropped(call)

KnownTo(c) == c \in DOMAIN lineages \/ (Unlisted(c) /\ \A y \in Calls : c \notin PassedOf(calls[y]))
LEMMA KnownIs == \A c : Known(c) <=> KnownTo(c)
<1>1. ASSUME NEW y \in Busy PROVE Passing(y) = PassedOf(calls[y])
  BY <1>1, PassingIs DEF PassedOf, Busy
<1> QED  BY <1>1 DEF Known, KnownTo, PassedOf, Busy
AllKnown == \A c : Known(c) <=> KnownTo(c)
LEMMA KnownAre == AllKnown
BY KnownIs DEF AllKnown
LEMMA KnownIsThen == \A c : Known(c)' <=> KnownTo(c)'
<1>1. AllKnown'
  BY KnownAre, PTL
<1> QED  BY <1>1 DEF AllKnown

\* A step of own's requests, if of any; requests that create and discard what they did before.
CallsBut(own) ==
  \A y \in Calls :
    calls'[y] = calls[y] \/ ((calls[y] = Idle \/ calls[y].chat = own) /\ (calls'[y] = Idle \/ calls'[y].chat = own))
EarlyBut == \A y \in Calls : calls'[y] = calls[y] \/ (Early(calls[y]) /\ Early(calls'[y]))
PassesSame(c) == \A y \in Calls : c \in PassedOf(calls'[y]) <=> c \in PassedOf(calls[y])

LEMMA GoesAlone ==
  ASSUME ListedInv, NEW x, NEW next, Goes(x, next)
  PROVE /\ calls'[x] = next /\ x \in Calls /\ \A y \in Calls : y # x => calls'[y] = calls[y]
        /\ \A own : (calls[x] = Idle \/ calls[x].chat = own) /\ (next = Idle \/ next.chat = own) => CallsBut(own)
        /\ Early(calls[x]) /\ Early(next) => EarlyBut
        /\ \A c : (c \in PassedOf(next) <=> c \in PassedOf(calls[x])) => PassesSame(c)
<1>1. DOMAIN calls = Calls /\ calls'[x] = next /\ x \in Calls /\ \A y \in Calls : y # x => calls'[y] = calls[y]
  BY DEF ListedInv, CallsOK, Goes
<1> QED  BY <1>1 DEF CallsBut, EarlyBut, PassesSame

LEMMA AllStay == ASSUME calls' = calls PROVE EarlyBut /\ \A c : CallsBut(c) /\ PassesSame(c)
BY DEF CallsBut, EarlyBut, PassesSame

LEMMA KnownStays == ASSUME lineages' = lineages, NEW c, PassesSame(c) PROVE Known(c)' <=> Known(c)
<1>1. KnownTo(c)' <=> KnownTo(c)
  BY DEF KnownTo, Unlisted, PassedOf, Dropped, Lists, PassesSame
<1> QED  BY <1>1, KnownIs, KnownIsThen

\* Another chat than the step's.
LEMMA OtherAlike ==
  ASSUME Sound, Sound', ShowsInv, ShowsInv', NEW own, Still(own), lineages' = lineages, CallsBut(own), NEW c, c # own,
         c \in DOMAIN provider' => c \in DOMAIN provider, c \in newBackends' <=> c \in newBackends, Known(c)' <=> Known(c)
  PROVE Alike(c)
<1>1. CASE c \notin DOMAIN provider
  BY <1>1, UnusedUnseen, UnusedUnseenThen, UnseenAlike DEF Sound
<1>2. CASE c \in DOMAIN provider
  <2>1. \A y \in Calls : calls'[y] = calls[y] \/ (~RollsOn(calls[y], c) /\ ~RollsOn(calls'[y], c))
    BY DEF RollsOn, CallsBut
  <2>2. Deleting(c)' <=> Deleting(c)
    BY DEF Deleting, Deletes, CallsBut
  <2>3. Known(c) /\ ~Deleting(c) => StillAs(c)
    BY <1>2 DEF Still
  <2>4. NoopsGrow /\ SegmentsOf(c)' = SegmentsOf(c)
    BY DEF Still, SegmentsOf
  <2> QED  BY <1>2, <2>1, <2>2, <2>3, <2>4, QuietAlike
<1> QED  BY <1>1, <1>2

\* The step's chat, when it is neither being deleted nor rolled back.
LEMMA OwnAlike ==
  ASSUME Sound, Sound', ShowsInv, ShowsInv', NEW own \in DOMAIN provider, NoopsGrow, StillAs(own), lineages' = lineages, EarlyBut,
         own \in newBackends' <=> own \in newBackends, Known(own)' <=> Known(own)
  PROVE Alike(own)
<1>1. \A y \in Calls : calls'[y] = calls[y] \/ (~RollsOn(calls[y], own) /\ ~RollsOn(calls'[y], own))
  BY DEF RollsOn, EarlyBut, Early
<1>2. Deleting(own)' <=> Deleting(own)
  BY DEF Deleting, EarlyBut, Early
<1>3. SegmentsOf(own)' = SegmentsOf(own)
  BY DEF SegmentsOf
<1> QED  BY <1>1, <1>2, <1>3, QuietAlike

-----------------------------------------------------------------------------
(* Something is said *)

LEMMA StitchedHeard == ASSUME ThreadsOK, NEW segs \in Seq(Segments) PROVE Stitched(segs) \in Seq(1 .. turns)
<1>1. PICK E : E = 1 .. turns
  OBVIOUS
<1>2. \A i \in 1 .. Len(segs) : Part(segs[i]) \in Seq(E)
  <2>1. ASSUME NEW i \in 1 .. Len(segs) PROVE Part(segs[i]) \in Seq(E)
    <3>1. PICK cut : cut = Cut(segs[i])
      OBVIOUS
    <3>2. cut \in Seq(E)
      BY <1>1, <3>1, TurnsTyped
    <3>3. Without(cut, noops) \in Seq(E)
      BY <3>2, WithoutTyped
    <3> QED  BY <3>1, <3>3 DEF Part, Said
  <2> QED  BY <2>1
<1>3. PICK pieces : pieces = [i \in 1 .. Len(segs) |-> Part(segs[i])]
  OBVIOUS
<1>4. PICK S : S = Seq(E)
  OBVIOUS
<1>5. pieces \in Seq(S) /\ Len(pieces) = Len(segs) /\ \A i \in 1 .. Len(pieces) : Part(segs[i]) = pieces[i]
  BY <1>2, <1>3, <1>4
<1>6. Stitched(segs) = Joined(pieces)
  BY <1>4, <1>5, StitchedIs
<1>7. Joined(pieces) \in Seq(E)
  BY <1>4, <1>5, JoinedTyped
<1> QED  BY <1>1, <1>6, <1>7

LEMMA SeenTyped == ASSUME ListedInv, NEW c \in DOMAIN provider PROVE SeenSegments(c) \in Seq(Segments)
<1>1. PICK rolled : rolled = {y \in CallsOf(c) : Doing(y, "revert", "ready")}
  OBVIOUS
<1>2. CASE rolled = {}
  BY <1>1, <1>2, OwnSegments DEF SeenSegments, ListedInv
<1>3. CASE rolled # {}
  <2>1. PICK y : y = CHOOSE e \in rolled : TRUE
    OBVIOUS
  <2>2. y \in rolled /\ SeenSegments(c) = Kept(y)
    BY <1>1, <1>3, <2>1 DEF SeenSegments
  <2>3. PICK call : call = calls[y]
    OBVIOUS
  <2>4. y \in Busy /\ call.what = "revert" /\ call.step = "ready"
    BY <1>1, <2>2, <2>3 DEF CallsOf, Doing
  <2>5. call.at \in DOMAIN call.segs
    BY <2>3, <2>4, CallLast DEF AsTaken
  <2>6. PICK n : n = call.at - 1
    OBVIOUS
  <2>7. KeepsTo(Kept(y), call.segs, n)
    BY <2>3, <2>4, <2>5, <2>6, KeptIs
  <2> QED  BY <2>2, <2>7 DEF KeepsTo
<1> QED  BY <1>2, <1>3

\* What is said is new to every chat.
LEMMA UnheardYet == ASSUME Sound, ShowsInv, NEW old, old = SeenChats PROVE \A c \in DOMAIN old : NextTurn \notin Range(old[c])
<1>1. ASSUME NEW c \in DOMAIN old PROVE NextTurn \notin Range(old[c])
  <2>1. Visible(c) /\ old[c] = Stitched(SeenSegments(c))
    BY <1>1, SeenChatsIs, SeenIs DEF AllSeen, Shown
  <2>2. c \in DOMAIN provider
    BY <2>1, UnusedUnseen DEF Sound
  <2>3. PICK segs \in Seq(Segments) : segs = SeenSegments(c)
    BY <2>2, SeenTyped DEF Sound
  <2>4. Stitched(segs) \in Seq(1 .. turns)
    BY StitchedHeard DEF Sound, ListedInv
  <2>5. PICK all : all = old[c]
    OBVIOUS
  <2>6. all \in Seq(1 .. turns) /\ turns \in Nat
    BY <2>1, <2>3, <2>4, <2>5, BoundsAssumption DEF Sound, ListedInv, ThreadsOK
  <2>7. \A e \in Range(all) : e \in 1 .. turns
    BY <2>6 DEF Range
  <2>8. NextTurn \notin 1 .. turns
    BY <2>6 DEF NextTurn
  <2> QED  BY <2>5, <2>7, <2>8
<1> QED  BY <1>1

LEMMA AppendAfter ==
  ASSUME NEW E, NEW a \in Seq(E), NEW b \in Seq(E), NEW turn \in E
  PROVE a \o Append(b, turn) = Append(a \o b, turn)
<1>1. /\ Append(b, turn) \in Seq(E) /\ Len(Append(b, turn)) = Len(b) + 1 /\ a \o b \in Seq(E)
      /\ Len(a \o b) = Len(a) + Len(b) /\ Len(a) \in Nat /\ Len(b) \in Nat
  OBVIOUS
<1>2. Len(a \o Append(b, turn)) = Len(Append(a \o b, turn))
  BY <1>1
<1>3. \A i \in 1 .. Len(a) + Len(b) + 1 : (a \o Append(b, turn))[i] = Append(a \o b, turn)[i]
  BY <1>1
<1>4. a \o Append(b, turn) \in Seq(E) /\ Append(a \o b, turn) \in Seq(E)
  BY <1>1
<1> QED  BY <1>1, <1>2, <1>3, <1>4, SeqEqual

\* What is said in a chat's last thread is the chat's next turn, unless it is of no consequence.
Adds(turn, out, old, new) == new = IF turn \in out THEN old ELSE Append(old, turn)

LEMMA PartAdds ==
  ASSUME ThreadsOK, ThreadsOK', NoopsGrow, NEW thread \in DOMAIN native, Say(thread, NextTurn), NEW segment,
         segment = Segment(thread, None)
  PROVE Part(segment) \in Seq(Numbers) /\ Adds(NextTurn, noops', Part(segment), Part(segment)')
<1>1. PICK all : all = native[thread]
  OBVIOUS
<1>2. PICK out : out = noops'
  OBVIOUS
<1>3. PICK next : next = NextTurn
  OBVIOUS
<1>4. all \in Seq(1 .. turns) /\ turns \in Nat /\ next \in Numbers
  BY <1>1, <1>3, BoundsAssumption DEF ThreadsOK, NextTurn, Numbers
<1>5. all \in Seq(Numbers)
  BY <1>4, SeqWider DEF Numbers
<1>6. thread \in DOMAIN native' /\ native'[thread] = Append(all, next)
  BY <1>1, <1>3 DEF Say
<1>7. segment.thread = thread /\ segment.last = None
  BY DEF Segment
<1>8. Part(segment) = Without(all, noops)
  <2>1. \A k \in DOMAIN all : all[k] # None
    BY <1>4 DEF None
  <2> QED  BY <1>1, <1>7, <2>1, CutIs, CutAtNone DEF Part, Said
<1>9. Part(segment)' = Without(Append(all, next), out)
  BY <1>2, <1>6, LastWhole
<1>10. Without(all, out) = Without(all, noops)
  BY <1>2, <1>4, NoopsApart
<1>11. Without(Append(all, next), out) = IF next \in out THEN Without(all, out) ELSE Append(Without(all, out), next)
  BY <1>4, <1>5, WithoutAppend
<1>12. Part(segment) \in Seq(Numbers)
  BY TurnsTyped
<1> QED  BY <1>2, <1>3, <1>8, <1>9, <1>10, <1>11, <1>12 DEF Adds

LEMMA StitchedAdds ==
  ASSUME ThreadsOK, ThreadsOK', NoopsGrow, NEW thread \in DOMAIN native, Say(thread, NextTurn),
         NEW segs \in Seq(Segments), NEW n \in Nat, Len(segs) = n + 1, segs[n + 1] = Segment(thread, None),
         \A i \in 1 .. n : Frozen(segs[i])
  PROVE Adds(NextTurn, noops', Stitched(segs), Stitched(segs)')
<1>1. PICK front : front = SubSeq(segs, 1, n)
  OBVIOUS
<1>2. PICK segment : segment = segs[n + 1]
  OBVIOUS
<1>3. front \in Seq(Segments) /\ Len(front) = n /\ segment \in Segments /\ \A i \in 1 .. n : front[i] = segs[i]
  BY <1>1, <1>2
<1>4. segs = Append(front, segment)
  <2>1. Len(Append(front, segment)) = n + 1 /\ Append(front, segment) \in Seq(Segments)
    BY <1>3
  <2>2. \A i \in 1 .. n + 1 : Append(front, segment)[i] = segs[i]
    BY <1>2, <1>3
  <2> QED  BY <2>1, <2>2, SeqEqual
<1>5. PICK a : a = Stitched(front)
  OBVIOUS
<1>6. Stitched(front)' = a /\ a \in Seq(Numbers)
  <2>1. \A i \in 1 .. Len(front) : Part(front[i])' = Part(front[i])
    BY <1>3 DEF Frozen
  <2> QED  BY <1>3, <1>5, <2>1, StitchedStays, StitchedTyped
<1>7. Stitched(segs) = a \o Part(segment) /\ Stitched(segs)' = a \o Part(segment)'
  <2>1. Stitched(Append(front, segment)) = a \o Part(segment)
    BY <1>3, <1>5, StitchedOn
  <2>2. Stitched(Append(front, segment))' = a \o Part(segment)'
    BY <1>3, <1>6, StitchedOn
  <2> QED  BY <1>4, <2>1, <2>2
<1>8. Part(segment) \in Seq(Numbers) /\ Adds(NextTurn, noops', Part(segment), Part(segment)')
  BY <1>2, PartAdds
<1>9. PICK next : next = NextTurn
  OBVIOUS
<1>10. next \in Numbers
  BY <1>9, BoundsAssumption DEF ThreadsOK, NextTurn, Numbers
<1>11. PICK b : b = Part(segment)
  OBVIOUS
<1>12. a \o Append(b, next) = Append(a \o b, next)
  BY <1>6, <1>8, <1>10, <1>11, AppendAfter
<1> QED  BY <1>7, <1>8, <1>9, <1>11, <1>12 DEF Adds

\* Chats that are not half rolled back show what they list.
AllPlain == \A c : (\A y \in Calls : ~RollsOn(calls[y], c)) => SeenSegments(c) = SegmentsOf(c)
LEMMA PlainAre == AllPlain
<1>1. ASSUME NEW c, \A y \in Calls : ~RollsOn(calls[y], c) PROVE SeenSegments(c) = SegmentsOf(c)
  <2>1. \A i : ~Rolling(c, i)
    BY <1>1 DEF Rolling, RollsIn, RollsOn, Busy
  <2> QED  BY <2>1, SeenAsIs
<1> QED  BY <1>1 DEF AllPlain
LEMMA PlainThen == \A c : (\A y \in Calls : ~RollsOn(calls'[y], c)) => SeenSegments(c)' = SegmentsOf(c)'
<1>1. AllPlain'
  BY PlainAre, PTL
<1> QED  BY <1>1 DEF AllPlain

\* A chat that gets a request is shown as it is.
LEMMA OpenSeen ==
  ASSUME Sound, ShowsInv, "Overlap" \notin Allow, NEW chat, Open(chat)
  PROVE /\ chat \in Threads /\ chat \in DOMAIN provider /\ Visible(chat) /\ Seen(chat) /\ CallsOf(chat) = {}
        /\ Current(chat) \in DOMAIN native /\ \A y \in Calls : ~RollsOn(calls[y], chat)
        /\ SeenSegments(chat) = SegmentsOf(chat) /\ Known(chat)
<1>1. /\ chat \in DOMAIN provider /\ chat \in Threads /\ Known(chat) /\ Current(chat) \in DOMAIN native
      /\ chat \notin newBackends /\ ~Deleting(chat) /\ \A i : ~Rolling(chat, i)
      /\ \A y \in Busy : calls[y].chat # chat
  BY OpenShows DEF Sound
<1>2. Here(chat)
  <2>1. Len(SegmentsOf(chat)) \in DOMAIN SegmentsOf(chat)
    BY <1>1, OwnSegments DEF Sound, ListedInv
  <2> QED  BY <1>1, <2>1 DEF Here, Current, Last
<1>3. \A y \in Calls : ~RollsOn(calls[y], chat)
  BY <1>1 DEF RollsOn, Busy
<1>4. Visible(chat) /\ Seen(chat)
  BY <1>1, <1>2, SeenIs DEF Visible, AllSeen
<1> QED  BY <1>1, <1>3, <1>4, SeenAsIs DEF CallsOf

KnownSame == \A c : Known(c)' <=> Known(c)

\* Something is said in a chat.
LEMMA SaysPromises ==
  ASSUME Sound, Sound', ShowsInv, ShowsInv', NEW own \in DOMAIN provider, Visible(own), \A y \in Calls : ~RollsOn(calls[y], own),
         NEW thread \in DOMAIN native, thread = Current(own), Say(thread, NextTurn), Speak, NoopsGrow,
         UNCHANGED <<provider, lineages, newBackends, cleaned, run>>, EarlyBut, CallsBut(own), KnownSame, SeenAsked' = SeenAsked
  PROVE Promises
<1>1. own \in Threads /\ Known(own) /\ SegmentsOf(own)' = SegmentsOf(own)
  BY DEF Sound, ListedInv, ThreadsOK, Visible, SegmentsOf
<1>2. Still(own) /\ Elsewhere(thread) /\ DOMAIN native' = DOMAIN native
  BY <1>1, SaidShows DEF Say
<1>3. AlikeBut(own)
  <2>1. ASSUME NEW c \in Threads, c # own PROVE Alike(c)
    BY <1>2, <2>1, OtherAlike DEF KnownSame
  <2> QED  BY <2>1 DEF AlikeBut
<1>4. Visible(own)'
  <2>1. Deleting(own)' <=> Deleting(own)
    BY DEF Deleting, EarlyBut, Early
  <2>2. Here(own)'
    BY <1>1, <1>2 DEF Visible, Here
  <2>3. Known(own)'
    BY <1>1 DEF KnownSame
  <2> QED  BY <2>1, <2>2, <2>3 DEF Visible
<1>5. Seen(own) /\ Seen(own)'
  BY <1>4, SeenIs, SeenIsThen DEF AllSeen
<1>6. PICK segs : segs = SegmentsOf(own)
  OBVIOUS
<1>7. SeenSegments(own) = segs /\ SeenSegments(own)' = segs
  <2>1. \A y \in Calls : ~RollsOn(calls'[y], own)
    BY DEF EarlyBut, Early, RollsOn
  <2> QED  BY <1>1, <1>6, <2>1, PlainAre, PlainThen DEF AllPlain
<1>8. PICK old : old = Stitched(segs)
  OBVIOUS
<1>9. PICK new : new = Stitched(segs)'
  OBVIOUS
<1>10. Adds(NextTurn, noops', old, new)
  <2>1. PICK n : n = Len(segs) - 1
    OBVIOUS
  <2>2. segs \in Seq(Segments) /\ Len(segs) = n + 1 /\ n \in Nat /\ segs[n + 1].last = None /\ segs[n + 1].thread = thread
    BY <1>6, <2>1, OwnSegments DEF Sound, ListedInv, Current, Last
  <2>3. segs[n + 1] = Segment(thread, None)
    <3>1. PICK segment : segment = segs[n + 1]
      OBVIOUS
    <3>2. segment \in Segments
      BY <2>2, <3>1
    <3>3. segment = [thread |-> segment.thread, last |-> segment.last]
      BY <3>2 DEF Segments
    <3> QED  BY <2>2, <3>1, <3>3 DEF Segment
  <2>4. ASSUME NEW i \in 1 .. n PROVE Frozen(segs[i])
    <3>1. own \in DOMAIN lineages /\ segs = lineages[own]
      BY <1>6, <2>2, <2>4 DEF SegmentsOf
    <3>2. Distinct(segs)
      BY <3>1 DEF Sound, HoldInv, SegmentsCount
    <3>3. segs[i].thread # thread
      BY <2>2, <2>4, <3>2 DEF Distinct
    <3> QED  BY <1>2, <3>3, SameFrozen DEF Elsewhere, Sound, ListedInv
  <2> QED  BY <1>8, <1>9, <2>2, <2>3, <2>4, StitchedAdds DEF Sound, ListedInv
<1>11. Shown(own) = old /\ Shown(own)' = new
  BY <1>7, <1>8, <1>9 DEF Shown
<1>12. CASE NextTurn \in noops'
  <2>1. Alike(own)
    BY <1>5, <1>10, <1>11, <1>12 DEF Alike, Adds
  <2>2. SeenChats' = SeenChats
    BY <1>3, <2>1, SeenSame DEF AlikeBut
  <2> QED  BY <2>2, StuttersAs
<1>13. CASE NextTurn \notin noops'
  <2>1. PICK chats : chats = SeenChats
    OBVIOUS
  <2>2. PICK then : then = SeenChats'
    OBVIOUS
  <2>3. PICK turn : turn = NextTurn
    OBVIOUS
  <2>4. new = Append(old, turn)
    BY <1>10, <1>13, <2>3 DEF Adds
  <2>5. then = [chats EXCEPT ![own] = new]
    BY <1>1, <1>3, <1>5, <1>11, <2>1, <2>2, SeenSet
  <2>6. own \in DOMAIN chats /\ chats[own] = old
    BY <1>1, <1>5, <1>11, <2>1, SeenChatsIs
  <2>7. Promised!AddTurn(chats, then, own, turn)
    BY <2>4, <2>5, <2>6 DEF Promised!AddTurn
  <2>8. turn \in Turns
    BY <2>3, BoundsAssumption DEF Sound, ListedInv, ThreadsOK, Speak, NextTurn, Turns
  <2>9. \A c \in DOMAIN chats : turn \notin Range(chats[c])
    BY <2>1, <2>3, UnheardYet
  <2> QED  BY <1>1, <2>1, <2>2, <2>6, <2>7, <2>8, <2>9, SpeaksAs
<1> QED  BY <1>12, <1>13

LEMMA BeginPromises ==
  ASSUME Sound, Sound', ShowsInv, ShowsInv', NEW chat \in Threads, NEW p \in Providers, Begin(chat, p) PROVE Promises
<1>1. /\ chat \notin DOMAIN provider /\ Speak /\ native' = Put(native, chat, <<NextTurn>>) /\ provider' = Put(provider, chat, p)
      /\ UNCHANGED <<lineages, newBackends, calls, noops, cleaned, run>>
  BY DEF Begin, Fresh
<1>2. /\ Still(chat) /\ chat \in DOMAIN native' /\ native'[chat] = <<NextTurn>>
  <2>1. PICK all : all = <<NextTurn>>
    OBVIOUS
  <2>2. Once(all)
    BY <2>1, OnceFew
  <2> QED  BY <1>1, <2>1, <2>2, NewShows
<1>3. KnownSame /\ \A c : CallsBut(c) /\ PassesSame(c)
  BY <1>1, AllStay, KnownStays DEF KnownSame
<1>4. AlikeBut(chat)
  <2>1. ASSUME NEW c \in Threads, c # chat PROVE Alike(c)
    <3>1. c \in DOMAIN provider' => c \in DOMAIN provider
      BY <1>1, <2>1 DEF Put
    <3> QED  BY <1>1, <1>2, <1>3, <2>1, <3>1, OtherAlike DEF KnownSame
  <2> QED  BY <2>1 DEF AlikeBut
<1>5. chat \notin DOMAIN lineages /\ chat \notin newBackends /\ \A y \in Calls : calls[y] = Idle \/ (calls[y].chat # chat /\ chat \notin calls[y].made)
  BY <1>1 DEF Sound, ListedInv, ListsOK, CallsOK, CallOK, CallTyped, ThreadsOK, Busy
<1>6. Unlisted(chat)
  BY <1>1 DEF Sound, ListedInv, ListsOK, LineageOK, Unlisted, Lists
<1>7. Known(chat)
  <2>1. ASSUME NEW y \in Busy PROVE chat \notin Passing(y)
    <3>1. chat \notin Dropped(calls[y])
      <4>1. PICK call : call = calls[y]
        OBVIOUS
      <4>2. DOMAIN call.segs = 1 .. Len(call.segs) /\ call.at \in Nat /\ Len(call.segs) \in Nat
        BY <2>1, <4>1, OfCall DEF Sound
      <4>3. \A i \in DOMAIN call.segs : call.segs[i].thread # chat
        BY <1>1, <2>1, <4>1 DEF Sound, ListedInv, CallsOK, CallOK, CallTyped
      <4>4. \A i \in call.at + 1 .. Len(call.segs) : i \in DOMAIN call.segs
        BY <4>2
      <4> QED  BY <4>1, <4>3, <4>4 DEF Dropped
    <3> QED  BY <1>5, <2>1, <3>1, PassingIs DEF Busy
  <2> QED  BY <1>6, <2>1 DEF Known
<1>8. ~Seen(chat)
  BY <1>1, UnusedUnseen, SeenIs DEF AllSeen, Sound
<1>9. SegmentsOf(chat)' = <<Segment(chat, None)>>
  BY <1>1, <1>5 DEF SegmentsOf
<1>10. Seen(chat)'
  <2>1. Here(chat)'
    BY <1>2, <1>9 DEF Here, Segment
  <2>2. Known(chat)'
    BY <1>3, <1>7 DEF KnownSame
  <2>3. ~Deleting(chat)'
    BY <1>1, <1>5 DEF Deleting, Deletes
  <2>4. Visible(chat)'
    BY <1>1, <1>5, <2>1, <2>2, <2>3 DEF Visible
  <2> QED  BY <2>4, SeenIsThen DEF AllSeen
<1>11. Shown(chat)' = <<NextTurn>>
  <2>1. SeenSegments(chat)' = <<Segment(chat, None)>>
    <3>1. \A y \in Calls : ~RollsOn(calls'[y], chat)
      BY <1>1, <1>5 DEF RollsOn
    <3> QED  BY <1>9, <3>1, PlainThen
  <2>2. PICK segment : segment = Segment(chat, None)
    OBVIOUS
  <2>3. segment \in Segments
    BY <2>2 DEF Segment, Segments
  <2>4. PICK all : all = <<NextTurn>>
    OBVIOUS
  <2>5. Part(segment)' = Without(all, noops')
    BY <1>2, <2>2, <2>4, LastWhole DEF Sound, ListedInv
  <2>6. NextTurn \in Numbers /\ NextTurn \notin noops'
    BY <1>1, BoundsAssumption DEF Sound, ListedInv, ThreadsOK, NextTurn, Numbers
  <2>7. Without(all, noops') = all
    <3>1. PICK next : next = NextTurn
      OBVIOUS
    <3>2. PICK out : out = noops'
      OBVIOUS
    <3>3. Without(<<next>>, out) = <<next>>
      BY <2>6, <3>1, <3>2, WithoutOne
    <3> QED  BY <2>4, <3>1, <3>2, <3>3
  <2>8. PICK none : none = << >>
    OBVIOUS
  <2>9. none \in Seq(Segments) /\ Append(none, segment) = <<segment>>
    BY <2>3, <2>8
  <2>10. Stitched(Append(none, segment))' = Stitched(none)' \o Part(segment)'
    BY <2>3, <2>9, StitchedOn DEF Sound, ListedInv
  <2>11. Stitched(none)' = << >>
    BY <2>8, <2>9, StitchedViewThen, ViewNone DEF Sound, ListedInv
  <2>12. << >> \o all = all
    <3>1. all \in Seq(Numbers)
      BY <2>4, <2>6
    <3> QED  BY <3>1
  <2>13. Stitched(<<segment>>)' = all
    BY <2>5, <2>7, <2>9, <2>10, <2>11, <2>12
  <2> QED  BY <2>1, <2>2, <2>4, <2>13 DEF Shown
<1>12. PICK old : old = SeenChats
  OBVIOUS
<1>13. PICK new : new = SeenChats'
  OBVIOUS
<1>14. PICK turn : turn = NextTurn
  OBVIOUS
<1>15. chat \notin DOMAIN old /\ new = Promised!With(old, chat, <<turn>>)
  BY <1>4, <1>8, <1>10, <1>11, <1>12, <1>13, <1>14, SeenMore
<1>16. Promised!Begin(old, new, chat, turn)
  BY <1>15 DEF Promised!Begin
<1>17. turn \in Turns
  BY <1>1, <1>14, BoundsAssumption DEF Sound, ListedInv, ThreadsOK, Speak, NextTurn, Turns
<1>18. \A c \in DOMAIN old : turn \notin Range(old[c])
  BY <1>12, <1>14, UnheardYet
<1>19. SeenAsked' = SeenAsked
  BY <1>1, AskedIs, AskedIsThen
<1> QED  BY <1>1, <1>12, <1>13, <1>16, <1>17, <1>18, <1>19, SpeaksAs

LEMMA StartTurnPromises ==
  ASSUME Sound, Sound', ShowsInv, ShowsInv', "Overlap" \notin Allow, NEW chat \in Threads, StartTurn(chat) PROVE Promises
<1>1. Open(chat) /\ Speak /\ Say(Current(chat), NextTurn) /\ UNCHANGED <<provider, lineages, newBackends, calls, noops, cleaned, run>>
  BY DEF StartTurn
<1>2. PICK thread : thread = Current(chat)
  OBVIOUS
<1>3. chat \in DOMAIN provider /\ Visible(chat) /\ thread \in DOMAIN native /\ \A y \in Calls : ~RollsOn(calls[y], chat)
  BY <1>1, <1>2, OpenSeen
<1>4. KnownSame /\ EarlyBut /\ CallsBut(chat)
  BY <1>1, AllStay, KnownStays DEF KnownSame
<1>5. NoopsGrow
  BY <1>1 DEF NoopsGrow
<1>6. SeenAsked' = SeenAsked
  BY <1>1, AskedIs, AskedIsThen
<1> QED  BY <1>1, <1>2, <1>3, <1>4, <1>5, <1>6, SaysPromises

\* A request of the chat's that goes on to other things than deleting, rolling back and discarding.
LEMMA GoesQuietly ==
  ASSUME ListedInv, NEW x, NEW next, Goes(x, next), NEW own, calls[x] = Idle \/ calls[x].chat = own,
         next = Idle \/ next.chat = own, Early(calls[x]), Early(next), PassedOf(next) = PassedOf(calls[x]), lineages' = lineages
  PROVE EarlyBut /\ CallsBut(own) /\ KnownSame
<1>1. EarlyBut /\ CallsBut(own) /\ \A c : PassesSame(c)
  BY GoesAlone
<1> QED  BY <1>1, KnownStays DEF KnownSame

\* A step that touches no thread of a chat's, and lists none anew.
LEMMA QuietStep ==
  ASSUME Sound, Sound', ShowsInv, ShowsInv', NEW own \in DOMAIN provider, native' = native, noops' = noops,
         UNCHANGED <<provider, lineages, newBackends, run>>, EarlyBut, CallsBut(own), KnownSame
  PROVE SeenChats' = SeenChats
<1>1. NoopsGrow /\ Still(own) /\ StillAs(own)
  BY StillSame DEF NoopsGrow, StillAs, Same
<1>2. \A c \in Threads : Alike(c)
  <2>1. ASSUME NEW c \in Threads PROVE Alike(c)
    BY <1>1, OtherAlike, OwnAlike DEF KnownSame
  <2> QED  BY <2>1
<1> QED  BY <1>2, SeenSame

LEMMA StartSwitchedPromises ==
  ASSUME Sound, Sound', ShowsInv, ShowsInv', NEW x \in Calls, StartSwitched(x) PROVE Promises
<1>1. PICK backend \in calls[x].made : Say(backend, NextTurn)
  BY DEF StartSwitched
<1>2. PICK call : call = calls[x]
  OBVIOUS
<1>3. /\ x \in Busy /\ Goes(x, Idle) /\ Speak /\ backend \in DOMAIN native /\ call # Idle
      /\ call.what = "switch" /\ call.step = "set"
      /\ UNCHANGED <<provider, lineages, newBackends, noops, cleaned, run>>
  BY <1>2, DoingBusy DEF StartSwitched, Ends, Doing, Goes
<1>4. PICK own : own = call.chat
  OBVIOUS
<1>5. CallShows(call) /\ Known(own) /\ own \in DOMAIN provider
  BY <1>2, <1>3, <1>4, ChatKnown DEF Sound, ShowsInv, CallsShow
<1>6. own \in DOMAIN lineages /\ Current(own) = backend /\ own \notin newBackends
  BY <1>1, <1>2, <1>3, <1>4, <1>5 DEF CallShows, SwitchShows, Makes, Current, SegmentsOf, Last
<1>7. Early(call) /\ Early(Idle)
  BY <1>3 DEF Early, Deletes
<1>8. EarlyBut /\ CallsBut(own) /\ \A y \in Calls : y # x => calls'[y] = calls[y]
  BY <1>2, <1>3, <1>4, <1>7, GoesAlone DEF Sound
<1>9. KnownSame
  <2>1. ASSUME NEW c PROVE Known(c)' <=> Known(c)
    <3>1. CASE c \in call.made
      <4>1. own \in DOMAIN lineages /\ Lists(lineages[own], c)
        BY <1>2, <1>3, <1>4, <3>1, PassedBy DEF Sound, ShowsInv
      <4>2. (Known(c) <=> c \in DOMAIN lineages) /\ (Known(c)' <=> c \in DOMAIN lineages')
        BY <1>3, <4>1 DEF Known, Unlisted
      <4> QED  BY <1>3, <4>2
    <3>2. CASE c \notin call.made
      <4>1. c \notin PassedOf(call) /\ c \notin PassedOf(Idle)
        BY <1>3, <3>2 DEF PassedOf, Dropped
      <4>2. PassesSame(c)
        BY <1>2, <1>3, <4>1, GoesAlone DEF Sound
      <4> QED  BY <1>3, <4>2, KnownStays
    <3> QED  BY <3>1, <3>2
  <2> QED  BY <2>1 DEF KnownSame
<1>10. \A y \in Calls : ~RollsOn(calls[y], own)
  <2>1. ASSUME NEW y \in Calls, RollsOn(calls[y], own) PROVE FALSE
    <3>1. y \in Busy /\ y # x
      BY <1>2, <1>3, <2>1 DEF RollsOn, Busy
    <3> QED  BY <1>2, <1>3, <1>4, <2>1, <3>1, RequestApart DEF RollsOn, Sound
  <2> QED  BY <2>1
<1>11. Visible(own)
  <2>1. ~Deleting(own)
    BY <1>2, <1>3, <1>4, <1>7, OnlyRequest DEF Early, Sound
  <2>2. Here(own)
    <3>1. Len(SegmentsOf(own)) \in DOMAIN SegmentsOf(own)
      BY <1>5, OwnSegments DEF Sound, ListedInv
    <3> QED  BY <1>3, <1>6, <3>1 DEF Here, Current, Last
  <2> QED  BY <1>5, <1>6, <2>1, <2>2 DEF Visible
<1>12. SeenAsked' = SeenAsked
  BY <1>2, <1>3, AskedSame DEF Requesting, Sound
<1>13. NoopsGrow
  BY <1>3 DEF NoopsGrow
<1> QED  BY <1>1, <1>3, <1>5, <1>6, <1>8, <1>9, <1>10, <1>11, <1>12, <1>13, SaysPromises

LEMMA AskSwitchPromises ==
  ASSUME Sound, Sound', ShowsInv, ShowsInv', "Overlap" \notin Allow, NEW x \in Calls, NEW chat \in Threads, NEW noop \in BOOLEAN,
         AskSwitch(x, chat, noop)
  PROVE Promises
<1>1. PICK thread : thread = Current(chat)
  OBVIOUS
<1>2. /\ chat \in DOMAIN provider /\ Visible(chat) /\ thread \in DOMAIN native /\ \A y \in Calls : ~RollsOn(calls[y], chat)
  BY <1>1, OpenSeen DEF AskSwitch
<1>3. PICK segs : Take(x, "switch", chat, segs)
  BY DEF AskSwitch
<1>4. PICK next : next = [what |-> "switch", chat |-> chat, segs |-> segs, step |-> "asked",
                          at |-> 0, count |-> 0, drop |-> FALSE, made |-> {}, want |-> 0]
  OBVIOUS
<1>5. next.what = "switch" /\ next.chat = chat /\ next.step = "asked" /\ next.made = {}
  BY <1>4
<1>6. calls[x] = Idle /\ Goes(x, next) /\ UNCHANGED <<provider, lineages, newBackends, cleaned, run>>
  BY <1>3, <1>4 DEF AskSwitch, Take, Goes
<1>7. Early(calls[x]) /\ Early(next) /\ PassedOf(next) = PassedOf(calls[x])
  BY <1>5, <1>6 DEF Early, Deletes, PassedOf, Dropped
<1>8. EarlyBut /\ CallsBut(chat) /\ KnownSame
  BY <1>5, <1>6, <1>7, GoesQuietly DEF Sound
<1>9. SeenAsked' = SeenAsked
  BY <1>5, <1>6, AskedSame DEF Requesting, Sound
<1>10. CASE provider[thread] = "claude"
  <2>1. Speak /\ Say(thread, NextTurn) /\ NoopsGrow
    BY <1>1, <1>10 DEF AskSwitch, NoopsGrow
  <2> QED  BY <1>1, <1>2, <1>6, <1>8, <1>9, <2>1, SaysPromises
<1>11. CASE provider[thread] # "claude"
  <2>1. native' = native /\ noops' = noops
    BY <1>1, <1>11 DEF AskSwitch
  <2>2. SeenChats' = SeenChats
    BY <1>2, <1>6, <1>8, <2>1, QuietStep
  <2> QED  BY <1>6, <1>9, <2>2, StuttersAs
<1> QED  BY <1>10, <1>11

-----------------------------------------------------------------------------
(* Requests that come in, fail, or make a thread *)

\* The turns up to the n-th of a segment are the first of the history.
WantsTo(segs, at, n, older, kept) ==
  /\ older \in Seq(Numbers) /\ kept \in Seq(Numbers) /\ SecondIn(older, kept, Stitched(segs))
  /\ SaidUpTo(segs, at, n) = Len(older) + Len(kept)
LEMMA WantIs ==
  ASSUME ThreadsOK, NEW segs \in Seq(Segments), NEW at \in 1 .. Len(segs), NEW cut, cut = Cut(segs[at]), NEW n \in 0 .. Len(cut),
         NEW older, older = Stitched(SubSeq(segs, 1, at - 1)), NEW kept, kept = Said(SubSeq(cut, 1, n))
  PROVE WantsTo(segs, at, n, older, kept)
<1>1. PICK part : part = PartsSaid
  OBVIOUS
<1>2. Views(part) /\ \A segment \in Segments : part[segment] = Part(segment)
  BY <1>1, PartsTyped
<1>3. PICK out : out = noops
  OBVIOUS
<1>4. segs[at] \in Segments /\ SubSeq(segs, 1, at - 1) \in Seq(Segments)
  BY <1>1, <1>2, ViewParted
<1>5. cut \in Seq(Numbers)
  BY TurnsTyped
<1>6. part[segs[at]] = Without(cut, out) /\ kept = Without(SubSeq(cut, 1, n), out)
  BY <1>2, <1>3, <1>4 DEF Part, Said
<1>7. older = View(part, SubSeq(segs, 1, at - 1)) /\ Stitched(segs) = View(part, segs)
  BY <1>1, <1>4, StitchedView
<1>8. older \in Seq(Numbers) /\ kept \in Seq(Numbers) /\ SecondIn(older, kept, Stitched(segs))
  BY <1>2, <1>5, <1>6, <1>7, KeptIsFirst
<1> QED  BY <1>8 DEF SaidUpTo, WantsTo

\* Nothing that is seen changes, but that a request comes in.
LEMMA RequestPromises ==
  ASSUME Sound, Sound', ShowsInv, ShowsInv', "Overlap" \notin Allow, NEW x, NEW next, Goes(x, next), calls[x] = Idle,
         Open(next.chat), next.what \in {"fork", "revert", "delete"}, next # Idle, Early(next), PassedOf(next) = {},
         next.want \in 0 .. Len(Stitched(SegmentsOf(next.chat))),
         UNCHANGED <<provider, native, lineages, newBackends, noops, run>>
  PROVE Promises
<1>1. PICK chat : chat = next.chat
  OBVIOUS
<1>2. /\ chat \in Threads /\ chat \in DOMAIN provider /\ Seen(chat) /\ CallsOf(chat) = {} /\ Shown(chat) = Stitched(SegmentsOf(chat))
  BY <1>1, OpenSeen DEF Shown
<1>3. Early(calls[x]) /\ PassedOf(next) = PassedOf(calls[x])
  BY DEF Early, Deletes, PassedOf
<1>4. EarlyBut /\ CallsBut(chat) /\ KnownSame
  BY <1>1, <1>3, GoesQuietly DEF Sound
<1>5. SeenChats' = SeenChats
  BY <1>2, <1>4, QuietStep
<1>6. Requesting(next)
  BY DEF Requesting
<1> QED  BY <1>1, <1>2, <1>5, <1>6, AsksAs DEF Sound

LEMMA AskUpToPromises ==
  ASSUME Sound, Sound', ShowsInv, ShowsInv', "Overlap" \notin Allow, NEW x \in Calls, NEW chat, NEW what \in {"fork", "revert"},
         NEW at, NEW count, NEW drop, AsksUpTo(x, what, chat, at, count, drop)
  PROVE Promises
<1>1. PICK segs : segs = SegmentsOf(chat)
  OBVIOUS
<1>2. PICK next : next = [what |-> what, chat |-> chat, segs |-> segs, step |-> "asked", at |-> at, count |-> count,
                          drop |-> drop, made |-> {}, want |-> SaidUpTo(segs, at, count)]
  OBVIOUS
<1>3. /\ calls[x] = Idle /\ Goes(x, next) /\ Open(chat) /\ at \in DOMAIN segs /\ count \in Nat /\ count <= Len(Cut(segs[at]))
      /\ UNCHANGED <<provider, native, lineages, newBackends, noops, run>>
  BY <1>1, <1>2 DEF AsksUpTo, TakeUpTo, Goes
<1>4. next.what = what /\ next.chat = chat /\ next.step = "asked" /\ next.made = {} /\ next.want = SaidUpTo(segs, at, count)
  BY <1>2
<1>5. next # Idle
  BY <1>4 DEF Idle
<1>6. Early(next) /\ PassedOf(next) = {}
  BY <1>4, <1>5 DEF Early, Deletes, PassedOf, Dropped
<1>7. segs \in Seq(Segments) /\ at \in 1 .. Len(segs)
  <2>1. chat \in DOMAIN provider
    BY <1>3, OpenSeen
  <2> QED  BY <1>1, <1>3, <2>1, OwnSegments DEF Sound, ListedInv
<1>8. next.want \in 0 .. Len(Stitched(segs))
  <2>1. PICK cut : cut = Cut(segs[at])
    OBVIOUS
  <2>2. count \in 0 .. Len(cut)
    <3>1. Len(cut) \in Nat
      BY <2>1, CutShorter DEF Sound, ListedInv
    <3> QED  BY <1>3, <2>1, <3>1
  <2>3. PICK older : older = Stitched(SubSeq(segs, 1, at - 1))
    OBVIOUS
  <2>4. PICK kept : kept = Said(SubSeq(cut, 1, count))
    OBVIOUS
  <2>5. WantsTo(segs, at, count, older, kept)
    BY <1>7, <2>1, <2>2, <2>3, <2>4, WantIs DEF Sound, ListedInv
  <2> QED  BY <1>4, <2>5 DEF SecondIn, WantsTo
<1> QED  BY <1>1, <1>3, <1>4, <1>5, <1>6, <1>8, RequestPromises

LEMMA AskDeletePromises ==
  ASSUME Sound, Sound', ShowsInv, ShowsInv', "Overlap" \notin Allow, NEW x \in Calls, NEW chat \in Threads, AskDelete(x, chat)
  PROVE Promises
<1>1. PICK next : next = [what |-> "delete", chat |-> chat, segs |-> SegmentsOf(chat), step |-> "asked",
                          at |-> 0, count |-> 0, drop |-> FALSE, made |-> {}, want |-> 0]
  OBVIOUS
<1>2. calls[x] = Idle /\ Goes(x, next) /\ Open(chat) /\ UNCHANGED <<provider, native, lineages, newBackends, noops, run>>
  BY <1>1 DEF AskDelete, Take, Goes
<1>3. next.what = "delete" /\ next.chat = chat /\ next.step = "asked" /\ next.at = 0 /\ next.made = {} /\ next.want = 0
  BY <1>1
<1>4. next # Idle
  BY <1>3 DEF Idle
<1>5. Early(next) /\ PassedOf(next) = {}
  BY <1>3, <1>4 DEF Early, Deletes, PassedOf, Dropped
<1>6. next.want \in 0 .. Len(Stitched(SegmentsOf(chat)))
  <2>1. PICK all : all = Stitched(SegmentsOf(chat))
    OBVIOUS
  <2>2. chat \in DOMAIN provider
    BY <1>2, OpenSeen
  <2>3. all \in Seq(Numbers)
    BY <2>1, <2>2, OwnSegments, StitchedTyped DEF Sound, ListedInv
  <2> QED  BY <1>3, <2>1, <2>3
<1> QED  BY <1>2, <1>3, <1>4, <1>5, <1>6, RequestPromises

\* A request ends, or goes on, and nothing that is seen changes.
LEMMA QuietAnswer ==
  ASSUME ListedInv, run' = run, NEW x \in Busy, NEW next, Goes(x, next), SeenChats' = SeenChats,
         calls[x].what = "switch" => next = Idle \/ next.what = "switch",
         calls[x].what # "switch" => next = Idle \/ (next # Idle /\ next.what # "switch" /\ Request(next) = Request(calls[x]))
  PROVE Promises
<1>1. calls[x] # Idle
  BY DEF Busy
<1>2. CASE calls[x].what = "switch"
  <2>1. SeenAsked' = SeenAsked
    BY <1>2, AskedSame DEF Requesting
  <2> QED  BY <2>1, StuttersAs
<1>3. CASE calls[x].what # "switch"
  <2>1. Requesting(calls[x]) /\ (next = Idle \/ (Requesting(next) /\ Request(next) = Request(calls[x])))
    BY <1>1, <1>3 DEF Requesting
  <2> QED  BY <2>1, AnswersAs
<1> QED  BY <1>2, <1>3

LEMMA RefusePromises == ASSUME Sound, Sound', ShowsInv, ShowsInv', NEW x \in Calls, Refuse(x) PROVE Promises
<1>1. PICK call : call = calls[x]
  OBVIOUS
<1>2. /\ x \in Busy /\ Goes(x, Idle) /\ call.what \in {"fork", "revert"} /\ call.step = "asked" /\ call # Idle
      /\ UNCHANGED <<provider, native, lineages, newBackends, noops, run>>
  BY <1>1, DoingBusy DEF Refuse, Ends, Doing, Goes
<1>3. call.made = {}
  BY <1>1, <1>2, CallLast DEF MadeNew, Sound
<1>4. Early(call) /\ Early(Idle) /\ PassedOf(call) = PassedOf(Idle)
  BY <1>2, <1>3 DEF Early, Deletes, PassedOf, Dropped
<1>5. call.chat \in DOMAIN provider /\ EarlyBut /\ CallsBut(call.chat) /\ KnownSame
  BY <1>1, <1>2, <1>4, GoesQuietly, ChatKnown DEF Sound, ShowsInv
<1>6. SeenChats' = SeenChats
  BY <1>2, <1>5, QuietStep
<1> QED  BY <1>1, <1>2, <1>6, QuietAnswer DEF Sound

\* A request makes a thread, which is nobody's chat yet.
LEMMA MadeQuietly ==
  ASSUME Sound, Sound', ShowsInv, ShowsInv', NEW x \in Busy, NEW next, Goes(x, next), next # Idle, Early(calls[x]), Early(next),
         next.chat = calls[x].chat, NEW t, t \notin DOMAIN provider, NEW p, provider' = Put(provider, t, p),
         NEW all, native' = Put(native, t, all), Backs(t), UNCHANGED <<lineages, noops>>,
         PassedOf(calls[x]) = {}, PassedOf(next) = {t}
  PROVE SeenChats' = SeenChats
<1>1. PICK own : own = calls[x].chat
  OBVIOUS
<1>2. EarlyBut /\ CallsBut(own) /\ own \in DOMAIN provider /\ calls'[x] = next /\ x \in Calls
  BY <1>1, GoesAlone, ChatKnown DEF Sound, ShowsInv
<1>3. Still(own) /\ Elsewhere(t) /\ NoopsGrow
  BY StillNew DEF Sound, NoopsGrow
<1>4. ASSUME NEW c, c # t PROVE (Known(c)' <=> Known(c)) /\ (c \in newBackends' <=> c \in newBackends)
  <2>1. PassesSame(c)
    BY <1>4, GoesAlone DEF Sound
  <2> QED  BY <1>4, <2>1, KnownStays DEF Backs
<1>5. ASSUME NEW c \in Threads, c # t, c # own PROVE Alike(c)
  <2>1. c \in DOMAIN provider' => c \in DOMAIN provider
    BY <1>5 DEF Put
  <2> QED  BY <1>2, <1>3, <1>4, <1>5, <2>1, OtherAlike
<1>6. own # t /\ Alike(own)
  <2>1. own # t
    BY <1>2
  <2>2. StillAs(own)
    <3>1. ~Lists(SegmentsOf(own), t)
      BY <1>2, OwnSegments DEF Sound, ListedInv, Lists
    <3> QED  BY <1>3, <3>1, StillApart
  <2> QED  BY <1>2, <1>3, <1>4, <2>1, <2>2, OwnAlike
<1>7. Alike(t)
  <2>1. ~Visible(t)
    BY UnusedUnseen DEF Sound
  <2>2. ~Known(t)'
    <3>1. t \notin DOMAIN lineages'
      BY DEF Sound, ListedInv, ListsOK
    <3>2. ~KnownTo(t)'
      BY <1>2, <3>1 DEF KnownTo
    <3> QED  BY <3>2, KnownIsThen
  <2>3. ~Visible(t)'
    BY <2>2 DEF Visible
  <2> QED  BY <2>1, <2>3, UnseenAlike
<1> QED  BY <1>5, <1>6, <1>7, SeenSame

LEMMA CreateBackendPromises ==
  ASSUME Sound, Sound', ShowsInv, ShowsInv', NEW x \in Calls, NEW backend \in Threads, CreateBackend(x, backend) PROVE Promises
<1>1. PICK call : call = calls[x]
  OBVIOUS
<1>2. PICK segs : segs = Append(Front(call.segs), Segment(Last(call.segs).thread, LastTurn(x)))
  OBVIOUS
<1>3. PICK next : next = [call EXCEPT !.step = "ready", !.made = {backend}, !.segs = segs]
  OBVIOUS
<1>4. x \in Busy /\ call # Idle /\ call.what = "switch" /\ call.step = "asked" /\ call \in Requests(call.want) /\ call.made = {}
  <2>1. x \in Busy /\ call # Idle /\ call.what = "switch" /\ call.step = "asked"
    BY <1>1, DoingBusy DEF CreateBackend, Doing
  <2> QED  BY <1>1, <2>1, OfCall, CallLast DEF Sound, MadeNew
<1>5. next.what = "switch" /\ next.chat = call.chat /\ next.step = "ready" /\ next.made = {backend}
  BY <1>3, <1>4 DEF Requests
<1>6. next # Idle
  BY <1>5 DEF Idle
<1>7. Goes(x, next)
  BY <1>1, <1>2, <1>3 DEF CreateBackend, Goes
<1>8. /\ backend \notin DOMAIN provider /\ native' = Put(native, backend, << >>) /\ Backs(backend)
      /\ UNCHANGED <<lineages, noops, run>>
  BY DEF CreateBackend, Fresh, Backs
<1>9. PICK p : provider' = Put(provider, backend, p)
  BY DEF CreateBackend
<1>10. Early(call) /\ Early(next) /\ PassedOf(call) = {} /\ PassedOf(next) = {backend}
  BY <1>4, <1>5, <1>6 DEF Early, Deletes, PassedOf, Dropped
<1>11. PICK all : all = << >>
  OBVIOUS
<1>12. SeenChats' = SeenChats
  BY <1>1, <1>4, <1>5, <1>6, <1>7, <1>8, <1>9, <1>10, <1>11, MadeQuietly
<1> QED  BY <1>1, <1>4, <1>5, <1>7, <1>8, <1>12, QuietAnswer DEF Sound

LEMMA CopyThreadPromises ==
  ASSUME Sound, Sound', ShowsInv, ShowsInv', NEW x \in Calls, NEW fork \in Threads, CopyThread(x, fork) PROVE Promises
<1>1. PICK call : call = calls[x]
  OBVIOUS
<1>2. PICK next : next = [call EXCEPT !.step = "ready", !.made = {fork}]
  OBVIOUS
<1>3. x \in Busy /\ call # Idle /\ call.what = "fork" /\ call.step = "asked" /\ call \in Requests(call.want) /\ call.made = {}
  <2>1. x \in Busy /\ call # Idle /\ call.what = "fork" /\ call.step = "asked"
    BY <1>1, DoingBusy DEF CopyThread, Doing
  <2> QED  BY <1>1, <2>1, OfCall, CallLast DEF Sound, MadeNew
<1>4. next.what = "fork" /\ next.chat = call.chat /\ next.step = "ready" /\ next.made = {fork} /\ next.want = call.want
  BY <1>2, <1>3 DEF Requests
<1>5. next # Idle /\ Request(next) = Request(call)
  BY <1>3, <1>4 DEF Idle, Request
<1>6. Goes(x, next)
  BY <1>1, <1>2 DEF CopyThread, Goes
<1>7. fork \notin DOMAIN provider /\ Backs(fork) /\ UNCHANGED <<lineages, noops, run>>
  BY DEF CopyThread, Fresh, Backs
<1>8. PICK p : provider' = Put(provider, fork, p)
  BY DEF CopyThread
<1>9. PICK all : native' = Put(native, fork, all)
  BY DEF CopyThread
<1>10. Early(call) /\ Early(next) /\ PassedOf(call) = {} /\ PassedOf(next) = {fork}
  BY <1>3, <1>4, <1>5 DEF Early, Deletes, PassedOf, Dropped
<1>11. SeenChats' = SeenChats
  BY <1>1, <1>3, <1>4, <1>5, <1>6, <1>7, <1>8, <1>9, <1>10, MadeQuietly
<1> QED  BY <1>1, <1>3, <1>4, <1>5, <1>6, <1>7, <1>11, QuietAnswer DEF Sound

\* What switches made is hidden, whether they go on in it or fail.
MadeHidden == \A x \in Busy : calls[x].what = "switch" => calls[x].made \subseteq newBackends

LEMMA FailSwitchPromises ==
  ASSUME Sound, Sound', ShowsInv, ShowsInv', MadeHidden, "LateFailures" \notin Allow, NEW x \in Calls, FailSwitch(x) PROVE Promises
<1>1. PICK call : call = calls[x]
  OBVIOUS
<1>2. PICK gone : gone = {t \in call.made : provider[t] = "claude"}
  OBVIOUS
<1>3. /\ x \in Busy /\ Goes(x, Idle) /\ call.what = "switch" /\ call.step \in {"asked", "ready"} /\ call # Idle
      /\ UNCHANGED <<provider, lineages, newBackends, turns, noops, cleaned, run>>
  BY <1>1, DoingBusy DEF FailSwitch, Ends, Doing, Goes
<1>4. Loses(gone)
  BY <1>1, <1>2 DEF FailSwitch, Loses, Restrict
<1>5. NoopsGrow /\ \A t : t \notin gone => Same(t)
  BY <1>1, <1>2, <1>3, <1>4, LosesShows
<1>6. PICK own : own = call.chat
  OBVIOUS
<1>7. \A t \in call.made : t \in newBackends /\ t \notin DOMAIN lineages /\ Unlisted(t)
  BY <1>1, <1>3, PassedBy DEF MadeHidden, Sound, ShowsInv
<1>8. ASSUME NEW c, c \notin call.made PROVE Known(c)' <=> Known(c)
  <2>1. c \notin PassedOf(call) /\ c \notin PassedOf(Idle)
    BY <1>3, <1>8 DEF PassedOf, Dropped
  <2>2. PassesSame(c)
    BY <1>1, <1>3, <2>1, GoesAlone DEF Sound
  <2> QED  BY <1>3, <2>2, KnownStays
<1>9. Early(call) /\ Early(Idle)
  BY <1>3 DEF Early, Deletes
<1>10. own \in DOMAIN provider /\ EarlyBut /\ CallsBut(own) /\ own \notin newBackends
  <2>1. own \in DOMAIN provider /\ own \notin newBackends
    BY <1>1, <1>3, <1>6, ChatKnown DEF Sound, ShowsInv, CallsShow, CallShows
  <2> QED  BY <1>1, <1>3, <1>6, <1>9, <2>1, GoesAlone DEF Sound
<1>11. ASSUME NEW c \in DOMAIN provider, Known(c) PROVE \A t \in gone : ~Lists(SegmentsOf(c), t)
  <2>1. ASSUME NEW t \in gone PROVE ~Lists(SegmentsOf(c), t)
    <3>1. t \in Passing(x)
      BY <1>1, <1>2, <1>3, PassingIs
    <3>2. c # t
      BY <1>2, <1>3, <1>7, <1>11, <3>1 DEF Known
    <3> QED  BY <1>2, <1>7, <3>2 DEF Unlisted, SegmentsOf, Segment, Lists
  <2> QED  BY <2>1
<1>12. Still(own)
  BY <1>5, <1>11, StillLess
<1>13. StillAs(own)
  <2>1. Known(own)
    BY <1>1, <1>3, <1>6, ChatKnown DEF Sound, ShowsInv
  <2>2. \A t \in gone : ~Lists(SegmentsOf(own), t)
    BY <1>10, <1>11, <2>1
  <2> QED  BY <1>5, <2>2 DEF StillAs, Lists
<1>14. ASSUME NEW c \in Threads PROVE Alike(c)
  <2>1. CASE c \in call.made
    BY <1>3, <1>7, <2>1, UnseenAlike DEF Visible
  <2>2. CASE c \notin call.made /\ c # own
    BY <1>3, <1>8, <1>10, <1>12, <2>2, OtherAlike
  <2>3. CASE c = own
    BY <1>3, <1>5, <1>7, <1>8, <1>10, <1>13, <2>3, OwnAlike
  <2> QED  BY <2>1, <2>2, <2>3
<1>15. SeenChats' = SeenChats
  BY <1>14, SeenSame
<1> QED  BY <1>1, <1>3, <1>15, QuietAnswer DEF Sound

-----------------------------------------------------------------------------
(* Threads that deletions and rollbacks discard *)

\* A request's chat is shown, unless the request is deleting it.
LEMMA BusySeen ==
  ASSUME Sound, ShowsInv, NEW x \in Busy, NEW call, call = calls[x], ~Deletes(call)
  PROVE Visible(call.chat) /\ Seen(call.chat) /\ call.chat \in Threads /\ call.chat \in DOMAIN provider
<1>1. PICK chat : chat = call.chat
  OBVIOUS
<1>2. Known(chat) /\ chat \in DOMAIN provider /\ chat \notin newBackends /\ Current(chat) \in DOMAIN native
  BY <1>1, ChatKnown DEF Sound, ShowsInv, CallsShow, CallShows
<1>3. chat \in Threads
  BY <1>2 DEF Sound, ListedInv, ThreadsOK
<1>4. Here(chat)
  <2>1. Len(SegmentsOf(chat)) \in DOMAIN SegmentsOf(chat)
    BY <1>2, OwnSegments DEF Sound, ListedInv
  <2> QED  BY <1>2, <2>1 DEF Here, Current, Last
<1>5. ~Deleting(chat)
  BY <1>1, OnlyRequest DEF Sound
<1> QED  BY <1>1, <1>2, <1>3, <1>4, <1>5, SeenIs DEF Visible, AllSeen

LEMMA OthersAlike ==
  ASSUME Sound, Sound', ShowsInv, ShowsInv', NEW own, Still(own), UNCHANGED <<provider, lineages, newBackends>>, CallsBut(own), KnownSame
  PROVE AlikeBut(own)
BY OtherAlike DEF AlikeBut, KnownSame

\* The chat is deleted as soon as it is no more shown.
LEMMA DeletesAs ==
  ASSUME ListedInv, run' = run, NEW x \in Busy, NEW next, Goes(x, next), NEW call, call = calls[x], call.what = "delete",
         next = Idle \/ (next # Idle /\ next.what # "switch" /\ Request(next) = Request(call)),
         call.chat \in Threads, AlikeBut(call.chat), Seen(call.chat), ~Seen(call.chat)'
  PROVE Promises
<1>1. PICK old : old = SeenChats
  OBVIOUS
<1>2. PICK new : new = SeenChats'
  OBVIOUS
<1>3. PICK own : own = call.chat
  OBVIOUS
<1>4. PICK request : request = Request(call)
  OBVIOUS
<1>5. request[1] = "delete" /\ request[2] = own
  BY <1>3, <1>4 DEF Request
<1>6. own \in DOMAIN old /\ new = [c \in DOMAIN old \ {own} |-> old[c]]
  <2>1. own \in Threads /\ AlikeBut(own) /\ Seen(own)
    BY <1>3
  <2>2. ~Seen(own)'
    BY <1>3
  <2>3. own \in DOMAIN old
    BY <1>1, <2>1, SeenChatsIs
  <2>4. new = [c \in DOMAIN old \ {own} |-> old[c]]
    BY <1>1, <1>2, <2>1, <2>2, SeenGone
  <2> QED  BY <2>3, <2>4
<1>7. Promised!Delete(old, new, request)
  BY <1>5, <1>6 DEF Promised!Delete, Promised!Restrict
<1>8. Requesting(call) /\ (next = Idle \/ (Requesting(next) /\ Request(next) = Request(call)))
  BY DEF Busy, Requesting
<1> QED  BY <1>1, <1>2, <1>4, <1>5, <1>6, <1>7, <1>8, AnswersAs

LEMMA DeleteOnlyPromises == ASSUME Sound, Sound', ShowsInv, ShowsInv', NEW x \in Calls, DeleteOnly(x) PROVE Promises
<1>1. PICK call : call = calls[x]
  OBVIOUS
<1>2. PICK own : own = call.chat
  OBVIOUS
<1>3. PICK thread : thread = call.segs[1].thread
  OBVIOUS
<1>4. /\ x \in Busy /\ call.what = "delete" /\ call # Idle /\ Len(call.segs) = 1 /\ Goes(x, Idle)
      /\ native' = Restrict(native, DOMAIN native \ {thread})
      /\ UNCHANGED <<provider, lineages, newBackends, turns, noops, cleaned, run>>
  BY <1>1, <1>3, DoingBusy DEF DeleteOnly, Ends, Doing, Goes
<1>5. /\ call.segs = SegmentsOf(own) /\ own \in DOMAIN provider /\ Len(call.segs) \in Nat /\ DOMAIN call.segs = 1 .. Len(call.segs)
      /\ call.made = {} /\ call.at \in Nat
  BY <1>1, <1>2, <1>4, OfCall, CallLast DEF CallOK, AsTaken, CallTyped, MadeNew, Sound
<1>6. thread = own /\ Lists(call.segs, thread)
  <2>1. PICK segs : segs = call.segs
    OBVIOUS
  <2>2. Lists(segs, own)
    BY <1>5, <2>1, OwnSegments DEF Sound, ListedInv
  <2>3. DOMAIN segs = 1 .. 1 /\ thread = segs[1].thread
    BY <1>3, <1>4, <1>5, <2>1
  <2> QED  BY <2>1, <2>2, <2>3 DEF Lists
<1>7. ~Shared(own, thread)
  BY <1>1, <1>2, <1>4, <1>6 DEF Sound, HoldInv, CallsHold, DeletedAlone
<1>8. PICK gone : gone = {thread}
  OBVIOUS
<1>9. Loses(gone)
  BY <1>4, <1>8 DEF Loses, Restrict
<1>10. NoopsGrow /\ \A t : t \notin gone => Same(t)
  BY <1>1, <1>4, <1>6, <1>8, <1>9, LosesShows
<1>11. Still(own)
  BY <1>5, <1>6, <1>7, <1>8, <1>10, GoneOwn
<1>12. CallsBut(own) /\ KnownSame
  <2>1. PassedOf(call) = {} /\ PassedOf(Idle) = {}
    BY <1>4, <1>5 DEF PassedOf, Dropped
  <2>2. CallsBut(own) /\ \A c : PassesSame(c)
    BY <1>1, <1>2, <1>4, <2>1, GoesAlone DEF Sound
  <2> QED  BY <1>4, <2>2, KnownStays DEF KnownSame
<1>13. AlikeBut(own)
  BY <1>4, <1>11, <1>12, OthersAlike
<1>15. ~Seen(own)'
  <2>1. PICK segs : segs = SegmentsOf(own)
    OBVIOUS
  <2>2. DOMAIN segs = 1 .. 1 /\ thread = segs[1].thread
    BY <1>3, <1>4, <1>5, <2>1
  <2>3. SegmentsOf(own)' = segs
    BY <1>4, <2>1 DEF SegmentsOf
  <2>4. ~Here(own)'
    BY <1>8, <1>9, <2>2, <2>3 DEF Here, Loses
  <2> QED  BY <2>4, SeenIsThen DEF AllSeen, Visible
<1>16. own \in Threads
  BY <1>5 DEF Sound, ListedInv, ThreadsOK
<1>17. CASE Seen(own)
  BY <1>1, <1>2, <1>4, <1>13, <1>15, <1>16, <1>17, DeletesAs DEF Sound
<1>18. CASE ~Seen(own)
  <2>1. \A c \in Threads : Alike(c)
    BY <1>13, <1>15, <1>18 DEF AlikeBut, Alike
  <2> QED  BY <1>1, <1>4, <2>1, SeenSame, QuietAnswer DEF Sound
<1> QED  BY <1>17, <1>18

LEMMA DeleteSegmentPromises == ASSUME Sound, Sound', ShowsInv, ShowsInv', NEW x \in Calls, DeleteSegment(x) PROVE Promises
<1>1. PICK call : call = calls[x]
  OBVIOUS
<1>2. PICK own : own = call.chat
  OBVIOUS
<1>3. PICK at : at = call.at + 1
  OBVIOUS
<1>4. PICK thread : thread = call.segs[at].thread
  OBVIOUS
<1>5. PICK next : next = [call EXCEPT !.at = at]
  OBVIOUS
<1>6. /\ x \in Busy /\ call # Idle /\ call.what = "delete" /\ call.at < Len(call.segs)
      /\ Goes(x, next) /\ UNCHANGED <<provider, lineages, newBackends, turns, noops, cleaned, run>>
      /\ native' = IF Shared(own, thread) THEN native ELSE Restrict(native, DOMAIN native \ {thread})
  BY <1>1, <1>2, <1>3, <1>4, <1>5, DoingBusy DEF DeleteSegment, Doing, Goes
<1>7. /\ call \in Requests(call.want) /\ call.segs = SegmentsOf(own) /\ call.at \in Nat
      /\ DOMAIN call.segs = 1 .. Len(call.segs) /\ Len(call.segs) \in Nat /\ own \in DOMAIN provider /\ call.made = {}
  BY <1>1, <1>2, <1>6, OfCall, CallLast DEF CallOK, AsTaken, CallTyped, MadeNew, Sound
<1>8. at \in DOMAIN call.segs /\ at \in Nat /\ Lists(call.segs, thread)
  BY <1>3, <1>4, <1>6, <1>7 DEF Lists
<1>9. PICK gone : gone = IF Shared(own, thread) THEN {} ELSE {thread}
  OBVIOUS
<1>10. Loses(gone)
  BY <1>6, <1>9 DEF Loses, Restrict
<1>11. NoopsGrow /\ \A t : t \notin gone => Same(t)
  BY <1>1, <1>6, <1>8, <1>9, <1>10, LosesShows
<1>12. Still(own)
  <2>1. CASE Shared(own, thread)
    BY <1>6, <1>11, <2>1, StillSame
  <2>2. CASE ~Shared(own, thread)
    BY <1>7, <1>8, <1>9, <1>11, <2>2, GoneOwn
  <2> QED  BY <2>1, <2>2
<1>13. next.what = "delete" /\ next.segs = call.segs /\ next.at = at /\ next.chat = own /\ next.made = {} /\ next.want = call.want /\ next # Idle
  <2>1. /\ next.what = "delete" /\ next.segs = call.segs /\ next.at = at /\ next.chat = own /\ next.step = call.step
        /\ next.made = {} /\ next.want = call.want
    BY <1>2, <1>5, <1>6, <1>7 DEF Requests
  <2> QED  BY <1>7, <2>1 DEF Requests, Idle
<1>14. CallsBut(own) /\ KnownSame
  <2>1. PassedOf(call) = {} /\ PassedOf(next) = {}
    BY <1>6, <1>7, <1>13 DEF PassedOf, Dropped
  <2>2. CallsBut(own) /\ \A c : PassesSame(c)
    BY <1>1, <1>2, <1>6, <1>13, <2>1, GoesAlone DEF Sound
  <2> QED  BY <1>6, <2>2, KnownStays DEF KnownSame
<1>15. AlikeBut(own)
  BY <1>6, <1>12, <1>14, OthersAlike
<1>16. ~Seen(own)'
  <2>1. Deletes(next) /\ calls'[x] = next
    BY <1>3, <1>6, <1>7, <1>13, GoesAlone DEF Deletes, Sound
  <2>2. Deleting(own)'
    BY <1>13, <2>1 DEF Deleting
  <2> QED  BY <2>2, SeenIsThen DEF AllSeen, Visible
<1>17. own \in Threads
  BY <1>7 DEF Sound, ListedInv, ThreadsOK
<1>18. Request(next) = Request(call)
  BY <1>2, <1>6, <1>13 DEF Request
<1>19. CASE Seen(own)
  BY <1>1, <1>2, <1>6, <1>13, <1>15, <1>16, <1>17, <1>18, <1>19, DeletesAs DEF Sound
<1>20. CASE ~Seen(own)
  <2>1. \A c \in Threads : Alike(c)
    BY <1>15, <1>16, <1>20 DEF AlikeBut, Alike
  <2> QED  BY <1>1, <1>6, <1>13, <1>18, <2>1, SeenSame, QuietAnswer DEF Sound
<1> QED  BY <1>19, <1>20

LEMMA DiscardPromises == ASSUME Sound, Sound', ShowsInv, ShowsInv', NEW x \in Calls, Discard(x) PROVE Promises
<1>1. PICK call : call = calls[x]
  OBVIOUS
<1>2. PICK at : at = call.at + 1
  OBVIOUS
<1>3. PICK next : next = IF at = Len(call.segs) THEN Idle ELSE Discarding(call, at)
  OBVIOUS
<1>4. PICK thread : thread = call.segs[at].thread
  OBVIOUS
<1>5. PICK own : own = call.chat
  OBVIOUS
<1>6. /\ x \in Busy /\ call # Idle /\ call.what = "revert" /\ call.step = "set" /\ Goes(x, next)
      /\ UNCHANGED <<provider, lineages, newBackends, turns, noops, cleaned, run>>
  BY <1>1, <1>2, <1>3, DoingBusy DEF Discard, Doing, GoesOn, Ends, Discarding, Goes
<1>7. /\ call \in Requests(call.want) /\ Len(call.segs) \in Nat /\ call.at \in Nat /\ call.at < Len(call.segs)
      /\ DOMAIN call.segs = 1 .. Len(call.segs) /\ call.made = {}
  BY <1>1, <1>6, OfCall, CallLast DEF CallOK, AsTaken, Sound, MadeNew
<1>8. thread \in Dropped(call) /\ Lists(call.segs, thread)
  BY <1>2, <1>4, <1>6, <1>7 DEF Dropped, Lists
<1>9. thread \notin DOMAIN lineages /\ thread # own /\ own \notin newBackends
  BY <1>1, <1>5, <1>6, <1>8 DEF ShowsInv, CallsShow, CallShows, RevertShows
<1>10. PICK gone : gone = IF Unlisted(thread) THEN {thread} ELSE {}
  OBVIOUS
<1>11. Loses(gone)
  BY <1>1, <1>2, <1>4, <1>10 DEF Discard, Unlisted, Loses, Restrict
<1>12. NoopsGrow /\ \A t : t \notin gone => Same(t)
  BY <1>1, <1>6, <1>8, <1>10, <1>11, LosesShows
<1>13. thread \in Passing(x)
  BY <1>1, <1>6, <1>8, PassingIs
<1>14. ASSUME NEW c \in DOMAIN provider, Known(c) \/ c = own PROVE \A t \in gone : ~Lists(SegmentsOf(c), t)
  BY <1>6, <1>9, <1>10, <1>13, <1>14 DEF Known, Unlisted, SegmentsOf, Segment, Lists
<1>15. Still(own)
  BY <1>12, <1>14, StillLess
<1>16. own \in DOMAIN provider /\ Early(call)
  BY <1>1, <1>5, <1>6, ChatKnown DEF Sound, ShowsInv, Early, Deletes
<1>17. StillAs(own)
  <2>1. \A t \in gone : ~Lists(SegmentsOf(own), t)
    BY <1>14, <1>16
  <2> QED  BY <1>12, <2>1 DEF StillAs, Lists
<1>18. next = Idle \/ (/\ next.what = "revert" /\ next.step = "set" /\ next.segs = call.segs /\ next.at = at /\ next.chat = own
                       /\ next.made = {} /\ next.want = call.want /\ next # Idle)
  <2>1. CASE at = Len(call.segs)
    BY <1>3, <2>1
  <2>2. CASE at # Len(call.segs)
    <3>1. /\ next.what = "revert" /\ next.step = "set" /\ next.segs = call.segs /\ next.at = at /\ next.chat = own
          /\ next.made = {} /\ next.want = call.want
      BY <1>3, <1>5, <1>6, <1>7, <2>2 DEF Discarding, Requests
    <3> QED  BY <3>1 DEF Idle
  <2> QED  BY <2>1, <2>2
<1>19. Early(next)
  BY <1>18 DEF Early, Deletes
<1>20. EarlyBut /\ CallsBut(own)
  BY <1>1, <1>5, <1>6, <1>16, <1>18, <1>19, GoesAlone DEF Sound
<1>21. ASSUME NEW c, c # thread PROVE Known(c)' <=> Known(c)
  <2>1. PassedOf(call) = Dropped(call)
    BY <1>6, <1>7 DEF PassedOf
  <2>2. c \in Dropped(call) <=> \E i \in call.at + 1 .. Len(call.segs) : call.segs[i].thread = c
    BY <1>6 DEF Dropped
  <2>3. c \in PassedOf(next) <=> c \in PassedOf(call)
    <3>1. CASE at = Len(call.segs)
      <4>1. call.at + 1 .. Len(call.segs) = {at}
        BY <1>2, <1>7, <3>1
      <4>2. PassedOf(next) = {}
        BY <1>3, <3>1 DEF PassedOf
      <4> QED  BY <1>4, <1>21, <2>1, <2>2, <4>1, <4>2
    <3>2. CASE at # Len(call.segs)
      <4>1. next # Idle
        BY <1>3, <1>18, <3>2 DEF Discarding, Idle
      <4>2. PassedOf(next) = {call.segs[i].thread : i \in at + 1 .. Len(call.segs)}
        BY <1>18, <4>1 DEF PassedOf, Dropped
      <4>3. call.at + 1 .. Len(call.segs) = (at + 1 .. Len(call.segs)) \cup {at}
        BY <1>2, <1>7
      <4> QED  BY <1>4, <1>21, <2>1, <2>2, <4>2, <4>3
    <3> QED  BY <3>1, <3>2
  <2>4. PassesSame(c)
    BY <1>1, <1>6, <2>3, GoesAlone DEF Sound
  <2> QED  BY <1>6, <2>4, KnownStays
<1>22. Alike(thread)
  <2>1. ~Visible(thread)
    BY <1>6, <1>9, <1>13 DEF Visible, Known
  <2>2. ~Visible(thread)'
    <3>1. CASE Unlisted(thread)
      <4>1. SegmentsOf(thread)' = <<Segment(thread, None)>> /\ thread \notin DOMAIN native'
        BY <1>6, <1>9, <1>10, <1>11, <3>1 DEF SegmentsOf, Loses
      <4>2. ~Here(thread)'
        BY <4>1 DEF Here, Segment
      <4> QED  BY <4>2 DEF Visible
    <3>2. CASE ~Unlisted(thread)
      BY <1>6, <1>9, <3>2 DEF Visible, Known, Unlisted
    <3> QED  BY <3>1, <3>2
  <2> QED  BY <2>1, <2>2, UnseenAlike
<1>23. ASSUME NEW c \in Threads PROVE Alike(c)
  <2>1. CASE c # thread /\ c # own
    BY <1>6, <1>15, <1>20, <1>21, <2>1, OtherAlike
  <2>2. CASE c = own
    BY <1>6, <1>9, <1>12, <1>16, <1>17, <1>20, <1>21, <2>2, OwnAlike
  <2> QED  BY <1>22, <2>1, <2>2
<1>24. SeenChats' = SeenChats
  BY <1>23, SeenSame
<1>25. next = Idle \/ (next # Idle /\ next.what # "switch" /\ Request(next) = Request(call))
  BY <1>5, <1>6, <1>18 DEF Request
<1> QED  BY <1>1, <1>6, <1>24, <1>25, QuietAnswer DEF Sound

\* Chats half rolled back show what they keep.
AllRolled == \A x \in Calls : Doing(x, "revert", "ready") => SeenSegments(calls[x].chat) = Kept(x)
LEMMA RolledAre == ListedInv => AllRolled
BY SeenRolled DEF AllRolled
LEMMA RolledThen == ListedInv' => AllRolled'
BY RolledAre, PTL

\* A list that goes on from the first segments of another with what that one's next says first.
GoesOnFrom(kept, segs, at, last) == kept = Append(SubSeq(segs, 1, at - 1), last)
LEMMA FirstShown ==
  ASSUME ThreadsOK, ThreadsOK', NEW segs \in Seq(Segments), NEW at \in 1 .. Len(segs), NEW n, n \in 0 .. Len(Cut(segs[at])),
         NEW last \in Segments, Part(last)' = Said(SubSeq(Cut(segs[at]), 1, n)),
         \A i \in 1 .. at - 1 : Part(segs[i])' = Part(segs[i]), NEW kept, GoesOnFrom(kept, segs, at, last)
  PROVE Stitched(kept)' = SubSeq(Stitched(segs), 1, SaidUpTo(segs, at, n))
<1>1. PICK cut : cut = Cut(segs[at])
  OBVIOUS
<1>2. PICK said : said = Said(SubSeq(cut, 1, n))
  OBVIOUS
<1>3. PICK front : front = SubSeq(segs, 1, at - 1)
  OBVIOUS
<1>4. kept = Append(front, last)
  BY <1>3 DEF GoesOnFrom
<1>5. front \in Seq(Segments) /\ Len(front) = at - 1 /\ \A i \in 1 .. at - 1 : front[i] = segs[i]
  BY <1>3
<1>6. PICK older : older = Stitched(front)
  OBVIOUS
<1>7. WantsTo(segs, at, n, older, said)
  <2>1. n \in 0 .. Len(cut) /\ older = Stitched(SubSeq(segs, 1, at - 1))
    BY <1>1, <1>3, <1>6
  <2> QED  BY <1>1, <1>2, <2>1, WantIs
<1>8. Stitched(front)' = older
  <2>1. \A i \in 1 .. Len(front) : Part(front[i])' = Part(front[i])
    BY <1>5
  <2> QED  BY <1>5, <1>6, <2>1, StitchedStays
<1>9. Stitched(kept)' = older \o said
  <2>1. Stitched(Append(front, last))' = Stitched(front)' \o Part(last)'
    BY <1>5, StitchedOn
  <2>2. Part(last)' = said
    BY <1>1, <1>2
  <2> QED  BY <1>4, <1>8, <2>1, <2>2
<1> QED  BY <1>7, <1>9 DEF WantsTo, SecondIn

\* The chat is rolled back as soon as it is shown so.
LEMMA RollsBackAs ==
  ASSUME ListedInv, run' = run, NEW x \in Busy, NEW next, Goes(x, next), NEW call, call = calls[x], call.what = "revert",
         next = Idle \/ (next # Idle /\ next.what # "switch" /\ Request(next) = Request(call)),
         NEW own \in Threads, own = call.chat, AlikeBut(own), Seen(own), Seen(own)', Shown(own)' = SubSeq(Shown(own), 1, call.want)
  PROVE Promises
<1>1. PICK old : old = SeenChats
  OBVIOUS
<1>2. PICK new : new = SeenChats'
  OBVIOUS
<1>3. PICK request : request = Request(call)
  OBVIOUS
<1>4. request[1] = "revert" /\ request[2] = own /\ request[3] = call.want
  BY <1>3 DEF Request
<1>5. own \in DOMAIN old /\ old[own] = Shown(own)
  BY <1>1, SeenChatsIs
<1>6. new = [old EXCEPT ![own] = SubSeq(old[own], 1, call.want)]
  <2>1. new = [old EXCEPT ![own] = Shown(own)']
    BY <1>1, <1>2, SeenSet
  <2> QED  BY <1>5, <2>1
<1>7. Promised!RollBack(old, new, request)
  BY <1>4, <1>6 DEF Promised!RollBack
<1>8. Requesting(call) /\ (next = Idle \/ (Requesting(next) /\ Request(next) = Request(call)))
  BY DEF Busy, Requesting
<1> QED  BY <1>1, <1>2, <1>3, <1>4, <1>5, <1>7, <1>8, AnswersAs

LEMMA RevertThreadPromises == ASSUME Sound, Sound', ShowsInv, ShowsInv', NEW x \in Calls, RevertThread(x) PROVE Promises
<1>1. PICK call : call = calls[x]
  OBVIOUS
<1>2. PICK next : next = [call EXCEPT !.step = "ready"]
  OBVIOUS
<1>3. PICK thread : thread = call.segs[call.at].thread
  OBVIOUS
<1>4. PICK own : own = call.chat
  OBVIOUS
<1>5. /\ Goes(x, next) /\ x \in Busy /\ call # Idle /\ call.what = "revert" /\ call.step = "asked"
      /\ UNCHANGED <<provider, lineages, newBackends, turns, noops, cleaned, run>>
      /\ thread \in DOMAIN native /\ native' = [native EXCEPT ![thread] = SubSeq(@, 1, call.count)]
  BY <1>1, <1>2, <1>3, DoingBusy DEF RevertThread, Doing, Goes
<1>6. /\ call \in Requests(call.want) /\ call.segs = SegmentsOf(own) /\ call.at \in DOMAIN call.segs
      /\ ~Shared(own, thread) /\ call.count \in Nat /\ call.made = {}
  BY <1>1, <1>3, <1>4, <1>5, OfCall, CallLast DEF CallOK, AsTaken, RolledAlone, RollsBack, Sound, MadeNew, RevertThread
<1>7. /\ next.what = "revert" /\ next.step = "ready" /\ next.chat = own /\ next.at = call.at /\ next.segs = call.segs
      /\ next.made = {} /\ next.want = call.want /\ next # Idle
  <2>1. /\ next.what = "revert" /\ next.step = "ready" /\ next.chat = own /\ next.at = call.at /\ next.segs = call.segs
        /\ next.made = {} /\ next.want = call.want
    BY <1>2, <1>4, <1>5, <1>6 DEF Requests
  <2> QED  BY <2>1 DEF Idle
<1>8. DOMAIN native' = DOMAIN native /\ NoopsGrow /\ \A t : t # thread => Same(t)
  BY <1>5 DEF NoopsGrow, Same
<1>9. Still(own)
  <2>1. Lists(SegmentsOf(own), thread)
    BY <1>3, <1>6 DEF Lists
  <2> QED  BY <1>6, <1>8, <2>1, GoneOwn
<1>10. ~Deletes(call) /\ ~Deletes(next)
  BY <1>5, <1>7 DEF Deletes
<1>11. Visible(own) /\ Seen(own) /\ own \in Threads /\ own \in DOMAIN provider
  BY <1>1, <1>4, <1>5, <1>10, BusySeen
<1>12. CallsBut(own) /\ KnownSame /\ calls'[x] = next
  <2>1. PassedOf(call) = {} /\ PassedOf(next) = {}
    BY <1>5, <1>6, <1>7 DEF PassedOf, Dropped
  <2>2. CallsBut(own) /\ (\A c : PassesSame(c)) /\ calls'[x] = next
    BY <1>1, <1>4, <1>5, <1>7, <2>1, GoesAlone DEF Sound
  <2> QED  BY <1>5, <2>2, KnownStays DEF KnownSame
<1>13. AlikeBut(own)
  BY <1>5, <1>9, <1>12, OthersAlike
<1>14. Seen(own)'
  <2>1. SegmentsOf(own)' = SegmentsOf(own)
    BY <1>5 DEF SegmentsOf
  <2>2. Here(own)'
    BY <1>8, <1>11, <2>1 DEF Visible, Here
  <2>3. ~Deleting(own)'
    <3>1. \A y \in Calls : y # x => calls'[y] = calls[y]
      BY <1>5, GoesAlone DEF Sound
    <3> QED  BY <1>10, <1>11, <1>12, <3>1 DEF Visible, Deleting
  <2>4. Visible(own)'
    BY <1>5, <1>11, <1>12, <2>2, <2>3 DEF Visible, KnownSame
  <2> QED  BY <2>4, SeenIsThen DEF AllSeen
<1>15. PICK segs : segs = call.segs
  OBVIOUS
<1>16. segs \in Seq(Segments) /\ DOMAIN segs = 1 .. Len(segs) /\ call.at \in 1 .. Len(segs)
  BY <1>1, <1>5, <1>6, <1>15, CallLast DEF Sound
<1>17. Shown(own) = Stitched(segs)
  <2>1. \A y \in Calls : ~RollsOn(calls[y], own)
    <3>1. \A y \in Busy \ {x} : calls[y].chat # own
      BY <1>1, <1>4, <1>5, RequestApart DEF Sound
    <3> QED  BY <1>1, <1>5, <3>1 DEF RollsOn, Busy
  <2> QED  BY <1>6, <1>15, <2>1, PlainAre DEF AllPlain, Shown
<1>18. PICK last : last = Segment(thread, None)
  OBVIOUS
<1>19. PICK kept : kept = Append(SubSeq(segs, 1, call.at - 1), last)
  OBVIOUS
<1>20. Shown(own)' = Stitched(kept)'
  <2>1. SeenSegments(own)' = Kept(x)'
    <3>1. AllRolled'
      BY RolledThen DEF Sound
    <3>2. Doing(x, "revert", "ready")' /\ calls'[x].chat = own
      BY <1>7, <1>12 DEF Doing
    <3>3. calls'[x].chat = own => SeenSegments(own)' = Kept(x)'
      <4>1. PICK y : y = x
        OBVIOUS
      <4> QED  BY <3>1, <3>2 DEF AllRolled
    <3> QED  BY <3>2, <3>3
  <2>2. Kept(x)' = kept
    BY <1>3, <1>7, <1>12, <1>15, <1>18, <1>19 DEF Kept
  <2> QED  BY <2>1, <2>2 DEF Shown
<1>21. PICK all : all = native[thread]
  OBVIOUS
<1>22. PICK segment : segment = segs[call.at]
  OBVIOUS
<1>23. Asked(call)
  BY <1>1, <1>5 DEF ShowsInv, CallsShow, CallShows, RevertShows
<1>24. PICK cut : cut = Cut(segment)
  OBVIOUS
<1>25. PICK count : count = call.count
  OBVIOUS
<1>26. SubSeq(cut, 1, count) = SubSeq(all, 1, count) /\ count \in 0 .. Len(cut)
  <2>1. count \in Nat /\ count <= Len(Cut(segment)) /\ segment.thread = thread
    BY <1>3, <1>6, <1>15, <1>22, <1>23, <1>25 DEF Asked
  <2>2. Len(cut) \in Nat
    BY <1>24, CutShorter DEF Sound, ListedInv
  <2>3. SubSeq(Cut(segment), 1, count) = SubSeq(all, 1, count)
    BY <1>5, <1>21, <2>1, FirstsOfCut DEF Sound, ListedInv
  <2> QED  BY <1>24, <2>1, <2>2, <2>3
<1>27. PICK said : said = Said(SubSeq(cut, 1, count))
  OBVIOUS
<1>28. Part(last)' = said
  <2>1. PICK first : first = SubSeq(all, 1, count)
    OBVIOUS
  <2>2. thread \in DOMAIN native' /\ native'[thread] = first
    BY <1>5, <1>21, <1>25, <2>1
  <2>3. Part(last)' = Without(first, noops')
    BY <1>18, <2>2, LastWhole DEF Sound, ListedInv
  <2> QED  BY <1>5, <1>26, <1>27, <2>1, <2>3 DEF Said
<1>29. last \in Segments
  <2>1. segs[call.at] \in Segments /\ segs[call.at].thread = thread
    BY <1>3, <1>15, <1>16
  <2> QED  BY <1>18, <2>1 DEF Segment, Segments
<1>30. \A i \in 1 .. call.at - 1 : Part(segs[i])' = Part(segs[i])
  <2>1. ASSUME NEW i \in 1 .. call.at - 1 PROVE Part(segs[i])' = Part(segs[i])
    <3>1. i \in DOMAIN segs /\ call.at \in DOMAIN segs /\ i # call.at
      BY <1>16, <2>1
    <3>2. Len(segs) \in Nat
      BY <1>16
    <3>3. own \in DOMAIN lineages
      <4>1. CASE own \notin DOMAIN lineages
        <5>1. segs = <<Segment(own, None)>>
          BY <1>6, <1>15, <4>1 DEF SegmentsOf
        <5> QED  BY <3>1, <5>1
      <4> QED  BY <4>1
    <3>4. Distinct(segs)
      BY <1>6, <1>15, <3>3 DEF SegmentsOf, Sound, HoldInv, SegmentsCount
    <3>5. segs[i].thread # thread
      BY <1>3, <1>15, <3>1, <3>4 DEF Distinct
    <3> QED  BY <1>8, <3>5, SameFrozen DEF Frozen, Sound, ListedInv
  <2> QED  BY <2>1
<1>31. PICK at : at = call.at
  OBVIOUS
<1>32. Stitched(kept)' = SubSeq(Stitched(segs), 1, SaidUpTo(segs, at, count))
  <2>1. at \in 1 .. Len(segs) /\ GoesOnFrom(kept, segs, at, last)
    BY <1>16, <1>19, <1>31 DEF GoesOnFrom
  <2>2. \A i \in 1 .. at - 1 : Part(segs[i])' = Part(segs[i])
    BY <1>30, <1>31
  <2>3. count \in 0 .. Len(Cut(segs[at])) /\ Part(last)' = Said(SubSeq(Cut(segs[at]), 1, count))
    BY <1>22, <1>24, <1>26, <1>27, <1>28, <1>31
  <2>4. ThreadsOK /\ ThreadsOK' /\ segs \in Seq(Segments)
    BY <1>16 DEF Sound, ListedInv
  <2> QED  BY <1>29, <2>1, <2>2, <2>3, <2>4, FirstShown
<1>33. Shown(own)' = SubSeq(Shown(own), 1, call.want)
  BY <1>15, <1>17, <1>20, <1>23, <1>25, <1>31, <1>32 DEF Asked
<1>34. Request(next) = Request(call)
  BY <1>4, <1>5, <1>7 DEF Request
<1> QED  BY <1>1, <1>4, <1>5, <1>7, <1>11, <1>13, <1>14, <1>33, <1>34, RollsBackAs DEF Sound

-----------------------------------------------------------------------------
(* A chat is listed anew *)

\* A chat whose lineage and requests stay, or no request that shows.
LEMMA RelistedAlike ==
  ASSUME Sound, Sound', ShowsInv, ShowsInv', UNCHANGED <<provider, native, newBackends, noops>>,
         NEW key, OnlyAt(key), NEW own, CallsBut(own), NEW c, c # key, c # own \/ EarlyBut, Known(c)' <=> Known(c)
  PROVE Alike(c)
<1>1. CASE c \notin DOMAIN provider
  BY <1>1, UnusedUnseen, UnusedUnseenThen, UnseenAlike DEF Sound
<1>2. CASE c \in DOMAIN provider
  <2>1. \A y \in Calls : calls'[y] = calls[y] \/ (~RollsOn(calls[y], c) /\ ~RollsOn(calls'[y], c))
    <3>1. CASE c # own
      BY <3>1 DEF RollsOn, CallsBut
    <3>2. CASE EarlyBut
      BY <3>2 DEF RollsOn, EarlyBut, Early
    <3> QED  BY <3>1, <3>2
  <2>2. Deleting(c)' <=> Deleting(c)
    <3>1. CASE c # own
      BY <3>1 DEF Deleting, Deletes, CallsBut
    <3>2. CASE EarlyBut
      BY <3>2 DEF Deleting, EarlyBut, Early
    <3> QED  BY <3>1, <3>2
  <2>3. SegmentsOf(c)' = SegmentsOf(c)
    BY DEF OnlyAt, SegmentsOf
  <2>4. NoopsGrow /\ StillAs(c)
    BY DEF NoopsGrow, StillAs, Same
  <2> QED  BY <1>2, <2>1, <2>2, <2>3, <2>4, QuietAlike
<1> QED  BY <1>1, <1>2

\* Who lists other threads than the step's.
ListedAlike(c) == Unlisted(c)' <=> Unlisted(c)
LEMMA KnownAlike ==
  ASSUME NEW key, OnlyAt(key), NEW c, c # key, ListedAlike(c), PassesSame(c) PROVE Known(c)' <=> Known(c)
<1>1. KnownTo(c)' <=> KnownTo(c)
  BY DEF KnownTo, PassesSame, OnlyAt, ListedAlike
<1> QED  BY <1>1, KnownIs, KnownIsThen
LEMMA ListedSame ==
  ASSUME NEW key, OnlyAt(key), NEW c,
         (key \in DOMAIN lineages /\ Lists(lineages[key], c)) <=> (key \in DOMAIN lineages' /\ Lists(lineages'[key], c))
  PROVE ListedAlike(c)
BY DEF OnlyAt, Unlisted, Lists, ListedAlike

LEMMA StitchedNothing ==
  ASSUME NEW s \in Seq(Numbers) PROVE s \o << >> = s
OBVIOUS

\* A switched chat shows what it showed: its new thread has no turns yet.
LEMMA SwitchedShown ==
  ASSUME ThreadsOK, ThreadsOK', UNCHANGED <<native, noops>>, NEW own \in Seq(Segments), NEW segs \in Seq(Segments),
         NEW len \in Nat \ {0}, len = Len(own), len = Len(segs), \A i \in 1 .. len - 1 : segs[i] = own[i],
         segs[len].thread = own[len].thread, own[len].last = None, Whole(segs[len]),
         NEW b \in DOMAIN native, native[b] = << >>, NEW last \in Segments, last = Segment(b, None),
         NEW list, list = Append(segs, last)
  PROVE Stitched(list)' = Stitched(own)
<1>1. \A i \in 1 .. len : Part(own[i])' = Part(own[i])
  <2>1. ASSUME NEW i \in 1 .. len PROVE Part(own[i])' = Part(own[i])
    <3>1. Frozen(own[i])
      BY SameFrozen DEF NoopsGrow, Same
    <3> QED  BY <3>1 DEF Frozen
  <2> QED  BY <2>1
<1>2. \A i \in 1 .. len : Part(segs[i]) = Part(own[i]) /\ Part(segs[i])' = Part(segs[i])
  <2>1. ASSUME NEW i \in 1 .. len PROVE Part(segs[i]) = Part(own[i])
    <3>1. CASE i = len
      <4>1. own[len] \in Segments
        <5>1. len \in 1 .. Len(own)
          OBVIOUS
        <5> QED  BY <5>1, ElementOfSeq
      <4>2. own[len] = Segment(own[len].thread, None)
        BY <4>1 DEF Segments, Segment
      <4> QED  BY <3>1, <4>2 DEF Whole
    <3>2. CASE i # len
      BY <3>2
    <3> QED  BY <3>1, <3>2
  <2>2. ASSUME NEW i \in 1 .. len PROVE Part(segs[i])' = Part(segs[i])
    <3>1. Frozen(segs[i])
      BY SameFrozen DEF NoopsGrow, Same
    <3> QED  BY <3>1 DEF Frozen
  <2> QED  BY <2>1, <2>2
<1>3. \A i \in 1 .. Len(own) : Part(segs[i])' = Part(own[i])
  BY <1>2
<1>4. Stitched(segs)' = Stitched(own)
  BY <1>3, StitchedStays
<1>5. Part(last)' = << >>
  <2>1. Part(last)' = Without(<< >>, noops')
    BY LastWhole
  <2> QED  BY <2>1, WithoutNone
<1>6. Stitched(list)' = Stitched(segs)' \o Part(last)'
  BY StitchedOn
<1> QED  BY <1>4, <1>5, <1>6, StitchedTyped, StitchedNothing

LEMMA SetLineagePromises == ASSUME Sound, Sound', ShowsInv, ShowsInv', NEW x \in Calls, SetLineage(x) PROVE Promises
<1>1. PICK call : call = calls[x]
  OBVIOUS
<1>2. PICK chat : chat = call.chat
  OBVIOUS
<1>3. PICK own : own = SegmentsOf(chat)
  OBVIOUS
<1>4. PICK next : next = [call EXCEPT !.step = "set"]
  OBVIOUS
<1>5. /\ x \in Busy /\ call # Idle /\ call.what = "switch" /\ call.step = "ready" /\ Goes(x, next)
      /\ UNCHANGED <<provider, native, newBackends, turns, noops, cleaned, run>>
  BY <1>1, <1>4, DoingBusy DEF SetLineage, Doing, Goes
<1>6. /\ CallOK(call) /\ CallShows(call) /\ call \in Requests(call.want)
      /\ own \in Seq(Segments) /\ Len(own) \in Nat \ {0} /\ DOMAIN own = 1 .. Len(own)
      /\ call.segs \in Seq(Segments) /\ SameButLast(call.segs, own) /\ MadeNew(call)
  BY <1>1, <1>2, <1>3, <1>5, OfCall, CallLast DEF Sound, ShowsInv, CallsShow, AsTaken
<1>7. PICK b : Makes(call, b) /\ native[b] = << >>
  BY <1>5, <1>6 DEF CallShows, SwitchShows
<1>8. PICK segs : segs = call.segs
  OBVIOUS
<1>9. PICK len : len = Len(segs)
  OBVIOUS
<1>10. /\ len \in Nat \ {0} /\ len = Len(own) /\ segs \in Seq(Segments) /\ Whole(segs[len])
       /\ segs[len].thread = own[len].thread /\ \A i \in 1 .. len - 1 : segs[i] = own[i]
  BY <1>5, <1>6, <1>8, <1>9 DEF SameButLast, CallShows, SwitchShows
<1>11. PICK last : last = Segment(b, None)
  OBVIOUS
<1>12. PICK list : list = Append(segs, last)
  OBVIOUS
<1>13. b \in DOMAIN native /\ b # chat /\ b \notin DOMAIN lineages /\ Unlisted(b) /\ call.made = {b} /\ last \in Segments
  <2>1. b \in DOMAIN native /\ call.made = {b}
    BY <1>7 DEF Makes
  <2>2. b # chat /\ b \notin DOMAIN lineages /\ Unlisted(b)
    BY <1>2, <1>5, <1>6, <2>1 DEF MadeNew
  <2>3. b \in Threads
    BY <2>1 DEF Sound, ListedInv, ThreadsOK
  <2> QED  BY <1>11, <2>1, <2>2, <2>3 DEF Segment, Segments
<1>14. lineages' = Put(lineages, chat, list)
  BY <1>1, <1>2, <1>8, <1>11, <1>12, <1>13 DEF SetLineage
<1>15. OnlyAt(chat) /\ chat \in DOMAIN lineages' /\ lineages'[chat] = list
  BY <1>14, PutAt
<1>16. /\ next.what = "switch" /\ next.step = "set" /\ next.chat = chat /\ next.made = {b} /\ next # Idle
  BY <1>2, <1>4, <1>5, <1>6, <1>13 DEF Requests, Idle
<1>17. Early(call) /\ Early(next) /\ PassedOf(call) = {b} /\ PassedOf(next) = {b}
  BY <1>5, <1>13, <1>16 DEF Early, Deletes, PassedOf, Dropped
<1>18. CallsBut(chat) /\ EarlyBut /\ (\A c : PassesSame(c)) /\ calls'[x] = next /\ \A y \in Calls : y # x => calls'[y] = calls[y]
  BY <1>1, <1>2, <1>5, <1>16, <1>17, GoesAlone DEF Sound
<1>19. ~Deletes(call) /\ Visible(chat) /\ Seen(chat) /\ chat \in Threads /\ chat \in DOMAIN provider /\ Known(chat)
  <2>1. ~Deletes(call)
    BY <1>5 DEF Deletes
  <2> QED  BY <1>1, <1>2, <1>5, <2>1, BusySeen DEF Visible
<1>20. \A t : Lists(list, t) <=> Lists(own, t) \/ t = b
  <2>1. /\ DOMAIN list = 1 .. len + 1 /\ list[len + 1].thread = b
        /\ \A i \in 1 .. len : list[i] = segs[i] /\ segs[i].thread = own[i].thread
    <3>1. DOMAIN list = 1 .. len + 1 /\ list[len + 1] = last /\ \A i \in 1 .. len : list[i] = segs[i]
      <4>1. list \in Seq(Segments) /\ Len(list) = len + 1 /\ list[len + 1] = last /\ \A i \in 1 .. Len(segs) : list[i] = segs[i]
        <5>1. segs \in Seq(Segments) /\ last \in Segments
          BY <1>10, <1>13
        <5>2. /\ Append(segs, last) \in Seq(Segments) /\ Len(Append(segs, last)) = Len(segs) + 1
              /\ \A i \in 1 .. Len(segs) : Append(segs, last)[i] = segs[i]
              /\ Append(segs, last)[Len(segs) + 1] = last
          BY <5>1, AppendProperties
        <5> QED  BY <1>9, <1>12, <5>2
      <4>2. DOMAIN list = 1 .. Len(list)
        BY <4>1
      <4> QED  BY <1>9, <4>1, <4>2
    <3>2. ASSUME NEW i \in 1 .. len PROVE segs[i].thread = own[i].thread
      <4>1. CASE i = len
        BY <1>10, <4>1
      <4>2. CASE i # len
        BY <1>10, <4>2
      <4> QED  BY <4>1, <4>2
    <3> QED  BY <1>11, <3>1, <3>2 DEF Segment
  <2>2. DOMAIN own = 1 .. len /\ len + 1 \in 1 .. len + 1 /\ \A i \in 1 .. len + 1 : i = len + 1 \/ i \in 1 .. len
    BY <1>6, <1>10
  <2>3. \A i \in 1 .. len : i \in 1 .. len + 1
    BY <1>10
  <2> QED  BY <2>1, <2>2, <2>3 DEF Lists
<1>21. ASSUME NEW c, c # chat PROVE Known(c)' <=> Known(c)
  <2>1. CASE c = b
    <3>1. ~Known(b)
      <4>1. b \in PassedOf(calls[x])
        BY <1>1, <1>17
      <4> QED  BY <1>13, <4>1, KnownIs DEF KnownTo
    <3>2. ~Known(b)'
      <4>1. b \notin DOMAIN lineages' /\ Lists(lineages'[chat], b)
        BY <1>13, <1>15, <1>20 DEF OnlyAt
      <4> QED  BY <1>15, <4>1 DEF Known, Unlisted
    <3> QED  BY <2>1, <3>1, <3>2
  <2>2. CASE c # b
    <3>1. (chat \in DOMAIN lineages /\ Lists(lineages[chat], c)) <=> (chat \in DOMAIN lineages' /\ Lists(lineages'[chat], c))
      <4>1. CASE chat \in DOMAIN lineages
        <5>1. own = lineages[chat]
          BY <1>3, <4>1 DEF SegmentsOf
        <5> QED  BY <1>15, <1>20, <2>2, <4>1, <5>1
      <4>2. CASE chat \notin DOMAIN lineages
        <5>1. ~Lists(own, c)
          BY <1>3, <1>21, <4>2 DEF SegmentsOf, Lists, Segment
        <5> QED  BY <1>15, <1>20, <2>2, <4>2, <5>1
      <4> QED  BY <4>1, <4>2
    <3>2. ListedAlike(c)
      BY <1>15, <3>1, ListedSame
    <3> QED  BY <1>15, <1>18, <1>21, <3>2, KnownAlike
  <2> QED  BY <2>1, <2>2
<1>22. \A c \in Threads : c # chat => Alike(c)
  BY <1>5, <1>15, <1>18, <1>21, RelistedAlike
<1>23. Alike(chat)
  <2>1. \A y \in Calls : ~RollsOn(calls[y], chat) /\ ~RollsOn(calls'[y], chat)
    <3>1. \A y \in Busy \ {x} : calls[y].chat # chat
      BY <1>1, <1>2, <1>5, RequestApart DEF Sound
    <3> QED  BY <1>1, <1>5, <1>16, <1>18, <3>1 DEF RollsOn, Busy
  <2>2. Shown(chat) = Stitched(own)
    BY <1>3, <2>1, PlainAre DEF AllPlain, Shown
  <2>3. Shown(chat)' = Stitched(list)'
    <3>1. SeenSegments(chat)' = SegmentsOf(chat)'
      BY <2>1, PlainThen
    <3>2. SegmentsOf(chat)' = list
      BY <1>15 DEF SegmentsOf
    <3> QED  BY <3>1, <3>2 DEF Shown
  <2>4. own[len].last = None
    <3>1. CASE chat \in DOMAIN lineages
      <4>1. own = lineages[chat]
        BY <1>3, <3>1 DEF SegmentsOf
      <4> QED  BY <1>10, <3>1, <4>1 DEF Sound, ListedInv, ListsOK, LineageOK
    <3>2. CASE chat \notin DOMAIN lineages
      <4>1. own = <<Segment(chat, None)>>
        BY <1>3, <3>2 DEF SegmentsOf
      <4>2. len = 1 /\ own[1].last = None
        BY <1>10, <4>1 DEF Segment
      <4> QED  BY <4>2
    <3> QED  BY <3>1, <3>2
  <2>5. Stitched(list)' = Stitched(own)
    <3>1. ThreadsOK /\ ThreadsOK' /\ UNCHANGED <<native, noops>> /\ native[b] = << >> /\ own \in Seq(Segments) /\ b \in DOMAIN native
      BY <1>5, <1>6, <1>7, <1>13 DEF Sound, ListedInv
    <3> QED  BY <1>9, <1>10, <1>11, <1>12, <1>13, <2>4, <3>1, SwitchedShown
  <2>6. Seen(chat)'
    <3>1. Known(chat)' /\ chat \notin newBackends'
      BY <1>5, <1>15, <1>19 DEF Known, Visible
    <3>2. Here(chat)'
      <4>1. SegmentsOf(chat)' = list /\ Lists(list, b)
        BY <1>15, <1>20 DEF SegmentsOf
      <4> QED  BY <1>5, <1>13, <4>1 DEF Here, Lists
    <3>3. ~Deleting(chat)'
      BY <1>18, <1>19 DEF Visible, Deleting, EarlyBut, Early
    <3>4. Visible(chat)'
      BY <3>1, <3>2, <3>3 DEF Visible
    <3> QED  BY <3>4, SeenIsThen DEF AllSeen
  <2> QED  BY <1>19, <2>2, <2>3, <2>5, <2>6 DEF Alike
<1>24. SeenChats' = SeenChats
  BY <1>22, <1>23, SeenSame
<1> QED  BY <1>1, <1>5, <1>16, <1>24, QuietAnswer DEF Sound

\* What the fork shows is what it was asked for.
Takes(call, segs, at) == segs = call.segs /\ at = call.at
CopyOf(f, segment, n) == native[f] = SubSeq(Cut(segment), 1, n)
LEMMA ForkShown ==
  ASSUME Sound, ThreadsOK', UNCHANGED <<native, noops>>, NEW x \in Busy, NEW call, call = calls[x], call.what = "fork",
         Asked(call), NEW f \in DOMAIN native, NEW segs, NEW at, Takes(call, segs, at),
         CopyOf(f, segs[at], call.count), NEW last \in Segments, last = Segment(f, None),
         NEW kept, GoesOnFrom(kept, segs, at, last)
  PROVE Stitched(kept)' = SubSeq(Stitched(segs), 1, call.want)
<1>1. segs \in Seq(Segments) /\ at \in 1 .. Len(segs)
  BY CallLast DEF Sound, AsTaken, Takes
<1>2. PICK cut : cut = Cut(segs[at])
  OBVIOUS
<1>3. PICK count : count = call.count
  OBVIOUS
<1>4. count \in 0 .. Len(cut)
  <2>1. count \in Nat /\ count <= Len(cut)
    BY <1>2, <1>3, CallLast DEF Sound, Asked, Takes
  <2>2. Len(cut) \in Nat
    BY <1>2, CutShorter DEF Sound, ListedInv
  <2> QED  BY <2>1, <2>2
<1>5. PICK said : said = Said(SubSeq(cut, 1, count))
  OBVIOUS
<1>7. Part(last)' = said
  <2>1. PICK first : first = SubSeq(cut, 1, count)
    OBVIOUS
  <2>2. f \in DOMAIN native' /\ native'[f] = first
    BY <1>2, <1>3, <2>1 DEF CopyOf
  <2>3. Part(last)' = Without(first, noops')
    BY <2>2, LastWhole
  <2> QED  BY <1>5, <2>1, <2>3 DEF Said
<1>8. \A i \in 1 .. at - 1 : Part(segs[i])' = Part(segs[i])
  <2>1. ASSUME NEW i \in 1 .. at - 1 PROVE Part(segs[i])' = Part(segs[i])
    <3>1. Frozen(segs[i])
      BY SameFrozen DEF NoopsGrow, Same, Sound, ListedInv
    <3> QED  BY <3>1 DEF Frozen
  <2> QED  BY <2>1
<1>9. Stitched(kept)' = SubSeq(Stitched(segs), 1, SaidUpTo(segs, at, count))
  <2>1. ThreadsOK /\ ThreadsOK'
    BY DEF Sound, ListedInv
  <2>2. count \in 0 .. Len(Cut(segs[at])) /\ Part(last)' = Said(SubSeq(Cut(segs[at]), 1, count))
    BY <1>2, <1>4, <1>5, <1>7
  <2> QED  BY <1>1, <1>8, <2>1, <2>2, FirstShown
<1> QED  BY <1>3, <1>9 DEF Asked, Takes

LEMMA ListForkPromises == ASSUME Sound, Sound', ShowsInv, ShowsInv', NEW x \in Calls, ListFork(x) PROVE Promises
<1>1. PICK call : call = calls[x]
  OBVIOUS
<1>2. PICK chat : chat = call.chat
  OBVIOUS
<1>3. PICK segs : segs = call.segs
  OBVIOUS
<1>4. PICK at : at = call.at
  OBVIOUS
<1>5. /\ x \in Busy /\ call # Idle /\ call.what = "fork" /\ call.step = "ready" /\ Goes(x, Idle)
      /\ UNCHANGED <<provider, native, newBackends, turns, noops, cleaned, run>>
  BY <1>1, DoingBusy DEF ListFork, Doing, Goes, Ends
<1>6. /\ CallShows(call) /\ MadeNew(call) /\ segs \in Seq(Segments) /\ DOMAIN segs = 1 .. Len(segs)
      /\ Len(segs) \in Nat /\ at \in 1 .. Len(segs) /\ segs = SegmentsOf(chat)
  BY <1>1, <1>2, <1>3, <1>4, <1>5, CallLast DEF Sound, ShowsInv, CallsShow, AsTaken
<1>7. PICK f : Makes(call, f) /\ native[f] = SubSeq(Cut(call.segs[call.at]), 1, call.count)
  BY <1>5, <1>6 DEF CallShows, ForkShows
<1>8. /\ f \in DOMAIN native /\ call.made = {f} /\ f \notin DOMAIN lineages /\ Unlisted(f) /\ f # chat /\ f \in Threads
      /\ Asked(call)
  <2>1. f \in DOMAIN native /\ call.made = {f}
    BY <1>7 DEF Makes
  <2>2. f # chat /\ f \notin DOMAIN lineages /\ Unlisted(f)
    BY <1>2, <1>5, <1>6, <2>1 DEF MadeNew
  <2>3. f \in Threads
    BY <2>1 DEF Sound, ListedInv, ThreadsOK
  <2> QED  BY <1>5, <1>6, <2>1, <2>2, <2>3 DEF CallShows, ForkShows
<1>9. PICK last : last = Segment(f, None)
  OBVIOUS
<1>10. PICK kept : kept = Append(SubSeq(segs, 1, at - 1), last)
  OBVIOUS
<1>11. \A y \in Busy \ {x} : calls[y].chat # f /\ f \notin PassedOf(calls[y]) /\ calls[y].chat # chat
  <2>1. ASSUME NEW y \in Busy \ {x} PROVE calls[y].chat # f /\ f \notin PassedOf(calls[y])
    <3>1. f # calls[y].chat /\ ~Lists(calls[y].segs, f) /\ f \notin calls[y].made
      BY <1>1, <1>5, <1>8 DEF Sound, ListedInv, CallsOK, Apart
    <3>2. DOMAIN calls[y].segs = 1 .. Len(calls[y].segs) /\ calls[y].at \in Nat /\ Len(calls[y].segs) \in Nat
      BY CallLast DEF Sound
    <3>3. \A i \in calls[y].at + 1 .. Len(calls[y].segs) : i \in DOMAIN calls[y].segs
      BY <3>2
    <3> QED  BY <3>1, <3>3 DEF PassedOf, Dropped, Lists
  <2> QED  BY <1>1, <1>2, <1>5, <2>1, RequestApart DEF Sound
<1>12. Early(call) /\ Early(Idle) /\ PassedOf(call) = {f} /\ PassedOf(Idle) = {}
  BY <1>5, <1>8 DEF Early, Deletes, PassedOf, Dropped
<1>13. /\ CallsBut(chat) /\ EarlyBut /\ calls'[x] = Idle /\ (\A y \in Calls : y # x => calls'[y] = calls[y])
       /\ \A c : c # f => PassesSame(c)
  BY <1>1, <1>2, <1>5, <1>12, GoesAlone DEF Sound
<1>14. OnlyAt(f) /\ SegmentsOf(f)' = kept /\ \A c : c # f => ListedAlike(c)
  <2>1. CASE at = 1
    <3>1. lineages' = lineages
      BY <1>1, <1>4, <1>8, <2>1 DEF ListFork
    <3>2. kept = <<last>>
      <4>1. at - 1 = 0 /\ SubSeq(segs, 1, 0) = << >>
        BY <1>6, <2>1
      <4>2. Append(<< >>, last) = <<last>>
        OBVIOUS
      <4> QED  BY <1>10, <4>1, <4>2
    <3> QED  BY <1>8, <1>9, <3>1, <3>2 DEF OnlyAt, SegmentsOf, ListedAlike, Unlisted
  <2>2. CASE at # 1
    <3>1. lineages' = Put(lineages, f, kept)
      BY <1>1, <1>3, <1>4, <1>8, <1>9, <1>10, <2>2 DEF ListFork
    <3>2. OnlyAt(f) /\ f \in DOMAIN lineages' /\ lineages'[f] = kept
      BY <3>1, PutAt
    <3>3. \E fork \in call.made : \E list : ForkedTo(call, fork, list)
      BY <1>1, <1>4, <2>2, ListForkIs DEF Sound
    <3>4. PICK list : ForkedTo(call, f, list)
      BY <1>8, <3>3
    <3>5. list = kept /\ chat \in DOMAIN lineages /\ segs = lineages[chat]
      <4>1. lineages' = Put(lineages, f, list) /\ chat \in DOMAIN lineages /\ segs = lineages[chat]
        BY <1>2, <1>3, <3>4 DEF ForkedTo
      <4> QED  BY <3>2, <4>1, PutAt
    <3>6. \A c : Lists(kept, c) => c = f \/ Lists(segs, c)
      <4>1. PICK n \in Nat : 1 .. n \subseteq DOMAIN segs /\ GoneOn(kept, segs, n, last)
        BY <1>3, <1>9, <3>4, <3>5 DEF ForkedTo
      <4> QED  BY <1>9, <4>1 DEF GoneOn, UpTo, Lists, Segment
    <3>7. ASSUME NEW c, c # f PROVE ListedAlike(c)
      <4>1. CASE Lists(kept, c)
        <5>1. ~Unlisted(c)
          BY <3>5, <3>6, <3>7, <4>1 DEF Unlisted
        <5>2. ~Unlisted(c)'
          BY <3>2, <4>1 DEF Unlisted
        <5> QED  BY <5>1, <5>2 DEF ListedAlike
      <4>2. CASE ~Lists(kept, c)
        BY <1>8, <3>2, <4>2, ListedSame
      <4> QED  BY <4>1, <4>2
    <3> QED  BY <3>2, <3>7 DEF SegmentsOf
  <2> QED  BY <2>1, <2>2
<1>15. AlikeBut(f)
  <2>1. ASSUME NEW c \in Threads, c # f PROVE Alike(c)
    <3>1. Known(c)' <=> Known(c)
      BY <1>13, <1>14, <2>1, KnownAlike
    <3> QED  BY <1>5, <1>13, <1>14, <2>1, <3>1, RelistedAlike
  <2> QED  BY <2>1 DEF AlikeBut
<1>16. ~Visible(f)
  <2>1. f \in PassedOf(calls[x])
    BY <1>1, <1>12
  <2> QED  BY <1>8, <2>1, KnownIs DEF KnownTo, Visible
<1>17. CASE f \in newBackends
  <2>1. ~Visible(f)'
    BY <1>5, <1>17 DEF Visible
  <2>2. Alike(f)
    BY <1>16, <2>1, UnseenAlike
  <2>3. SeenChats' = SeenChats
    <3>1. \A c \in Threads : Alike(c)
      BY <1>15, <2>2 DEF AlikeBut
    <3> QED  BY <3>1, SeenSame
  <2> QED  BY <1>1, <1>5, <2>3, QuietAnswer DEF Sound
<1>18. CASE f \notin newBackends
  <2>1. \A y \in Calls : ~RollsOn(calls'[y], f) /\ ~RollsOn(calls[y], chat)
    BY <1>1, <1>5, <1>11, <1>13 DEF RollsOn, Busy
  <2>2. Seen(f)'
    <3>1. Known(f)'
      <4>1. CASE f \in DOMAIN lineages'
        BY <4>1 DEF Known
      <4>2. CASE f \notin DOMAIN lineages'
        <5>1. \A c \in DOMAIN lineages' : c # f
          BY <4>2
        <5>2. Unlisted(f)'
          BY <1>8, <1>14, <5>1 DEF Unlisted, OnlyAt
        <5>3. \A y \in Calls : f \notin PassedOf(calls'[y])
          BY <1>11, <1>12, <1>13 DEF Busy, PassedOf
        <5>4. KnownTo(f)'
          BY <5>2, <5>3 DEF KnownTo, PassedOf, Dropped
        <5> QED  BY <5>4, KnownIsThen
      <4> QED  BY <4>1, <4>2
    <3>2. Here(f)'
      <4>1. Len(kept) \in DOMAIN kept /\ kept[Len(kept)] = last
        <5>1. PICK front : front = SubSeq(segs, 1, at - 1)
          OBVIOUS
        <5>2. front \in Seq(Segments)
          BY <1>6, <5>1
        <5>3. last \in Segments
          BY <1>8, <1>9 DEF Segment, Segments
        <5>4. kept \in Seq(Segments) /\ Len(kept) = Len(front) + 1 /\ kept[Len(front) + 1] = last
          <6>1. /\ Append(front, last) \in Seq(Segments) /\ Len(Append(front, last)) = Len(front) + 1
                /\ Append(front, last)[Len(front) + 1] = last
            BY <5>2, <5>3, AppendProperties
          <6> QED  BY <1>10, <5>1, <6>1
        <5> QED  BY <5>2, <5>4
      <4> QED  BY <1>5, <1>8, <1>9, <1>14, <4>1 DEF Here, Segment
    <3>3. ~Deleting(f)'
      <4>1. \A y \in Calls : ~(Deletes(calls'[y]) /\ calls'[y].chat = f)
        BY <1>11, <1>13 DEF Deletes, Busy
      <4> QED  BY <4>1 DEF Deleting, Deletes
    <3>4. Visible(f)'
      BY <1>5, <1>18, <3>1, <3>2, <3>3 DEF Visible
    <3> QED  BY <3>4, SeenIsThen DEF AllSeen
  <2>3. Seen(chat) /\ chat \in Threads
    <3>1. ~Deletes(call)
      BY <1>5 DEF Deletes
    <3> QED  BY <1>1, <1>2, <1>5, <3>1, BusySeen
  <2>4. Shown(chat) = Stitched(segs)
    BY <1>6, <2>1, PlainAre DEF AllPlain, Shown
  <2>5. Shown(f)' = SubSeq(Shown(chat), 1, call.want)
    <3>1. SeenSegments(f)' = kept
      BY <1>14, <2>1, PlainThen
    <3>2. ThreadsOK' /\ UNCHANGED <<native, noops>>
      BY <1>5 DEF Sound, ListedInv
    <3>3. CopyOf(f, segs[at], call.count)
      BY <1>3, <1>4, <1>7 DEF CopyOf
    <3>4. Stitched(kept)' = SubSeq(Stitched(segs), 1, call.want)
      <4>1. /\ x \in Busy /\ call.what = "fork" /\ Asked(call) /\ f \in DOMAIN native
        BY <1>5, <1>8
      <4>2. Takes(call, segs, at) /\ GoesOnFrom(kept, segs, at, last) /\ last \in Segments
        BY <1>3, <1>4, <1>8, <1>9, <1>10 DEF Takes, GoesOnFrom, Segment, Segments
      <4> QED  BY <1>1, <1>9, <3>2, <3>3, <4>1, <4>2, ForkShown
    <3> QED  BY <2>4, <3>1, <3>4 DEF Shown
  <2>6. PICK old : old = SeenChats
    OBVIOUS
  <2>7. PICK new : new = SeenChats'
    OBVIOUS
  <2>8. f \notin DOMAIN old /\ new = Promised!With(old, f, Shown(f)')
    <3>1. ~Seen(f)
      BY <1>16, SeenIs DEF AllSeen
    <3> QED  BY <1>8, <1>15, <2>2, <2>6, <2>7, <3>1, SeenMore
  <2>9. PICK request : request = Request(call)
    OBVIOUS
  <2>10. request[1] = "fork" /\ request[2] = chat /\ request[3] = call.want
    BY <1>2, <1>5, <2>9 DEF Request
  <2>11. chat \in DOMAIN old /\ old[chat] = Shown(chat)
    BY <2>3, <2>6, SeenChatsIs
  <2>12. Promised!Fork(old, new, request, f)
    BY <2>5, <2>8, <2>10, <2>11 DEF Promised!Fork
  <2>13. Requesting(call)
    BY <1>5 DEF Requesting
  <2> QED  BY <1>1, <1>5, <1>8, <2>6, <2>7, <2>9, <2>10, <2>11, <2>12, <2>13, AnswersAs DEF Sound
<1> QED  BY <1>17, <1>18

LEMMA OneOnly == ASSUME NEW s \in Seq(Segments), Len(s) = 1 PROVE s[1] \in Segments /\ s = <<s[1]>>
<1>1. s[1] \in Segments
  <2>1. 1 \in 1 .. Len(s)
    OBVIOUS
  <2> QED  BY <2>1, ElementOfSeq
<1>2. s = [i \in 1 .. Len(s) |-> s[i]]
  OBVIOUS
<1> QED  BY <1>1, <1>2

\* A chat rolled back goes on in what it keeps.
LEMMA RelistedTo ==
  ASSUME ListedInv, NEW x \in Busy, NEW call, call = calls[x], call.what = "revert", RevertLineage(x),
         NEW own, own = call.chat, NEW segs, segs = SegmentsOf(own), call.segs = segs, call.at \in DOMAIN segs,
         NEW kept, kept = Kept(x)
  PROVE /\ OnlyAt(own) /\ SegmentsOf(own)' = kept
        /\ own \notin DOMAIN lineages' => own \notin DOMAIN lineages \/ ~Shared(own, own)
        /\ own \in DOMAIN lineages' => own \in DOMAIN lineages \/ Len(segs) # 1
<1>1. segs \in Seq(Segments) /\ Len(segs) \in Nat \ {0} /\ DOMAIN segs = 1 .. Len(segs) /\ own \in DOMAIN provider
  BY CallLast, OfCall DEF CallOK, CallTyped
<1>2. PICK n : n = call.at - 1
  OBVIOUS
<1>3. KeepsTo(kept, segs, n)
  BY <1>2, KeptIs
<1>4. CASE lineages' = lineages /\ Len(segs) = 1
  <2>1. OnlyAt(own)
    BY <1>4 DEF OnlyAt
  <2>2. call.at = 1 /\ n = 0 /\ Len(kept) = 1 /\ kept \in Seq(Segments) /\ kept[1] = Segment(segs[1].thread, None)
    <3>1. call.at = 1
      BY <1>1, <1>4
    <3>2. n = 0
      BY <1>2, <3>1
    <3> QED  BY <1>3, <3>1, <3>2 DEF KeepsTo
  <2>3. segs[1].last = None
    <3>1. CASE own \in DOMAIN lineages
      <4>1. segs = lineages[own]
        BY <3>1 DEF SegmentsOf
      <4> QED  BY <1>4, <3>1, <4>1 DEF ListedInv, ListsOK, LineageOK
    <3>2. CASE own \notin DOMAIN lineages
      <4>1. segs = <<Segment(own, None)>>
        BY <3>2 DEF SegmentsOf
      <4> QED  BY <4>1 DEF Segment
    <3> QED  BY <3>1, <3>2
  <2>4. segs[1] = kept[1]
    <3>1. segs[1] \in Segments
      BY <1>1, <1>4
    <3> QED  BY <2>2, <2>3, <3>1 DEF Segments, Segment
  <2>5. segs = kept
    <3>1. segs = <<segs[1]>> /\ kept = <<kept[1]>>
      BY <1>1, <1>4, <2>2, OneOnly
    <3> QED  BY <2>4, <3>1
  <2>6. SegmentsOf(own)' = segs
    BY <1>4 DEF SegmentsOf
  <2> QED  BY <1>4, <2>1, <2>5, <2>6
<1>5. CASE Len(segs) # 1 /\ Len(kept) = 1 /\ kept[1].thread = own /\ ~Shared(own, own)
           /\ lineages' = Restrict(lineages, DOMAIN lineages \ {own})
  <2>1. OnlyAt(own) /\ own \notin DOMAIN lineages'
    BY <1>5, DropAt
  <2>2. kept \in Seq(Segments) /\ kept[1].last = None
    <3>1. n = 0
      BY <1>3, <1>5 DEF KeepsTo
    <3> QED  BY <1>3, <3>1 DEF KeepsTo, Segment
  <2>3. kept = <<Segment(own, None)>>
    <3>1. kept[1] \in Segments /\ kept = <<kept[1]>>
      BY <1>5, <2>2, OneOnly
    <3>2. kept[1] = Segment(own, None)
      BY <1>5, <2>2, <3>1 DEF Segments, Segment
    <3> QED  BY <3>1, <3>2
  <2>4. SegmentsOf(own)' = <<Segment(own, None)>>
    BY <2>1 DEF SegmentsOf
  <2> QED  BY <1>5, <2>1, <2>3, <2>4
<1>6. CASE Len(segs) # 1 /\ lineages' = Put(lineages, own, kept)
  <2>1. OnlyAt(own) /\ own \in DOMAIN lineages' /\ lineages'[own] = kept
    BY <1>6, PutAt
  <2> QED  BY <1>6, <2>1 DEF SegmentsOf
<1>7. PICK list : list = Kept(x)
  OBVIOUS
<1>8. lineages' =
        IF Len(segs) = 1 THEN lineages
        ELSE IF Len(list) = 1 /\ list[1].thread = own /\ ~Shared(own, own) THEN Restrict(lineages, DOMAIN lineages \ {own})
        ELSE Put(lineages, own, list)
  BY <1>7 DEF RevertLineage
<1>9. list = kept
  BY <1>7
<1> QED  BY <1>4, <1>5, <1>6, <1>8, <1>9

\* A rollback that only drops segments keeps the older ones as they are.
Reopens(last, segs, at) == last = Segment(segs[at].thread, None)
DropsOnly(call) == call.step = "asked" /\ call.drop
LEMMA DropShown ==
  ASSUME Sound, ThreadsOK', ShowsInv, UNCHANGED <<native, noops>>, NEW x \in Calls, NEW call, Reverting(x, call),
         DropsOnly(call), NEW segs, NEW at, Takes(call, segs, at),
         NEW last \in Segments, Reopens(last, segs, at), NEW kept, GoesOnFrom(kept, segs, at, last)
  PROVE Stitched(kept)' = SubSeq(Stitched(segs), 1, call.want)
<1>1. x \in Busy /\ call = calls[x] /\ call.what = "revert" /\ segs = call.segs /\ at = call.at
  BY DEF Reverting, Takes
<1>2. PICK own : own = call.chat
  OBVIOUS
<1>3. /\ segs \in Seq(Segments) /\ Len(segs) \in Nat /\ at \in 1 .. Len(segs) /\ CallShows(call) /\ KeepsRow(call, segs) /\ segs = SegmentsOf(own)
  <2>1. segs \in Seq(Segments) /\ DOMAIN segs = 1 .. Len(segs)
    BY <1>1, CallLast DEF Sound
  <2>2. KeepsRow(call, segs)
    BY <1>1, RowStands
  <2>3. segs = SegmentsOf(own) /\ at \in 1 .. Len(segs)
    BY <1>1, <1>2, <2>1, <2>2 DEF KeepsRow
  <2> QED  BY <1>1, <2>1, <2>2, <2>3 DEF ShowsInv, CallsShow
<1>50. segs \in Seq(Segments) /\ at \in 1 .. Len(segs)
  BY <1>3
<1>4. PICK cut : cut = Cut(segs[at])
  OBVIOUS
<1>5. Asked(call) /\ call.count = Len(cut) /\ at < Len(segs)
  BY <1>1, <1>3, <1>4 DEF CallShows, RevertShows, DropsOnly
<1>51. PICK len : len = Len(segs)
  OBVIOUS
<1>52. len \in Nat /\ at \in 1 .. len
  BY <1>50, <1>51
<1>53. at < len
  BY <1>5, <1>51
<1>54. len # 1 /\ at \in 1 .. len - 1
  BY <1>52, <1>53
<1>6. cut \in Seq(Numbers) /\ Len(cut) \in Nat
  BY <1>4, TurnsTyped DEF Sound, ListedInv
<1>10. PICK n : n = Len(cut)
  OBVIOUS
<1>70. n \in 0 .. Len(cut)
  BY <1>6, <1>10
<1>7. PICK said : said = Said(SubSeq(cut, 1, n))
  OBVIOUS
<1>8. Part(last)' = said
  <2>1. SubSeq(cut, 1, n) = cut
    BY <1>6, <1>10
  <2>2. said = Part(segs[at])
    BY <1>4, <1>7, <2>1 DEF Part
  <2>3. Part(last)' = Part(last)
    <3>1. Frozen(last)
      BY SameFrozen DEF NoopsGrow, Same, Sound, ListedInv
    <3> QED  BY <3>1 DEF Frozen
  <2>4. Whole(segs[at])
    <3>1. own \in DOMAIN lineages /\ segs = lineages[own]
      <4>1. Len(segs) # 1
        BY <1>51, <1>54
      <4> QED  BY <1>2, <1>3, <4>1 DEF KeepsRow, SegmentsOf
    <3>2. Tails(own, segs)
      BY <3>1 DEF ShowsInv, LineagesShow, Shows
    <3>3. ~Deleting(own) /\ \A i : ~Rolling(own, i)
      <4>1. ~Deletes(calls[x]) /\ calls[x].step # "ready"
        BY <1>1 DEF Deletes, DropsOnly
      <4> QED  BY <1>1, <1>2, <4>1, OnlyRequest DEF Sound
    <3>4. Own(segs, own, at) /\ at \in 1 .. Len(segs) - 1
      <4>1. \E row \in 1 .. at : segs[row].thread = own
        BY <1>1, <1>2, <1>3 DEF KeepsRow
      <4> QED  BY <1>51, <1>54, <4>1 DEF Own
    <3> QED  BY <3>2, <3>3, <3>4 DEF Tails
  <2>5. Part(segs[at]) = Part(last)
    BY <2>4 DEF Whole, Reopens
  <2> QED  BY <2>2, <2>3, <2>5
<1>9. \A i \in 1 .. at - 1 : Part(segs[i])' = Part(segs[i])
  <2>1. ASSUME NEW i \in 1 .. at - 1 PROVE Part(segs[i])' = Part(segs[i])
    <3>1. Frozen(segs[i])
      BY SameFrozen DEF NoopsGrow, Same, Sound, ListedInv
    <3> QED  BY <3>1 DEF Frozen
  <2> QED  BY <2>1
<1>11. Stitched(kept)' = SubSeq(Stitched(segs), 1, SaidUpTo(segs, at, n))
  <2>1. ThreadsOK /\ ThreadsOK'
    BY DEF Sound, ListedInv
  <2>2. n \in 0 .. Len(Cut(segs[at])) /\ Part(last)' = Said(SubSeq(Cut(segs[at]), 1, n))
    BY <1>4, <1>7, <1>8, <1>70
  <2> QED  BY <1>9, <1>50, <2>1, <2>2, FirstShown
<1> QED  BY <1>1, <1>5, <1>10, <1>11 DEF Asked

\* Segments that say the same before and after.
LEMMA StitchedQuiet ==
  ASSUME ThreadsOK, ThreadsOK', UNCHANGED <<native, noops>>, NEW segs \in Seq(Segments) PROVE Stitched(segs)' = Stitched(segs)
<1>1. \A i \in 1 .. Len(segs) : Part(segs[i])' = Part(segs[i])
  <2>1. ASSUME NEW i \in 1 .. Len(segs) PROVE Part(segs[i])' = Part(segs[i])
    <3>1. Frozen(segs[i])
      BY SameFrozen DEF NoopsGrow, Same
    <3> QED  BY <3>1 DEF Frozen
  <2> QED  BY <2>1
<1> QED  BY <1>1, StitchedStays

LEMMA RevertLineagePromises == ASSUME Sound, Sound', ShowsInv, ShowsInv', NEW x \in Calls, RevertLineage(x) PROVE Promises
<1>1. PICK call : call = calls[x]
  OBVIOUS
<1>2. PICK own : own = call.chat
  OBVIOUS
<1>3. PICK segs : segs = SegmentsOf(own)
  OBVIOUS
<1>4. PICK next : next = IF call.at = Len(call.segs) THEN Idle ELSE Discarding(call, call.at)
  OBVIOUS
<1>5. PICK kept : kept = Kept(x)
  OBVIOUS
<1>6. PICK at : at = call.at
  OBVIOUS
<1>7. /\ x \in Busy /\ call # Idle /\ call.what = "revert"
      /\ call.step = "ready" \/ (DropsOnly(call) /\ ~RowDropped(x))
      /\ UNCHANGED <<provider, native, newBackends, turns, noops, cleaned, run>>
  BY <1>1, DoingBusy DEF RevertLineage, Doing, DropsOnly
<1>8. Goes(x, next)
  BY <1>1, <1>4 DEF RevertLineage, GoesOn, Ends, Discarding, Goes
<1>9. Reverting(x, call)
  BY <1>1, <1>7 DEF Reverting, DropsOnly
<1>10. /\ segs = call.segs /\ segs \in Seq(Segments) /\ DOMAIN segs = 1 .. Len(segs) /\ Len(segs) \in Nat
       /\ at \in 1 .. Len(segs) /\ (own \notin DOMAIN lineages => Len(segs) = 1)
  <2>1. KeepsRow(call, call.segs) /\ call.segs \in Seq(Segments)
    BY <1>1, <1>7, <1>9, RowStands, CallLast DEF Sound
  <2> QED  BY <1>2, <1>3, <1>6, <2>1 DEF KeepsRow
<1>11. PICK n : n = at - 1
  OBVIOUS
<1>12. KeepsTo(kept, segs, n) /\ n + 1 = at
  BY <1>1, <1>5, <1>6, <1>7, <1>10, <1>11, KeptIs DEF Sound
<1>13. /\ OnlyAt(own) /\ SegmentsOf(own)' = kept
       /\ own \notin DOMAIN lineages' => own \notin DOMAIN lineages \/ ~Shared(own, own)
       /\ own \in DOMAIN lineages' => own \in DOMAIN lineages \/ Len(segs) # 1
  <2>1. call.segs = segs /\ call.at \in DOMAIN segs
    BY <1>6, <1>10
  <2> QED  BY <1>1, <1>2, <1>3, <1>5, <1>7, <2>1, RelistedTo DEF Sound
<1>14. CallShows(call) /\ Live(segs) /\ ~Deletes(call) /\ call.made = {} /\ call \in Requests(call.want)
  <2>1. CallShows(call) /\ call.made = {} /\ call \in Requests(call.want)
    BY <1>1, <1>7, CallLast, OfCall DEF Sound, ShowsInv, CallsShow, MadeNew
  <2>2. Live(segs)
    BY <1>7, <1>10, <2>1 DEF CallShows, RevertShows, DropsOnly
  <2>3. ~Deletes(call)
    BY <1>7 DEF Deletes
  <2> QED  BY <2>1, <2>2, <2>3
<1>15. Visible(own) /\ Seen(own) /\ own \in Threads /\ own \in DOMAIN provider /\ Known(own)
  BY <1>1, <1>2, <1>7, <1>14, BusySeen DEF Visible
<1>16. ASSUME next # Idle
       PROVE next.what = "revert" /\ next.step = "set" /\ next.chat = own /\ next.want = call.want /\ next.made = {}
             /\ next.at = at /\ next.segs = segs
  BY <1>2, <1>4, <1>6, <1>7, <1>10, <1>14, <1>16 DEF Discarding, Requests
<1>17. calls'[x] = next /\ CallsBut(own) /\ (\A y \in Calls : y # x => calls'[y] = calls[y])
       /\ \A c : (c \in PassedOf(next) <=> c \in PassedOf(call)) => PassesSame(c)
  BY <1>1, <1>2, <1>7, <1>8, <1>16, GoesAlone DEF Sound
<1>18. PICK gone : gone = {segs[i].thread : i \in at + 1 .. Len(segs)}
  OBVIOUS
<1>19. PassedOf(call) = {} /\ PassedOf(next) = gone
  <2>1. PassedOf(call) = {}
    BY <1>7, <1>14 DEF PassedOf, Dropped, DropsOnly
  <2>2. CASE next = Idle
    <3>1. next # Idle \/ at = Len(segs)
      <4>1. Discarding(call, call.at).step = "set"
        BY <1>7, <1>14 DEF Discarding, Requests
      <4>2. Discarding(call, call.at) # Idle
        BY <4>1 DEF Idle
      <4> QED  BY <1>4, <1>6, <1>10, <4>2
    <3>2. gone = {}
      BY <1>10, <1>18, <2>2, <3>1
    <3> QED  BY <2>1, <2>2, <3>2 DEF PassedOf
  <2>3. CASE next # Idle
    <3>1. next.made = {} /\ Dropped(next) = gone
      BY <1>16, <1>18, <2>3 DEF Dropped
    <3> QED  BY <2>1, <2>3, <3>1 DEF PassedOf
  <2> QED  BY <2>1, <2>2, <2>3
<1>20. \A t \in gone : t # own /\ t \notin DOMAIN lineages /\ own \in DOMAIN lineages /\ Lists(lineages[own], t)
  <2>1. ASSUME NEW i \in at + 1 .. Len(segs), NEW t, t = segs[i].thread
        PROVE t # own /\ t \notin DOMAIN lineages /\ own \in DOMAIN lineages /\ Lists(lineages[own], t)
    <3>1. t # own /\ t \notin DOMAIN lineages
      BY <1>2, <1>6, <1>9, <1>10, <2>1, LaterFree
    <3>2. i \in DOMAIN segs /\ Len(segs) # 1
      BY <1>10, <2>1
    <3>3. own \in DOMAIN lineages /\ lineages[own] = segs
      BY <1>3, <1>10, <3>2 DEF SegmentsOf
    <3> QED  BY <2>1, <3>1, <3>2, <3>3 DEF Lists
  <2> QED  BY <1>18, <2>1
<1>21. \A t : t \notin gone => (Lists(segs, t) <=> Lists(kept, t))
  <2>1. /\ DOMAIN kept = 1 .. at /\ kept[at].thread = segs[at].thread
        /\ \A i \in 1 .. n : kept[i] = segs[i]
    <3>1. kept \in Seq(Segments) /\ Len(kept) = at /\ kept[at] = Segment(segs[at].thread, None)
      BY <1>12 DEF KeepsTo
    <3> QED  BY <1>12, <3>1 DEF KeepsTo, Segment
  <2>2. \A i \in 1 .. at : kept[i].thread = segs[i].thread /\ i \in DOMAIN segs
    <3>1. ASSUME NEW i \in 1 .. at PROVE kept[i].thread = segs[i].thread /\ i \in DOMAIN segs
      <4>1. i \in DOMAIN segs
        BY <1>10
      <4>2. i = at \/ i \in 1 .. n
        BY <1>10, <1>11
      <4> QED  BY <2>1, <4>1, <4>2
    <3> QED  BY <3>1
  <2>3. \A i \in DOMAIN segs : i \in 1 .. at \/ i \in at + 1 .. Len(segs)
    BY <1>10
  <2>4. \A i \in at + 1 .. Len(segs) : segs[i].thread \in gone
    BY <1>18
  <2> QED  BY <2>1, <2>2, <2>3, <2>4 DEF Lists
<1>22. ASSUME NEW c, c # own PROVE Known(c)' <=> Known(c)
  <2>1. CASE c \in gone
    <3>1. ~Known(c)
      BY <1>20, <2>1 DEF Known, Unlisted
    <3>2. ~KnownTo(c)'
      <4>1. c \in PassedOf(calls'[x]) /\ c \notin DOMAIN lineages'
        BY <1>13, <1>17, <1>19, <1>20, <2>1 DEF OnlyAt
      <4>2. ~(\A y \in Calls : c \notin PassedOf(calls'[y]))
        BY <4>1
      <4> QED  BY <4>1, <4>2 DEF KnownTo, PassedOf, Dropped
    <3> QED  BY <3>1, <3>2, KnownIsThen
  <2>2. CASE c \notin gone
    <3>1. PassesSame(c)
      BY <1>17, <1>19, <2>2
    <3>2. Lists(segs, c) <=> Lists(kept, c)
      BY <1>21, <2>2
    <3>3. (own \in DOMAIN lineages /\ Lists(lineages[own], c)) <=> (own \in DOMAIN lineages' /\ Lists(lineages'[own], c))
      <4>1. CASE own \in DOMAIN lineages /\ own \in DOMAIN lineages'
        <5>1. lineages[own] = segs /\ lineages'[own] = kept
          BY <1>3, <1>13, <4>1 DEF SegmentsOf
        <5> QED  BY <3>2, <4>1, <5>1
      <4>2. CASE own \in DOMAIN lineages /\ own \notin DOMAIN lineages'
        <5>1. lineages[own] = segs /\ kept = <<Segment(own, None)>>
          BY <1>3, <1>13, <4>2 DEF SegmentsOf
        <5>2. ~Lists(kept, c)
          BY <1>22, <5>1 DEF Lists, Segment
        <5> QED  BY <3>2, <4>2, <5>1, <5>2
      <4>3. CASE own \notin DOMAIN lineages
        BY <1>10, <1>13, <4>3
      <4> QED  BY <4>1, <4>2, <4>3
    <3>4. ListedAlike(c)
      BY <1>13, <3>3, ListedSame
    <3> QED  BY <1>13, <1>22, <3>1, <3>4, KnownAlike
  <2> QED  BY <2>1, <2>2
<1>23. AlikeBut(own)
  <2>1. ASSUME NEW c \in Threads, c # own PROVE Alike(c)
    BY <1>7, <1>13, <1>17, <1>22, <2>1, RelistedAlike
  <2> QED  BY <2>1 DEF AlikeBut
<1>24. \A y \in Busy \ {x} : calls[y].chat # own
  BY <1>1, <1>2, <1>7, RequestApart DEF Sound
<1>25. Seen(own)'
  <2>1. Known(own)'
    <3>1. CASE own \in DOMAIN lineages'
      BY <3>1 DEF Known
    <3>2. CASE own \notin DOMAIN lineages'
      <4>1. \A c \in DOMAIN lineages : c # own => ~Lists(lineages[c], own)
        <5>1. CASE own \notin DOMAIN lineages
          BY <1>1, <1>2, <1>7, <5>1, OfCall DEF Sound, CallOK, ChatFree, Unlisted
        <5>2. CASE ~Shared(own, own)
          BY <5>2 DEF Shared
        <5> QED  BY <1>13, <3>2, <5>1, <5>2
      <4>2. Unlisted(own)'
        <5>1. \A c \in DOMAIN lineages' : c # own
          BY <3>2
        <5> QED  BY <1>13, <4>1, <5>1 DEF Unlisted, OnlyAt
      <4>3. \A y \in Calls : own \notin PassedOf(calls'[y])
        <5>1. own \notin PassedOf(next)
          BY <1>19, <1>20
        <5>2. ASSUME NEW y \in Busy \ {x} PROVE own \notin PassedOf(calls[y])
          <6>1. own \notin calls[y].made
            <7>1. ASSUME own \in calls[y].made PROVE FALSE
              <8>1. calls[y].step # "asked" /\ calls[y].step \in {"asked", "ready", "set"}
                BY <5>2, <7>1, PassedBy, CallLast DEF Sound, ShowsInv
              <8>2. calls[y].step # "ready"
                <9>1. Apart(calls[y], call)
                  BY <1>1, <1>7, <5>2 DEF Sound, ListedInv, CallsOK
                <9> QED  BY <1>2, <7>1, <9>1 DEF Apart
              <8>3. calls[y].chat \in DOMAIN lineages /\ Lists(lineages[calls[y].chat], own) /\ calls[y].chat # own
                BY <5>2, <7>1, <8>1, <8>2, PassedBy DEF Sound, ShowsInv
              <8> QED  BY <4>1, <8>3
            <7> QED  BY <7>1
          <6>2. own \notin Dropped(calls[y])
            BY <1>1, <1>2, <1>7, <5>2 DEF ShowsInv, CallsShow, PairShows
          <6> QED  BY <6>1, <6>2 DEF PassedOf
        <5>3. \A y \in Calls : y \in Busy \/ PassedOf(calls[y]) = {}
          BY DEF Busy, PassedOf
        <5> QED  BY <1>17, <5>1, <5>2, <5>3
      <4>4. KnownTo(own)'
        BY <4>2, <4>3 DEF KnownTo, PassedOf, Dropped
      <4> QED  BY <4>4, KnownIsThen
    <3> QED  BY <3>1, <3>2
  <2>2. Here(own)'
    <3>1. at \in DOMAIN kept /\ kept[at].thread = segs[at].thread
      <4>1. kept \in Seq(Segments) /\ Len(kept) = at /\ kept[at] = Segment(segs[at].thread, None)
        BY <1>12 DEF KeepsTo
      <4>2. DOMAIN kept = 1 .. at
        BY <4>1
      <4> QED  BY <1>10, <4>1, <4>2 DEF Segment
    <3>2. segs[at].thread \in DOMAIN native
      BY <1>10, <1>14 DEF Live
    <3> QED  BY <1>7, <1>13, <3>1, <3>2 DEF Here
  <2>3. ~Deleting(own)'
    <3>1. ~Deletes(next)
      BY <1>16 DEF Deletes
    <3>2. \A y \in Calls : ~(Deletes(calls'[y]) /\ calls'[y].chat = own)
      BY <1>17, <1>24, <3>1 DEF Deletes, Busy
    <3> QED  BY <3>2 DEF Deleting, Deletes
  <2>4. Visible(own)'
    BY <1>7, <1>15, <2>1, <2>2, <2>3 DEF Visible
  <2> QED  BY <2>4, SeenIsThen DEF AllSeen
<1>26. Shown(own)' = Stitched(kept)'
  <2>1. ~RollsOn(next, own)
    BY <1>16 DEF RollsOn
  <2>2. \A y \in Calls : ~RollsOn(calls'[y], own)
    BY <1>17, <1>24, <2>1 DEF RollsOn, Busy
  <2>3. SeenSegments(own)' = SegmentsOf(own)'
    BY <2>2, PlainThen
  <2> QED  BY <1>13, <2>3 DEF Shown
<1>27. next = Idle \/ (next # Idle /\ next.what # "switch" /\ Request(next) = Request(call))
  BY <1>2, <1>7, <1>16 DEF Request
<1>28. CASE call.step = "ready"
  <2>1. Shown(own) = Stitched(kept)
    <3>1. Doing(x, "revert", "ready")
      BY <1>1, <1>7, <1>28 DEF Doing
    <3> QED  BY <1>1, <1>2, <1>5, <3>1, SeenRolled DEF Sound, Shown
  <2>2. Stitched(kept)' = Stitched(kept)
    <3>1. kept \in Seq(Segments)
      BY <1>12 DEF KeepsTo
    <3> QED  BY <1>7, <3>1, StitchedQuiet DEF Sound, ListedInv
  <2>3. Alike(own)
    BY <1>15, <1>25, <1>26, <2>1, <2>2 DEF Alike
  <2>4. SeenChats' = SeenChats
    <3>1. \A c \in Threads : Alike(c)
      BY <1>23, <2>3 DEF AlikeBut
    <3> QED  BY <3>1, SeenSame
  <2> QED  BY <1>1, <1>7, <1>8, <1>27, <2>4, QuietAnswer DEF Sound
<1>29. CASE DropsOnly(call)
  <2>1. Shown(own) = Stitched(segs)
    <3>1. \A y \in Calls : ~RollsOn(calls[y], own)
      BY <1>1, <1>24, <1>29 DEF RollsOn, Busy, DropsOnly
    <3> QED  BY <1>3, <3>1, PlainAre DEF AllPlain, Shown
  <2>2. PICK last : last = Segment(segs[at].thread, None)
    OBVIOUS
  <2>3. last \in Segments /\ GoesOnFrom(kept, segs, at, last)
    BY <1>11, <1>12, <2>2 DEF KeepsTo, GoesOnFrom
  <2>4. Stitched(kept)' = SubSeq(Stitched(segs), 1, call.want)
    <3>1. Takes(call, segs, at) /\ Reopens(last, segs, at)
      BY <1>6, <1>10, <2>2 DEF Takes, Reopens
    <3>2. ThreadsOK' /\ UNCHANGED <<native, noops>>
      BY <1>7 DEF Sound, ListedInv
    <3> QED  BY <1>9, <1>29, <2>3, <3>1, <3>2, DropShown
  <2>5. Shown(own)' = SubSeq(Shown(own), 1, call.want)
    BY <1>26, <2>1, <2>4
  <2>6. run' = run /\ ListedInv /\ call.what = "revert"
    BY <1>7 DEF Sound
  <2> QED  BY <1>1, <1>2, <1>7, <1>8, <1>15, <1>23, <1>25, <1>27, <2>5, <2>6, RollsBackAs
<1> QED  BY <1>7, <1>28, <1>29

LEMMA DeleteLineagePromises == ASSUME Sound, Sound', ShowsInv, ShowsInv', NEW x \in Calls, DeleteLineage(x) PROVE Promises
<1>1. PICK call : call = calls[x]
  OBVIOUS
<1>2. PICK own : own = call.chat
  OBVIOUS
<1>3. PICK segs : segs = call.segs
  OBVIOUS
<1>4. /\ x \in Busy /\ Goes(x, Idle) /\ call # Idle /\ call.what = "delete" /\ Len(segs) > 1 /\ call.at = Len(segs)
      /\ lineages' = Restrict(lineages, DOMAIN lineages \ {own})
      /\ UNCHANGED <<provider, native, newBackends, turns, noops, cleaned, run>>
  BY <1>1, <1>2, <1>3, DoingBusy DEF DeleteLineage, Ends, Doing, Goes
<1>5. OnlyAt(own) /\ own \notin DOMAIN lineages'
  BY <1>4, DropAt
<1>6. /\ CallShows(call) /\ segs = SegmentsOf(own) /\ DOMAIN segs = 1 .. Len(segs) /\ Len(segs) \in Nat /\ call.made = {}
  BY <1>1, <1>2, <1>3, <1>4, CallLast DEF Sound, ShowsInv, CallsShow, AsTaken, MadeNew
<1>7. own \in DOMAIN lineages /\ segs = lineages[own]
  <2>1. CASE own \notin DOMAIN lineages
    <3>1. segs = <<Segment(own, None)>>
      BY <1>6, <2>1 DEF SegmentsOf
    <3>2. Len(<<Segment(own, None)>>) = 1
      OBVIOUS
    <3> QED  BY <1>4, <3>1, <3>2
  <2> QED  BY <1>6, <2>1 DEF SegmentsOf
<1>8. Deleting(own)
  <2>1. call.at > 0
    BY <1>4, <1>6
  <2> QED  BY <1>1, <1>2, <1>4, <2>1 DEF Deleting, Deletes
<1>9. \A t : Lists(segs, t) => t \notin DOMAIN native \/ Shared(own, t)
  <2>1. DeleteShows(call)
    BY <1>4, <1>6 DEF CallShows
  <2>2. \A i \in DOMAIN segs : segs[i].thread \notin DOMAIN native \/ Shared(own, segs[i].thread)
    BY <1>2, <1>3, <1>4, <1>6, <2>1 DEF DeleteShows
  <2> QED  BY <2>2 DEF Lists
<1>10. CallsBut(own) /\ \A c : PassesSame(c)
  <2>1. PassedOf(call) = {} /\ PassedOf(Idle) = {}
    BY <1>4, <1>6 DEF PassedOf, Dropped
  <2> QED  BY <1>1, <1>2, <1>4, <2>1, GoesAlone DEF Sound
<1>11. ASSUME NEW c, c \notin DOMAIN lineages', Lists(segs, c) PROVE ~Visible(c)'
  <2>1. CASE c \notin DOMAIN native
    <3>1. SegmentsOf(c)' = <<Segment(c, None)>>
      BY <1>11 DEF SegmentsOf
    <3>2. ~Here(c)'
      BY <1>4, <2>1, <3>1 DEF Here, Segment
    <3> QED  BY <3>2 DEF Visible
  <2>2. CASE Shared(own, c)
    <3>1. ~Unlisted(c)'
      BY <1>5, <2>2 DEF Shared, Unlisted, OnlyAt
    <3> QED  BY <1>11, <3>1 DEF Visible, Known
  <2> QED  BY <1>9, <1>11, <2>1, <2>2
<1>12. ASSUME NEW c \in Threads PROVE Alike(c)
  <2>1. CASE c = own
    <3>1. Lists(segs, own)
      BY <1>7 DEF Sound, ListedInv, ListsOK, LineageOK
    <3>2. ~Visible(own) /\ ~Visible(own)'
      BY <1>5, <1>8, <1>11, <3>1 DEF Visible
    <3> QED  BY <2>1, <3>2, UnseenAlike
  <2>2. CASE c # own /\ c \notin DOMAIN lineages /\ Lists(segs, c)
    <3>1. ~Visible(c)
      BY <1>7, <2>2 DEF Visible, Known, Unlisted
    <3>2. ~Visible(c)'
      BY <1>5, <1>11, <2>2 DEF OnlyAt
    <3> QED  BY <3>1, <3>2, UnseenAlike
  <2>3. CASE c # own /\ (c \in DOMAIN lineages \/ ~Lists(segs, c))
    <3>1. Known(c)' <=> Known(c)
      <4>1. CASE c \in DOMAIN lineages
        BY <1>5, <2>3, <4>1 DEF Known, OnlyAt
      <4>2. CASE ~Lists(segs, c)
        <5>1. ListedAlike(c)
          BY <1>5, <1>7, <4>2, ListedSame
        <5> QED  BY <1>5, <1>10, <2>3, <5>1, KnownAlike
      <4> QED  BY <2>3, <4>1, <4>2
    <3> QED  BY <1>4, <1>5, <1>10, <2>3, <3>1, RelistedAlike
  <2> QED  BY <2>1, <2>2, <2>3
<1>13. SeenChats' = SeenChats
  BY <1>12, SeenSame
<1> QED  BY <1>1, <1>4, <1>13, QuietAnswer DEF Sound

-----------------------------------------------------------------------------
(* Claude cleans up, and the provider's other steps *)

\* A chat is seen as before, and shows what it showed or that without a run of its turns.
CutAlike(c) ==
  /\ Seen(c)' <=> Seen(c)
  /\ Seen(c) => \E old : \E new : old = Shown(c) /\ new = Shown(c)' /\ (new = old \/ CutOut(old, new))

\* A chat that lists what is cleaned up shows the rest of its history.
LEMMA CleanedShown ==
  ASSUME Sound, Sound', NoopsGrow, NEW thread, thread \notin DOMAIN native', \A t : t # thread => Same(t),
         NEW segs \in Seq(Segments), Distinct(segs), NEW k \in 1 .. Len(segs), segs[k].thread = thread,
         NEW old, old = Stitched(segs), NEW new, new = Stitched(segs)'
  PROVE new = old \/ CutOut(old, new)
<1>1. PICK p : p = PartsSaid
  OBVIOUS
<1>2. PICK q : q = PartsSaid'
  OBVIOUS
<1>3. Views(p) /\ Views(q) /\ old = View(p, segs) /\ new = View(q, segs)
  BY <1>1, <1>2, PartsTyped, PartsTypedThen, StitchedView, StitchedViewThen DEF Sound, ListedInv
<1>4. \A i \in 1 .. Len(segs) : segs[i] \in Segments
  OBVIOUS
<1>5. q[segs[k]] = << >>
  <2>1. Part(segs[k])' = << >>
    BY GoneSays
  <2> QED  BY <1>2, <1>4, <2>1, PartsTypedThen DEF Sound, ListedInv
<1>6. ASSUME NEW i \in 1 .. Len(segs), i # k PROVE p[segs[i]] = q[segs[i]]
  <2>1. segs[i].thread # thread
    BY <1>6 DEF Distinct
  <2>2. Frozen(segs[i])
    BY <2>1, SameFrozen DEF Sound, ListedInv
  <2> QED  BY <1>1, <1>2, <1>4, <2>2, PartsTyped, PartsTypedThen DEF Frozen, Sound, ListedInv
<1> QED  BY <1>3, <1>5, <1>6, ViewEmptied

LEMMA CleanUpPromises ==
  ASSUME Sound, Sound', ShowsInv, ShowsInv', NEW thread \in Threads, CleanUp(thread) PROVE Promises
<1>1. /\ NoopsGrow /\ thread \in DOMAIN native /\ \A t : t # thread => Same(t)
      /\ ~Unlisted(thread)
      /\ \A c \in DOMAIN lineages : lineages[c][Len(lineages[c])].thread # thread
      /\ \A y \in Busy : ~Lists(calls[y].segs, thread)
      /\ UNCHANGED <<provider, lineages, newBackends, calls, turns, noops, run>>
  BY CleanedIs
<1>2. thread \notin DOMAIN native'
  BY CleanedIs DEF Loses
<1>3. \A c : (Known(c)' <=> Known(c)) /\ (Deleting(c)' <=> Deleting(c)) /\ SegmentsOf(c)' = SegmentsOf(c)
  <2>1. \A c : PassesSame(c)
    BY <1>1, AllStay
  <2> QED  BY <1>1, <2>1, KnownStays DEF Deleting, SegmentsOf
<1>4. ASSUME NEW c \in Threads, Alike(c) PROVE CutAlike(c)
  BY <1>4 DEF Alike, CutAlike
<1>5. ASSUME NEW c \in Threads, c \in DOMAIN provider, Known(c), ~Deleting(c), NEW k \in DOMAIN SegmentsOf(c), SegmentsOf(c)[k].thread = thread
      PROVE CutAlike(c)
  <2>1. PICK segs : segs = SegmentsOf(c)
    OBVIOUS
  <2>2. segs \in Seq(Segments) /\ DOMAIN segs = 1 .. Len(segs) /\ Len(segs) \in Nat \ {0} /\ k \in DOMAIN segs /\ segs[k].thread = thread
    BY <1>5, <2>1, OwnSegments DEF Sound, ListedInv
  <2>3. c \in DOMAIN lineages /\ segs = lineages[c]
    <3>1. CASE c \notin DOMAIN lineages
      <4>1. segs[k].thread = c
        BY <2>1, <2>2, <3>1 DEF SegmentsOf, Segment
      <4> QED  BY <1>1, <1>5, <2>2, <3>1, <4>1 DEF Known
    <3> QED  BY <2>1, <3>1 DEF SegmentsOf
  <2>4. segs[Len(segs)].thread \in DOMAIN native /\ segs[Len(segs)].thread \in DOMAIN native' /\ Len(segs) \in DOMAIN segs
    <3>1. k # Len(segs)
      BY <1>1, <2>2, <2>3
    <3>2. Len(segs) > 1
      BY <2>2, <3>1
    <3>3. segs[Len(segs)].thread \in DOMAIN native
      BY <1>5, <2>3, <3>2 DEF ShowsInv, LineagesShow, Shows, LastLive
    <3> QED  BY <1>1, <2>2, <2>3, <3>3 DEF Same
  <2>5. Seen(c)' <=> Seen(c)
    <3>1. Here(c) /\ Here(c)'
      BY <1>3, <2>1, <2>4 DEF Here
    <3>2. Visible(c)' <=> Visible(c)
      BY <1>1, <1>3, <3>1 DEF Visible
    <3> QED  BY <3>2, SeenIs, SeenIsThen DEF AllSeen
  <2>6. ASSUME NEW y \in Calls PROVE ~RollsOn(calls[y], c)
    <3>1. ASSUME RollsOn(calls[y], c) PROVE FALSE
      <4>1. PICK call : call = calls[y]
        OBVIOUS
      <4>2. y \in Busy /\ call.what = "revert" /\ call.step = "ready" /\ call.chat = c
        BY <3>1, <4>1 DEF RollsOn, Busy
      <4>3. call.segs = segs
        BY <2>1, <4>1, <4>2, CallLast DEF AsTaken, Sound
      <4>4. Lists(call.segs, thread)
        BY <2>2, <4>3 DEF Lists
      <4> QED  BY <1>1, <4>1, <4>2, <4>4
    <3> QED  BY <3>1
  <2>7. SeenSegments(c) = segs /\ SeenSegments(c)' = segs
    <3>1. \A y \in Calls : ~RollsOn(calls'[y], c)
      BY <1>1, <2>6
    <3> QED  BY <1>3, <2>1, <2>6, <3>1, PlainAre, PlainThen DEF AllPlain
  <2>8. PICK old : old = Stitched(segs)
    OBVIOUS
  <2>9. PICK new : new = Stitched(segs)'
    OBVIOUS
  <2>10. Shown(c) = old /\ Shown(c)' = new
    BY <2>7, <2>8, <2>9 DEF Shown
  <2>11. Distinct(segs)
    BY <2>3 DEF Sound, HoldInv, SegmentsCount
  <2>12. new = old \/ CutOut(old, new)
    BY <1>1, <1>2, <2>2, <2>8, <2>9, <2>11, CleanedShown
  <2> QED  BY <2>5, <2>10, <2>12 DEF CutAlike
<1>6. ASSUME NEW c \in Threads PROVE CutAlike(c)
  <2>1. CASE c \notin DOMAIN provider
    <3>1. ~Visible(c) /\ ~Visible(c)'
      BY <1>1, <2>1, UnusedUnseen, UnusedUnseenThen DEF Sound
    <3> QED  BY <1>4, <3>1, UnseenAlike
  <2>2. CASE ~Known(c) \/ Deleting(c)
    <3>1. ~Visible(c) /\ ~Visible(c)'
      BY <1>3, <2>2 DEF Visible
    <3> QED  BY <1>4, <3>1, UnseenAlike
  <2>3. CASE c \in DOMAIN provider /\ Known(c) /\ ~Deleting(c)
    <3>1. CASE \E k \in DOMAIN SegmentsOf(c) : SegmentsOf(c)[k].thread = thread
      BY <1>5, <2>3, <3>1
    <3>2. CASE \A k \in DOMAIN SegmentsOf(c) : SegmentsOf(c)[k].thread # thread
      <4>1. StillAs(c)
        BY <1>1, <3>2 DEF StillAs
      <4>2. Alike(c)
        BY <1>1, <1>3, <2>3, <4>1, QuietAlike
      <4> QED  BY <1>4, <4>2
    <3> QED  BY <3>1, <3>2
  <2> QED  BY <2>1, <2>2, <2>3
<1>7. PICK old : old = SeenChats
  OBVIOUS
<1>8. PICK new : new = SeenChats'
  OBVIOUS
<1>9. DOMAIN new = DOMAIN old
  BY <1>6, <1>7, <1>8, SeenChatsIs, SeenChatsIsThen DEF CutAlike
<1>10. ASSUME NEW c \in DOMAIN old PROVE new[c] = old[c] \/ CutOut(old[c], new[c])
  <2>1. c \in Threads /\ Seen(c) /\ old[c] = Shown(c) /\ new[c] = Shown(c)'
    BY <1>7, <1>8, <1>9, <1>10, SeenChatsIs, SeenChatsIsThen
  <2> QED  BY <1>6, <2>1 DEF CutAlike
<1>11. Promised!Expire(old, new)
  BY <1>9, <1>10 DEF Promised!Expire, CutOut
<1>12. SeenAsked' = SeenAsked
  BY <1>1 DEF SeenAsked, Busy
<1> QED  BY <1>1, <1>7, <1>8, <1>11, <1>12, ExpiresAs

\* What a user asks.
LEMMA UsersPromise ==
  ASSUME "Overlap" \notin Allow, "TwinDrops" \notin Allow, "EmptyChats" \notin Allow, Sound, Sound', ShowsInv, ShowsInv', Users
  PROVE Promises
<1>1. PICK chat \in Threads :
        \/ \E p \in Providers : Begin(chat, p)
        \/ StartTurn(chat)
        \/ \E x \in Calls :
             \/ \E noop \in BOOLEAN : AskSwitch(x, chat, noop)
             \/ AskWholeFork(x, chat)
             \/ \E i \in DOMAIN SegmentsOf(chat), k \in 0 .. MaxTurn :
                  AskRevert(x, chat, i, k) \/ \E before \in BOOLEAN : AskFork(x, chat, i, k, before)
             \/ AskDelete(x, chat)
  BY DEF Users
<1>2. ASSUME NEW x \in Calls,
             AskWholeFork(x, chat) \/ \E i \in DOMAIN SegmentsOf(chat), k \in 0 .. MaxTurn :
               AskRevert(x, chat, i, k) \/ \E before \in BOOLEAN : AskFork(x, chat, i, k, before)
      PROVE \E what \in {"fork", "revert"} : \E at, count, drop : AsksUpTo(x, what, chat, at, count, drop)
  BY <1>2, AskWholeForkIs, AskForkIs, AskRevertIs
<1>3. ASSUME NEW x \in Calls, \E what \in {"fork", "revert"} : \E at, count, drop : AsksUpTo(x, what, chat, at, count, drop)
      PROVE Promises
  BY <1>3, AskUpToPromises
<1> QED  BY <1>1, <1>2, <1>3, BeginPromises, StartTurnPromises, AskSwitchPromises, AskDeletePromises

\* What the gateway does of it.
LEMMA GatewayPromises ==
  ASSUME "LateFailures" \notin Allow, Sound, Sound', ShowsInv, ShowsInv', MadeHidden, Gateway PROVE Promises
<1>1. PICK x \in Calls :
        \/ \E t \in Threads : CreateBackend(x, t) \/ CopyThread(x, t)
        \/ SetLineage(x) \/ StartSwitched(x) \/ FailSwitch(x)
        \/ ListFork(x)
        \/ RevertThread(x) \/ RevertLineage(x) \/ Discard(x)
        \/ DeleteOnly(x) \/ DeleteSegment(x) \/ DeleteLineage(x)
        \/ Refuse(x)
  BY DEF Gateway
<1> QED  BY <1>1, CreateBackendPromises, CopyThreadPromises, SetLineagePromises, StartSwitchedPromises, FailSwitchPromises,
            ListForkPromises, RevertThreadPromises, RevertLineagePromises, DiscardPromises, DeleteOnlyPromises,
            DeleteSegmentPromises, DeleteLineagePromises, RefusePromises

LEMMA StepPromises ==
  ASSUME "Overlap" \notin Allow, "TwinDrops" \notin Allow, "LateFailures" \notin Allow, "EmptyChats" \notin Allow,
         Sound, Sound', ShowsInv, ShowsInv', MadeHidden, [Next]_vars, ~Restart
  PROVE Promises
<1>1. CASE UNCHANGED vars
  <2>1. UNCHANGED <<provider, native, lineages, newBackends, calls, noops, run>>
    BY <1>1 DEF vars
  <2>2. SeenAsked' = SeenAsked
    BY <2>1 DEF SeenAsked, Busy
  <2>3. ASSUME NEW c \in Threads PROVE Alike(c)
    <3>1. CASE c \notin DOMAIN provider
      <4>1. ~Visible(c) /\ ~Visible(c)'
        BY <2>1, <3>1, UnusedUnseen, UnusedUnseenThen DEF Sound
      <4> QED  BY <4>1, UnseenAlike
    <3>2. CASE c \in DOMAIN provider
      <4>1. PassesSame(c)
        BY <2>1, AllStay
      <4>2. (Known(c)' <=> Known(c)) /\ (Deleting(c)' <=> Deleting(c)) /\ SegmentsOf(c)' = SegmentsOf(c)
        BY <2>1, <4>1, KnownStays DEF Deleting, SegmentsOf
      <4>3. StillAs(c) /\ NoopsGrow
        BY <2>1 DEF StillAs, Same, NoopsGrow
      <4> QED  BY <2>1, <3>2, <4>2, <4>3, QuietAlike
    <3> QED  BY <3>1, <3>2
  <2>4. SeenChats' = SeenChats
    BY <2>3, SeenSame
  <2> QED  BY <2>1, <2>2, <2>4, StuttersAs
<1>2. CASE \E thread \in Threads : CleanUp(thread)
  BY <1>2, CleanUpPromises
<1> QED  BY <1>1, <1>2, UsersPromise, GatewayPromises DEF Next

\* What switches make stays hidden as long as the gateway runs.
HidesMade(next) == next = Idle \/ next.what # "switch" \/ next.made \subseteq newBackends'
LEMMA HidesOn ==
  ASSUME ListedInv, MadeHidden, NEW x, NEW next, Goes(x, next), newBackends \subseteq newBackends', HidesMade(next)
  PROVE MadeHidden'
<1>1. ASSUME NEW y \in Busy', calls'[y].what = "switch" PROVE calls'[y].made \subseteq newBackends'
  <2>1. y \in Calls /\ calls'[y] # Idle
    BY <1>1 DEF Busy
  <2>2. CASE y = x
    BY <1>1, <2>1, <2>2, GoesAlone DEF HidesMade
  <2>3. CASE y # x
    <3>1. calls'[y] = calls[y] /\ y \in Busy
      BY <2>1, <2>3, GoesAlone DEF Busy
    <3>2. calls[y].made \subseteq newBackends
      BY <1>1, <3>1 DEF MadeHidden
    <3> QED  BY <3>1, <3>2
  <2> QED  BY <2>2, <2>3
<1> QED  BY <1>1 DEF MadeHidden

\* A request that goes on keeps what it does and what it made.
LEMMA HidesNext ==
  ASSUME Sound, NEW x \in Busy, NEW call, call = calls[x], NEW step, NEW at
  PROVE /\ [call EXCEPT !.step = step].what = call.what /\ [call EXCEPT !.step = step].made = call.made
        /\ [call EXCEPT !.step = step, !.at = at].what = call.what
        /\ [call EXCEPT !.at = at].what = call.what
        /\ \A made : [call EXCEPT !.step = step, !.made = made].what = call.what
        /\ \A made, segs : [call EXCEPT !.step = step, !.made = made, !.segs = segs].made = made
<1>1. call \in Requests(call.want)
  BY DEF Sound, ListedInv, CallsOK, CallOK, CallTyped
<1> QED  BY <1>1 DEF Requests

\* A request makes nothing at first.
LEMMA AskedMakes ==
  ASSUME NEW x \in Calls, NEW chat
  PROVE /\ \A what, segs : Take(x, what, chat, segs) => \E next : Goes(x, next) /\ next.made = {}
        /\ \A what, at, count, drop :
             TakeUpTo(x, what, chat, at, count, drop) => \E next : Goes(x, next) /\ next.made = {}
<1>1. ASSUME NEW what, NEW segs, NEW at, NEW count, NEW drop, NEW want, NEW next,
             next = [what |-> what, chat |-> chat, segs |-> segs, step |-> "asked",
                     at |-> at, count |-> count, drop |-> drop, made |-> {}, want |-> want],
             calls' = [calls EXCEPT ![x] = next]
      PROVE Goes(x, next) /\ next.made = {}
  BY <1>1 DEF Goes
<1>2. ASSUME NEW what, NEW segs, Take(x, what, chat, segs) PROVE \E next : Goes(x, next) /\ next.made = {}
  <2>1. PICK next : next = [what |-> what, chat |-> chat, segs |-> segs, step |-> "asked",
                            at |-> 0, count |-> 0, drop |-> FALSE, made |-> {}, want |-> 0]
    OBVIOUS
  <2>2. calls' = [calls EXCEPT ![x] = next]
    BY <1>2, <2>1 DEF Take
  <2> QED  BY <1>1, <2>1, <2>2
<1>3. ASSUME NEW what, NEW at, NEW count, NEW drop, TakeUpTo(x, what, chat, at, count, drop)
      PROVE \E next : Goes(x, next) /\ next.made = {}
  <2>1. PICK want : want = SaidUpTo(SegmentsOf(chat), at, count)
    OBVIOUS
  <2>2. PICK next : next = [what |-> what, chat |-> chat, segs |-> SegmentsOf(chat), step |-> "asked",
                            at |-> at, count |-> count, drop |-> drop, made |-> {}, want |-> want]
    OBVIOUS
  <2>3. calls' = [calls EXCEPT ![x] = next]
    BY <1>3, <2>1, <2>2 DEF TakeUpTo
  <2> QED  BY <1>1, <2>2, <2>3
<1> QED  BY <1>2, <1>3

LEMMA HiddenKeeps == ASSUME Sound, MadeHidden, [Next]_vars, ~Restart PROVE MadeHidden'
<1>1. ASSUME calls' = calls, newBackends' = newBackends PROVE MadeHidden'
  BY <1>1 DEF MadeHidden, Busy
<1>2. ASSUME NEW x \in Calls, NEW next, Goes(x, next), newBackends' = newBackends, HidesMade(next) PROVE MadeHidden'
  BY <1>2, HidesOn DEF Sound
<1>3. CASE Users
  <2>1. PICK chat \in Threads :
          \/ \E p \in Providers : Begin(chat, p)
          \/ StartTurn(chat)
          \/ \E x \in Calls :
               \/ \E noop \in BOOLEAN : AskSwitch(x, chat, noop)
               \/ AskWholeFork(x, chat)
               \/ \E i \in DOMAIN SegmentsOf(chat), k \in 0 .. MaxTurn :
                    AskRevert(x, chat, i, k) \/ \E before \in BOOLEAN : AskFork(x, chat, i, k, before)
               \/ AskDelete(x, chat)
    BY <1>3 DEF Users
  <2>2. CASE (\E p \in Providers : Begin(chat, p)) \/ StartTurn(chat)
    <3>1. calls' = calls /\ newBackends' = newBackends
      BY <2>2 DEF Begin, StartTurn
    <3> QED  BY <1>1, <3>1
  <2>3. ASSUME NEW x \in Calls,
               \/ \E noop \in BOOLEAN : AskSwitch(x, chat, noop)
               \/ AskWholeFork(x, chat)
               \/ \E i \in DOMAIN SegmentsOf(chat), k \in 0 .. MaxTurn :
                    AskRevert(x, chat, i, k) \/ \E before \in BOOLEAN : AskFork(x, chat, i, k, before)
               \/ AskDelete(x, chat)
        PROVE MadeHidden'
    <3>1. newBackends' = newBackends /\ \E next : Goes(x, next) /\ next.made = {}
      <4>1. CASE \E noop \in BOOLEAN : AskSwitch(x, chat, noop)
        <5>1. newBackends' = newBackends /\ \E segs : Take(x, "switch", chat, segs)
          BY <4>1 DEF AskSwitch
        <5> QED  BY <5>1, AskedMakes
      <4>2. CASE AskDelete(x, chat)
        BY <4>2, AskedMakes DEF AskDelete
      <4>3. CASE AskWholeFork(x, chat)
        BY <4>3, AskedMakes DEF AskWholeFork
      <4>4. CASE \E i \in DOMAIN SegmentsOf(chat), k \in 0 .. MaxTurn : AskRevert(x, chat, i, k)
        <5>1. newBackends' = newBackends /\ \E at, count, drop : TakeUpTo(x, "revert", chat, at, count, drop)
          BY <4>4 DEF AskRevert
        <5> QED  BY <5>1, AskedMakes
      <4>5. CASE \E i \in DOMAIN SegmentsOf(chat), k \in 0 .. MaxTurn : \E before \in BOOLEAN : AskFork(x, chat, i, k, before)
        <5>1. newBackends' = newBackends /\ \E at, count, drop : TakeUpTo(x, "fork", chat, at, count, drop)
          BY <4>5 DEF AskFork
        <5> QED  BY <5>1, AskedMakes
      <4> QED  BY <2>3, <4>1, <4>2, <4>3, <4>4, <4>5
    <3>2. PICK next : Goes(x, next) /\ next.made = {}
      BY <3>1
    <3> QED  BY <1>2, <3>1, <3>2 DEF HidesMade
  <2> QED  BY <2>1, <2>2, <2>3
<1>4. CASE Gateway
  <2>1. PICK x \in Calls :
          \/ \E t \in Threads : CreateBackend(x, t) \/ CopyThread(x, t)
          \/ SetLineage(x) \/ StartSwitched(x) \/ FailSwitch(x)
          \/ ListFork(x)
          \/ RevertThread(x) \/ RevertLineage(x) \/ Discard(x)
          \/ DeleteOnly(x) \/ DeleteSegment(x) \/ DeleteLineage(x)
          \/ Refuse(x)
    BY <1>4 DEF Gateway
  <2>2. PICK call : call = calls[x]
    OBVIOUS
  <2>3. HidesMade(Idle)
    BY DEF HidesMade
  <2>4. CASE \E t \in Threads : CreateBackend(x, t)
    <3>1. PICK t \in Threads : CreateBackend(x, t)
      BY <2>4
    <3>2. PICK segs : segs = Append(Front(call.segs), Segment(Last(call.segs).thread, LastTurn(x)))
      OBVIOUS
    <3>3. PICK next : next = [call EXCEPT !.step = "ready", !.made = {t}, !.segs = segs]
      OBVIOUS
    <3>4. Goes(x, next) /\ newBackends' = newBackends \cup {t} /\ x \in Busy
      BY <2>2, <3>1, <3>2, <3>3, DoingBusy DEF CreateBackend, Goes
    <3>5. HidesMade(next)
      <4>1. next.made = {t}
        BY <2>2, <3>3, <3>4, HidesNext
      <4> QED  BY <3>4, <4>1 DEF HidesMade
    <3> QED  BY <3>4, <3>5, HidesOn DEF Sound
  <2>5. CASE \E t \in Threads : CopyThread(x, t)
    <3>1. PICK t \in Threads : CopyThread(x, t)
      BY <2>5
    <3>2. PICK next : next = [call EXCEPT !.step = "ready", !.made = {t}]
      OBVIOUS
    <3>3. Goes(x, next) /\ newBackends' = newBackends /\ x \in Busy /\ call.what = "fork"
      BY <2>2, <3>1, <3>2, DoingBusy DEF CopyThread, Goes, Doing
    <3>4. next.what = "fork"
      BY <2>2, <3>2, <3>3, HidesNext
    <3> QED  BY <1>2, <3>3, <3>4 DEF HidesMade
  <2>6. CASE SetLineage(x)
    <3>1. PICK next : next = [call EXCEPT !.step = "set"]
      OBVIOUS
    <3>2. Goes(x, next) /\ newBackends' = newBackends /\ x \in Busy /\ call.what = "switch"
      BY <2>2, <2>6, <3>1, DoingBusy DEF SetLineage, Goes, Doing
    <3>3. call.made \subseteq newBackends
      BY <2>2, <3>2 DEF MadeHidden
    <3>4. next.made = call.made
      BY <2>2, <3>1, <3>2, HidesNext
    <3> QED  BY <1>2, <3>2, <3>3, <3>4 DEF HidesMade
  <2>7. CASE StartSwitched(x) \/ FailSwitch(x) \/ ListFork(x) \/ DeleteOnly(x) \/ DeleteLineage(x) \/ Refuse(x)
    <3>1. Goes(x, Idle) /\ newBackends' = newBackends
      BY <2>7 DEF StartSwitched, FailSwitch, ListFork, DeleteOnly, DeleteLineage, Refuse, Ends, Goes
    <3> QED  BY <1>2, <2>3, <3>1
  <2>8. CASE RevertThread(x)
    <3>1. PICK next : next = [call EXCEPT !.step = "ready"]
      OBVIOUS
    <3>2. Goes(x, next) /\ newBackends' = newBackends /\ x \in Busy /\ call.what = "revert"
      BY <2>2, <2>8, <3>1, DoingBusy DEF RevertThread, Goes, Doing
    <3>3. next.what = "revert"
      BY <2>2, <3>1, <3>2, HidesNext
    <3> QED  BY <1>2, <3>2, <3>3 DEF HidesMade
  <2>9. CASE DeleteSegment(x)
    <3>1. PICK next : next = [call EXCEPT !.at = call.at + 1]
      OBVIOUS
    <3>2. Goes(x, next) /\ newBackends' = newBackends /\ x \in Busy /\ call.what = "delete"
      BY <2>2, <2>9, <3>1, DoingBusy DEF DeleteSegment, Goes, Doing
    <3>3. next.what = "delete"
      BY <2>2, <3>1, <3>2, HidesNext
    <3> QED  BY <1>2, <3>2, <3>3 DEF HidesMade
  <2>10. CASE RevertLineage(x) \/ Discard(x)
    <3>1. PICK at : GoesOn(x, at)
      BY <2>10 DEF RevertLineage, Discard
    <3>2. newBackends' = newBackends /\ x \in Busy /\ call.what = "revert"
      BY <2>2, <2>10, DoingBusy DEF RevertLineage, Discard, Doing
    <3>3. CASE Ends(x)
      BY <1>2, <2>3, <3>2, <3>3 DEF Ends, Goes
    <3>4. CASE ~Ends(x)
      <4>1. PICK next : next = [call EXCEPT !.step = "set", !.at = at]
        OBVIOUS
      <4>2. Goes(x, next)
        BY <2>2, <3>1, <3>4, <4>1 DEF GoesOn, Goes
      <4>3. next.what = "revert"
        BY <2>2, <3>2, <4>1, HidesNext
      <4> QED  BY <1>2, <3>2, <4>2, <4>3 DEF HidesMade
    <3> QED  BY <3>3, <3>4
  <2> QED  BY <2>1, <2>4, <2>5, <2>6, <2>7, <2>8, <2>9, <2>10
<1>5. CASE (\E thread \in Threads : CleanUp(thread)) \/ UNCHANGED vars
  <2>1. calls' = calls /\ newBackends' = newBackends
    BY <1>5 DEF CleanUp, vars
  <2> QED  BY <1>1, <2>1
<1> QED  BY <1>3, <1>4, <1>5 DEF Next

-----------------------------------------------------------------------------
(* What is promised of one run *)

LEMMA PromiseStarts == ASSUME Init PROVE Promised!Init
<1>1. DOMAIN native = {} /\ run = 1 /\ \A x \in Calls : calls[x] = Idle
  BY DEF Init
<1>2. SeenAsked = {}
  BY <1>1 DEF SeenAsked, Busy
<1>3. DOMAIN SeenChats = {}
  <2>1. ASSUME NEW c PROVE ~Seen(c)
    BY <1>1 DEF Seen
  <2> QED  BY <2>1, SeenChatsIs
<1>4. PICK seen : seen = SeenChats
  OBVIOUS
<1>5. seen = << >>
  <2>1. seen = [c \in {} |-> Shown(c)]
    BY <1>3, <1>4, SeenChatsIs
  <2>2. DOMAIN seen = {}
    BY <2>1
  <2> QED  BY <2>1, <2>2
<1> QED  BY <1>1, <1>2, <1>4, <1>5 DEF Promised!Init

\* Within one run of the gateway, and as long as a chat's requests wait for one another, no thread that another lineage
\* lists is rolled back or deleted natively, no lineage is taken out from under another's, no switch fails after its
\* lineage was set, and none is forked from before its first turn: each chat keeps one history, which nothing but what
\* is asked of it changes, and as asked.
THEOREM HistoryIsPromised ==
  ASSUME "Overlap" \notin Allow, "SharedEdits" \notin Allow, "TwinDrops" \notin Allow, "Collisions" \notin Allow,
         "LateFailures" \notin Allow, "TornCrashes" \notin Allow, "EmptyChats" \notin Allow, MaxRun = 1
  PROVE Spec => KeepsPromise
<1> DEFINE Inv == Sound /\ ShowsInv /\ MadeHidden
<1>1. Init => Inv /\ Promised!Init
  <2>1. Init => MadeHidden
    BY DEF Init, MadeHidden, Busy
  <2> QED  BY <2>1, ShowsStarts, PromiseStarts
<1>2. ASSUME Inv, [Next]_vars PROVE Inv' /\ Promises
  <2>1. ~Restart
    <3>1. run \in 1 .. MaxRun
      BY <1>2 DEF Sound, ListedInv, ThreadsOK
    <3> QED  BY <3>1 DEF Restart
  <2>2. Sound' /\ ShowsInv'
    BY <1>2, <2>1, SoundKeeps, ShowsKeeps
  <2>3. MadeHidden'
    BY <1>2, <2>1, HiddenKeeps
  <2> QED  BY <1>2, <2>1, <2>2, <2>3, StepPromises
<1>3. Promises => [Promised!Next]_<<SeenChats, SeenAsked, run>>
  BY DEF Promises
<1> QED  BY <1>1, <1>2, <1>3, PTL DEF Spec, KeepsPromise, Promised!Spec
=============================================================================
