---------------------------- MODULE Loops_proofs ----------------------------
(***************************************************************************)
(* Loops of the code are modelled as functions of the number of turns made *)
(* so far.  These lemmas say that such a function exists, and that what    *)
(* holds before the first turn and is kept by each of them holds after the *)
(* last.  Their parameters are sets and functions, no operators, so that   *)
(* the provers can instantiate them.                                       *)
(***************************************************************************)
EXTENDS Integers, Sequences, SequencesExt, SequenceTheorems, WellFoundedInduction, TLAPS

\* A set of numbers has a least one.
LEMMA LeastOne ==
    ASSUME NEW T, T \subseteq Nat, T # {}
    PROVE  \E x \in T : \A y \in T : x <= y
<1> DEFINE R == OpToRel(<, Nat)
<1>1. IsWellFoundedOn(R, Nat)
  BY NatLessThanWellFounded
<1>2. PICK x \in T : \A y \in T : <<y, x>> \notin R
  <2> HIDE DEF R
  <2> QED
    BY <1>1, WFMin
<1>3. \A y \in T : ~(y < x)
  BY <1>2 DEF OpToRel
<1> QED
  BY <1>3

\* Induction over the turns 1 .. N of a loop; Good holds the numbers of turns
\* after which all is well.
LEMMA EveryTurn ==
    ASSUME NEW N \in Nat, NEW Good, 0 \in Good,
           \A n \in 1 .. N : n - 1 \in Good => n \in Good
    PROVE  \A n \in 0 .. N : n \in Good
<1> DEFINE Bad == {n \in 0 .. N : n \notin Good}
<1> SUFFICES ASSUME Bad # {}
             PROVE  FALSE
  OBVIOUS
<1>1. PICK x \in Bad : \A y \in Bad : x <= y
  <2>1. Bad \subseteq Nat
    OBVIOUS
  <2> HIDE DEF Bad
  <2> QED
    BY <2>1, LeastOne
<1>2. x - 1 \in 0 .. N /\ x \in 1 .. N
  BY <1>1
<1>3. x - 1 \in Good
  BY <1>1, <1>2
<1> QED
  BY <1>1, <1>2, <1>3

\* The state of a loop after n turns.
Turns(f, N, start, turn) ==
    f = [n \in 0 .. N |-> IF n = 0 THEN start ELSE turn[<<f[n - 1], n>>]]

\* A loop whose turns lead from states to states has a state after each turn.
LEMMA TurnsExist ==
    ASSUME NEW N \in Nat, NEW S, NEW start \in S, NEW turn \in [S \X (1 .. N) -> S]
    PROVE  \E f \in [0 .. N -> S] : Turns(f, N, start, turn)
<1> DEFINE Good == {k \in 0 .. N : \E f \in [0 .. k -> S] : Turns(f, k, start, turn)}
<1>1. 0 \in Good
  <2> DEFINE f == [n \in 0 .. 0 |-> start]
  <2>1. f \in [0 .. 0 -> S] /\ Turns(f, 0, start, turn)
    BY DEF Turns
  <2> QED
    BY <2>1
<1>2. ASSUME NEW k \in 1 .. N, k - 1 \in Good
      PROVE  k \in Good
  <2>1. PICK f \in [0 .. (k - 1) -> S] : Turns(f, k - 1, start, turn)
    BY <1>2
  <2> DEFINE g == [n \in 0 .. k |-> IF n = k THEN turn[<<f[k - 1], k>>] ELSE f[n]]
  <2>2. f[k - 1] \in S /\ <<f[k - 1], k>> \in S \X (1 .. N)
    OBVIOUS
  <2>3. g \in [0 .. k -> S]
    BY <2>2
  <2>4. \A n \in 0 .. k : g[n] = IF n = 0 THEN start ELSE turn[<<g[n - 1], n>>]
    <3> TAKE n \in 0 .. k
    <3>1. CASE n = k
      <4>1. g[n] = turn[<<f[k - 1], k>>] /\ g[n - 1] = f[k - 1]
        BY <3>1
      <4> QED
        BY <3>1, <4>1
    <3>2. CASE n # k
      <4>1. f[n] = IF n = 0 THEN start ELSE turn[<<f[n - 1], n>>]
        BY <2>1, <3>2 DEF Turns
      <4>2. g[n] = f[n] /\ (n # 0 => g[n - 1] = f[n - 1])
        BY <3>2
      <4> QED
        BY <4>1, <4>2
    <3> QED
      BY <3>1, <3>2
  <2>5. Turns(g, k, start, turn)
    BY <2>4 DEF Turns
  <2> QED
    BY <2>3, <2>5
<1>3. \A n \in 0 .. N : n \in Good
  <2> HIDE DEF Good
  <2> QED
    BY <1>1, <1>2, EveryTurn
<1> QED
  BY <1>3

\* The same for a loop whose first turn only sets the state.
TurnsFromOne(g, N, first, turn) ==
    g = [n \in 1 .. N |-> IF n = 1 THEN first ELSE turn[<<g[n - 1], n>>]]

LEMMA TurnsExistFromOne ==
    ASSUME NEW N \in Nat \ {0}, NEW S, NEW first \in S, NEW turn \in [S \X (2 .. N) -> S]
    PROVE  \E g \in [1 .. N -> S] : TurnsFromOne(g, N, first, turn)
<1> DEFINE M == N - 1
           next == [a \in S \X (1 .. M) |-> turn[<<a[1], a[2] + 1>>]]
<1>1. M \in Nat /\ \A n \in 1 .. M : n + 1 \in 2 .. N
  OBVIOUS
<1>2. next \in [S \X (1 .. M) -> S]
  BY <1>1
<1>3. PICK f \in [0 .. M -> S] : Turns(f, M, first, next)
  <2> HIDE DEF M, next
  <2> QED
    BY <1>1, <1>2, TurnsExist
<1>4. \A n \in 1 .. M : f[n] = turn[<<f[n - 1], n + 1>>]
  <2> SUFFICES ASSUME NEW n \in 1 .. M
               PROVE  f[n] = turn[<<f[n - 1], n + 1>>]
    OBVIOUS
  <2>1. f[n] = next[<<f[n - 1], n>>]
    <3> HIDE DEF M, next
    <3> QED
      BY <1>1, <1>3 DEF Turns
  <2>2. <<f[n - 1], n>> \in S \X (1 .. M)
    OBVIOUS
  <2> QED
    BY <2>1, <2>2
<1> DEFINE g == [n \in 1 .. N |-> f[n - 1]]
<1>5. g \in [1 .. N -> S]
  OBVIOUS
<1>6. \A n \in 1 .. N : g[n] = IF n = 1 THEN first ELSE turn[<<g[n - 1], n>>]
  <2> SUFFICES ASSUME NEW n \in 1 .. N
               PROVE  g[n] = IF n = 1 THEN first ELSE turn[<<g[n - 1], n>>]
    OBVIOUS
  <2>1. CASE n = 1
    BY <1>3, <2>1 DEF Turns
  <2>2. CASE n # 1
    <3>1. n - 1 \in 1 .. M /\ n - 1 \in 1 .. N
      BY <2>2
    <3>2. f[n - 1] = turn[<<f[(n - 1) - 1], (n - 1) + 1>>]
      BY <1>4, <3>1
    <3>3. (n - 1) + 1 = n /\ g[n] = f[n - 1] /\ g[n - 1] = f[(n - 1) - 1]
      BY <3>1
    <3> QED
      BY <2>2, <3>2, <3>3
  <2> QED
    BY <2>1, <2>2
<1>7. TurnsFromOne(g, N, first, turn)
  <2> HIDE DEF next
  <2> QED
    BY <1>5, <1>6 DEF TurnsFromOne
<1> QED
  BY <1>5, <1>7

-----------------------------------------------------------------------------
(* What such loops do to the elements of a sequence.                       *)

\* Append adds one element.
LEMMA AppendSet ==
    ASSUME NEW E, NEW s \in Seq(E), NEW e \in E
    PROVE  /\ Append(s, e) \in Seq(E)
           /\ Len(s) \in Nat /\ Len(Append(s, e)) = Len(s) + 1
           /\ ToSet(Append(s, e)) = ToSet(s) \cup {e}
<1>1. /\ Append(s, e) \in Seq(E) /\ Len(s) \in Nat /\ Len(Append(s, e)) = Len(s) + 1
      /\ DOMAIN s = 1 .. Len(s) /\ DOMAIN Append(s, e) = 1 .. (Len(s) + 1)
  OBVIOUS
<1>2. /\ \A i \in 1 .. Len(s) : Append(s, e)[i] = s[i]
      /\ Append(s, e)[Len(s) + 1] = e
  OBVIOUS
<1>3. \A x \in ToSet(Append(s, e)) : x \in ToSet(s) \cup {e}
  BY <1>1, <1>2 DEF ToSet
<1>4. \A x \in ToSet(s) \cup {e} : x \in ToSet(Append(s, e))
  BY <1>1, <1>2 DEF ToSet
<1> QED
  BY <1>1, <1>3, <1>4

\* An element is removed by putting the last one in its place.
LEMMA SwapOut ==
    ASSUME NEW E, NEW s \in Seq(E), NEW i \in 1 .. Len(s)
    PROVE  LET r == Front([s EXCEPT ![i] = Last(s)])
           IN  /\ r \in Seq(E) /\ Len(r) = Len(s) - 1 /\ Len(s) \in Nat
               /\ \A j \in 1 .. Len(r) : r[j] = IF j = i THEN s[Len(s)] ELSE s[j]
<1> DEFINE L == Len(s)
           w == [s EXCEPT ![i] = Last(s)]
<1>1. L \in Nat /\ i \in 1 .. L /\ L \in 1 .. L /\ \A j \in 1 .. L : s[j] \in E
  OBVIOUS
<1>2. w = [j \in 1 .. L |-> IF j = i THEN s[L] ELSE s[j]]
  BY DEF Last
<1>3. w \in Seq(E) /\ Len(w) = L /\ \A j \in 1 .. L : w[j] = IF j = i THEN s[L] ELSE s[j]
  <2>1. w \in [1 .. L -> E]
    BY <1>1, <1>2
  <2>2. w \in Seq(E) /\ Len(w) = L
    BY <1>1, <2>1
  <2> QED
    BY <1>2, <2>2
<1> HIDE DEF w, L
<1> DEFINE r == SubSeq(w, 1, L - 1)
<1>4. r \in Seq(E) /\ Len(r) = L - 1 /\ \A j \in 1 .. (L - 1) : r[j] = w[j]
  BY <1>1, <1>3
<1>5. Front(w) = r
  BY <1>3 DEF Front
<1> HIDE DEF r
<1>6. \A j \in 1 .. Len(r) : r[j] = IF j = i THEN s[L] ELSE s[j]
  BY <1>1, <1>3, <1>4
<1> QED
  BY <1>1, <1>4, <1>5, <1>6 DEF w, L

\* An element is removed and those behind it move up.
LEMMA RemoveAtDrops ==
    ASSUME NEW E, NEW s \in Seq(E), NEW k \in 1 .. Len(s)
    PROVE  /\ RemoveAt(s, k) \in Seq(E) /\ Len(RemoveAt(s, k)) = Len(s) - 1 /\ Len(s) \in Nat
           /\ \A j \in 1 .. (Len(s) - 1) :
                RemoveAt(s, k)[j] = IF j < k THEN s[j] ELSE s[j + 1]
<1> DEFINE a == SubSeq(s, 1, k - 1)
           b == SubSeq(s, k + 1, Len(s))
<1>1. /\ a \in Seq(E) /\ Len(a) = k - 1 /\ \A j \in 1 .. (k - 1) : a[j] = s[j]
  OBVIOUS
<1>2. /\ b \in Seq(E) /\ Len(b) = Len(s) - k /\ \A j \in 1 .. (Len(s) - k) : b[j] = s[j + k]
  OBVIOUS
<1>3. RemoveAt(s, k) = a \o b
  BY DEF RemoveAt
<1>4. Len(s) \in Nat /\ k \in 1 .. Len(s)
  OBVIOUS
<1> HIDE DEF a, b
<1>5. a \o b \in Seq(E) /\ Len(a \o b) = Len(s) - 1
  <2>1. a \o b \in Seq(E) /\ Len(a \o b) = Len(a) + Len(b)
    <3>1. a \in Seq(E) /\ b \in Seq(E)
      BY <1>1, <1>2
    <3> QED
      BY <3>1, ConcatProperties
  <2> QED
    BY <1>1, <1>2, <1>4, <2>1
<1>6. ASSUME NEW j \in 1 .. (Len(s) - 1)
      PROVE  (a \o b)[j] = IF j < k THEN s[j] ELSE s[j + 1]
  <2>1. CASE j < k
    BY <1>1, <1>2, <1>4, <2>1
  <2>2. CASE ~(j < k)
    <3>1. j - (k - 1) \in 1 .. (Len(s) - k) /\ (j - (k - 1)) + k = j + 1
      BY <1>4, <2>2
    <3>2. (a \o b)[j] = b[j - (k - 1)]
      BY <1>1, <1>2, <1>4, <2>2, <3>1
    <3> QED
      BY <1>2, <2>2, <3>1, <3>2
  <2> QED
    BY <2>1, <2>2
<1> QED
  BY <1>3, <1>4, <1>5, <1>6

\* The sequences over E, under a name the provers do not look into.
Strings(E) == Seq(E)

\* The recursion of FlattenSeq.
LEMMA FlattenTurns ==
    ASSUME NEW E, NEW q \in Seq(Strings(E)), q # << >>
    PROVE  \E g \in [1 .. Len(q) -> Strings(E)] :
              /\ FlattenSeq(q) = g[Len(q)] /\ g[1] = q[1]
              /\ \A i \in 2 .. Len(q) : g[i] = g[i - 1] \o q[i]
<1> DEFINE N == Len(q)
           turn == [a \in Strings(E) \X (2 .. N) |-> a[1] \o q[a[2]]]
           Loop(f) == f = [i \in 1 .. N |-> IF i = 1 THEN q[i] ELSE f[i - 1] \o q[i]]
           flatten == CHOOSE f : Loop(f)
<1>1. N \in Nat \ {0} /\ \A i \in 1 .. N : q[i] \in Strings(E)
  OBVIOUS
<1>2. FlattenSeq(q) = flatten[N]
  BY <1>1 DEF FlattenSeq
<1>3. \A s, t \in Strings(E) : s \o t \in Strings(E)
  BY DEF Strings
<1> HIDE DEF N
<1>4. turn \in [Strings(E) \X (2 .. N) -> Strings(E)]
  BY <1>1, <1>3
<1>5. PICK g \in [1 .. N -> Strings(E)] : TurnsFromOne(g, N, q[1], turn)
  <2> HIDE DEF turn
  <2>1. q[1] \in Strings(E)
    BY <1>1
  <2> QED
    BY <1>1, <1>4, <2>1, TurnsExistFromOne
<1>6. \A i \in 2 .. N : turn[<<g[i - 1], i>>] = g[i - 1] \o q[i]
  <2> SUFFICES ASSUME NEW i \in 2 .. N
               PROVE  turn[<<g[i - 1], i>>] = g[i - 1] \o q[i]
    OBVIOUS
  <2>1. i - 1 \in 1 .. N
    BY <1>1
  <2>2. <<g[i - 1], i>> \in Strings(E) \X (2 .. N)
    BY <2>1
  <2> QED
    BY <2>2
<1>7. Loop(g)
  <2>1. \A i \in 1 .. N : g[i] = IF i = 1 THEN q[i] ELSE g[i - 1] \o q[i]
    <3>1. \A i \in 1 .. N : g[i] = IF i = 1 THEN q[1] ELSE turn[<<g[i - 1], i>>]
      <4> HIDE DEF turn
      <4> QED
        BY <1>5 DEF TurnsFromOne
    <3>2. \A i \in 1 .. N : i # 1 => i \in 2 .. N
      BY <1>1
    <3> HIDE DEF turn
    <3> QED
      BY <1>6, <3>1, <3>2
  <2> QED
    BY <2>1
<1>8. Loop(flatten)
  BY <1>7
<1> HIDE DEF flatten
<1>9. flatten[1] = q[1] /\ \A i \in 2 .. N : flatten[i] = flatten[i - 1] \o q[i]
  <2>1. 1 \in 1 .. N /\ \A i \in 2 .. N : i \in 1 .. N /\ i # 1
    BY <1>1
  <2>2. \A i \in 1 .. N : flatten[i] = IF i = 1 THEN q[i] ELSE flatten[i - 1] \o q[i]
    BY <1>8
  <2> QED
    BY <2>1, <2>2
<1>10. flatten \in [1 .. N -> Strings(E)]
  <2> DEFINE Good == {k \in 0 .. N : k > 0 => flatten[k] \in Strings(E)}
  <2>1. 0 \in Good
    BY <1>1
  <2>2. ASSUME NEW i \in 1 .. N, i - 1 \in Good
        PROVE  i \in Good
    <3>1. CASE i = 1
      BY <1>1, <1>9, <3>1
    <3>2. CASE i # 1
      <4>1. i \in 2 .. N /\ i - 1 > 0
        BY <1>1, <3>2
      <4>2. flatten[i - 1] \in Strings(E) /\ q[i] \in Strings(E)
        BY <1>1, <2>2, <4>1
      <4>3. flatten[i - 1] \o q[i] \in Strings(E)
        BY <1>3, <4>2
      <4>4. flatten[i] = flatten[i - 1] \o q[i]
        BY <1>9, <4>1
      <4>5. flatten[i] \in Strings(E)
        BY <4>3, <4>4
      <4> QED
        BY <1>1, <4>5
    <3> QED
      BY <3>1, <3>2
  <2>3. \A i \in 0 .. N : i \in Good
    <3> HIDE DEF Good
    <3> QED
      BY <1>1, <2>1, <2>2, EveryTurn
  <2>4. \A i \in 1 .. N : flatten[i] \in Strings(E)
    BY <2>3
  <2> QED
    BY <1>8, <2>4
<1> QED
  BY <1>2, <1>9, <1>10 DEF N

LEMMA FlattenEmpty == FlattenSeq(<< >>) = << >>
  BY DEF FlattenSeq

\* FlattenSeq, taken from the front.
LEMMA FlattenCons ==
    ASSUME NEW E, NEW q \in Seq(Strings(E)), q # << >>
    PROVE  FlattenSeq(q) \in Strings(E) /\ FlattenSeq(q) = Head(q) \o FlattenSeq(Tail(q))
<1> DEFINE t == Tail(q)
           N == Len(t)
<1>1. /\ t \in Seq(Strings(E)) /\ N \in Nat /\ Len(q) = N + 1 /\ Head(q) = q[1] /\ q[1] \in Strings(E)
      /\ \A i \in 1 .. N : t[i] = q[i + 1] /\ t[i] \in Strings(E)
      /\ t # << >> => N # 0
  <2> DEFINE S == Strings(E)
  <2>1. /\ t \in Seq(S) /\ Len(q) \in Nat /\ Len(q) # 0 /\ Head(q) = q[1] /\ q[1] \in S
        /\ Len(t) = Len(q) - 1 /\ \A i \in 1 .. Len(t) : t[i] = q[i + 1]
    <3> HIDE DEF S
    <3>1. q \in Seq(S) /\ q # << >>
      BY DEF S
    <3> QED
      BY <3>1, HeadTailProperties
  <2>2. \A i \in 1 .. N : t[i] \in S
    <3> HIDE DEF S, t
    <3> QED
      BY <2>1
  <2>3. t # << >> => N # 0
    <3> HIDE DEF S, t
    <3> QED
      BY <2>1
  <2> HIDE DEF t
  <2> QED
    BY <2>1, <2>2, <2>3
<1>2. PICK g \in [1 .. Len(q) -> Strings(E)] :
         /\ FlattenSeq(q) = g[Len(q)] /\ g[1] = q[1]
         /\ \A i \in 2 .. Len(q) : g[i] = g[i - 1] \o q[i]
  BY FlattenTurns
<1>3. FlattenSeq(q) \in Strings(E)
  BY <1>1, <1>2
<1>4. CASE t = << >>
  <2>1. N = 0 /\ FlattenSeq(t) = << >>
    BY <1>4, FlattenEmpty
  <2>2. q[1] \o << >> = q[1]
    BY <1>1 DEF Strings
  <2>3. FlattenSeq(q) = q[1]
    <3>1. Len(q) = 1
      <4> HIDE DEF t, N
      <4> QED
        BY <1>1, <2>1
    <3> HIDE DEF t, N
    <3> QED
      BY <1>2, <3>1
  <2> QED
    BY <1>1, <1>3, <2>1, <2>2, <2>3
<1>5. CASE t # << >>
  <2>1. PICK h \in [1 .. N -> Strings(E)] :
           /\ FlattenSeq(t) = h[N] /\ h[1] = t[1]
           /\ \A i \in 2 .. N : h[i] = h[i - 1] \o t[i]
    BY <1>1, <1>5, FlattenTurns
  <2> DEFINE joined(k) == q[1] \o h[k]
             Good == {k \in 0 .. N : k > 0 => g[k + 1] = joined(k)}
  <2> HIDE DEF t, N, joined
  <2>2. 0 \in Good
    BY <1>1
  <2>3. ASSUME NEW k \in 1 .. N, k - 1 \in Good
        PROVE  k \in Good
    <3>1. k + 1 \in 2 .. Len(q) /\ (k + 1) - 1 = k /\ (k - 1) + 1 = k
      BY <1>1
    <3>2. g[k + 1] = g[k] \o t[k]
      BY <1>1, <1>2, <3>1
    <3>3. CASE k = 1
      <4>1. g[1] = q[1] /\ h[1] = t[1]
        BY <1>2, <2>1
      <4>2. g[k + 1] = q[1] \o h[k]
        BY <3>2, <3>3, <4>1
      <4> QED
        BY <1>1, <4>2 DEF joined
    <3>4. CASE k # 1
      <4>1. k \in 2 .. N /\ k - 1 \in 1 .. N
        BY <1>1, <3>4
      <4>2. h[k] = h[k - 1] \o t[k]
        BY <2>1, <4>1
      <4>6. g[k] = q[1] \o h[k - 1]
        <5>1. g[k] = joined(k - 1)
          BY <1>1, <2>3, <3>1, <4>1
        <5> QED
          BY <5>1 DEF joined
      <4>3. h[k - 1] \in Strings(E)
        BY <2>1, <4>1
      <4>4. (q[1] \o h[k - 1]) \o t[k] = q[1] \o (h[k - 1] \o t[k])
        <5> DEFINE a == q[1]
                   b == h[k - 1]
                   c == t[k]
        <5>1. a \in Seq(E) /\ b \in Seq(E) /\ c \in Seq(E)
          BY <1>1, <4>3 DEF Strings
        <5> HIDE DEF a, b, c
        <5>2. (a \o b) \o c = a \o (b \o c)
          BY <5>1, ConcatAssociative
        <5> QED
          BY <5>2 DEF a, b, c
      <4>5. g[k + 1] = q[1] \o h[k]
        BY <3>2, <4>2, <4>4, <4>6
      <4> QED
        BY <1>1, <4>5 DEF joined
    <3> QED
      BY <3>3, <3>4
  <2>4. N \in Good /\ N # 0
    <3> HIDE DEF Good
    <3>1. \A k \in 0 .. N : k \in Good
      BY <1>1, <2>2, <2>3, EveryTurn
    <3> QED
      BY <1>1, <1>5, <3>1
  <2>5. g[N + 1] = q[1] \o h[N]
    <3>1. g[N + 1] = joined(N)
      BY <1>1, <2>4
    <3> QED
      BY <3>1 DEF joined
  <2> QED
    BY <1>1, <1>2, <1>3, <2>1, <2>5 DEF t
<1> QED
  BY <1>4, <1>5

LEMMA FlattenType ==
    ASSUME NEW E, NEW q \in Seq(Strings(E))
    PROVE  FlattenSeq(q) \in Strings(E)
  BY FlattenCons, FlattenEmpty DEF Strings

\* Cutting a string in two loses nothing.
LEMMA CutsInTwo ==
    ASSUME NEW E, NEW d \in Strings(E), NEW k \in 0 .. Len(d)
    PROVE  /\ SubSeq(d, 1, k) \in Strings(E) /\ SubSeq(d, k + 1, Len(d)) \in Strings(E)
           /\ Len(SubSeq(d, 1, k)) = k /\ Len(SubSeq(d, k + 1, Len(d))) = Len(d) - k
           /\ SubSeq(d, 1, k) \o SubSeq(d, k + 1, Len(d)) = d
<1>1. d \in Seq(E) /\ Len(d) \in Nat
  BY DEF Strings
<1>2. SubSeq(d, 1, k) \in Seq(E) /\ Len(SubSeq(d, 1, k)) = k
  BY <1>1
<1>3. /\ SubSeq(d, k + 1, Len(d)) \in Seq(E)
      /\ Len(SubSeq(d, k + 1, Len(d))) = Len(d) - k
  BY <1>1
<1>4. SubSeq(d, 1, k) \o SubSeq(d, k + 1, Len(d)) = SubSeq(d, 1, Len(d))
  <2>1. 1 \in 1 .. Len(d) + 1 /\ k \in (1 - 1) .. Len(d) /\ Len(d) \in k .. Len(d)
    BY <1>1
  <2> QED
    BY <1>1, <2>1, ConcatAdjacentSubSeq
<1>5. SubSeq(d, 1, Len(d)) = d
  BY <1>1, SubSeqFull
<1> QED
  BY <1>2, <1>3, <1>4, <1>5 DEF Strings

\* A sequence with an element put in front of it.
LEMMA HeadTailOfCons ==
    ASSUME NEW E, NEW e \in E, NEW s \in Seq(E)
    PROVE  /\ <<e>> \o s \in Seq(E) /\ <<e>> \o s # << >>
           /\ Head(<<e>> \o s) = e /\ Tail(<<e>> \o s) = s
<1> DEFINE c == <<e>> \o s
<1>1. /\ c \in Seq(E) /\ Len(c) = Len(s) + 1 /\ Len(s) \in Nat /\ c[1] = e
      /\ \A i \in 1 .. Len(s) : c[i + 1] = s[i]
  OBVIOUS
<1> HIDE DEF c
<1>2. c # << >>
  BY <1>1
<1>3. Head(c) = e /\ Tail(c) \in Seq(E) /\ Len(Tail(c)) = Len(s)
      /\ \A i \in 1 .. Len(s) : Tail(c)[i] = s[i]
  BY <1>1, <1>2, HeadTailProperties
<1>4. Tail(c) = s
  BY <1>1, <1>3
<1> QED
  BY <1>1, <1>2, <1>3, <1>4 DEF c
=============================================================================
