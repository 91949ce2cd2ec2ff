------------------------- MODULE Classifiers_proofs -------------------------
(***************************************************************************)
(* Theorems about Classifiers, for any number of classifiers, lookups and  *)
(* uploads, any zones and any times.                                       *)
(***************************************************************************)
EXTENDS Classifiers, Loops_proofs, FiniteSetTheorems

-----------------------------------------------------------------------------
(* The loops over the listed classifiers.                                  *)

\* What n turns of the loop of OnClassifiers have done: each has stepped over a
\* classifier of the right name or removed another, and none is new.
Sorted(acc, list, n) ==
    /\ acc \in [i : Nat \ {0}, list : Seq(Classifier), asking : SUBSET Ids]
    /\ acc.i + Len(list) = n + 1 + Len(acc.list)
    /\ Len(acc.list) <= Len(list)
    /\ \A j \in DOMAIN acc.list : acc.list[j] \in ToSet(list)
    /\ \A j \in DOMAIN acc.list : j < acc.i => acc.list[j].own

LEMMA KeepSorts ==
    ASSUME NEW N \in Nat, NEW list, Len(list) = N, NEW n \in 1 .. N,
           NEW acc, Sorted(acc, list, n - 1)
    PROVE  Sorted(KeepOrSwap(acc), list, n)
<1> DEFINE i == acc.i
           s == acc.list
           L == Len(s)
           e == KeepOrSwap(acc)
<1>1. /\ i \in Nat \ {0} /\ s \in Seq(Classifier) /\ L \in Nat /\ acc.asking \subseteq Ids
      /\ acc = [i |-> i, list |-> s, asking |-> acc.asking]
      /\ DOMAIN s = 1 .. L
  BY DEF Sorted
<1>2. i + N = n + L /\ L <= N
  BY <1>1 DEF Sorted
<1>3. i \in 1 .. L
  BY <1>1, <1>2
<1>4. /\ \A j \in DOMAIN s : s[j] \in ToSet(list)
      /\ \A j \in DOMAIN s : j < i => s[j].own
  BY DEF Sorted
<1>5. CASE s[i].own
  <2> DEFINE asked == acc.asking \cup {s[i].id}
  <2>1. e = [i |-> i + 1, list |-> s, asking |-> asked]
    BY <1>1, <1>5 DEF KeepOrSwap
  <2>2. asked \subseteq Ids
    <3>1. s[i] \in Classifier
      <4> HIDE DEF s, i
      <4> QED
        BY <1>1, <1>3
    <3> QED
      BY <1>1, <3>1 DEF Classifier
  <2>3. s[i].own
    BY <1>5
  <2> HIDE DEF s, i, L, e, asked
  <2>4. \A j \in DOMAIN s : j < i + 1 => s[j].own
    BY <1>1, <1>3, <1>4, <2>3
  <2>5. i + 1 \in Nat \ {0} /\ (i + 1) + N = n + 1 + L
    BY <1>1, <1>2
  <2>6. /\ e \in [i : Nat \ {0}, list : Seq(Classifier), asking : SUBSET Ids]
        /\ e.i = i + 1 /\ e.list = s
    BY <1>1, <2>1, <2>2, <2>5
  <2>7. Sorted(e, list, n)
    BY <1>2, <1>4, <2>4, <2>5, <2>6 DEF Sorted, L
  <2> QED
    BY <2>7 DEF e
<1>6. CASE ~s[i].own
  <2> DEFINE r == Front([s EXCEPT ![i] = Last(s)])
  <2>1. e = [i |-> i, list |-> r, asking |-> acc.asking]
    BY <1>1, <1>6 DEF KeepOrSwap
  <2>2. /\ r \in Seq(Classifier) /\ Len(r) = L - 1
        /\ \A j \in 1 .. (L - 1) : r[j] = IF j = i THEN s[L] ELSE s[j]
    BY <1>1, <1>3, SwapOut
  <2> HIDE DEF r, s, L, i, e
  <2>3. DOMAIN r = 1 .. (L - 1)
    BY <1>1, <1>3, <2>2
  <2>4. \A j \in DOMAIN r : j < i => r[j].own
    BY <1>1, <1>3, <1>4, <2>2, <2>3
  <2>5. \A j \in DOMAIN r : r[j] \in ToSet(list)
    BY <1>1, <1>3, <1>4, <2>2, <2>3
  <2>6. i + N = n + 1 + (L - 1) /\ L - 1 <= N
    BY <1>1, <1>2
  <2>7. /\ e \in [i : Nat \ {0}, list : Seq(Classifier), asking : SUBSET Ids]
        /\ e.i = i /\ e.list = r
    BY <1>1, <2>1, <2>2
  <2>8. Sorted(e, list, n)
    BY <2>2, <2>4, <2>5, <2>6, <2>7 DEF Sorted
  <2> QED
    BY <2>8 DEF e
<1> QED
  BY <1>5, <1>6

\* The whole loop leaves classifiers of the right name.
LEMMA KeptAreOwn ==
    ASSUME NEW list \in Seq(Classifier)
    PROVE  /\ Kept(list).list \in Seq(Classifier)
           /\ Kept(list).asking \subseteq Ids
           /\ \A c \in ToSet(Kept(list).list) : c \in ToSet(list) /\ c.own
<1> DEFINE N == Len(list)
           State == [i : Nat \ {0}, list : Seq(Classifier), asking : SUBSET Ids]
           start == [i |-> 1, list |-> list, asking |-> {}]
           Loop(f) == f = [n \in 0 .. N |-> IF n = 0 THEN start ELSE KeepOrSwap(f[n - 1])]
           turn == [a \in State \X (1 .. N) |->
                      IF KeepOrSwap(a[1]) \in State THEN KeepOrSwap(a[1]) ELSE start]
           loop == CHOOSE f : Loop(f)
           Done == {n \in 0 .. N : Sorted(loop[n], list, n)}
<1>1. N \in Nat /\ N = Len(list) /\ DOMAIN list = 1 .. N
  OBVIOUS
<1>2. start \in State /\ Sorted(start, list, 0)
  <2>1. start \in State
    OBVIOUS
  <2>2. ToSet(list) = {list[j] : j \in DOMAIN list}
    BY DEF ToSet
  <2> QED
    BY <1>1, <2>1, <2>2 DEF Sorted
<1>3. ASSUME NEW n \in 1 .. N, NEW acc, Sorted(acc, list, n - 1)
      PROVE  Sorted(KeepOrSwap(acc), list, n)
  <2> HIDE DEF N
  <2> QED
    BY <1>1, <1>3, KeepSorts
<1>4. ASSUME NEW n, NEW acc, Sorted(acc, list, n)
      PROVE  acc \in State
  BY <1>4 DEF Sorted
<1>5. Kept(list) = loop[N]
  BY DEF Kept
<1> HIDE DEF N, State, start
<1>6. turn \in [State \X (1 .. N) -> State]
  BY <1>2
<1>7. PICK f \in [0 .. N -> State] : Turns(f, N, start, turn)
  <2>1. N \in Nat
    BY <1>1
  <2> HIDE DEF turn
  <2> QED
    BY <1>2, <1>6, <2>1, TurnsExist
<1>8. f[0] = start /\ \A n \in 1 .. N : f[n] = turn[<<f[n - 1], n>>]
  <2> HIDE DEF turn
  <2> QED
    BY <1>1, <1>7 DEF Turns
<1>9. \A n \in 1 .. N : KeepOrSwap(f[n - 1]) \in State => f[n] = KeepOrSwap(f[n - 1])
  <2> SUFFICES ASSUME NEW n \in 1 .. N, KeepOrSwap(f[n - 1]) \in State
               PROVE  f[n] = KeepOrSwap(f[n - 1])
    OBVIOUS
  <2>1. <<f[n - 1], n>> \in State \X (1 .. N)
    BY <1>1
  <2> QED
    BY <1>8, <2>1
<1> HIDE DEF turn
<1>10. \A n \in 0 .. N : Sorted(f[n], list, n)
  <2> DEFINE Reached == {n \in 0 .. N : Sorted(f[n], list, n)}
  <2>1. N \in Nat /\ 0 \in Reached
    BY <1>1, <1>2, <1>8
  <2>2. ASSUME NEW n \in 1 .. N, n - 1 \in Reached
        PROVE  n \in Reached
    <3>1. Sorted(KeepOrSwap(f[n - 1]), list, n)
      BY <1>3, <2>2
    <3>2. f[n] = KeepOrSwap(f[n - 1])
      BY <1>4, <1>9, <3>1
    <3> QED
      BY <2>1, <3>1, <3>2
  <2>3. \A n \in 0 .. N : n \in Reached
    <3> HIDE DEF Reached
    <3> QED
      BY <2>1, <2>2, EveryTurn
  <2> QED
    BY <2>3
<1>11. Loop(f)
  <2>1. \A n \in 1 .. N : f[n] = KeepOrSwap(f[n - 1])
    <3> SUFFICES ASSUME NEW n \in 1 .. N
                 PROVE  f[n] = KeepOrSwap(f[n - 1])
      OBVIOUS
    <3>1. n - 1 \in 0 .. N
      BY <1>1
    <3>2. Sorted(KeepOrSwap(f[n - 1]), list, n)
      BY <1>3, <1>10, <3>1
    <3> QED
      BY <1>4, <1>9, <3>2
  <2>2. \A n \in 0 .. N : f[n] = IF n = 0 THEN start ELSE KeepOrSwap(f[n - 1])
    BY <1>1, <1>8, <2>1
  <2> QED
    BY <2>2
<1>12. Loop(loop)
  BY <1>11
<1> HIDE DEF loop
<1>13. loop[0] = start /\ \A n \in 1 .. N : loop[n] = KeepOrSwap(loop[n - 1])
  BY <1>1, <1>12
<1>14. Sorted(loop[N], list, N)
  <2>1. N \in Nat /\ 0 \in Done
    BY <1>1, <1>2, <1>13
  <2>2. ASSUME NEW n \in 1 .. N, n - 1 \in Done
        PROVE  n \in Done
    <3>1. Sorted(KeepOrSwap(loop[n - 1]), list, n)
      BY <1>3, <2>2
    <3> QED
      BY <1>13, <2>1, <3>1
  <2>3. \A n \in 0 .. N : n \in Done
    <3> HIDE DEF Done
    <3> QED
      BY <2>1, <2>2, EveryTurn
  <2> QED
    BY <2>1, <2>3
<1> DEFINE acc == loop[N]
           r == acc.list
<1>15. /\ acc.i \in Nat /\ r \in Seq(Classifier) /\ acc.i + N = N + 1 + Len(r)
       /\ acc.asking \subseteq Ids
       /\ \A j \in DOMAIN r : j < acc.i => r[j].own
       /\ \A j \in DOMAIN r : r[j] \in ToSet(list)
  BY <1>1, <1>14 DEF Sorted
<1> HIDE DEF acc, r
<1>16. Len(r) \in Nat /\ DOMAIN r = 1 .. Len(r) /\ acc.i = Len(r) + 1
  BY <1>1, <1>15
<1>17. \A j \in DOMAIN r : r[j].own /\ r[j] \in ToSet(list)
  BY <1>15, <1>16
<1>18. \A c \in ToSet(r) : c \in ToSet(list) /\ c.own
  BY <1>17 DEF ToSet
<1> QED
  BY <1>5, <1>15, <1>18 DEF r, acc

\* The choice after n turns of its loop: nothing, or a listed classifier that is
\* available, and its time.
Chosen(b, list, n) ==
    /\ b \in [id : 0 .. MaxClassifiers, time : Nat]
    /\ \/ b.id = 0 /\ b.time = 0
       \/ \E j \in 1 .. n : /\ list[j].status = "Available" /\ list[j].id = b.id
                            /\ ClassifierTime(list[j]) = b.time

LEMMA NewerChosen ==
    ASSUME zone \in Int, NEW c \in Classifier, NEW b \in [id : 0 .. MaxClassifiers, time : Nat]
    PROVE  Newer(b, c) \in [id : 0 .. MaxClassifiers, time : Nat]
<1>1. c.id \in 0 .. MaxClassifiers /\ ClassifierTime(c) \in Int
  BY FirstTimeAssumption, ClassifierBoundsAssumption DEF Classifier, Ids, ClassifierTime
<1>2. ClassifierTime(c) > b.time => ClassifierTime(c) \in Nat
  BY <1>1
<1> QED
  BY <1>1, <1>2 DEF Newer

LEMMA ChooseChosen ==
    ASSUME zone \in Int, NEW list \in Seq(Classifier)
    PROVE  Chosen(Choose(list), list, Len(list))
<1> DEFINE N == Len(list)
           State == [id : 0 .. MaxClassifiers, time : Nat]
           start == [id |-> 0, time |-> 0]
           turn == [a \in State \X (1 .. N) |-> Newer(a[1], list[a[2]])]
           Loop(f) == f = [n \in 0 .. N |-> IF n = 0 THEN start ELSE Newer(f[n - 1], list[n])]
           best == CHOOSE f : Loop(f)
           Done == {n \in 0 .. N : Chosen(best[n], list, n)}
<1>1. N \in Nat /\ \A n \in 1 .. N : list[n] \in Classifier
  OBVIOUS
<1>2. start \in State /\ Chosen(start, list, 0)
  BY ClassifierBoundsAssumption DEF Chosen
<1>3. ASSUME NEW n \in 1 .. N, NEW b \in State
      PROVE  Newer(b, list[n]) \in State
  BY <1>1, NewerChosen
<1>4. ASSUME NEW n \in 1 .. N, NEW b, Chosen(b, list, n - 1)
      PROVE  Chosen(Newer(b, list[n]), list, n)
  <2>1. b \in State /\ Newer(b, list[n]) \in State
    BY <1>3, <1>4 DEF Chosen
  <2>2. CASE list[n].status = "Available" /\ ClassifierTime(list[n]) > b.time
    <3>1. Newer(b, list[n]).id = list[n].id /\ Newer(b, list[n]).time = ClassifierTime(list[n])
      BY <2>2 DEF Newer
    <3>2. n \in 1 .. n
      OBVIOUS
    <3> QED
      BY <2>1, <2>2, <3>1, <3>2 DEF Chosen
  <2>3. CASE ~(list[n].status = "Available" /\ ClassifierTime(list[n]) > b.time)
    <3>1. Newer(b, list[n]) = b
      BY <2>3 DEF Newer
    <3>2. \A j \in 1 .. (n - 1) : j \in 1 .. n
      BY <1>1
    <3> QED
      BY <1>4, <2>1, <3>1, <3>2 DEF Chosen
  <2> QED
    BY <2>2, <2>3
<1>5. Choose(list) = best[N]
  BY DEF Choose
<1> HIDE DEF N, State, start
<1>6. turn \in [State \X (1 .. N) -> State]
  BY <1>3
<1>7. PICK f \in [0 .. N -> State] : Turns(f, N, start, turn)
  <2>1. N \in Nat
    BY <1>1
  <2> HIDE DEF turn
  <2> QED
    BY <1>2, <1>6, <2>1, TurnsExist
<1>8. \A n \in 1 .. N : turn[<<f[n - 1], n>>] = Newer(f[n - 1], list[n])
  <2> SUFFICES ASSUME NEW n \in 1 .. N
               PROVE  turn[<<f[n - 1], n>>] = Newer(f[n - 1], list[n])
    OBVIOUS
  <2>1. <<f[n - 1], n>> \in State \X (1 .. N)
    BY <1>1
  <2> QED
    BY <2>1
<1>9. Loop(best)
  <2> HIDE DEF turn
  <2>1. Loop(f)
    BY <1>7, <1>8 DEF Turns
  <2> QED
    BY <2>1
<1> HIDE DEF best
<1>10. best[0] = start /\ \A n \in 1 .. N : best[n] = Newer(best[n - 1], list[n])
  BY <1>1, <1>9
<1>11. Chosen(best[N], list, N)
  <2>1. N \in Nat /\ 0 \in Done
    BY <1>1, <1>2, <1>10
  <2>2. ASSUME NEW n \in 1 .. N, n - 1 \in Done
        PROVE  n \in Done
    BY <1>4, <1>10, <2>1, <2>2
  <2>3. \A n \in 0 .. N : n \in Done
    <3> HIDE DEF Done
    <3> QED
      BY <2>1, <2>2, EveryTurn
  <2> QED
    BY <2>1, <2>3
<1> QED
  BY <1>5, <1>11 DEF N

-----------------------------------------------------------------------------
(* Types, and the counting of the answers under way.  A lookup is not      *)
(* listing and asking at once: that is what makes the count inductive.     *)

Counted(find) ==
    LET awaited == Cardinality(find.asking) + (IF find.listing THEN 1 ELSE 0)
    IN  /\ find.pending = awaited /\ (find.live <=> awaited > 0)
        /\ find.listing => find.asking = {}

\* That a list holds classifiers of the right name only rests on what is known
\* of their ids, and follows below.
Typed ==
    /\ now \in FirstTime .. MaxTime /\ zone \in Zones
    /\ flaky \in BOOLEAN /\ configured \in BOOLEAN /\ timer \in BOOLEAN
    /\ fileTime \in 0 .. MaxTime
    /\ server \in Seq(Classifier) /\ created \in 0 .. MaxClassifiers
    /\ finds \in [Slots -> FindRequest]
    /\ \A f \in Slots : Counted(finds[f])
    /\ classifierId \in 0 .. MaxClassifiers
    /\ uploads \in Nat
    /\ deletes \subseteq Ids

LEMMA TypedCounts == Typed => LookupEndsOnce
  BY DEF Typed, LookupEndsOnce, Counted

LEMMA IdsFinite ==
    ASSUME NEW S, S \subseteq Ids
    PROVE  IsFiniteSet(S) /\ Cardinality(S) \in Nat
<1>1. IsFiniteSet(Ids)
  BY ClassifierBoundsAssumption, FS_Interval DEF Ids
<1> QED
  BY <1>1, FS_Subset, FS_CardinalityType

LEMMA FreedCounts == Freed \in FindRequest /\ Counted(Freed)
<1>1. Cardinality({}) = 0
  BY FS_EmptySet
<1>2. << >> \in Seq(Classifier)
  OBVIOUS
<1>3. /\ Freed.pending = 0 /\ ~Freed.live /\ ~Freed.listing /\ Freed.asking = {}
      /\ Freed.list = << >>
  BY DEF Freed
<1>4. Freed \in FindRequest
  BY <1>2 DEF Freed, FindRequest
<1> QED
  BY <1>1, <1>2, <1>3, <1>4 DEF Counted

LEMMA InitTyped == ClassifiersInit => Typed
<1> SUFFICES ASSUME ClassifiersInit
             PROVE  Typed
  OBVIOUS
<1>1. FirstTime \in Nat /\ MaxTime \in Nat /\ FirstTime \in FirstTime .. MaxTime
      /\ FirstTime \in 0 .. MaxTime /\ 0 \in 0 .. MaxTime
  BY FirstTimeAssumption, ClassifierBoundsAssumption
<1>2. 1 \in Ids /\ 2 \in Ids /\ MaxClassifiers \in Nat /\ MaxClassifiers >= 2
  BY ClassifierBoundsAssumption DEF Ids
<1>3. \A own \in BOOLEAN : Initially(own, 1) \in Classifier /\ Initially(own, 2) \in Classifier
  BY <1>1, <1>2 DEF Initially, Classifier, Status
<1>4. server \in Seq(Classifier) /\ Len(server) \in 0 .. 2
  <2> DEFINE a == Initially(TRUE, 1)
             b == Initially(FALSE, 1)
             c == Initially(TRUE, 2)
  <2>1. a \in Classifier /\ b \in Classifier /\ c \in Classifier
    BY <1>3
  <2>2. server \in {<< >>, <<a>>, <<b, c>>}
    BY DEF ClassifiersInit
  <2> HIDE DEF a, b, c
  <2>3. << >> \in Seq(Classifier) /\ Len(<< >>) = 0
    OBVIOUS
  <2>4. <<a>> \in Seq(Classifier) /\ Len(<<a>>) = 1
    BY <2>1
  <2>5. <<b, c>> \in Seq(Classifier) /\ Len(<<b, c>>) = 2
    BY <2>1
  <2>6. CASE server = << >>
    BY <2>3, <2>6
  <2>7. CASE server = <<a>>
    BY <2>4, <2>7
  <2>8. CASE server = <<b, c>>
    BY <2>5, <2>8
  <2> QED
    BY <2>2, <2>6, <2>7, <2>8
<1>5. finds \in [Slots -> FindRequest] /\ \A f \in Slots : finds[f] = Freed
  BY FreedCounts DEF ClassifiersInit
<1>6. created \in 0 .. MaxClassifiers /\ classifierId \in 0 .. MaxClassifiers
  BY <1>2, <1>4 DEF ClassifiersInit
<1> QED
  BY <1>1, <1>4, <1>5, <1>6, FreedCounts DEF ClassifiersInit, Typed

\* One lookup changes, to find.
LEMMA FindsTyped ==
    ASSUME Typed, NEW f, NEW find \in FindRequest, Counted(find),
           finds' = [finds EXCEPT ![f] = find]
    PROVE  /\ finds' \in [Slots -> FindRequest]
           /\ \A g \in Slots : Counted(finds'[g])
<1>1. finds \in [Slots -> FindRequest]
      /\ \A g \in Slots : Counted(finds[g])
  BY DEF Typed
<1> HIDE DEF Typed
<1>2. \A g \in Slots : finds'[g] = find \/ finds'[g] = finds[g]
  BY <1>1
<1>3. finds' \in [Slots -> FindRequest]
  BY <1>1
<1> QED
  BY <1>1, <1>2, <1>3, Zenon

LEMMA FoundTyped ==
    ASSUME Typed, NEW f \in Slots, NEW list \in Seq(Classifier), Found(f, list),
           UNCHANGED <<environment, fileTime, server, created, timer>>
    PROVE  Typed'
<1>1. zone \in Int
  BY ZonesAssumption DEF Typed
<1>2. classifierId' \in 0 .. MaxClassifiers
  BY <1>1, ChooseChosen DEF Found, Chosen
<1>3. uploads' \in Nat
  BY DEF Found, Typed
<1>4. deletes' \subseteq Ids
  <2>1. \A i \in DOMAIN list : list[i] \in Classifier
    OBVIOUS
  <2>2. \A i \in DOMAIN list : list[i].id \in Ids
    BY <2>1 DEF Classifier
  <2>3. \A c \in ToSet(list) : c.id \in Ids
    BY <2>2 DEF ToSet
  <2>4. Purged(list) \subseteq Ids
    BY <2>3 DEF Purged
  <2> QED
    BY <2>4 DEF Found, Typed
<1>5. /\ finds' \in [Slots -> FindRequest]
      /\ \A g \in Slots : Counted(finds'[g])
  BY FreedCounts, FindsTyped DEF Found
<1> QED
  BY <1>2, <1>3, <1>4, <1>5 DEF Typed, environment

LEMMA WaitsTyped ==
    ASSUME Typed, NEW f, NEW find \in FindRequest, Counted(find),
           Waits(f, find), UNCHANGED <<environment, fileTime, server, created, timer>>
    PROVE  Typed'
<1>1. /\ finds' \in [Slots -> FindRequest]
      /\ \A g \in Slots : Counted(finds'[g])
  BY FindsTyped DEF Waits
<1> QED
  BY <1>1 DEF Waits, Typed, environment

\* What OnClassifiers does to the list of the server.
LEMMA UnlistedType ==
    ASSUME NEW list \in Seq(Classifier)
    PROVE  /\ Unlisted(list) \in Seq(Classifier) /\ DOMAIN Unlisted(list) = DOMAIN list
           /\ \A i \in DOMAIN list : /\ Unlisted(list)[i].id = list[i].id
                                     /\ Unlisted(list)[i].own = list[i].own
                                     /\ Unlisted(list)[i].created = list[i].created
                                     /\ Unlisted(list)[i].status = "unlisted"
<1> DEFINE u(i) == [list[i] EXCEPT !.status = "unlisted"]
           N == Len(list)
<1>1. N \in Nat /\ DOMAIN list = 1 .. N /\ \A i \in 1 .. N : list[i] \in Classifier
  OBVIOUS
<1>2. ASSUME NEW i \in 1 .. N
      PROVE  /\ u(i) \in Classifier /\ u(i).id = list[i].id /\ u(i).own = list[i].own
             /\ u(i).created = list[i].created /\ u(i).status = "unlisted"
  <2>1. list[i] \in Classifier
    BY <1>1
  <2> QED
    BY <2>1 DEF Classifier, Status
<1> HIDE DEF u, N
<1>3. Unlisted(list) = [i \in 1 .. N |-> u(i)]
  BY <1>1 DEF Unlisted, u
<1>4. Unlisted(list) \in Seq(Classifier)
  BY <1>1, <1>2, <1>3
<1> QED
  BY <1>1, <1>2, <1>3, <1>4

LEMMA UpdateType ==
    ASSUME NEW list \in Seq(Classifier), NEW c \in Classifier
    PROVE  /\ Update(list, c) \in Seq(Classifier) /\ DOMAIN Update(list, c) = DOMAIN list
           /\ \A i \in DOMAIN list : Update(list, c)[i] = IF list[i].id = c.id THEN c ELSE list[i]
<1> DEFINE u(i) == IF list[i].id = c.id THEN c ELSE list[i]
           N == Len(list)
<1>1. N \in Nat /\ DOMAIN list = 1 .. N /\ \A i \in 1 .. N : list[i] \in Classifier
  OBVIOUS
<1>2. \A i \in 1 .. N : u(i) \in Classifier
  BY <1>1
<1>3. Update(list, c) = [i \in 1 .. N |-> IF list[i].id = c.id THEN c ELSE list[i]]
  BY <1>1 DEF Update
<1> HIDE DEF u, N
<1>4. Update(list, c) = [i \in 1 .. N |-> u(i)]
  BY <1>3 DEF u
<1>5. Update(list, c) \in Seq(Classifier)
  BY <1>1, <1>2, <1>4
<1> QED
  BY <1>1, <1>3, <1>5

\* The list of a lookup and the classifiers to ask for, after the listing.
LEMMA ListingType ==
    ASSUME Typed
    PROVE  /\ Kept(server).asking \subseteq Ids
           /\ Unlisted(Kept(server).list) \in Seq(Classifier)
<1>1. Kept(server).list \in Seq(Classifier) /\ Kept(server).asking \subseteq Ids
  BY KeptAreOwn DEF Typed
<1> QED
  BY <1>1, UnlistedType

LEMMA OnClassifiersTyped ==
    ASSUME Typed, NEW f \in Slots, NEW ok \in BOOLEAN, OnClassifiers(f, ok)
    PROVE  Typed'
<1> DEFINE asking == Kept(server).asking
           list == Unlisted(Kept(server).list)
           pending == finds[f].pending - 1 + Cardinality(asking)
           find == [live |-> TRUE, pending |-> pending, listing |-> FALSE,
                    asking |-> asking, list |-> list]
<1>1. UNCHANGED <<environment, fileTime, server, created, timer>> /\ finds[f].listing
  BY DEF OnClassifiers
<1>2. asking \subseteq Ids /\ list \in Seq(Classifier)
  BY ListingType
<1> HIDE DEF asking, list
<1>3. pending = Cardinality(asking) /\ Cardinality(asking) \in Nat
  <2>1. finds[f].asking = {} /\ finds[f].pending = Cardinality(finds[f].asking) + 1
    BY <1>1 DEF Typed, Counted
  <2>2. Cardinality({}) = 0
    BY FS_EmptySet
  <2>3. Cardinality(asking) \in Nat
    BY <1>2, IdsFinite
  <2> QED
    BY <2>1, <2>2, <2>3
<1> HIDE DEF pending
<1>4. \/ NotFound(f)
      \/ Found(f, list)
      \/ pending # 0 /\ Waits(f, find)
  BY DEF OnClassifiers, asking, list, pending
<1>5. CASE NotFound(f)
  BY <1>1, <1>5, FreedCounts, WaitsTyped DEF NotFound, Waits
<1>6. CASE Found(f, list)
  BY <1>1, <1>2, <1>6, FoundTyped
<1>7. CASE pending # 0 /\ Waits(f, find)
  <2>1. find \in FindRequest /\ Counted(find)
    BY <1>2, <1>3, <1>7 DEF FindRequest, Counted
  <2> HIDE DEF find
  <2> QED
    BY <1>1, <1>7, <2>1, WaitsTyped
<1> QED
  BY <1>4, <1>5, <1>6, <1>7

\* The classifier that answers, and the list it goes into.
Answer(id) == CHOOSE c \in ToSet(server) : c.id = id
Listed(f, id, ok) ==
    IF ok THEN Update(finds[f].list, Answer(id)) ELSE finds[f].list

LEMMA AnswerType ==
    ASSUME Typed, NEW f \in Slots, NEW id, NEW ok \in BOOLEAN,
           ok => \E c \in ToSet(server) : c.id = id
    PROVE  /\ finds[f].list \in Seq(Classifier)
           /\ Listed(f, id, ok) \in Seq(Classifier)
           /\ ok => Answer(id) \in ToSet(server) /\ Answer(id) \in Classifier
<1>1. finds[f].list \in Seq(Classifier)
  BY DEF Typed, FindRequest
<1>2. ok => Answer(id) \in ToSet(server) /\ Answer(id).id = id
  BY DEF Answer
<1>3. \A c \in ToSet(server) : c \in Classifier
  BY DEF Typed, ToSet
<1> QED
  BY <1>1, <1>2, <1>3, UpdateType DEF Listed

LEMMA OnClassifierTyped ==
    ASSUME Typed, NEW f \in Slots, NEW id \in Ids, NEW ok \in BOOLEAN, OnClassifier(f, id, ok)
    PROVE  Typed'
<1> DEFINE old == finds[f]
           list == Listed(f, id, ok)
           pending == old.pending - 1
           asking == old.asking \ {id}
           find == [old EXCEPT !.pending = pending, !.asking = asking, !.list = list]
<1>1. /\ UNCHANGED <<environment, fileTime, server, created, timer>> /\ id \in old.asking
      /\ IF old.pending = 1 THEN Found(f, list) ELSE Waits(f, find)
  BY DEF OnClassifier, Listed, Answer
<1>2. list \in Seq(Classifier)
  BY AnswerType DEF OnClassifier
<1> HIDE DEF list
<1>3. old \in FindRequest /\ Counted(old) /\ old.asking \subseteq Ids
  BY DEF Typed, FindRequest
<1>4. /\ Cardinality(old.asking) \in Nat /\ Cardinality(asking) = Cardinality(old.asking) - 1
      /\ Cardinality(asking) \in Nat
  <2>1. IsFiniteSet(old.asking) /\ Cardinality(old.asking) \in Nat
    BY <1>3, IdsFinite
  <2>2. asking \subseteq Ids
    BY <1>3
  <2>3. Cardinality(asking) \in Nat
    BY <2>2, IdsFinite
  <2>4. Cardinality(asking) = Cardinality(old.asking) - 1
    BY <1>1, <2>1, FS_RemoveElement
  <2> QED
    BY <2>1, <2>3, <2>4
<1>5. CASE old.pending = 1
  BY <1>1, <1>2, <1>5, FoundTyped
<1>6. CASE old.pending # 1
  <2>1. ~old.listing /\ old.pending = Cardinality(old.asking)
    <3>1. id \in old.asking /\ Counted(old)
      BY <1>1, <1>3
    <3> HIDE DEF old
    <3>2. ~old.listing
      BY <3>1 DEF Counted
    <3>3. old.pending = Cardinality(old.asking) + 0 /\ Cardinality(old.asking) \in Nat
      BY <1>4, <3>1, <3>2 DEF Counted
    <3> QED
      BY <3>2, <3>3
  <2>2. pending = Cardinality(asking) /\ pending \in Nat /\ pending # 0
    BY <1>4, <1>6, <2>1
  <2>3. asking \subseteq Ids /\ old.live
    BY <1>3, <1>4, <2>1 DEF Counted
  <2> HIDE DEF pending, asking, old
  <2>4. find \in FindRequest
    BY <1>2, <1>3, <2>2, <2>3 DEF FindRequest
  <2>5. /\ find.pending = pending /\ find.asking = asking /\ find.live = old.live
        /\ find.listing = old.listing
    BY <1>3 DEF FindRequest
  <2> HIDE DEF find
  <2>6. Counted(find)
    BY <2>1, <2>2, <2>3, <2>5 DEF Counted
  <2>7. Waits(f, find)
    BY <1>1, <1>6
  <2> QED
    BY <1>1, <2>4, <2>6, <2>7, WaitsTyped
<1> QED
  BY <1>5, <1>6

LEMMA CheckTyped == Typed /\ CheckClassifiers => Typed'
<1> SUFFICES ASSUME Typed, CheckClassifiers
             PROVE  Typed'
  OBVIOUS
<1>1. UNCHANGED <<environment, fileTime, server, created, classifierId, uploads, deletes>>
      /\ timer' = TRUE
  BY DEF CheckClassifiers
<1>2. /\ finds' \in [Slots -> FindRequest]
      /\ \A g \in Slots : Counted(finds'[g])
  <2>1. CASE configured
    <3> DEFINE f == CHOOSE g \in Slots : ~finds[g].live
               find == [Freed EXCEPT !.live = TRUE, !.pending = 1, !.listing = TRUE]
    <3>1. finds' = [finds EXCEPT ![f] = find]
      BY <2>1 DEF CheckClassifiers
    <3>2. find \in FindRequest
      BY FreedCounts DEF FindRequest
    <3>3. Cardinality({}) = 0
      BY FS_EmptySet
    <3>4. find.pending = 1 /\ find.live /\ find.listing /\ find.asking = {}
      BY DEF Freed
    <3> HIDE DEF f, find
    <3>5. Counted(find)
      BY <3>3, <3>4 DEF Counted
    <3> QED
      BY <3>1, <3>2, <3>5, FindsTyped
  <2>2. CASE ~configured
    BY <2>2 DEF CheckClassifiers, Typed
  <2> QED
    BY <2>1, <2>2
<1> QED
  BY <1>1, <1>2 DEF Typed, environment

\* What the server does to its list.
LEMMA UploadAppends ==
    ASSUME Typed, NEW ok \in BOOLEAN, UploadArrives(ok)
    PROVE  \/ server' = server /\ created' = created
           \/ \E c \in Classifier : /\ server' = Append(server, c) /\ c.id = created + 1
                                    /\ created' = created + 1 /\ created' \in 0 .. MaxClassifiers
                                    /\ server' \in Seq(Classifier)
                                    /\ ToSet(server') = ToSet(server) \cup {c}
<1>1. CASE ~ok
  BY <1>1 DEF UploadArrives
<1>2. CASE ok
  <2> DEFINE c == [id |-> created + 1, own |-> TRUE, created |-> now, status |-> "Training"]
  <2>1. created \in Nat /\ MaxClassifiers \in Nat /\ created < MaxClassifiers
    BY <1>2, ClassifierBoundsAssumption DEF Typed, UploadArrives
  <2>2. c \in Classifier /\ c.id = created + 1
    BY <2>1 DEF Typed, Classifier, Ids, Status
  <2>3. server' = Append(server, c) /\ created' = created + 1
    BY <1>2 DEF UploadArrives
  <2>4. created' \in 0 .. MaxClassifiers
    BY <2>1, <2>3
  <2> HIDE DEF c
  <2>5. server \in Seq(Classifier)
    BY DEF Typed
  <2>6. server' \in Seq(Classifier) /\ ToSet(server') = ToSet(server) \cup {c}
    BY <2>2, <2>3, <2>5, AppendSet
  <2> QED
    BY <2>2, <2>3, <2>4, <2>6
<1> QED
  BY <1>1, <1>2

LEMMA TrainingChanges ==
    ASSUME Typed, NEW i \in DOMAIN server, NEW status \in {"Available", "Failed"},
           TrainingEnds(i, status)
    PROVE  \E c \in Classifier :
              /\ server' = [server EXCEPT ![i] = c]
              /\ c.id = server[i].id /\ c.own = server[i].own /\ c.created = server[i].created
              /\ server' \in Seq(Classifier)
<1> DEFINE c == [server[i] EXCEPT !.status = status]
           L == Len(server)
<1>1. L \in Nat /\ DOMAIN server = 1 .. L /\ server[i] \in Classifier /\ i \in 1 .. L
      /\ server \in Seq(Classifier)
  BY DEF Typed
<1>2. c \in Classifier /\ c.id = server[i].id /\ c.own = server[i].own
      /\ c.created = server[i].created
  BY <1>1 DEF Classifier, Status
<1>3. server' = [server EXCEPT ![i] = c]
  BY DEF TrainingEnds
<1> HIDE DEF c
<1>4. server' \in Seq(Classifier)
  BY <1>1, <1>2, <1>3
<1> QED
  BY <1>2, <1>3, <1>4

Without(s, id) == RemoveFirstMatch(s, LAMBDA c : c.id = id)

LEMMA DeleteRemoves ==
    ASSUME NEW s \in Seq(Classifier), NEW id
    PROVE  LET r == Without(s, id)
           IN  /\ r \in Seq(Classifier) /\ ToSet(r) \subseteq ToSet(s)
               /\ \A c \in ToSet(s) : c.id # id => c \in ToSet(r)
<1> DEFINE L == Len(s)
           I == {i \in 1 .. L : s[i].id = id}
           r == Without(s, id)
<1>1. L \in Nat /\ DOMAIN s = 1 .. L
  OBVIOUS
<1>2. CASE I = {}
  <2>1. r = s
    BY <1>2 DEF Without, RemoveFirstMatch
  <2> QED
    BY <2>1
<1>3. CASE I # {}
  <2> DEFINE k == Min(I)
  <2>1. k \in I
    <3>1. I \subseteq Nat
      BY <1>1
    <3> HIDE DEF I
    <3>2. \E x \in I : \A y \in I : x <= y
      BY <1>3, <3>1, LeastOne
    <3> QED
      BY <3>2 DEF Min
  <2>2. r = RemoveAt(s, k)
    BY <1>3 DEF Without, RemoveFirstMatch, SelectInSeq
  <2>3. k \in 1 .. L /\ s[k].id = id
    BY <2>1
  <2> HIDE DEF k, I, r
  <2>4. /\ r \in Seq(Classifier) /\ Len(r) = L - 1
        /\ \A j \in 1 .. (L - 1) : r[j] = IF j < k THEN s[j] ELSE s[j + 1]
    BY <2>2, <2>3, RemoveAtDrops
  <2>5. DOMAIN r = 1 .. (L - 1)
    BY <1>1, <2>3, <2>4
  <2> HIDE DEF L
  <2>6. \A j \in DOMAIN r : r[j] \in {s[i] : i \in DOMAIN s}
    BY <1>1, <2>3, <2>4, <2>5
  <2>7. \A i \in DOMAIN s : s[i].id # id => s[i] \in {r[j] : j \in DOMAIN r}
    <3> SUFFICES ASSUME NEW i \in DOMAIN s, s[i].id # id
                 PROVE  \E j \in DOMAIN r : r[j] = s[i]
      OBVIOUS
    <3>1. CASE i < k
      BY <1>1, <2>3, <2>4, <2>5, <3>1
    <3>2. CASE i > k
      <4>1. i - 1 \in 1 .. (L - 1) /\ ~(i - 1 < k) /\ (i - 1) + 1 = i
        BY <1>1, <2>3, <3>2
      <4>2. r[i - 1] = s[i]
        BY <2>4, <4>1
      <4> QED
        BY <2>5, <4>1, <4>2
    <3> QED
      BY <1>1, <2>3, <3>1, <3>2
  <2> QED
    BY <2>4, <2>6, <2>7 DEF ToSet, r
<1> QED
  BY <1>2, <1>3

LEMMA NextTyped == Typed /\ [ClassifiersNext]_classifierVars => Typed'
<1> SUFFICES ASSUME Typed, [ClassifiersNext]_classifierVars
             PROVE  Typed'
  OBVIOUS
<1>1. CASE CheckClassifiers
  BY <1>1, CheckTyped
<1>2. CASE RetrainClassifier
  <2>1. now \in 0 .. MaxTime
    BY FirstTimeAssumption, ClassifierBoundsAssumption DEF Typed
  <2> QED
    BY <1>2, <2>1 DEF RetrainClassifier, Typed, environment, proxy
<1>3. CASE Tick
  <2>1. now' \in FirstTime .. MaxTime
    BY <1>3, FirstTimeAssumption, ClassifierBoundsAssumption DEF Typed, Tick
  <2> QED
    BY <1>3, <2>1 DEF Tick, Typed, proxy
<1>4. CASE Weather
  BY <1>4 DEF Weather, Typed, proxy
<1>5. ASSUME NEW f \in Slots, Lookup(f)
      PROVE  Typed'
  BY <1>5, OnClassifiersTyped, OnClassifierTyped DEF Lookup
<1>6. ASSUME NEW ok \in BOOLEAN, UploadArrives(ok)
      PROVE  Typed'
  <2>1. server' \in Seq(Classifier) /\ created' \in 0 .. MaxClassifiers
    BY <1>6, UploadAppends DEF Typed
  <2>2. uploads' \in Nat
    BY <1>6 DEF UploadArrives, Typed
  <2> QED
    BY <1>6, <2>1, <2>2 DEF UploadArrives, Typed, environment, proxy
<1>7. ASSUME NEW ok \in BOOLEAN, NEW id \in Ids, DeleteArrives(id, ok)
      PROVE  Typed'
  <2>1. server \in Seq(Classifier)
    BY DEF Typed
  <2>2. Without(server, id) \in Seq(Classifier)
    BY <2>1, DeleteRemoves
  <2>3. server' \in Seq(Classifier)
    BY <1>7, <2>1, <2>2 DEF DeleteArrives, Without
  <2> QED
    BY <1>7, <2>3 DEF DeleteArrives, Typed, environment, proxy
<1>8. ASSUME NEW i \in DOMAIN server, NEW status \in {"Available", "Failed"},
             TrainingEnds(i, status)
      PROVE  Typed'
  <2>1. server' \in Seq(Classifier)
    BY <1>8, TrainingChanges
  <2> QED
    BY <1>8, <2>1 DEF TrainingEnds, Typed, environment, proxy
<1>9. CASE UNCHANGED classifierVars
  BY <1>9 DEF classifierVars, Typed, environment, proxy
<1> QED
  BY <1>1, <1>2, <1>3, <1>4, <1>5, <1>6, <1>7, <1>8, <1>9 DEF ClassifiersNext

\* A lookup is freed with its last answer, however the answers of several
\* lookups interleave with one another and with deletes (FindRequest).
THEOREM LookupsEndOnce == ClassifiersSpec => []LookupEndsOnce
  BY InitTyped, NextTyped, TypedCounts, PTL DEF ClassifiersSpec

-----------------------------------------------------------------------------
(* Why the newest survives.  A list may be stale in every way but two: what *)
(* it says of an id is still true of its name and time, and for each        *)
(* classifier it shows as available the server has one as new that nobody   *)
(* deletes.  A purge spares all that is as new as the newest of its list.   *)

Same(c, d) == c.id = d.id => c.created = d.created /\ c.own = d.own

Survivor(t, doomed) == \E d \in Available : d.id \notin doomed /\ d.created >= t

Known(list) ==
    \A e \in ToSet(list) :
        /\ e.own /\ e.id <= created
        /\ \A c \in ToSet(server) : Same(e, c)
        /\ e.status = "Available" => Survivor(e.created, deletes)

Survivors ==
    /\ \A c \in ToSet(server) : c.id <= created /\ \A d \in ToSet(server) : Same(c, d)
    /\ \A id \in deletes : id <= created
    /\ \A f \in Slots : Known(finds[f].list)
    /\ \A c \in Own : c.id \in deletes => Survivor(c.created + 1, deletes)

LEMMA ClassifiersOf ==
    ASSUME NEW list \in Seq(Classifier)
    PROVE  \A c \in ToSet(list) : /\ c \in Classifier /\ c.id \in Int /\ c.created \in Int
                                  /\ c.own \in BOOLEAN
<1>1. \A i \in DOMAIN list : list[i] \in Classifier
  OBVIOUS
<1>2. \A c \in ToSet(list) : c \in Classifier
  BY <1>1 DEF ToSet
<1>3. \A c \in Classifier : c.id \in Int /\ c.created \in Int /\ c.own \in BOOLEAN
  BY ClassifierBoundsAssumption, FirstTimeAssumption DEF Classifier, Ids
<1> QED
  BY <1>2, <1>3

\* What is left after the deletes decided on a list that is known.
LEMMA PurgeSpares ==
    ASSUME Typed, NEW list \in Seq(Classifier), Known(list)
    PROVE  /\ \A id \in Purged(list) : id <= created
           /\ \A t \in Int : Survivor(t, deletes) => Survivor(t, deletes \cup Purged(list))
           /\ \A c \in ToSet(server) : c.id \in Purged(list) =>
                 Survivor(c.created + 1, deletes \cup Purged(list))
<1> DEFINE best == Choose(list)
           P == Purged(list)
           Old(e) == ClassifierTime(e) >= 0 /\ best.time - ClassifierTime(e) > Interval
<1>1. \A id \in P : \E e \in ToSet(list) : e.id = id /\ Old(e)
  BY DEF Purged
<1>2. zone \in Int /\ server \in Seq(Classifier)
  BY ZonesAssumption DEF Typed
<1>3. \A e \in ToSet(list) : e.id \in Int /\ e.created \in Int
  BY ClassifiersOf
<1>4. \A c \in ToSet(server) : c.id \in Int /\ c.created \in Int
  BY <1>2, ClassifiersOf
<1>5. \A e \in ToSet(list) : e.id <= created /\ \A c \in ToSet(server) : Same(e, c)
  BY DEF Known
<1>6. \A id \in P : id <= created
  BY <1>1, <1>5
<1>7. CASE P = {}
  <2>1. deletes \cup P = deletes
    BY <1>7
  <2> HIDE DEF P
  <2>2. \A t : Survivor(t, deletes) => Survivor(t, deletes \cup P)
    BY <2>1
  <2> QED
    BY <1>6, <1>7, <2>2 DEF P
<1>8. CASE P # {}
  <2>1. Chosen(best, list, Len(list))
    BY <1>2, ChooseChosen
  <2>2. PICK x \in ToSet(list) : Old(x)
    BY <1>1, <1>8
  <2> HIDE DEF P, best
  <2>3. best.time \in Nat /\ best.time > 0
    <3>1. best.time \in Nat
      BY <2>1 DEF Chosen
    <3>2. ClassifierTime(x) \in Int
      BY <1>2, <1>3, <2>2 DEF ClassifierTime
    <3> QED
      BY <2>2, <3>1, <3>2 DEF Interval
  <2>4. PICK j \in 1 .. Len(list) : list[j].status = "Available"
                                    /\ ClassifierTime(list[j]) = best.time
    BY <2>1, <2>3 DEF Chosen
  <2> DEFINE b == list[j]
  <2>5. b \in ToSet(list)
    BY <2>4 DEF ToSet
  <2>6. b.status = "Available" /\ b.created - zone = best.time
    BY <2>4 DEF ClassifierTime
  <2> HIDE DEF b
  <2>7. PICK d \in Available : d.id \notin deletes /\ d.created >= b.created
    BY <2>5, <2>6 DEF Known, Survivor
  <2>8. d \in ToSet(server)
    BY DEF Available, Own
  <2>9. \A e \in ToSet(list) : Old(e) => e.created < d.created
    <3>1. b.created \in Int /\ d.created \in Int /\ zone \in Int
      BY <1>2, <1>3, <1>4, <2>5, <2>8
    <3> SUFFICES ASSUME NEW e \in ToSet(list), Old(e)
                 PROVE  e.created < d.created
      OBVIOUS
    <3>2. e.created \in Int /\ best.time - (e.created - zone) > 1
      BY <1>3 DEF ClassifierTime, Interval
    <3> QED
      BY <2>3, <2>6, <2>7, <3>1, <3>2
  <2>10. \A c \in ToSet(server) : c.id \in P => c.created < d.created
    <3> SUFFICES ASSUME NEW c \in ToSet(server), c.id \in P
                 PROVE  c.created < d.created
      OBVIOUS
    <3>1. PICK e \in ToSet(list) : e.id = c.id /\ Old(e)
      BY <1>1
    <3>2. e.created = c.created
      BY <1>5, <3>1 DEF Same
    <3> QED
      BY <2>9, <3>1, <3>2
  <2>11. d.id \notin P
    BY <1>4, <2>8, <2>10
  <2>12. \A t \in Int : t <= d.created => Survivor(t, deletes \cup P)
    <3>1. d.id \notin deletes \cup P
      BY <2>7, <2>11
    <3>2. d.created \in Int
      BY <1>4, <2>8
    <3> QED
      BY <3>1, <3>2 DEF Survivor
  <2>13. \A c \in ToSet(server) : c.id \in P => Survivor(c.created + 1, deletes \cup P)
    <3> SUFFICES ASSUME NEW c \in ToSet(server), c.id \in P
                 PROVE  Survivor(c.created + 1, deletes \cup P)
      OBVIOUS
    <3>1. c.created + 1 \in Int /\ c.created + 1 <= d.created
      BY <1>4, <2>8, <2>10
    <3> QED
      BY <2>12, <3>1
  <2>14. ASSUME NEW t \in Int, Survivor(t, deletes)
         PROVE  Survivor(t, deletes \cup P)
    <3>1. PICK c \in Available : c.id \notin deletes /\ c.created >= t
      BY <2>14 DEF Survivor
    <3>2. c \in ToSet(server)
      BY DEF Available, Own
    <3>3. CASE c.id \in P
      <4>1. t <= d.created
        BY <1>4, <2>8, <2>10, <3>1, <3>2, <3>3
      <4> QED
        BY <2>12, <4>1
    <3>4. CASE c.id \notin P
      BY <3>1, <3>4 DEF Survivor
    <3> QED
      BY <3>3, <3>4
  <2> QED
    BY <1>6, <2>13, <2>14 DEF P
<1> QED
  BY <1>7, <1>8

\* A step that leaves the server alone: one lookup changes, and some of what is
\* old is deleted.
LEMMA LookupSurvives ==
    ASSUME Typed, Survivors, NEW f, NEW find \in FindRequest, Known(find.list), NEW list \in Seq(Classifier),
           Known(list), finds' = [finds EXCEPT ![f] = find],
           deletes' = deletes \/ deletes' = deletes \cup Purged(list),
           server' = server, created' = created
    PROVE  Survivors'
<1>1. Available' = Available /\ Own' = Own
  BY DEF Available, Own
<1>2. /\ \A id \in deletes' : id <= created
      /\ \A t \in Int : Survivor(t, deletes) => Survivor(t, deletes')
      /\ \A c \in Own : c.id \in deletes' => Survivor(c.created + 1, deletes')
  <2>1. CASE deletes' = deletes
    BY <2>1 DEF Survivors
  <2>2. CASE deletes' = deletes \cup Purged(list)
    <3>1. /\ \A id \in Purged(list) : id <= created
          /\ \A t \in Int : Survivor(t, deletes) => Survivor(t, deletes')
          /\ \A c \in ToSet(server) : c.id \in Purged(list) =>
                Survivor(c.created + 1, deletes')
      BY <2>2, PurgeSpares
    <3>2. \A c \in Own : c \in ToSet(server) /\ c.created + 1 \in Int
      BY ClassifiersOf DEF Own, Typed
    <3> QED
      BY <2>2, <3>1, <3>2 DEF Survivors
  <2> QED
    BY <2>1, <2>2
<1> DEFINE Lives(t) == \E d \in Available' : d.id \notin deletes' /\ d.created >= t
<1>3. \A t : Survivor(t, deletes') <=> Lives(t)
  BY <1>1 DEF Survivor
<1>4. \A t \in Int : Survivor(t, deletes) => Lives(t)
  BY <1>2, <1>3
<1>5. \A c \in Own' : c.id \in deletes' => Lives(c.created + 1)
  BY <1>1, <1>2, <1>3
<1> HIDE DEF Lives
<1>6. ASSUME NEW l \in Seq(Classifier), Known(l)
      PROVE  \A e \in ToSet(l) : /\ e.own /\ e.id <= created'
                                 /\ \A c \in ToSet(server') : Same(e, c)
                                 /\ e.status = "Available" => Lives(e.created)
  <2>1. \A e \in ToSet(l) : e.created \in Int
    BY ClassifiersOf
  <2> QED
    BY <1>4, <1>6, <2>1 DEF Known
<1>7. ASSUME NEW g \in Slots
      PROVE  \A e \in ToSet(finds'[g].list) : /\ e.own /\ e.id <= created'
                                              /\ \A c \in ToSet(server') : Same(e, c)
                                              /\ e.status = "Available" => Lives(e.created)
  <2>1. finds \in [Slots -> FindRequest]
    BY DEF Typed
  <2>2. finds'[g] = find \/ finds'[g] = finds[g]
    BY <2>1
  <2>3. finds[g].list \in Seq(Classifier) /\ Known(finds[g].list)
    BY <2>1 DEF Survivors, FindRequest
  <2>4. find.list \in Seq(Classifier)
    BY DEF FindRequest
  <2> QED
    BY <1>6, <2>2, <2>3, <2>4
<1>8. /\ \A c \in ToSet(server') : c.id <= created' /\ \A d \in ToSet(server') : Same(c, d)
      /\ \A id \in deletes' : id <= created'
  BY <1>2 DEF Survivors
<1> QED
  BY <1>5, <1>7, <1>8 DEF Survivors, Known, Survivor, Same, Lives

\* A step of the server: it keeps what is available unless that is deleted, and
\* what it shows is what it had, in another state of training, or one more.
LEMMA ServerSurvives ==
    ASSUME Typed, Survivors, NEW fresh, finds' = finds, deletes' \subseteq deletes,
           created' = created \/ created' = created + 1,
           \A d \in Available : d.id \notin deletes => d \in Available',
           \A c \in ToSet(server') :
              \/ \E b \in ToSet(server) : b.id = c.id /\ b.own = c.own /\ b.created = c.created
              \/ c = fresh /\ c.id = created + 1 /\ created' = created + 1
    PROVE  Survivors'
<1> DEFINE Lives(t) == \E d \in Available' : d.id \notin deletes' /\ d.created >= t
<1>1. \A t : Survivor(t, deletes) => Lives(t)
  BY DEF Survivor
<1> HIDE DEF Lives
<1>2. created \in Int /\ created' \in Int /\ created <= created'
  BY ClassifierBoundsAssumption DEF Typed
<1>3. \A c \in ToSet(server) : c.id \in Int
  BY ClassifiersOf DEF Typed
<1>4. \A id \in deletes : id \in Int /\ id <= created
  BY ClassifierBoundsAssumption DEF Typed, Ids, Survivors
<1>5. \A c \in ToSet(server) : c.id <= created /\ \A d \in ToSet(server) : Same(c, d)
  BY DEF Survivors
<1>6. \A c, d \in ToSet(server') : c.id <= created' /\ Same(c, d)
  <2> SUFFICES ASSUME NEW c \in ToSet(server'), NEW d \in ToSet(server')
               PROVE  c.id <= created' /\ Same(c, d)
    OBVIOUS
  <2>1. c.id <= created'
    BY <1>2, <1>3, <1>5
  <2>2. Same(c, d)
    BY <1>2, <1>3, <1>5 DEF Same
  <2> QED
    BY <2>1, <2>2
<1>7. \A id \in deletes' : id <= created'
  BY <1>2, <1>4
<1>8. ASSUME NEW c \in ToSet(server'), c.own, c.id \in deletes'
      PROVE  Lives(c.created + 1)
  <2>1. c.id # created + 1
    BY <1>2, <1>4, <1>8
  <2>2. PICK b \in ToSet(server) : b.id = c.id /\ b.own = c.own /\ b.created = c.created
    BY <2>1
  <2>3. b \in Own /\ b.id \in deletes
    BY <1>8, <2>2 DEF Own
  <2> QED
    BY <1>1, <2>2, <2>3 DEF Survivors
<1>9. ASSUME NEW g \in Slots, NEW e \in ToSet(finds[g].list)
      PROVE  /\ e.own /\ e.id <= created'
             /\ \A c \in ToSet(server') : Same(e, c)
             /\ e.status = "Available" => Lives(e.created)
  <2>1. /\ e.own /\ e.id <= created /\ \A c \in ToSet(server) : Same(e, c)
        /\ e.status = "Available" => Lives(e.created)
    BY <1>1 DEF Survivors, Known
  <2>2. e.id \in Int
    <3>1. finds[g].list \in Seq(Classifier)
      BY DEF Typed, FindRequest
    <3> QED
      BY <3>1, ClassifiersOf
  <2>3. ASSUME NEW c \in ToSet(server')
        PROVE  Same(e, c)
    <3>1. CASE \E b \in ToSet(server) : b.id = c.id /\ b.own = c.own /\ b.created = c.created
      <4>1. PICK b \in ToSet(server) : b.id = c.id /\ b.own = c.own /\ b.created = c.created
        BY <3>1
      <4> QED
        BY <2>1, <4>1 DEF Same
    <3>2. CASE c.id = created + 1
      BY <1>2, <2>1, <2>2, <3>2 DEF Same
    <3> QED
      BY <3>1, <3>2
  <2> QED
    BY <1>2, <2>1, <2>2, <2>3
<1> QED
  BY <1>6, <1>7, <1>8, <1>9 DEF Survivors, Known, Survivor, Same, Lives, Own

\* What the listing shows, and what an answer adds to a list.
LEMMA ListingKnown ==
    ASSUME Typed, Survivors
    PROVE  Known(Unlisted(Kept(server).list))
<1> DEFINE kept == Kept(server).list
           list == Unlisted(kept)
<1>1. server \in Seq(Classifier)
  BY DEF Typed
<1>2. kept \in Seq(Classifier) /\ \A c \in ToSet(kept) : c \in ToSet(server) /\ c.own
  BY <1>1, KeptAreOwn
<1> HIDE DEF kept
<1>3. /\ DOMAIN list = DOMAIN kept
      /\ \A i \in DOMAIN kept : /\ list[i].id = kept[i].id
                                /\ list[i].own = kept[i].own
                                /\ list[i].created = kept[i].created
                                /\ list[i].status = "unlisted"
  BY <1>2, UnlistedType
<1> HIDE DEF list
<1>4. \A i \in DOMAIN kept : kept[i] \in ToSet(kept)
  BY DEF ToSet
<1>5. \A c \in ToSet(server) : c.id <= created /\ \A d \in ToSet(server) : Same(c, d)
  BY DEF Survivors
<1>6. ASSUME NEW i \in DOMAIN kept
      PROVE  /\ list[i].own /\ list[i].id <= created
             /\ \A c \in ToSet(server) : Same(list[i], c)
             /\ list[i].status # "Available"
  BY <1>2, <1>3, <1>4, <1>5 DEF Same
<1>7. \A e \in ToSet(list) : \E i \in DOMAIN kept : e = list[i]
  BY <1>3 DEF ToSet
<1>8. Known(list)
  BY <1>6, <1>7 DEF Known
<1> QED
  BY <1>8 DEF list, kept

LEMMA AnswerKnown ==
    ASSUME Typed, Survivors, NEW f \in Slots, NEW id, NEW ok \in BOOLEAN,
           ok => \E c \in ToSet(server) : c.id = id
    PROVE  Known(Listed(f, id, ok))
<1> DEFINE old == finds[f].list
           c == Answer(id)
<1>1. old \in Seq(Classifier) /\ Known(old)
  BY DEF Typed, FindRequest, Survivors
<1>2. CASE ~ok
  BY <1>1, <1>2 DEF Listed
<1>3. CASE ok
  <2>1. c \in ToSet(server) /\ c \in Classifier
    BY <1>3, AnswerType
  <2> HIDE DEF old, c
  <2>2. /\ DOMAIN Update(old, c) = DOMAIN old
        /\ \A i \in DOMAIN old : Update(old, c)[i] = IF old[i].id = c.id THEN c ELSE old[i]
    BY <1>1, <2>1, UpdateType
  <2>3. ASSUME NEW i \in DOMAIN old, old[i].id = c.id
        PROVE  /\ c.own /\ c.id <= created /\ \A d \in ToSet(server) : Same(c, d)
               /\ c.status = "Available" => Survivor(c.created, deletes)
    <3>1. old[i] \in ToSet(old)
      BY DEF ToSet
    <3>2. c.own
      BY <1>1, <2>1, <2>3, <3>1 DEF Known, Same
    <3>3. c.id <= created /\ \A d \in ToSet(server) : Same(c, d)
      BY <2>1 DEF Survivors
    <3>4. ASSUME c.status = "Available"
          PROVE  Survivor(c.created, deletes)
      <4>1. c \in Own /\ c \in Available
        BY <2>1, <3>2, <3>4 DEF Own, Available
      <4>2. c.created \in Int
        BY <2>1, ClassifiersOf DEF Typed
      <4>3. CASE c.id \notin deletes
        BY <4>1, <4>2, <4>3 DEF Survivor
      <4>4. CASE c.id \in deletes
        <5>1. PICK d \in Available : d.id \notin deletes /\ d.created >= c.created + 1
          BY <4>1, <4>4 DEF Survivors, Survivor
        <5>2. d.created \in Int
          BY ClassifiersOf DEF Typed, Available, Own
        <5>3. d.created >= c.created
          BY <4>2, <5>1, <5>2
        <5> QED
          BY <5>1, <5>3 DEF Survivor
      <4> QED
        BY <4>3, <4>4
    <3> QED
      BY <3>2, <3>3, <3>4
  <2>4. \A e \in ToSet(Update(old, c)) : \/ e \in ToSet(old)
                                         \/ e = c /\ \E i \in DOMAIN old : old[i].id = c.id
    BY <2>2 DEF ToSet
  <2>5. Known(Update(old, c))
    BY <1>1, <2>3, <2>4 DEF Known
  <2> QED
    BY <1>3, <2>5 DEF Listed, old, c
<1> QED
  BY <1>2, <1>3

LEMMA InitSurvives == ClassifiersInit => Survivors
<1> SUFFICES ASSUME ClassifiersInit
             PROVE  Survivors
  OBVIOUS
<1> DEFINE a == Initially(TRUE, 1)
           b == Initially(FALSE, 1)
           c == Initially(TRUE, 2)
<1>1. server \in {<< >>, <<a>>, <<b, c>>} /\ created = Len(server) /\ deletes = {}
  BY DEF ClassifiersInit
<1>2. a.id = 1 /\ b.id = 1 /\ c.id = 2
  BY DEF Initially
<1> HIDE DEF a, b, c
<1>3. \A x \in ToSet(server) : x.id <= created /\ \A y \in ToSet(server) : Same(x, y)
  <2>1. CASE server = << >>
    BY <2>1 DEF ToSet
  <2>2. CASE server = <<a>>
    <3>1. created = 1
      BY <1>1, <2>2
    <3>2. \A x \in ToSet(server) : x = a
      BY <2>2 DEF ToSet
    <3> QED
      BY <1>2, <3>1, <3>2 DEF Same
  <2>3. CASE server = <<b, c>>
    <3>1. created = 2
      BY <1>1, <2>3
    <3>2. \A x \in ToSet(server) : x = b \/ x = c
      BY <2>3 DEF ToSet
    <3> QED
      BY <1>2, <3>1, <3>2 DEF Same
  <2> QED
    BY <1>1, <2>1, <2>2, <2>3
<1>4. \A f \in Slots : Known(finds[f].list)
  <2>1. \A f \in Slots : finds[f].list = << >>
    BY DEF ClassifiersInit, Freed
  <2> QED
    BY <2>1 DEF Known, ToSet
<1> QED
  BY <1>1, <1>3, <1>4 DEF Survivors

LEMMA CheckSurvives == Typed /\ Survivors /\ CheckClassifiers => Survivors'
<1> SUFFICES ASSUME Typed, Survivors, CheckClassifiers
             PROVE  Survivors'
  OBVIOUS
<1>1. UNCHANGED <<server, created, deletes>>
  BY DEF CheckClassifiers
<1>2. << >> \in Seq(Classifier) /\ Known(<< >>)
  BY DEF Known, ToSet
<1>3. CASE configured
  <2> DEFINE f == CHOOSE g \in Slots : ~finds[g].live
             find == [Freed EXCEPT !.live = TRUE, !.pending = 1, !.listing = TRUE]
  <2>1. finds' = [finds EXCEPT ![f] = find]
    BY <1>3 DEF CheckClassifiers
  <2>2. find \in FindRequest /\ find.list = << >>
    BY <1>2 DEF FindRequest, Freed
  <2> HIDE DEF f, find
  <2> QED
    BY <1>1, <1>2, <2>1, <2>2, LookupSurvives
<1>4. CASE ~configured
  <2>1. finds' = finds
    BY <1>4 DEF CheckClassifiers
  <2> QED
    BY <1>1, <2>1 DEF Survivors, Known, Survivor, Available, Own
<1> QED
  BY <1>3, <1>4

\* The end of a lookup, with its list.
LEMMA FoundSurvives ==
    ASSUME Typed, Survivors, NEW f, NEW list \in Seq(Classifier), Known(list), Found(f, list),
           server' = server, created' = created
    PROVE  Survivors'
<1>1. Freed \in FindRequest /\ Freed.list = << >>
  BY FreedCounts DEF Freed
<1>2. Known(Freed.list)
  BY <1>1 DEF Known, ToSet
<1>3. finds' = [finds EXCEPT ![f] = Freed] /\ deletes' = deletes \cup Purged(list)
  BY DEF Found
<1> QED
  BY <1>1, <1>2, <1>3, LookupSurvives

LEMMA WaitsSurvives ==
    ASSUME Typed, Survivors, NEW f, NEW find \in FindRequest, Known(find.list), Waits(f, find),
           server' = server, created' = created
    PROVE  Survivors'
<1>1. find.list \in Seq(Classifier)
  BY DEF FindRequest
<1>2. finds' = [finds EXCEPT ![f] = find] /\ deletes' = deletes
  BY DEF Waits
<1> QED
  BY <1>1, <1>2, LookupSurvives

LEMMA OnClassifiersSurvives ==
    ASSUME Typed, Survivors, NEW f \in Slots, NEW ok \in BOOLEAN, OnClassifiers(f, ok)
    PROVE  Survivors'
<1> DEFINE asking == Kept(server).asking
           list == Unlisted(Kept(server).list)
           pending == finds[f].pending - 1 + Cardinality(asking)
           find == [live |-> TRUE, pending |-> pending, listing |-> FALSE,
                    asking |-> asking, list |-> list]
<1>1. UNCHANGED <<server, created>> /\ finds[f].listing
  BY DEF OnClassifiers
<1>2. asking \subseteq Ids /\ list \in Seq(Classifier) /\ Known(list)
  BY ListingType, ListingKnown
<1>3. pending \in Nat
  <2>1. finds[f].asking = {} /\ finds[f].pending = Cardinality(finds[f].asking) + 1
    BY <1>1 DEF Typed, Counted
  <2>2. Cardinality({}) = 0
    BY FS_EmptySet
  <2>3. Cardinality(asking) \in Nat
    BY <1>2, IdsFinite
  <2> HIDE DEF asking
  <2> QED
    BY <2>1, <2>2, <2>3
<1>4. \/ NotFound(f)
      \/ Found(f, list)
      \/ Waits(f, find)
  BY DEF OnClassifiers
<1> HIDE DEF asking, list, pending
<1>5. CASE NotFound(f)
  <2>1. Freed \in FindRequest /\ Freed.list = << >>
    BY FreedCounts DEF Freed
  <2>2. Known(Freed.list)
    BY <2>1 DEF Known, ToSet
  <2>3. Waits(f, Freed)
    BY <1>5 DEF NotFound, Waits
  <2> QED
    BY <1>1, <2>1, <2>2, <2>3, WaitsSurvives
<1>6. CASE Found(f, list)
  BY <1>1, <1>2, <1>6, FoundSurvives
<1>7. CASE Waits(f, find)
  <2>1. find \in FindRequest /\ find.list = list
    BY <1>2, <1>3 DEF FindRequest
  <2> HIDE DEF find
  <2> QED
    BY <1>1, <1>2, <1>7, <2>1, WaitsSurvives
<1> QED
  BY <1>4, <1>5, <1>6, <1>7

LEMMA OnClassifierSurvives ==
    ASSUME Typed, Survivors, NEW f \in Slots, NEW id \in Ids, NEW ok \in BOOLEAN,
           OnClassifier(f, id, ok)
    PROVE  Survivors'
<1> DEFINE old == finds[f]
           list == Listed(f, id, ok)
           find == [old EXCEPT !.pending = @ - 1, !.asking = @ \ {id}, !.list = list]
<1>1. /\ UNCHANGED <<server, created>> /\ id \in old.asking
      /\ IF old.pending = 1 THEN Found(f, list) ELSE Waits(f, find)
  BY DEF OnClassifier, Listed, Answer
<1>2. list \in Seq(Classifier) /\ Known(list)
  BY AnswerType, AnswerKnown DEF OnClassifier
<1> HIDE DEF list
<1>3. CASE old.pending = 1
  BY <1>1, <1>2, <1>3, FoundSurvives
<1>4. CASE old.pending # 1
  <2>1. old \in FindRequest /\ old.asking \subseteq Ids /\ Counted(old)
    BY DEF Typed, FindRequest
  <2>2. Cardinality(old.asking) # 0
    <3>1. IsFiniteSet(old.asking)
      BY <2>1, IdsFinite
    <3> QED
      BY <1>1, <3>1, FS_EmptySet
  <2>3. old.pending - 1 \in Nat
    <3>1. Cardinality(old.asking) \in Nat
      BY <2>1, IdsFinite
    <3> HIDE DEF old
    <3> QED
      BY <2>1, <2>2, <3>1 DEF Counted
  <2> HIDE DEF old
  <2>4. find \in FindRequest /\ find.list = list
    BY <1>2, <2>1, <2>3 DEF FindRequest
  <2> HIDE DEF find
  <2>5. Waits(f, find)
    BY <1>1, <1>4
  <2> QED
    BY <1>1, <1>2, <2>4, <2>5, WaitsSurvives
<1> QED
  BY <1>3, <1>4

LEMMA UploadSurvives ==
    ASSUME Typed, Survivors, NEW ok \in BOOLEAN, UploadArrives(ok)
    PROVE  Survivors'
<1>1. finds' = finds /\ deletes' \subseteq deletes
  BY DEF UploadArrives
<1>2. CASE server' = server /\ created' = created
  <2>1. Available' = Available
    BY <1>2 DEF Available, Own
  <2> QED
    BY <1>1, <1>2, <2>1, ServerSurvives
<1>3. CASE \E c \in Classifier : /\ c.id = created + 1 /\ created' = created + 1
                                 /\ ToSet(server') = ToSet(server) \cup {c}
  <2>1. PICK c \in Classifier : /\ c.id = created + 1 /\ created' = created + 1
                                /\ ToSet(server') = ToSet(server) \cup {c}
    BY <1>3
  <2>2. \A d \in Available : d \in Available'
    BY <2>1 DEF Available, Own
  <2> QED
    BY <1>1, <2>1, <2>2, ServerSurvives
<1> QED
  BY <1>2, <1>3, UploadAppends

LEMMA TrainingSurvives ==
    ASSUME Typed, Survivors, NEW i \in DOMAIN server, NEW status \in {"Available", "Failed"},
           TrainingEnds(i, status)
    PROVE  Survivors'
<1>1. finds' = finds /\ deletes' \subseteq deletes /\ created' = created
  BY DEF TrainingEnds
<1>2. PICK c \in Classifier :
         /\ server' = [server EXCEPT ![i] = c]
         /\ c.id = server[i].id /\ c.own = server[i].own /\ c.created = server[i].created
         /\ server' \in Seq(Classifier)
  BY TrainingChanges
<1>3. DOMAIN server' = DOMAIN server
      /\ \A j \in DOMAIN server : server'[j] = IF j = i THEN c ELSE server[j]
  BY <1>2
<1>4. server[i].status # "Available"
  BY DEF TrainingEnds
<1>5. ASSUME NEW d \in Available
      PROVE  d \in Available'
  <2>1. PICK j \in DOMAIN server : d = server[j]
    BY DEF Available, Own, ToSet
  <2>2. d.status = "Available" /\ d.own
    BY DEF Available, Own
  <2>3. server'[j] = d
    BY <1>3, <1>4, <2>1, <2>2
  <2>4. d \in {server'[k] : k \in DOMAIN server'}
    BY <1>3, <2>3
  <2> QED
    BY <2>2, <2>4 DEF Available, Own, ToSet
<1>6. ASSUME NEW x \in ToSet(server')
      PROVE  \E b \in ToSet(server) : b.id = x.id /\ b.own = x.own /\ b.created = x.created
  <2>1. PICK j \in DOMAIN server : x = server'[j]
    BY <1>3, <1>6 DEF ToSet
  <2>2. server[j] \in ToSet(server)
    BY DEF ToSet
  <2> QED
    BY <1>2, <1>3, <2>1, <2>2
<1> QED
  BY <1>1, <1>5, <1>6, ServerSurvives

LEMMA DeleteSurvives ==
    ASSUME Typed, Survivors, NEW id \in Ids, NEW ok \in BOOLEAN, DeleteArrives(id, ok)
    PROVE  Survivors'
<1>1. /\ finds' = finds /\ deletes' \subseteq deletes /\ created' = created /\ id \in deletes
      /\ server' = Without(server, id) \/ server' = server
  BY DEF DeleteArrives, Without
<1>2. server \in Seq(Classifier)
  BY DEF Typed
<1>3. /\ ToSet(Without(server, id)) \subseteq ToSet(server)
      /\ \A c \in ToSet(server) : c.id # id => c \in ToSet(Without(server, id))
  BY <1>2, DeleteRemoves
<1>4. /\ \A c \in ToSet(server') : c \in ToSet(server)
      /\ \A c \in ToSet(server) : c.id # id => c \in ToSet(server')
  BY <1>1, <1>3
<1>5. ASSUME NEW d \in Available, d.id \notin deletes
      PROVE  d \in Available'
  BY <1>1, <1>4, <1>5 DEF Available, Own
<1> QED
  BY <1>1, <1>4, <1>5, ServerSurvives

LEMMA NextSurvives == Typed /\ Survivors /\ [ClassifiersNext]_classifierVars => Survivors'
<1> SUFFICES ASSUME Typed, Survivors, [ClassifiersNext]_classifierVars
             PROVE  Survivors'
  OBVIOUS
<1>1. CASE UNCHANGED <<server, created, finds, deletes>>
  BY <1>1 DEF Survivors, Known, Survivor, Available, Own
<1>2. CASE RetrainClassifier \/ Tick \/ Weather \/ UNCHANGED classifierVars
  BY <1>1, <1>2 DEF RetrainClassifier, Tick, Weather, classifierVars, environment
<1>3. CASE CheckClassifiers
  BY <1>3, CheckSurvives
<1>4. ASSUME NEW f \in Slots, Lookup(f)
      PROVE  Survivors'
  BY <1>4, OnClassifiersSurvives, OnClassifierSurvives DEF Lookup
<1>5. ASSUME NEW ok \in BOOLEAN, UploadArrives(ok)
      PROVE  Survivors'
  BY <1>5, UploadSurvives
<1>6. ASSUME NEW ok \in BOOLEAN, NEW id \in Ids, DeleteArrives(id, ok)
      PROVE  Survivors'
  BY <1>6, DeleteSurvives
<1>7. ASSUME NEW i \in DOMAIN server, NEW status \in {"Available", "Failed"},
             TrainingEnds(i, status)
      PROVE  Survivors'
  BY <1>7, TrainingSurvives
<1> QED
  BY <1>2, <1>3, <1>4, <1>5, <1>6, <1>7 DEF ClassifiersNext

\* Strictly newer, as integers are.
LEMMA SurvivorsSpare == Typed /\ Survivors => NewestSurvives
<1> SUFFICES ASSUME Typed, Survivors, NEW c \in Own, c.id \in deletes
             PROVE  \E d \in Available : d.id \notin deletes /\ d.created > c.created
  BY DEF NewestSurvives
<1>1. PICK d \in Available : d.id \notin deletes /\ d.created >= c.created + 1
  BY DEF Survivors, Survivor
<1>2. c.created \in Int /\ d.created \in Int
  BY ClassifiersOf DEF Typed, Available, Own
<1>3. d.created > c.created
  BY <1>1, <1>2
<1> QED
  BY <1>1, <1>3

\* Whatever stale or partial answers the purges of any number of overlapping
\* lookups rest on, a classifier is deleted only while a newer one is available
\* that nobody deletes (NLCProxy::OnGetClassifiers).
THEOREM PurgesSpareTheNewest == ClassifiersSpec => []NewestSurvives
<1>1. ClassifiersInit => Typed /\ Survivors
  BY InitTyped, InitSurvives
<1>2. Typed /\ Survivors /\ [ClassifiersNext]_classifierVars => Typed' /\ Survivors'
  BY NextTyped, NextSurvives
<1>3. Typed /\ Survivors => NewestSurvives
  BY SurvivorsSpare
<1> QED
  BY <1>1, <1>2, <1>3, PTL DEF ClassifiersSpec

\* The variables keep their types, and a lookup finds and touches only
\* classifiers of its name, by the loop that swaps the others out and by what is
\* known of the ids it asks for (FindRequest).
THEOREM ClassifiersTyped == ClassifiersSpec => []ClassifiersTypeOK
<1>1. ClassifiersInit => Typed /\ Survivors
  BY InitTyped, InitSurvives
<1>2. Typed /\ Survivors /\ [ClassifiersNext]_classifierVars => Typed' /\ Survivors'
  BY NextTyped, NextSurvives
<1>3. Typed /\ Survivors => ClassifiersTypeOK
  BY DEF Typed, Survivors, Known, ClassifiersTypeOK
<1> QED
  BY <1>1, <1>2, <1>3, PTL DEF ClassifiersSpec
=============================================================================
