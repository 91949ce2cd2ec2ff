--------------------------- MODULE Services_proofs ---------------------------
(***************************************************************************)
(* Theorems about the services that keep something from a request to its   *)
(* answer: the results of SpeechToText, the streams of TextToSpeech, the   *)
(* login of IVA and the pages of NaoBrowser, for every bound of Services;  *)
(* and the request objects of Dialog, for every set of texts, places and   *)
(* responses: whoever asks is answered once, with a response to what was   *)
(* said, and the cache keeps what is fresh.                                *)
(***************************************************************************)
EXTENDS Services, Dialog, Loops_proofs

-----------------------------------------------------------------------------
(* The results of SpeechToText.                                            *)

\* Whether a timer is needed depends on the list being empty, and the length of
\* the list is bounded by the models at the moment of the last Append, so types
\* and the property are one inductive invariant.
Timed == ResultTypeOK /\ WaitingMeansTimed

LEMMA InitTimed == ResultInit => Timed
<1> SUFFICES ASSUME ResultInit
             PROVE  Timed
  OBVIOUS
<1>1. models \in 1..MaxModels /\ streams \in 0..MaxModels
  BY MaxModelsAssumption DEF ResultInit
<1>2. resultList \in Seq(Result) /\ Len(resultList) < MaxModels
  BY MaxModelsAssumption DEF ResultInit
<1>3. callback = "none" /\ resultList = << >> /\ resultTimer = FALSE
  BY DEF ResultInit
<1> QED
  BY <1>1, <1>2, <1>3 DEF Timed, ResultTypeOK, WaitingMeansTimed

\* OnFinalizeResult empties the list and drops the timer, whatever it finds.
LEMMA FinalizeTimed ==
    ASSUME Timed, NEW list, NEW timed, FinalizeResult(list, timed), UNCHANGED models
    PROVE  Timed'
<1>1. resultList' = << >> /\ resultTimer' = FALSE
  BY DEF FinalizeResult
<1>2. streams' \in 0..MaxModels /\ callback' \in {"none", "alive", "gone"}
  BY MaxModelsAssumption DEF FinalizeResult, Timed, ResultTypeOK
<1>3. resultList' \in Seq(Result) /\ Len(resultList') < MaxModels
  BY <1>1, MaxModelsAssumption
<1> QED
  BY <1>1, <1>2, <1>3 DEF Timed, ResultTypeOK, WaitingMeansTimed

\* A result that completes the list finalizes it, any other is kept with a timer.
LEMMA ReconizeTimed ==
    ASSUME Timed, NEW result \in Result, ReconizeResult(result), UNCHANGED models
    PROVE  Timed'
<1> DEFINE list == Append(resultList, result)
<1>1. list \in Seq(Result) /\ list # << >>
  BY DEF Timed, ResultTypeOK
<1>2. CASE Len(list) >= models
  BY <1>2, FinalizeTimed DEF ReconizeResult
<1>3. CASE ~(Len(list) >= models)
  <2>1. resultList' = list /\ resultTimer' = TRUE /\ UNCHANGED <<streams, callback>>
    BY <1>3 DEF ReconizeResult
  <2>2. Len(list) < MaxModels
    BY <1>1, <1>3, MaxModelsAssumption DEF Timed, ResultTypeOK
  <2> HIDE DEF list
  <2> QED
    BY <1>1, <2>1, <2>2 DEF Timed, ResultTypeOK, WaitingMeansTimed
<1> QED
  BY <1>2, <1>3

LEMMA NextTimed == Timed /\ [ResultNext]_resultVars => Timed'
<1> SUFFICES ASSUME Timed, [ResultNext]_resultVars
             PROVE  Timed'
  OBVIOUS
<1> USE DEF Timed, ResultTypeOK, WaitingMeansTimed
<1>1. CASE StartSession
  BY <1>1, MaxModelsAssumption DEF StartSession
<1>2. CASE StopSession
  BY <1>2, MaxModelsAssumption DEF StopSession
<1>3. CASE OwnerGone
  BY <1>3 DEF OwnerGone
<1>4. CASE OnFinalizeResult
  BY <1>4, FinalizeTimed DEF OnFinalizeResult
<1>5. ASSUME NEW n \in 1..MaxModels, SetRecognizeModels(n)
      PROVE  Timed'
  BY <1>5 DEF SetRecognizeModels
<1>6. ASSUME NEW s \in 1..MaxModels, NEW c \in 0..MaxConfidence, OnReconizeResult(s, c)
      PROVE  Timed'
  <2>1. [stream |-> s, confidence |-> c] \in Result
    BY DEF Result
  <2> QED
    BY <1>6, <2>1, ReconizeTimed DEF OnReconizeResult
<1>7. CASE UNCHANGED resultVars
  BY <1>7 DEF resultVars
<1> QED
  BY <1>1, <1>2, <1>3, <1>4, <1>5, <1>6, <1>7 DEF ResultNext

-----------------------------------------------------------------------------
(* The loop of OnFinalizeResult, over a list of any length.                *)

\* Of the first n results one is the best and each other is deleted, once.
Sorted(acc, n) ==
    /\ Len(acc.deleted) + (IF acc.best = 0 THEN 0 ELSE 1) = n
    /\ ToSet(acc.deleted) \cup (IF acc.best = 0 THEN {} ELSE {acc.best}) = 1 .. n

\* One turn of the loop.
LEMMA BetterSorts ==
    ASSUME NEW N \in Nat, NEW list, NEW acc \in [best : 0 .. N, deleted : Seq(1 .. N)],
           NEW n \in 1 .. N
    PROVE  /\ Better(list, acc, n) \in [best : 0 .. N, deleted : Seq(1 .. N)]
           /\ Sorted(acc, n - 1) => Sorted(Better(list, acc, n), n)
<1> DEFINE State == [best : 0 .. N, deleted : Seq(1 .. N)]
<1>1. /\ acc.deleted \in Seq(1 .. N) /\ Len(acc.deleted) \in Nat /\ acc.best \in 0 .. N
      /\ acc = [best |-> acc.best, deleted |-> acc.deleted]
  OBVIOUS
<1>2. ASSUME NEW i \in 1 .. N
      PROVE  /\ Append(acc.deleted, i) \in Seq(1 .. N)
             /\ Len(Append(acc.deleted, i)) = Len(acc.deleted) + 1
             /\ ToSet(Append(acc.deleted, i)) = ToSet(acc.deleted) \cup {i}
  BY <1>1, AppendSet
<1>3. CASE /\ acc.best # 0
           /\ Better(list, acc, n) = [best |-> acc.best, deleted |-> Append(acc.deleted, n)]
  BY <1>1, <1>2, <1>3 DEF Sorted
<1>4. CASE acc.best = 0 /\ Better(list, acc, n) = [best |-> n, deleted |-> acc.deleted]
  BY <1>1, <1>4 DEF Sorted
<1>5. CASE /\ acc.best # 0
           /\ Better(list, acc, n) = [best |-> n, deleted |-> Append(acc.deleted, acc.best)]
  <2>1. acc.best \in 1 .. N
    BY <1>1, <1>5
  <2> QED
    BY <1>1, <1>2, <1>5, <2>1 DEF Sorted
<1>6. ASSUME NEW d
      PROVE  [acc EXCEPT !.deleted = d] = [best |-> acc.best, deleted |-> d]
  OBVIOUS
<1> QED
  BY <1>3, <1>4, <1>5, <1>6 DEF Better

\* The whole loop: Best names one result, if there is one, and deletes the rest.
LEMMA BestSorts ==
    ASSUME NEW list, Len(list) \in Nat
    PROVE  /\ Best(list) \in [best : 0 .. Len(list), deleted : Seq(1 .. Len(list))]
           /\ Sorted(Best(list), Len(list))
<1> DEFINE N == Len(list)
           State == [best : 0 .. N, deleted : Seq(1 .. N)]
           start == [best |-> 0, deleted |-> << >>]
           turn == [a \in State \X (1 .. N) |-> Better(list, a[1], a[2])]
           Loop(f) == f = [n \in 0 .. N |-> IF n = 0 THEN start ELSE Better(list, f[n - 1], n)]
           best == CHOOSE f : Loop(f)
           Done == {n \in 0 .. N : best[n] \in State /\ Sorted(best[n], n)}
<1>1. N \in Nat
  OBVIOUS
<1>2. Best(list) = best[N]
  BY DEF Best
<1>3. start \in State /\ Sorted(start, 0)
  BY <1>1 DEF Sorted, ToSet
<1>4. ASSUME NEW n \in 1 .. N, NEW s \in State
      PROVE  /\ Better(list, s, n) \in State
             /\ Sorted(s, n - 1) => Sorted(Better(list, s, n), n)
  BY <1>1, BetterSorts
<1> HIDE DEF N, State, start
<1>5. turn \in [State \X (1 .. N) -> State]
  BY <1>4
<1>6. PICK f \in [0 .. N -> State] : Turns(f, N, start, turn)
  <2> HIDE DEF turn
  <2> QED
    BY <1>1, <1>3, <1>5, TurnsExist
<1>7. \A n \in 1 .. N : turn[<<f[n - 1], n>>] = Better(list, f[n - 1], n)
  <2> SUFFICES ASSUME NEW n \in 1 .. N
               PROVE  turn[<<f[n - 1], n>>] = Better(list, f[n - 1], n)
    OBVIOUS
  <2>1. <<f[n - 1], n>> \in State \X (1 .. N)
    BY <1>1
  <2> QED
    BY <2>1
<1>8. Loop(best)
  <2> HIDE DEF turn
  <2>1. Loop(f)
    BY <1>6, <1>7 DEF Turns
  <2> QED
    BY <2>1
<1> HIDE DEF best
<1>9. best[0] = start /\ \A n \in 1 .. N : best[n] = Better(list, best[n - 1], n)
  BY <1>1, <1>8
<1>10. 0 \in Done
  BY <1>1, <1>3, <1>9
<1>11. ASSUME NEW n \in 1 .. N, n - 1 \in Done
       PROVE  n \in Done
  BY <1>1, <1>4, <1>9, <1>11
<1>12. N \in Done
  <2> HIDE DEF Done
  <2>1. \A n \in 1 .. N : n - 1 \in Done => n \in Done
    BY <1>11
  <2>2. \A n \in 0 .. N : n \in Done
    BY <1>1, <1>10, <2>1, EveryTurn
  <2> QED
    BY <1>1, <2>2
<1> QED
  BY <1>2, <1>12 DEF State, N

\* OnFinalizeResult hands over or deletes every result of the list, once.
LEMMA FinalizeOnce ==
    ASSUME NEW list, Len(list) \in Nat, DOMAIN list = 1 .. Len(list),
           NEW timed, FinalizeResult(list, timed)
    PROVE  EachResultOnce'
<1> DEFINE N == Len(list)
           b == Best(list)
           valid == callback = "alive"
           handed == IF valid THEN b.best ELSE 0
           deleted == IF valid \/ b.best = 0 THEN b.deleted ELSE Append(b.deleted, b.best)
<1>1. N \in Nat
  OBVIOUS
<1>2. b \in [best : 0 .. N, deleted : Seq(1 .. N)] /\ Sorted(b, N)
  BY BestSorts
<1>3. last'.list = list /\ last'.handed = handed /\ last'.deleted = deleted
  BY DEF FinalizeResult
<1> HIDE DEF N, b
<1>4. /\ Len(deleted) + (IF handed = 0 THEN 0 ELSE 1) = N
      /\ ToSet(deleted) \cup (IF handed = 0 THEN {} ELSE {handed}) = 1 .. N
  <2>1. CASE valid \/ b.best = 0
    BY <1>2, <2>1 DEF Sorted
  <2>2. CASE ~valid /\ b.best # 0
    <3>1. b.best \in 1 .. N /\ b.deleted \in Seq(1 .. N)
      BY <1>1, <1>2, <2>2
    <3>2. /\ Len(deleted) = Len(b.deleted) + 1
          /\ ToSet(deleted) = ToSet(b.deleted) \cup {b.best}
      <4>1. deleted = Append(b.deleted, b.best)
        BY <2>2
      <4> DEFINE E == 1 .. N
                 d == b.deleted
                 e == b.best
      <4>2. d \in Seq(E) /\ e \in E
        BY <3>1
      <4> HIDE DEF deleted, E, d, e
      <4>3. /\ Len(Append(d, e)) = Len(d) + 1
            /\ ToSet(Append(d, e)) = ToSet(d) \cup {e}
        BY <4>2, AppendSet
      <4> QED
        BY <4>1, <4>3 DEF d, e
    <3> QED
      BY <1>2, <2>2, <3>2 DEF Sorted
  <2> QED
    BY <2>1, <2>2
<1>5. Len(last'.list) = N /\ DOMAIN last'.list = 1 .. N
  BY <1>3 DEF N
<1> HIDE DEF handed, deleted
<1> QED
  BY <1>3, <1>4, <1>5 DEF EachResultOnce

\* Nothing finalized, nothing to account for.
LEMMA NothingOnce == last' = Nothing => EachResultOnce'
  BY DEF Nothing, EachResultOnce, ToSet

LEMMA NextOnce == Timed /\ EachResultOnce /\ [ResultNext]_resultVars => EachResultOnce'
<1> SUFFICES ASSUME Timed, EachResultOnce, [ResultNext]_resultVars
             PROVE  EachResultOnce'
  OBVIOUS
<1>1. CASE StartSession \/ StopSession \/ OwnerGone
  BY <1>1, NothingOnce DEF StartSession, StopSession, OwnerGone
<1>2. CASE OnFinalizeResult
  <2>1. Len(resultList) \in Nat /\ DOMAIN resultList = 1 .. Len(resultList)
    BY DEF Timed, ResultTypeOK
  <2> QED
    BY <1>2, <2>1, FinalizeOnce DEF OnFinalizeResult
<1>3. ASSUME NEW n \in 1..MaxModels, SetRecognizeModels(n)
      PROVE  EachResultOnce'
  BY <1>3, NothingOnce DEF SetRecognizeModels
<1>4. ASSUME NEW s \in 1..MaxModels, NEW c \in 0..MaxConfidence, OnReconizeResult(s, c)
      PROVE  EachResultOnce'
  <2> DEFINE list == Append(resultList, [stream |-> s, confidence |-> c])
  <2>1. Len(list) \in Nat /\ DOMAIN list = 1 .. Len(list)
    BY DEF Timed, ResultTypeOK, Result
  <2>2. FinalizeResult(list, FALSE) \/ last' = Nothing
    BY <1>4 DEF OnReconizeResult, ReconizeResult
  <2> HIDE DEF list
  <2> QED
    BY <2>1, <2>2, FinalizeOnce, NothingOnce
<1>5. CASE UNCHANGED resultVars
  BY <1>5 DEF resultVars, EachResultOnce
<1> QED
  BY <1>1, <1>2, <1>3, <1>4, <1>5 DEF ResultNext

LEMMA InitOnce == ResultInit => EachResultOnce
  BY DEF ResultInit, Nothing, EachResultOnce, ToSet

-----------------------------------------------------------------------------
(* The streams of TextToSpeech.                                            *)

Stream ==
    [socket : {"none", "connecting", "open", "closed", "disconnected"},
     posted : Seq({"state", "piece"}), kept : BOOLEAN, nulls : {0, 1}, late : {0}]

\* A connection is kept exactly while its user waits for the end.  Once its
\* socket is closed a notification is on its way, since the socket posts one with
\* each change, and the first to find it closed ends the stream.
StreamFits(c) ==
    /\ c \in Stream
    /\ c.kept <=> Untold(c)
    /\ c.socket = "none" => c.nulls = 0
    /\ c.kept /\ Lost(c) => \E i \in DOMAIN c.posted : c.posted[i] = "state"

StreamsFit == DOMAIN sound = Sounds /\ \A s \in Sounds : StreamFits(sound[s])

LEMMA StreamChanges ==
    ASSUME StreamsFit, NEW s \in Sounds, DOMAIN sound' = Sounds, StreamFits(sound'[s]),
           \A t \in Sounds \ {s} : sound'[t] = sound[t]
    PROVE  StreamsFit'
<1>1. \A t \in Sounds : StreamFits(sound'[t])
  BY DEF StreamsFit
<1>2. QED
  BY <1>1 DEF StreamsFit

\* One notification more, or one less.
LEMMA PostedMore ==
    ASSUME NEW q \in Seq({"state", "piece"}), NEW e \in {"state", "piece"}
    PROVE  /\ Append(q, e) \in Seq({"state", "piece"})
           /\ e = "state" => \E i \in DOMAIN Append(q, e) : Append(q, e)[i] = "state"
           /\ (\E i \in DOMAIN q : q[i] = "state")
                => \E i \in DOMAIN Append(q, e) : Append(q, e)[i] = "state"
<1>1. /\ Append(q, e) \in Seq({"state", "piece"}) /\ Len(q) \in Nat
      /\ DOMAIN Append(q, e) = 1 .. (Len(q) + 1) /\ DOMAIN q = 1 .. Len(q)
      /\ Append(q, e)[Len(q) + 1] = e /\ \A i \in 1 .. Len(q) : Append(q, e)[i] = q[i]
  BY AppendProperties, LenProperties
<1>2. QED
  BY <1>1

LEMMA PostedLess ==
    ASSUME NEW q \in Seq({"state", "piece"}), q # << >>
    PROVE  /\ Tail(q) \in Seq({"state", "piece"})
           /\ Head(q) = "piece" /\ (\E i \in DOMAIN q : q[i] = "state")
                => \E i \in DOMAIN Tail(q) : Tail(q)[i] = "state"
<1>1. /\ Tail(q) \in Seq({"state", "piece"}) /\ Len(q) \in Nat \ {0} /\ Head(q) = q[1]
      /\ DOMAIN q = 1 .. Len(q) /\ DOMAIN Tail(q) = 1 .. (Len(q) - 1)
      /\ \A i \in 1 .. (Len(q) - 1) : Tail(q)[i] = q[i + 1]
  BY HeadTailProperties, LenProperties, EmptySeq
<1>2. ASSUME Head(q) = "piece", NEW i \in DOMAIN q, q[i] = "state"
      PROVE  Tail(q)[i - 1] = "state" /\ i - 1 \in DOMAIN Tail(q)
  BY <1>1, <1>2
<1>3. QED
  BY <1>1, <1>2

LEMMA ToSoundFits ==
    ASSUME StreamsFit, NEW s \in Sounds, ToSound(s)
    PROVE  StreamsFit'
<1> DEFINE c == sound[s]
<1>1. c \in Stream /\ c.socket = "none" /\ c.nulls = 0 /\ c.kept = FALSE /\ DOMAIN sound = Sounds
  <2>1. StreamFits(c) /\ c.socket = "none" /\ DOMAIN sound = Sounds
    BY DEF StreamsFit, ToSound
  <2>2. QED
    BY <2>1 DEF StreamFits, Untold, Stream
<1>2. CASE sound' = [sound EXCEPT ![s].socket = "connecting", ![s].kept = TRUE]
  <2>1. /\ DOMAIN sound' = Sounds /\ \A t \in Sounds \ {s} : sound'[t] = sound[t]
        /\ sound'[s] = [c EXCEPT !.socket = "connecting", !.kept = TRUE]
    BY <1>1, <1>2
  <2>2. StreamFits([c EXCEPT !.socket = "connecting", !.kept = TRUE])
    BY <1>1 DEF StreamFits, Stream, Untold, Lost
  <2>3. QED
    BY <2>1, <2>2, StreamChanges
<1>3. CASE sound' = [sound EXCEPT ![s] = [Ended(@) EXCEPT !.socket = "disconnected"]]
  <2>1. /\ DOMAIN sound' = Sounds /\ \A t \in Sounds \ {s} : sound'[t] = sound[t]
        /\ sound'[s] = [Ended(c) EXCEPT !.socket = "disconnected"]
    BY <1>1, <1>3
  <2>2. Ended(c) = [c EXCEPT !.nulls = 1]
    BY <1>1 DEF Ended, Heard
  <2> DEFINE d == [[c EXCEPT !.nulls = 1] EXCEPT !.socket = "disconnected"]
  <2>3. d \in Stream /\ d.nulls = 1 /\ d.socket = "disconnected" /\ d.kept = FALSE
    BY <1>1 DEF Stream
  <2>4. sound'[s] = d
    BY <2>1, <2>2
  <2> HIDE DEF d
  <2>5. StreamFits(d)
    BY <2>3 DEF StreamFits, Untold
  <2>6. QED
    BY <2>1, <2>4, <2>5, StreamChanges
<1>4. QED
  BY <1>2, <1>3 DEF ToSound

\* A piece reaches the user of a stream that is kept, who was not told its end.
LEMMA ListenMessageFits ==
    ASSUME StreamsFit, NEW s \in Sounds, OnListenMessage(s)
    PROVE  StreamsFit'
<1> DEFINE c == sound[s]
           rest == Tail(c.posted)
<1>1. StreamFits(c) /\ DOMAIN sound = Sounds /\ c.posted # << >> /\ Head(c.posted) = "piece"
  BY DEF StreamsFit, OnListenMessage
<1>2. c \in Stream /\ (c.kept => c.nulls = 0)
  BY <1>1 DEF StreamFits, Untold
<1>3. (IF c.kept THEN Heard(c) ELSE c) = c
  BY <1>2 DEF Heard
<1>4. /\ DOMAIN sound' = Sounds /\ \A t \in Sounds \ {s} : sound'[t] = sound[t]
      /\ sound'[s] = [c EXCEPT !.posted = rest]
  <2> HIDE DEF rest
  <2>1. sound' = [sound EXCEPT ![s] = [c EXCEPT !.posted = rest]]
    BY <1>3 DEF OnListenMessage, rest
  <2>2. QED
    BY <1>1, <2>1
<1>5. /\ rest \in Seq({"state", "piece"})
      /\ (\E i \in DOMAIN c.posted : c.posted[i] = "state")
           => \E i \in DOMAIN rest : rest[i] = "state"
  <2>1. c.posted \in Seq({"state", "piece"})
    BY <1>2 DEF Stream
  <2>2. QED
    BY <1>1, <2>1, PostedLess
<1> HIDE DEF rest
<1>6. StreamFits([c EXCEPT !.posted = rest])
  BY <1>1, <1>2, <1>5 DEF StreamFits, Stream, Untold, Lost
<1>7. QED
  BY <1>4, <1>6, StreamChanges

\* A notification ends a stream that is kept and whose socket is closed by now.
LEMMA ListenStateFits ==
    ASSUME StreamsFit, NEW s \in Sounds, OnListenState(s)
    PROVE  StreamsFit'
<1> DEFINE c == sound[s]
           rest == Tail(c.posted)
           told == IF c.kept /\ Lost(c) THEN [Ended(c) EXCEPT !.kept = FALSE] ELSE c
<1>1. StreamFits(c) /\ DOMAIN sound = Sounds /\ c.posted # << >>
  BY DEF StreamsFit, OnListenState
<1>2. /\ c \in Stream /\ (c.kept <=> Untold(c)) /\ (c.socket = "none" => c.nulls = 0)
      /\ c.posted \in Seq({"state", "piece"})
  BY <1>1 DEF StreamFits, Stream
<1>3. /\ told \in Stream /\ (told.kept <=> Untold(told)) /\ ~(told.kept /\ Lost(told))
      /\ told.posted = c.posted /\ (told.socket = "none" => told.nulls = 0)
  <2>1. CASE c.kept /\ Lost(c)
    <3>1. Ended(c) = [c EXCEPT !.nulls = 1]
      BY <1>2, <2>1 DEF Ended, Heard, Untold, Stream
    <3>2. told = [[c EXCEPT !.nulls = 1] EXCEPT !.kept = FALSE]
      BY <2>1, <3>1
    <3> HIDE DEF told
    <3>3. /\ told \in Stream /\ told.kept = FALSE /\ told.nulls = 1
          /\ told.posted = c.posted /\ told.socket = c.socket
      BY <1>2, <3>2 DEF Stream
    <3>4. QED
      BY <2>1, <3>3 DEF Untold, Lost
  <2>2. CASE ~(c.kept /\ Lost(c))
    <3>1. told = c
      BY <2>2
    <3>2. QED
      BY <1>2, <2>2, <3>1
  <2>3. QED
    BY <2>1, <2>2
<1>4. rest \in Seq({"state", "piece"})
  BY <1>1, <1>2, PostedLess
<1>5. /\ DOMAIN sound' = Sounds /\ \A t \in Sounds \ {s} : sound'[t] = sound[t]
      /\ sound'[s] = [told EXCEPT !.posted = rest]
  <2>1. sound' = [sound EXCEPT ![s] = [told EXCEPT !.posted = rest]]
    BY <1>3 DEF OnListenState
  <2> HIDE DEF rest, told
  <2>2. QED
    BY <1>1, <2>1
<1> HIDE DEF rest, told
<1>6. StreamFits([told EXCEPT !.posted = rest])
  BY <1>3, <1>4 DEF StreamFits, Stream, Untold, Lost
<1>7. QED
  BY <1>5, <1>6, StreamChanges

\* The socket changes, or brings a piece.
LEMMA SocketFits ==
    ASSUME StreamsFit, NEW s \in Sounds, Opens(s) \/ Brings(s) \/ Closes(s)
    PROVE  StreamsFit'
<1> DEFINE c == sound[s]
<1>1. StreamFits(c) /\ DOMAIN sound = Sounds /\ c.socket \in {"connecting", "open"}
  BY DEF StreamsFit, Opens, Brings, Closes
<1>2. c \in Stream /\ (c.kept <=> Untold(c)) /\ c.posted \in Seq({"state", "piece"})
  BY <1>1 DEF StreamFits, Stream
<1>3. PICK to \in {"connecting", "open", "closed", "disconnected"}, e \in {"state", "piece"} :
        /\ sound' = [sound EXCEPT ![s] = [[c EXCEPT !.socket = to] EXCEPT
                                             !.posted = Append(c.posted, e)]]
        /\ to \in {"closed", "disconnected"} => e = "state"
  <2>1. CASE Opens(s)
    BY <1>2, <2>1 DEF Opens, Post, Stream
  <2>2. CASE Brings(s)
    <3>1. c = [c EXCEPT !.socket = "open"]
      BY <1>2, <2>2 DEF Brings, Stream
    <3>2. sound' = [sound EXCEPT ![s] = [c EXCEPT !.posted = Append(c.posted, "piece")]]
      BY <2>2 DEF Brings, Post
    <3>3. QED
      BY <3>1, <3>2
  <2>3. CASE Closes(s)
    BY <1>2, <2>3 DEF Closes, Post, Stream
  <2>4. QED
    BY <2>1, <2>2, <2>3
<1> DEFINE q == Append(c.posted, e)
           d == [[c EXCEPT !.socket = to] EXCEPT !.posted = q]
<1>4. q \in Seq({"state", "piece"}) /\ (e = "state" => \E i \in DOMAIN q : q[i] = "state")
  BY <1>2, PostedMore
<1>5. DOMAIN sound' = Sounds /\ (\A t \in Sounds \ {s} : sound'[t] = sound[t]) /\ sound'[s] = d
  <2> HIDE DEF q
  <2>1. sound' = [sound EXCEPT ![s] = d]
    BY <1>3 DEF q
  <2> HIDE DEF d
  <2>2. QED
    BY <1>1, <2>1
<1> HIDE DEF q
<1>6. StreamFits(d)
  BY <1>1, <1>2, <1>3, <1>4 DEF StreamFits, Stream, Untold, Lost
<1>7. QED
  BY <1>5, <1>6, StreamChanges

LEMMA StreamsStayFit == StreamsFit /\ [StreamsNext]_streamVars => StreamsFit'
  BY ToSoundFits, ListenMessageFits, ListenStateFits, SocketFits
  DEF StreamsNext, Posted, streamVars, StreamsFit

LEMMA StreamsFitFirst == StreamsInit => StreamsFit
  BY DEF StreamsInit, StreamsFit, StreamFits, Stream, Untold, Lost

-----------------------------------------------------------------------------
(* The login of IVA.                                                       *)

\* That a try which finds the session complete is the last one rests on the ids
\* never being forgotten.
LoginType ==
    iva \in [starts : Nat, asked : Nat, ids : SUBSET Cookies, timer : BOOLEAN, flaky : BOOLEAN]

LoginFits == LoginType /\ LoginGoesOn

LEMMA LoginChanges ==
    ASSUME LoginType, NEW s \in Nat, NEW a \in Nat, NEW ids \in SUBSET Cookies, NEW t \in BOOLEAN,
           iva' = [iva EXCEPT !.starts = s, !.asked = a, !.ids = ids, !.timer = t]
    PROVE  LoginType' /\ iva'.asked = a /\ iva'.ids = ids /\ iva'.timer = t
<1> DEFINE P == SUBSET Cookies
<1>1. iva \in [starts : Nat, asked : Nat, ids : P, timer : BOOLEAN, flaky : BOOLEAN] /\ ids \in P
  BY DEF LoginType
<1> HIDE DEF P
<1>2. /\ iva' \in [starts : Nat, asked : Nat, ids : P, timer : BOOLEAN, flaky : BOOLEAN]
      /\ iva'.asked = a /\ iva'.ids = ids /\ iva'.timer = t
  BY <1>1
<1>3. QED
  BY <1>2 DEF LoginType, P

LEMMA LoginStaysFit ==
    ASSUME LoginFits, [LoginNext]_loginVars
    PROVE  LoginFits'
<1> USE DEF LoginFits, LoginGoesOn, LoggedIn
<1>1. /\ iva.starts \in Nat /\ iva.asked \in Nat /\ iva.ids \in SUBSET Cookies
      /\ iva.timer \in BOOLEAN
  BY DEF LoginType
<1>2. CASE IvaStart
  <2> DEFINE n == iva.asked + 1
             m == iva.starts + 1
  <2>1. iva' = [iva EXCEPT !.starts = m, !.asked = n, !.ids = iva.ids, !.timer = iva.timer]
    BY <1>2 DEF IvaStart, Login, LoginType
  <2>2. m \in Nat /\ n \in Nat /\ n > 0
    BY <1>1
  <2> HIDE DEF m, n
  <2>3. LoginType' /\ iva'.asked = n /\ iva'.ids = iva.ids /\ iva'.timer = iva.timer
    BY <1>1, <2>1, <2>2, LoginChanges
  <2>4. QED
    BY <2>2, <2>3
<1>3. CASE Retry
  <2> DEFINE n == iva.asked + 1
  <2>1. iva' = [iva EXCEPT !.starts = iva.starts, !.asked = n, !.ids = iva.ids, !.timer = FALSE]
    BY <1>3 DEF Retry, Login, LoginType
  <2>2. n \in Nat /\ n > 0
    BY <1>1
  <2> HIDE DEF n
  <2>3. LoginType' /\ iva'.asked = n /\ iva'.timer = FALSE
    BY <1>1, <2>1, <2>2, LoginChanges
  <2>4. QED
    BY <2>2, <2>3
<1>4. CASE ServerCalms \/ UNCHANGED loginVars
  BY <1>4 DEF ServerCalms, loginVars, LoginType
<1>5. CASE LoginAnswered
  <2>1. PICK cookies \in SUBSET Cookies : OnLoginSession(cookies)
    BY <1>5 DEF LoginAnswered
  <2> DEFINE known == iva.ids \cup cookies
             again == known # Cookies
             n == iva.asked - 1
  <2>2. iva.asked > 0 /\ iva' = [iva EXCEPT !.starts = iva.starts, !.asked = n,
                                            !.ids = known, !.timer = again]
    BY <2>1 DEF OnLoginSession, LoginType
  <2>3. known \in SUBSET Cookies /\ again \in BOOLEAN /\ n \in Nat
    BY <1>1, <2>2
  <2>4. again <=> known # Cookies
    OBVIOUS
  <2> HIDE DEF known, again, n
  <2>5. LoginType' /\ iva'.ids = known /\ iva'.timer = again
    BY <1>1, <2>2, <2>3, LoginChanges
  <2>6. QED
    BY <2>4, <2>5
<1>6. QED
  BY <1>2, <1>3, <1>4, <1>5 DEF LoginNext

LEMMA LoginFitsFirst == LoginInit => LoginFits
  BY DEF LoginInit, LoginFits, LoginType, LoginGoesOn, Cookies, LoggedIn

-----------------------------------------------------------------------------
(* NaoBrowser.                                                             *)

\* Where the thread is, and what the main thread may rely on: a thread that has
\* not ended was started and not stopped, or Stop waits for it.
ThreadFits ==
    /\ browser.active => ~browser.stopping
    /\ browser.at = "ended" <=> browser.stopped
    /\ browser.active \/ browser.stopping \/ browser.at = "ended"
    /\ browser.connected => browser.held

BrowserType ==
    /\ browser \in [active : BOOLEAN, stopped : BOOLEAN,
                    at : {"posted", "turn", "show", "ended"}, stopping : BOOLEAN,
                    held : BOOLEAN, connected : BOOLEAN, list : Seq(Pages),
                    asked : SUBSET Pages, shown : SUBSET Pages, dropped : SUBSET Pages,
                    starts : Nat]

BrowserFits == BrowserType /\ ThreadFits /\ PagesAreKept

\* The browser with another view of its tablet.
Seen(held, connected) == [browser EXCEPT !.held = held, !.connected = connected]

\* A call to the tablet changes nothing else, and connects none that is not held.
Sees(b) ==
    \E held, connected \in BOOLEAN : b = Seen(held, connected) /\ (connected => held)

LEMMA ConfiguredSees ==
    ASSUME BrowserType, NEW b \in Configured(browser)
    PROVE  Sees(b)
<1> DEFINE down == [browser EXCEPT !.connected = FALSE]
           held == IF tablet.wifi = "absent" THEN down ELSE [down EXCEPT !.held = TRUE]
           on == tablet.wifi = "on"
           h == IF tablet.wifi = "absent" THEN browser.held ELSE TRUE
<1>1. down = Seen(browser.held, FALSE) /\ browser.held \in BOOLEAN
  BY DEF Seen, BrowserType
<1>2. held = Seen(h, FALSE) /\ h \in BOOLEAN
  BY <1>1 DEF Seen, BrowserType
<1>3. [held EXCEPT !.connected = on] = Seen(h, on) /\ on \in BOOLEAN /\ (on => h = TRUE)
  <2> HIDE DEF on, h
  <2>1. [Seen(h, FALSE) EXCEPT !.connected = on] = Seen(h, on)
    BY DEF Seen, BrowserType
  <2>2. QED
    BY <1>2, <2>1 DEF on, h
<1>4. b \in {[held EXCEPT !.connected = on], down, held}
  BY DEF Configured
<1> HIDE DEF down, held, on, h
<1>5. QED
  BY <1>1, <1>2, <1>3, <1>4 DEF Sees

LEMMA CheckedSees ==
    ASSUME BrowserType, NEW b \in Checked(browser)
    PROVE  Sees(b)
<1>1. CASE b \in Configured(browser)
  BY <1>1, ConfiguredSees
<1>2. CASE b \notin Configured(browser)
  <2>1. browser.held /\ b = [browser EXCEPT !.connected = TRUE]
    BY <1>2 DEF Checked
  <2>2. b = Seen(TRUE, TRUE)
    BY <2>1 DEF Seen, BrowserType
  <2>3. QED
    BY <2>2 DEF Sees
<1>3. QED
  BY <1>1, <1>2

\* The pages depend on four fields.
Kept(wanted, list, shown, dropped) ==
    /\ wanted = ToSet(list) \cup shown \cup dropped
    /\ shown \cap dropped = {}
    /\ ToSet(list) \cap (shown \cup dropped) = {}
    /\ \A i, j \in DOMAIN list : list[i] = list[j] => i = j

LEMMA PageAsked ==
    ASSUME NEW a, NEW q \in Seq(Pages), NEW s, NEW d, Kept(a, q, s, d), NEW p \in Pages, p \notin a
    PROVE  Append(q, p) \in Seq(Pages) /\ Kept(a \cup {p}, Append(q, p), s, d)
<1>1. /\ Append(q, p) \in Seq(Pages) /\ Len(q) \in Nat
      /\ DOMAIN Append(q, p) = 1 .. (Len(q) + 1) /\ DOMAIN q = 1 .. Len(q)
      /\ Append(q, p)[Len(q) + 1] = p /\ \A i \in 1 .. Len(q) : Append(q, p)[i] = q[i]
  BY AppendProperties, LenProperties
<1>2. ToSet(Append(q, p)) = ToSet(q) \cup {p}
  BY AppendSet
<1>3. p \notin ToSet(q) /\ p \notin s /\ p \notin d
  BY DEF Kept
<1>4. \A i \in 1 .. Len(q) : q[i] # p
  BY <1>1, <1>3 DEF ToSet
<1>5. ASSUME NEW i \in DOMAIN Append(q, p), NEW j \in DOMAIN Append(q, p),
             Append(q, p)[i] = Append(q, p)[j]
      PROVE  i = j
  BY <1>1, <1>4, <1>5 DEF Kept
<1>6. QED
  BY <1>1, <1>2, <1>3, <1>5 DEF Kept

LEMMA PageTaken ==
    ASSUME NEW a, NEW q \in Seq(Pages), q # << >>, NEW s, NEW d, Kept(a, q, s, d)
    PROVE  /\ Tail(q) \in Seq(Pages) /\ Head(q) \in Pages
           /\ Kept(a, Tail(q), s \cup {Head(q)}, d)
           /\ Kept(a, Tail(q), s, d \cup {Head(q)})
<1> DEFINE p == Head(q)
           r == Tail(q)
<1>1. /\ r \in Seq(Pages) /\ p \in Pages /\ p = q[1] /\ Len(q) \in Nat \ {0}
      /\ DOMAIN q = 1 .. Len(q) /\ DOMAIN r = 1 .. (Len(q) - 1)
      /\ \A i \in 1 .. (Len(q) - 1) : r[i] = q[i + 1]
  BY HeadTailProperties, LenProperties, EmptySeq
<1> HIDE DEF p, r
<1>2. ToSet(q) = ToSet(r) \cup {p}
  <2>1. ASSUME NEW i \in 1 .. Len(q)
        PROVE  q[i] \in ToSet(r) \cup {p}
    <3>1. CASE i = 1
      BY <1>1, <3>1
    <3>2. CASE i # 1
      <4>1. i - 1 \in DOMAIN r /\ r[i - 1] = q[i]
        BY <1>1, <3>2
      <4>2. QED
        BY <4>1 DEF ToSet
    <3>3. QED
      BY <3>1, <3>2
  <2>2. ASSUME NEW i \in DOMAIN r
        PROVE  r[i] \in ToSet(q)
    <3>1. i + 1 \in DOMAIN q /\ r[i] = q[i + 1]
      BY <1>1
    <3>2. QED
      BY <3>1 DEF ToSet
  <2>3. p \in ToSet(q)
    BY <1>1 DEF ToSet
  <2>4. QED
    BY <1>1, <2>1, <2>2, <2>3 DEF ToSet
<1>3. p \notin ToSet(r)
  <2>1. ASSUME NEW i \in DOMAIN r, r[i] = p
        PROVE  FALSE
    BY <1>1, <2>1 DEF Kept
  <2>2. QED
    BY <2>1 DEF ToSet
<1>4. ASSUME NEW i \in DOMAIN r, NEW j \in DOMAIN r, r[i] = r[j]
      PROVE  i = j
  <2>1. i + 1 \in DOMAIN q /\ j + 1 \in DOMAIN q /\ q[i + 1] = q[j + 1] /\ i \in Int /\ j \in Int
    BY <1>1, <1>4
  <2>2. QED
    BY <2>1 DEF Kept
<1>5. Kept(a, r, s \cup {p}, d) /\ Kept(a, r, s, d \cup {p})
  BY <1>2, <1>3, <1>4 DEF Kept
<1>6. QED
  BY <1>1, <1>5 DEF p, r

\* The thread goes on, having called the tablet.
LEMMA TurnFits ==
    ASSUME BrowserType, ThreadFits, NEW at \in {"turn", "show"},
           browser.at # "ended", NEW b, Sees(b), browser' = [b EXCEPT !.at = at]
    PROVE  /\ BrowserType' /\ ThreadFits'
           /\ UNCHANGED <<browser.asked, browser.list, browser.shown, browser.dropped>>
<1>1. PICK held \in BOOLEAN, connected \in BOOLEAN :
        b = Seen(held, connected) /\ (connected => held)
  BY DEF Sees
<1>2. browser' = [browser EXCEPT !.held = held, !.connected = connected, !.at = at]
  BY <1>1 DEF Seen
<1>3. BrowserType'
  BY <1>2 DEF BrowserType
<1>4. /\ browser'.active = browser.active /\ browser'.stopping = browser.stopping
      /\ browser'.stopped = browser.stopped /\ browser'.at = at
      /\ browser'.connected = connected /\ browser'.held = held
      /\ UNCHANGED <<browser.asked, browser.list, browser.shown, browser.dropped>>
  BY <1>2 DEF BrowserType
<1>5. QED
  BY <1>1, <1>3, <1>4 DEF ThreadFits

LEMMA LeftSees ==
    ASSUME BrowserType, browser.connected => browser.held
    PROVE  Sees(browser)
<1>1. browser = Seen(browser.held, browser.connected)
      /\ browser.held \in BOOLEAN /\ browser.connected \in BOOLEAN
  BY DEF Seen, BrowserType
<1>2. QED
  BY <1>1 DEF Sees

LEMMA PagesLeft ==
    ASSUME PagesAreKept,
           UNCHANGED <<browser.asked, browser.list, browser.shown, browser.dropped>>
    PROVE  PagesAreKept'
  BY DEF PagesAreKept

LEMMA BrowserStaysFit ==
    ASSUME BrowserFits, [TabletNext]_tabletVars
    PROVE  BrowserFits'
<1>1. BrowserType /\ ThreadFits /\ PagesAreKept
  BY DEF BrowserFits
<1>2. ASSUME BrowserType', ThreadFits',
             UNCHANGED <<browser.asked, browser.list, browser.shown, browser.dropped>>
      PROVE  BrowserFits'
  BY <1>1, <1>2, PagesLeft DEF BrowserFits
<1>3. CASE UNCHANGED tabletVars \/ TabletChanges
  <2>1. browser' = browser
    BY <1>3 DEF tabletVars, TabletChanges
  <2>2. QED
    BY <1>1, <2>1 DEF BrowserFits, BrowserType, ThreadFits, PagesAreKept
<1>4. CASE BrowserStart
  <2> DEFINE n == browser.starts + 1
  <2>1. /\ ~browser.active /\ ~browser.stopping
        /\ browser' = [browser EXCEPT !.active = TRUE, !.stopped = FALSE, !.at = "posted",
                                      !.starts = n]
    BY <1>4 DEF BrowserStart
  <2>2. n \in Nat
    BY <1>1 DEF BrowserType
  <2> HIDE DEF n
  <2>3. /\ BrowserType' /\ browser'.active = TRUE /\ browser'.stopped = FALSE
        /\ browser'.at = "posted" /\ browser'.stopping = browser.stopping
        /\ browser'.held = browser.held /\ browser'.connected = browser.connected
        /\ UNCHANGED <<browser.asked, browser.list, browser.shown, browser.dropped>>
    BY <1>1, <2>1, <2>2 DEF BrowserType
  <2>4. QED
    BY <1>1, <1>2, <2>1, <2>3 DEF ThreadFits
<1>5. CASE BrowserStop
  <2>1. browser.active /\ browser' = [browser EXCEPT !.active = FALSE, !.stopping = TRUE]
    BY <1>5 DEF BrowserStop
  <2>2. /\ BrowserType' /\ browser'.active = FALSE /\ browser'.stopped = browser.stopped
        /\ browser'.at = browser.at /\ browser'.stopping = TRUE
        /\ browser'.held = browser.held /\ browser'.connected = browser.connected
        /\ UNCHANGED <<browser.asked, browser.list, browser.shown, browser.dropped>>
    BY <1>1, <2>1 DEF BrowserType
  <2>3. QED
    BY <1>1, <1>2, <2>2 DEF ThreadFits
<1>6. CASE BrowserStopReturns
  <2>1. browser.stopped /\ browser' = [browser EXCEPT !.stopping = FALSE]
    BY <1>6 DEF BrowserStopReturns
  <2>2. /\ BrowserType' /\ browser'.active = browser.active /\ browser'.stopped = browser.stopped
        /\ browser'.at = browser.at /\ browser'.stopping = FALSE
        /\ browser'.held = browser.held /\ browser'.connected = browser.connected
        /\ UNCHANGED <<browser.asked, browser.list, browser.shown, browser.dropped>>
    BY <1>1, <2>1 DEF BrowserType
  <2>3. QED
    BY <1>1, <1>2, <2>1, <2>2 DEF ThreadFits
<1>7. ASSUME NEW page \in Pages, ShowURL(page)
      PROVE  BrowserFits'
  <2> DEFINE list == Append(browser.list, page)
             wanted == browser.asked \cup {page}
  <2>1. browser' = [browser EXCEPT !.list = list, !.asked = wanted] /\ page \notin browser.asked
    BY <1>7 DEF ShowURL
  <2>2. browser.list \in Seq(Pages) /\ browser.asked \in SUBSET Pages
        /\ Kept(browser.asked, browser.list, browser.shown, browser.dropped)
    BY <1>1 DEF BrowserType, PagesAreKept, Kept
  <2>3. list \in Seq(Pages) /\ Kept(wanted, list, browser.shown, browser.dropped)
    BY <2>1, <2>2, PageAsked
  <2>4. wanted \in SUBSET Pages
    BY <2>2
  <2> HIDE DEF list, wanted
  <2>5. /\ BrowserType' /\ browser'.list = list /\ browser'.asked = wanted
        /\ browser'.shown = browser.shown /\ browser'.dropped = browser.dropped
        /\ browser'.active = browser.active /\ browser'.stopped = browser.stopped
        /\ browser'.at = browser.at /\ browser'.stopping = browser.stopping
        /\ browser'.held = browser.held /\ browser'.connected = browser.connected
    BY <1>1, <2>1, <2>3, <2>4 DEF BrowserType
  <2>6. PagesAreKept'
    BY <2>3, <2>5 DEF PagesAreKept, Kept
  <2>7. ThreadFits'
    BY <1>1, <2>5 DEF ThreadFits
  <2>8. QED
    BY <2>5, <2>6, <2>7 DEF BrowserFits
<1>8. CASE TabletThread \/ CheckConnection \/ NotYet
  <2>1. PICK at \in {"turn", "show"}, b \in Configured(browser) \cup Checked(browser) \cup {browser} :
          browser' = [b EXCEPT !.at = at]
    BY <1>8 DEF TabletThread, CheckConnection, NotYet
  <2>2. browser.at # "ended"
    BY <1>8 DEF TabletThread, CheckConnection, NotYet
  <2>3. Sees(b)
    BY <1>1, ConfiguredSees, CheckedSees, LeftSees DEF ThreadFits
  <2>4. QED
    BY <1>1, <1>2, <2>1, <2>2, <2>3, TurnFits
<1>9. CASE TabletShowURL
  <2>1. PICK b \in IF browser.connected /\ browser.list # << >> THEN Shown(browser)
                   ELSE {browser} : browser' = [b EXCEPT !.at = "turn"]
    BY <1>9 DEF TabletShowURL
  <2>2. browser.at = "show"
    BY <1>9 DEF TabletShowURL
  <2>3. CASE b = browser
    BY <1>1, <1>2, <2>1, <2>2, <2>3, TurnFits, LeftSees DEF ThreadFits
  <2>4. CASE b \in Shown(browser) /\ browser.list # << >>
    <3> DEFINE page == Head(browser.list)
               list == Tail(browser.list)
    <3>1. PICK shown \in {browser.shown, browser.shown \cup {page}},
               dropped \in {browser.dropped, browser.dropped \cup {page}} :
            /\ browser' = [browser EXCEPT !.list = list, !.shown = shown, !.dropped = dropped,
                                          !.at = "turn"]
            /\ (shown = browser.shown \cup {page} /\ dropped = browser.dropped)
                 \/ (shown = browser.shown /\ dropped = browser.dropped \cup {page})
      <4> DEFINE rest == [browser EXCEPT !.list = list]
                 s == browser.shown \cup {page}
                 d == browser.dropped \cup {page}
      <4>1. rest.shown = browser.shown /\ rest.dropped = browser.dropped
        BY <1>1 DEF BrowserType
      <4>2. b = [rest EXCEPT !.shown = s] \/ b = [rest EXCEPT !.dropped = d]
        <5>1. b \in {[rest EXCEPT !.shown = rest.shown \cup {page}],
                     [rest EXCEPT !.dropped = rest.dropped \cup {page}]}
          BY <2>4 DEF Shown
        <5>2. QED
          BY <4>1, <5>1
      <4> HIDE DEF page, list, s, d
      <4>3. CASE b = [rest EXCEPT !.shown = s]
        <5>1. browser' = [browser EXCEPT !.list = list, !.shown = s,
                                         !.dropped = browser.dropped, !.at = "turn"]
          BY <1>1, <2>1, <4>3 DEF BrowserType
        <5>2. QED
          BY <5>1 DEF s
      <4>4. CASE b = [rest EXCEPT !.dropped = d]
        <5>1. browser' = [browser EXCEPT !.list = list, !.shown = browser.shown,
                                         !.dropped = d, !.at = "turn"]
          BY <1>1, <2>1, <4>4 DEF BrowserType
        <5>2. QED
          BY <5>1 DEF d
      <4>5. QED
        BY <4>2, <4>3, <4>4
    <3>2. browser.list \in Seq(Pages) /\ browser.shown \in SUBSET Pages
          /\ browser.dropped \in SUBSET Pages
          /\ Kept(browser.asked, browser.list, browser.shown, browser.dropped)
      BY <1>1 DEF BrowserType, PagesAreKept, Kept
    <3>3. list \in Seq(Pages) /\ page \in Pages /\ Kept(browser.asked, list, shown, dropped)
      <4>1. /\ list \in Seq(Pages) /\ page \in Pages
            /\ Kept(browser.asked, list, browser.shown \cup {page}, browser.dropped)
            /\ Kept(browser.asked, list, browser.shown, browser.dropped \cup {page})
        BY <2>4, <3>2, PageTaken
      <4> HIDE DEF page, list
      <4>2. QED
        BY <3>1, <4>1
    <3>4. shown \in SUBSET Pages /\ dropped \in SUBSET Pages
      BY <3>1, <3>2, <3>3
    <3> HIDE DEF page, list
    <3>5. /\ BrowserType' /\ browser'.list = list /\ browser'.asked = browser.asked
          /\ browser'.shown = shown /\ browser'.dropped = dropped
          /\ browser'.active = browser.active /\ browser'.stopped = browser.stopped
          /\ browser'.at = "turn" /\ browser'.stopping = browser.stopping
          /\ browser'.held = browser.held /\ browser'.connected = browser.connected
      BY <1>1, <3>1, <3>3, <3>4 DEF BrowserType
    <3>6. PagesAreKept'
      BY <3>3, <3>5 DEF PagesAreKept, Kept
    <3>7. ThreadFits'
      BY <1>1, <2>2, <3>5 DEF ThreadFits
    <3>8. QED
      BY <3>5, <3>6, <3>7 DEF BrowserFits
  <2>5. QED
    BY <2>1, <2>3, <2>4
<1>10. CASE ThreadEnds
  <2>1. ~browser.active /\ browser' = [browser EXCEPT !.at = "ended", !.stopped = TRUE]
    BY <1>10 DEF ThreadEnds
  <2>2. /\ BrowserType' /\ browser'.active = browser.active /\ browser'.stopped = TRUE
        /\ browser'.at = "ended" /\ browser'.stopping = browser.stopping
        /\ browser'.held = browser.held /\ browser'.connected = browser.connected
        /\ UNCHANGED <<browser.asked, browser.list, browser.shown, browser.dropped>>
    BY <1>1, <2>1 DEF BrowserType
  <2>3. QED
    BY <1>1, <1>2, <2>2 DEF ThreadFits
<1>11. QED
  BY <1>3, <1>4, <1>5, <1>6, <1>7, <1>8, <1>9, <1>10 DEF TabletNext

LEMMA BrowserFitsFirst == TabletInit => BrowserFits
<1> SUFFICES ASSUME TabletInit
             PROVE  BrowserFits
  OBVIOUS
<1>1. ToSet(<< >>) = {} /\ DOMAIN << >> = {} /\ << >> \in Seq(Pages)
  BY DEF ToSet
<1>2. QED
  BY <1>1 DEF TabletInit, BrowserFits, BrowserType, ThreadFits, PagesAreKept

-----------------------------------------------------------------------------
(* The four services side by side.                                         *)

ServicesInv == Timed /\ EachResultOnce /\ StreamsFit /\ LoginFits /\ BrowserFits

LEMMA ServicesStep ==
    ASSUME [Next]_vars
    PROVE  /\ [ResultNext]_resultVars /\ [StreamsNext]_streamVars
           /\ [LoginNext]_loginVars /\ [TabletNext]_tabletVars
  BY DEF Next, Results, Streams, Logins, Browser, vars

LEMMA ServicesInvariant == Spec => []ServicesInv
<1>1. Init => ServicesInv
  BY InitTimed, InitOnce, StreamsFitFirst, LoginFitsFirst, BrowserFitsFirst DEF Init, ServicesInv
<1>2. ServicesInv /\ [Next]_vars => ServicesInv'
  BY ServicesStep, NextTimed, NextOnce, StreamsStayFit, LoginStaysFit, BrowserStaysFit
  DEF ServicesInv
<1>3. QED
  BY <1>1, <1>2, PTL DEF Spec

\* Results wait if and only if a timer will release them, across StopListening,
\* a change of the models and a receiver that is gone.
THEOREM NoResultIsForgotten == Spec => []WaitingMeansTimed
<1>1. ServicesInv => WaitingMeansTimed
  BY DEF ServicesInv, Timed
<1>2. QED
  BY <1>1, ServicesInvariant, PTL

\* Whatever the number of results and their confidences, and whether or not the
\* receiver is still there, each result is handed over or deleted, exactly once.
THEOREM ResultsAccountedFor == Spec => []EachResultOnce
<1>1. ServicesInv => EachResultOnce
  BY DEF ServicesInv
<1>2. QED
  BY <1>1, ServicesInvariant, PTL

\* The list stays shorter than the largest number of models, whatever the models
\* are changed to while it is collected.
THEOREM ResultsTyped == Spec => []ResultTypeOK
<1>1. ServicesInv => ResultTypeOK
  BY DEF ServicesInv, Timed
<1>2. QED
  BY <1>1, ServicesInvariant, PTL

\* However late a notification is run, and however the sockets are closed, no
\* stream is left whose user will not hear of its end, and none ends twice.
THEOREM NoStreamIsLeft == Spec => []StreamsAreHeld
<1>1. ASSUME StreamsFit
      PROVE  StreamsAreHeld
  BY <1>1 DEF StreamsFit, StreamFits, Stream, StreamsAreHeld, Untold
<1>2. QED
  BY <1>1, ServicesInvariant, PTL DEF ServicesInv

\* Whatever halves of a session the answers bring, and in whatever order, the
\* service goes on until it has both, and then stops.
THEOREM LoginIsNotGivenUp == Spec => []LoginGoesOn
<1>1. ServicesInv => LoginGoesOn
  BY DEF ServicesInv, LoginFits
<1>2. QED
  BY <1>1, ServicesInvariant, PTL

\* No page is lost or shown twice, over stops, starts, exceptions and a tablet
\* that comes and goes.
THEOREM NoPageIsLost == Spec => []PagesAreKept
<1>1. ServicesInv => PagesAreKept
  BY DEF ServicesInv, BrowserFits
<1>2. QED
  BY <1>1, ServicesInvariant, PTL

\* Start never meets the thread of an earlier start, and no page is shown on a
\* tablet that is not held.
THEOREM OneThreadHasTheTablet == Spec => []OneThreadAndTablet
<1>1. ServicesInv => OneThreadAndTablet
  BY DEF ServicesInv, BrowserFits, ThreadFits, OneThreadAndTablet
<1>2. QED
  BY <1>1, ServicesInvariant, PTL

-----------------------------------------------------------------------------
(* The request objects of Dialog.                                          *)

\* Request objects that have not been used after their end.
Objects(hashes, gots) ==
    [live : BOOLEAN, classified : BOOLEAN, answers : {0, 1}, touched : {0},
     said : hashes, got : gots]

Messages(m) ==
    [live : BOOLEAN, inputHash : {m.inputHash}, useCache : {m.useCache}, callback : BOOLEAN]

silent == proxy = "DeepQA" /\ ~found

\* AnsweredOnce is not inductive: that the server's answer finds the object
\* alive rests on a message with a callback having its object, so that a hit in
\* the cache has reset the callback; that the object then deletes itself rests on
\* every object outside its constructor being classified; and that a new request
\* reuses nothing, on what has not been asked.
Owned(q, m) ==
    /\ q \in Objects({q.said}, {q.got})
    /\ m \in Messages(m)
    /\ q.live => q.classified /\ q.answers = 0
    /\ q.live /\ proxy = "Conversation" => m.live /\ m.callback
    /\ m.live /\ m.callback => q.live
    /\ m.live => proxy = "Conversation"
    /\ q.classified /\ ~q.live /\ ~silent => q.answers = 1

Untouched(q, m) == ~q.live /\ ~q.classified /\ ~m.live

AllOwned ==
    /\ DOMAIN request = Requests /\ DOMAIN message = Requests
    /\ asked \in Nat
    /\ \A r \in Requests : Owned(request[r], message[r])
    /\ \A r \in Requests : r > asked => Untouched(request[r], message[r])

\* The object and the message of one request change to q and m, no others.
Become(r, q, m) ==
    /\ DOMAIN request' = Requests /\ DOMAIN message' = Requests
    /\ request'[r] = q /\ message'[r] = m
    /\ \A p \in Requests \ {r} : request'[p] = request[p] /\ message'[p] = message[p]

LEMMA OwnedOnce == AllOwned => AnsweredOnce
  BY DEF AllOwned, Owned, Objects, AnsweredOnce, silent

-----------------------------------------------------------------------------
(* What the methods of a request object make of it.                        *)

LEMMA ObjectsOf ==
    ASSUME NEW S, NEW G, NEW q \in Objects(S, G)
    PROVE  q \in Objects({q.said}, {q.got})
  BY DEF Objects

\* A live object is answered; outside its constructor it deletes itself.
LEMMA LiveAnswered ==
    ASSUME NEW S, NEW G, NEW q \in Objects(S, G), q.live, q.answers = 0, NEW response
    PROVE  /\ Answered(q, response) \in Objects(S, {response})
           /\ Answered(q, response).live = ~q.classified
           /\ Answered(q, response).classified
           /\ Answered(q, response).answers = 1
<1> DEFINE n == q.answers + 1
           b == ~q.classified /\ q.live
<1>1. Answered(q, response) =
         [q EXCEPT !.answers = n, !.got = response, !.live = b, !.classified = TRUE]
  BY DEF Answered, Called
<1>2. n = 1 /\ b \in BOOLEAN /\ b = ~q.classified
  BY DEF Objects
<1> HIDE DEF n, b
<1> QED
  BY <1>1, <1>2 DEF Objects

\* The end of the constructor deletes an object that was answered inside it.
LEMMA ConstructedDeletes ==
    ASSUME NEW S, NEW G, NEW q \in Objects(S, G), q.classified
    PROVE  /\ Constructed(q) \in Objects(S, G)
           /\ ~Constructed(q).live
           /\ Constructed(q).classified
           /\ Constructed(q).answers = q.answers
  BY DEF Constructed, Objects

LEMMA ConstructedWaits ==
    ASSUME NEW S, NEW G, NEW q \in Objects(S, G), ~q.classified
    PROVE  /\ Constructed(q) \in Objects(S, G)
           /\ Constructed(q).live = q.live
           /\ Constructed(q).classified
           /\ Constructed(q).answers = q.answers
  BY DEF Constructed, Objects

LEMMA NewObject ==
    ASSUME NEW text
    PROVE  /\ New(text) \in Objects({InputHash(text, stack)}, {{}})
           /\ New(text).live /\ ~New(text).classified /\ New(text).answers = 0
  BY DEF New, Unused, Objects

-----------------------------------------------------------------------------
LEMMA InitOwned == DialogInit => AllOwned
<1> SUFFICES ASSUME DialogInit
             PROVE  AllOwned
  OBVIOUS
<1>1. PICK h \in Hashes :
         /\ message = [r \in Requests |-> [live |-> FALSE, inputHash |-> h,
                                           useCache |-> FALSE, callback |-> FALSE]]
         /\ request = [r \in Requests |-> Unused(h)]
  BY DEF DialogInit
<1>2. asked = 0
  BY DEF DialogInit
<1>3. ASSUME NEW r \in Requests
      PROVE  Owned(request[r], message[r]) /\ Untouched(request[r], message[r])
  BY <1>1 DEF Owned, Untouched, Objects, Messages, Unused
<1> QED
  BY <1>1, <1>2, <1>3 DEF AllOwned

LEMMA NewUntouched ==
    ASSUME AllOwned, NEW r \in Requests, NextRequest(r)
    PROVE  Untouched(request[r], message[r]) /\ message[r] \in Messages(message[r])
<1>1. r = asked + 1 /\ asked \in Nat
  BY DEF NextRequest, AllOwned
<1>2. r > asked
  BY <1>1
<1>3. Owned(request[r], message[r])
  BY DEF AllOwned
<1> QED
  BY <1>2, <1>3 DEF AllOwned, Owned

\* A request made now: its number is new, its object and message are its own.
LEMMA MadeOwned ==
    ASSUME AllOwned, NEW r \in Requests, NextRequest(r), UNCHANGED configured,
           NEW q, NEW m, Owned(q, m),
           Become(r, q, m)
    PROVE  AllOwned'
<1>1. DOMAIN request' = Requests /\ DOMAIN message' = Requests
  BY DEF Become
<1>2. r = asked + 1 /\ asked' = r /\ asked' \in Nat
  BY DEF NextRequest, AllOwned, Requests
<1>3. ASSUME NEW p \in Requests
      PROVE  Owned(request[p], message[p])'
  BY <1>3 DEF AllOwned, Owned, Become, silent, configured
<1>4. ASSUME NEW p \in Requests, p > asked'
      PROVE  Untouched(request[p], message[p])'
  BY <1>2, <1>4 DEF AllOwned, Untouched, Become, Requests
<1> QED
  BY <1>1, <1>2, <1>3, <1>4 DEF AllOwned

\* A message that is sent: with a callback it has a waiting object, without one
\* the object has been answered by the cache.
LEMMA ClassifyOwned ==
    ASSUME AllOwned, NEW r \in Requests, NEW text, Classify(r, text)
    PROVE  AllOwned'
<1>0. proxy = "Conversation" /\ NextRequest(r) /\ UNCHANGED configured
  BY DEF Classify
<1>1. CASE found
  <2> DEFINE hash == InputHash(text, stack)
  <2>1. PICK hit \in Hits(hash, useCache) :
           /\ Message(r, hash, useCache, TRUE, hit)
           /\ request' = [request EXCEPT
                  ![r] = Constructed(IF hit = {} THEN New(text) ELSE Answered(New(text), hit))]
    BY <1>1 DEF Classify
  <2> DEFINE made == IF hit = {} THEN New(text) ELSE Answered(New(text), hit)
             q == Constructed(made)
             m == [live |-> TRUE, inputHash |-> hash,
                   useCache |-> useCache, callback |-> TRUE /\ hit = {}]
  <2>2. message' = [message EXCEPT ![r] = m]
    BY <2>1 DEF Message
  <2>3. m \in Messages(m) /\ m.live = TRUE /\ m.callback = (hit = {})
    BY DEF Messages
  <2>4. ASSUME hit = {}
        PROVE  Owned(q, m)
    <3>1. q \in Objects({hash}, {{}}) /\ q.live /\ q.classified /\ q.answers = 0
      BY <2>4, NewObject, ConstructedWaits
    <3>2. q \in Objects({q.said}, {q.got})
      BY <3>1, ObjectsOf
    <3> HIDE DEF q, m
    <3> QED
      BY <1>0, <2>3, <2>4, <3>1, <3>2 DEF Owned
  <2>5. ASSUME hit # {}
        PROVE  Owned(q, m)
    <3>1. made \in Objects({hash}, {hit}) /\ made.classified /\ made.answers = 1
      BY <2>5, NewObject, LiveAnswered
    <3>2. q \in Objects({hash}, {hit}) /\ ~q.live /\ q.classified /\ q.answers = 1
      BY <3>1, ConstructedDeletes
    <3>3. q \in Objects({q.said}, {q.got})
      BY <3>2, ObjectsOf
    <3> HIDE DEF q, m
    <3> QED
      BY <1>0, <2>3, <2>5, <3>2, <3>3 DEF Owned
  <2>6. request' = [request EXCEPT ![r] = q]
    BY <2>1
  <2>7. Owned(q, m)
    BY <2>4, <2>5
  <2> HIDE DEF q, m
  <2> QED
    <3>1. Become(r, q, m)
      BY <2>2, <2>6 DEF Become, AllOwned
    <3> QED
      BY <1>0, <2>7, <3>1, MadeOwned
<1>2. CASE ~found
  <2> DEFINE q == [New(text) EXCEPT !.classified = TRUE, !.answers = 1, !.live = FALSE]
  <2>1. q \in Objects({InputHash(text, stack)}, {{}})
        /\ ~q.live /\ q.classified /\ q.answers = 1
    BY NewObject DEF Objects
  <2>2. q \in Objects({q.said}, {q.got})
    BY <2>1, ObjectsOf
  <2>3. request' = [request EXCEPT ![r] = q] /\ message' = message
    BY <1>2 DEF Classify
  <2> HIDE DEF q
  <2>4. Untouched(request[r], message[r]) /\ message[r] \in Messages(message[r])
    BY <1>0, NewUntouched
  <2>5. Owned(q, message[r])
    BY <2>1, <2>2, <2>4 DEF Owned, Untouched
  <2> QED
    <3>1. Become(r, q, message[r])
      BY <2>3 DEF Become, AllOwned
    <3> QED
      BY <1>0, <2>5, <3>1, MadeOwned
<1> QED
  BY <1>1, <1>2

LEMMA PrecacheOwned ==
    ASSUME AllOwned, NEW r \in Requests, NEW text, PrecacheLine(r, text)
    PROVE  AllOwned'
<1>0. PICK hit \in Hits(InputHash(text, stack), TRUE) :
         Message(r, InputHash(text, stack), TRUE, FALSE, hit)
  BY DEF PrecacheLine, Precache
<1> DEFINE m == [live |-> TRUE, inputHash |-> InputHash(text, stack),
                 useCache |-> TRUE, callback |-> FALSE /\ hit = {}]
<1>1. /\ proxy = "Conversation" /\ NextRequest(r) /\ UNCHANGED configured
      /\ request' = request /\ message' = [message EXCEPT ![r] = m]
  BY <1>0 DEF PrecacheLine, Message
<1>2. m \in Messages(m) /\ ~m.callback
  BY DEF Messages
<1> HIDE DEF m
<1>3. Untouched(request[r], message[r]) /\ request[r] \in Objects({request[r].said}, {request[r].got})
  BY <1>1, NewUntouched DEF AllOwned, Owned
<1>4. Owned(request[r], m)
  BY <1>1, <1>2, <1>3 DEF Owned, Untouched
<1>5. Become(r, request[r], m)
  BY <1>1 DEF AllOwned, Become
<1> QED
  BY <1>1, <1>4, <1>5, MadeOwned

\* The other proxies: without the service all but DeepQAProxy answer at once.
LEMMA AskOwned ==
    ASSUME AllOwned, NEW r \in Requests, NEW text, Ask(r, text)
    PROVE  AllOwned'
<1> DEFINE q == [New(text) EXCEPT !.classified = TRUE]
           made == IF proxy = "DeepQA" THEN DeepQARequest(q)
                   ELSE IF found THEN q ELSE Answered(q, {})
<1>1. /\ proxy # "Conversation" /\ NextRequest(r) /\ UNCHANGED configured
      /\ message' = message /\ request' = [request EXCEPT ![r] = made]
  BY DEF Ask, conversationVars, InteractRequest, OtherRequest
<1>2. q \in Objects({InputHash(text, stack)}, {{}}) /\ q.live /\ q.classified /\ q.answers = 0
  BY NewObject DEF Objects
<1>3. Untouched(request[r], message[r]) /\ message[r] \in Messages(message[r])
  BY <1>1, NewUntouched
<1> HIDE DEF q
<1>4. /\ made \in Objects({InputHash(text, stack)}, {{}})
      /\ made.live => made.classified /\ made.answers = 0
      /\ made.classified /\ ~made.live /\ ~silent => made.answers = 1
  <2>1. CASE found
    BY <1>2, <2>1 DEF DeepQARequest
  <2>2. CASE proxy = "DeepQA" /\ ~found
    <3>1. made = [q EXCEPT !.live = FALSE]
      BY <2>2 DEF DeepQARequest
    <3> QED
      BY <1>2, <2>2, <3>1 DEF silent, Objects
  <2>3. CASE proxy # "DeepQA" /\ ~found
    BY <1>2, <2>3, LiveAnswered
  <2> QED
    BY <2>1, <2>2, <2>3
<1> HIDE DEF made
<1>5. made \in Objects({made.said}, {made.got})
  BY <1>4, ObjectsOf
<1>6. Owned(made, message[r])
  BY <1>1, <1>3, <1>4, <1>5 DEF Owned, Untouched
<1>7. Become(r, made, message[r])
  BY <1>1 DEF Become, AllOwned
<1> QED
  BY <1>1, <1>6, <1>7, MadeOwned

-----------------------------------------------------------------------------
\* A request made before is answered: its object and message are its own.
LEMMA AnsweredOwned ==
    ASSUME AllOwned, NEW r \in Requests, UNCHANGED <<asked, configured>>,
           ~Untouched(request[r], message[r]),
           NEW q, NEW m, Owned(q, m), Become(r, q, m)
    PROVE  AllOwned'
<1>1. DOMAIN request' = Requests /\ DOMAIN message' = Requests /\ asked' \in Nat
  BY DEF Become, AllOwned
<1>2. ASSUME NEW p \in Requests
      PROVE  Owned(request[p], message[p])'
  BY <1>2 DEF AllOwned, Owned, Become, silent, configured
<1>3. ASSUME NEW p \in Requests, p > asked
      PROVE  Untouched(request[p], message[p])'
  <2>1. p # r
    BY <1>3 DEF AllOwned
  <2> QED
    BY <1>3, <2>1 DEF AllOwned, Untouched, Become
<1> QED
  BY <1>1, <1>2, <1>3 DEF AllOwned

LEMMA OnAnswerOwned ==
    ASSUME AllOwned, NEW r \in Requests, OnAnswer(r)
    PROVE  AllOwned'
<1> DEFINE q == Answered(request[r], {})
<1>1. /\ proxy # "Conversation" /\ request[r].live /\ UNCHANGED <<asked, configured>>
      /\ request' = [request EXCEPT ![r] = q] /\ message' = message
  BY DEF OnAnswer, conversationVars
<1>2. Owned(request[r], message[r])
  BY DEF AllOwned
<1>3. /\ request[r] \in Objects({request[r].said}, {request[r].got})
      /\ request[r].classified /\ request[r].answers = 0
  BY <1>1, <1>2 DEF Owned
<1>4. q \in Objects({request[r].said}, {{}}) /\ ~q.live /\ q.classified /\ q.answers = 1
  BY <1>1, <1>3, LiveAnswered
<1> HIDE DEF q
<1>5. q \in Objects({q.said}, {q.got})
  BY <1>4, ObjectsOf
<1>6. Owned(q, message[r])
  BY <1>1, <1>2, <1>4, <1>5 DEF Owned
<1>7. Become(r, q, message[r])
  BY <1>1 DEF Become, AllOwned
<1>8. ~Untouched(request[r], message[r])
  BY <1>1 DEF Untouched
<1> QED
  BY <1>1, <1>6, <1>7, <1>8, AnsweredOwned

\* The server's answer reaches the object only if the callback is still set.
LEMMA OnConversationOwned ==
    ASSUME AllOwned, NEW r \in Requests, NEW response, OnConversation(r, response)
    PROVE  AllOwned'
<1> DEFINE q == IF message[r].callback THEN Answered(request[r], response) ELSE request[r]
           m == [message[r] EXCEPT !.live = FALSE]
<1>1. /\ message[r].live /\ UNCHANGED <<asked, configured>>
      /\ message' = [message EXCEPT ![r] = m]
  BY DEF OnConversation, OnResponse
<1>2. Owned(request[r], message[r])
  BY DEF AllOwned
<1>3. m \in Messages(m) /\ ~m.live
  BY <1>2 DEF Owned, Messages
<1>4. Become(r, q, m)
  <2>1. CASE message[r].callback
    BY <1>1, <2>1 DEF OnConversation, Become, AllOwned
  <2>2. CASE ~message[r].callback
    BY <1>1, <2>2 DEF OnConversation, Become, AllOwned
  <2> QED
    BY <2>1, <2>2
<1>5. Owned(q, m)
  <2>1. CASE message[r].callback
    <3>1. /\ request[r] \in Objects({request[r].said}, {request[r].got})
          /\ request[r].live /\ request[r].classified /\ request[r].answers = 0
      BY <1>1, <1>2, <2>1 DEF Owned
    <3>2. q \in Objects({request[r].said}, {response}) /\ ~q.live /\ q.classified /\ q.answers = 1
      BY <2>1, <3>1, LiveAnswered
    <3> HIDE DEF q, m
    <3>3. q \in Objects({q.said}, {q.got})
      BY <3>2, ObjectsOf
    <3> QED
      BY <1>3, <3>2, <3>3 DEF Owned
  <2>2. CASE ~message[r].callback
    <3>1. q = request[r] /\ proxy = "Conversation" /\ ~request[r].live
      BY <1>1, <1>2, <2>2 DEF Owned
    <3> HIDE DEF q, m
    <3> QED
      BY <1>2, <1>3, <3>1 DEF Owned
  <2> QED
    BY <2>1, <2>2
<1>6. ~Untouched(request[r], message[r])
  BY <1>1 DEF Untouched
<1> HIDE DEF q, m
<1> QED
  BY <1>1, <1>4, <1>5, <1>6, AnsweredOwned

-----------------------------------------------------------------------------
LEMMA NextOwned == AllOwned /\ [DialogNext]_dialogVars => AllOwned'
<1> SUFFICES ASSUME AllOwned, [DialogNext]_dialogVars
             PROVE  AllOwned'
  OBVIOUS
<1>1. ASSUME UNCHANGED <<message, configured, request, asked>>
      PROVE  AllOwned'
  BY <1>1 DEF AllOwned, Owned, Untouched, silent, configured
<1>2. ASSUME NEW r \in Requests, NEW text \in Texts,
             Classify(r, text) \/ PrecacheLine(r, text) \/ Ask(r, text)
      PROVE  AllOwned'
  BY <1>2, ClassifyOwned, PrecacheOwned, AskOwned
<1>3. ASSUME NEW r \in Requests, Responded(r) \/ OnAnswer(r)
      PROVE  AllOwned'
  BY <1>3, OnConversationOwned, OnAnswerOwned DEF Responded
<1>4. CASE (Tick \/ Drop) /\ UNCHANGED <<configured, stack, request, asked, given>>
  BY <1>1, <1>4 DEF Tick, Drop
<1>5. CASE UNCHANGED dialogVars
  BY <1>1, <1>5 DEF dialogVars, conversationVars
<1> QED
  BY <1>2, <1>3, <1>4, <1>5 DEF DialogNext

\* Whoever asks one of the five proxies is answered once, by the cache inside
\* the constructor or by the server later, and no object is used after its end.
THEOREM EachAskedOnce == DialogSpec => []AnsweredOnce
<1> QED
  BY InitOwned, NextOwned, OwnedOnce, PTL DEF DialogSpec

-----------------------------------------------------------------------------
(* The entries of the cache.                                               *)

\* The items of an entry, and when one has not expired.
Item == [response : Responses, timestamp : Nat]
Fresh(item) == now - item.timestamp <= MaxAge
Distinct(items) ==
    \A i, j \in DOMAIN items : items[i].response = items[j].response => i = j

\* What n turns of the loop have done to the items of an entry: each turn has
\* stepped over an item or removed an expired one, those before i are fresh, and
\* no fresh one is gone.
Swept(acc, items, n) ==
    /\ acc \in [i : Nat \ {0}, items : Seq(Item)]
    /\ acc.i + Len(items) = n + 1 + Len(acc.items)
    /\ acc.i >= 1 /\ Len(acc.items) <= Len(items)
    /\ \A j \in DOMAIN acc.items : j < acc.i => Fresh(acc.items[j])
    /\ \A j \in DOMAIN acc.items : acc.items[j] \in ToSet(items)
    /\ \A x \in ToSet(items) : Fresh(x) => x \in ToSet(acc.items)
    /\ Distinct(acc.items)

LEMMA ExpireSweeps ==
    ASSUME NEW N \in Nat, NEW items, Len(items) = N, NEW n \in 1 .. N,
           now \in Nat, NEW acc, Swept(acc, items, n - 1)
    PROVE  Swept(Expire(acc), items, n)
<1> DEFINE i == acc.i
           s == acc.items
           L == Len(s)
<1>1. /\ i \in Nat \ {0} /\ s \in Seq(Item) /\ L \in Nat /\ acc = [i |-> i, items |-> s]
      /\ DOMAIN s = 1 .. L
  BY DEF Swept
<1>2. i + N = n + L /\ L <= N
  BY <1>1 DEF Swept
<1>3. i \in 1 .. L
  BY <1>1, <1>2
<1> DEFINE e == Expire(acc)
<1>6. Fresh(s[i]) <=> ~(now - s[i].timestamp > MaxAge)
  <2>1. s[i].timestamp \in Nat /\ MaxAge \in Nat
    <3>1. s[i] \in Item
      <4> HIDE DEF s, i
      <4> QED
        BY <1>1, <1>3
    <3> QED
      BY <3>1, ConversationBoundsAssumption DEF Item
  <2> HIDE DEF s, i
  <2> QED
    BY <2>1 DEF Fresh
<1>4. CASE now - s[i].timestamp > MaxAge
  <2> DEFINE r == Front([s EXCEPT ![i] = Last(s)])
  <2>1. Expire(acc) = [acc EXCEPT !.items = r]
    BY <1>4 DEF Expire
  <2>2. e = [i |-> i, items |-> r]
    BY <1>1, <2>1
  <2>3. /\ r \in Seq(Item) /\ Len(r) = L - 1
        /\ \A j \in 1 .. (L - 1) : r[j] = IF j = i THEN s[L] ELSE s[j]
    BY <1>1, <1>3, SwapOut
  <2> HIDE DEF r, s, L, i, e
  <2>4. DOMAIN r = 1 .. (L - 1)
    BY <1>1, <1>3, <2>3
  <2>5. \A j \in DOMAIN r : j < i => Fresh(r[j])
    <3>1. \A j \in DOMAIN s : j < i => Fresh(s[j])
      BY DEF Swept, s, i
    <3> QED
      BY <1>1, <1>3, <2>3, <2>4, <3>1
  <2>6. \A j \in DOMAIN r : r[j] \in ToSet(items)
    <3>1. \A j \in DOMAIN s : s[j] \in ToSet(items)
      BY DEF Swept, s
    <3> QED
      BY <1>1, <1>3, <2>3, <2>4, <3>1
  <2>7. ASSUME NEW x \in ToSet(items), Fresh(x)
        PROVE  x \in ToSet(r)
    <3>1. PICK k \in 1 .. L : s[k] = x
      <4>1. x \in ToSet(s)
        BY <2>7 DEF Swept, s
      <4> QED
        BY <1>1, <4>1 DEF ToSet
    <3>2. ~Fresh(s[i])
      BY <1>4, <1>6
    <3>3. k # i
      BY <2>7, <3>1, <3>2
    <3>4. CASE k = L
      <4>1. i \in DOMAIN r /\ r[i] = s[L]
        BY <1>1, <1>3, <2>3, <2>4, <3>3, <3>4
      <4> QED
        BY <3>1, <3>4, <4>1 DEF ToSet
    <3>5. CASE k # L
      <4>1. k \in DOMAIN r /\ r[k] = s[k]
        BY <1>1, <1>3, <2>3, <2>4, <3>3, <3>5
      <4> QED
        BY <3>1, <4>1 DEF ToSet
    <3> QED
      BY <3>4, <3>5
  <2>8. Distinct(r)
    <3>1. \A j, k \in 1 .. L : s[j].response = s[k].response => j = k
      BY <1>1 DEF Swept, Distinct, s
    <3> QED
      BY <1>1, <1>3, <2>3, <2>4, <3>1 DEF Distinct
  <2>9. i + N = n + 1 + (L - 1) /\ i >= 1 /\ L - 1 <= N
    BY <1>1, <1>2
  <2>10. e \in [i : Nat \ {0}, items : Seq(Item)] /\ e.i = i /\ e.items = r
    BY <1>1, <2>2, <2>3
  <2>11. Swept(e, items, n)
    BY <2>3, <2>5, <2>6, <2>7, <2>8, <2>9, <2>10 DEF Swept
  <2> QED
    BY <2>11 DEF e
<1>5. CASE ~(now - s[i].timestamp > MaxAge)
  <2>1. e = [i |-> i + 1, items |-> s]
    BY <1>1, <1>5 DEF Expire
  <2>2. \A j \in DOMAIN s : j < i => Fresh(s[j])
    BY DEF Swept
  <2>3. /\ \A j \in DOMAIN s : s[j] \in ToSet(items)
        /\ \A x \in ToSet(items) : Fresh(x) => x \in ToSet(s)
        /\ Distinct(s)
    BY DEF Swept
  <2>4. Fresh(s[i])
    BY <1>5, <1>6
  <2> HIDE DEF s, i, L, e
  <2>5. \A j \in DOMAIN s : j < i + 1 => Fresh(s[j])
    BY <1>1, <1>3, <2>2, <2>4
  <2>6. i + 1 \in Nat \ {0} /\ i + 1 >= 1 /\ (i + 1) + N = n + 1 + L
    BY <1>1, <1>2
  <2>7. e \in [i : Nat \ {0}, items : Seq(Item)] /\ e.i = i + 1 /\ e.items = s
    BY <1>1, <2>1, <2>6
  <2>8. Swept(e, items, n)
    BY <1>2, <2>3, <2>5, <2>6, <2>7 DEF Swept, L
  <2> QED
    BY <2>8 DEF e
<1> QED
  BY <1>4, <1>5

\* The whole loop keeps exactly the fresh items.
LEMMA UnexpiredKeeps ==
    ASSUME now \in Nat, NEW items \in Seq(Item), Distinct(items)
    PROVE  /\ Unexpired(items) \in Seq(Item)
           /\ ToSet(Unexpired(items)) = {x \in ToSet(items) : Fresh(x)}
           /\ Distinct(Unexpired(items))
<1> DEFINE N == Len(items)
           State == [i : Nat \ {0}, items : Seq(Item)]
           start == [i |-> 1, items |-> items]
           Loop(f) == f = [n \in 0 .. N |-> IF n = 0 THEN start ELSE Expire(f[n - 1])]
           turn == [a \in State \X (1 .. N) |->
                      IF Expire(a[1]) \in State THEN Expire(a[1]) ELSE start]
           loop == CHOOSE f : Loop(f)
           Done == {n \in 0 .. N : Swept(loop[n], items, n)}
<1>1. N \in Nat /\ N = Len(items) /\ DOMAIN items = 1 .. N
  OBVIOUS
<1>2. start \in State /\ Swept(start, items, 0)
  <2>1. start \in State
    OBVIOUS
  <2>2. ToSet(items) = {items[j] : j \in DOMAIN items}
    BY DEF ToSet
  <2> QED
    BY <1>1, <2>1, <2>2 DEF Swept
<1>3. ASSUME NEW n \in 1 .. N, NEW acc, Swept(acc, items, n - 1)
      PROVE  Swept(Expire(acc), items, n)
  <2> HIDE DEF N
  <2> QED
    BY <1>1, <1>3, ExpireSweeps
<1>4. ASSUME NEW n, NEW acc, Swept(acc, items, n)
      PROVE  acc \in State
  BY <1>4 DEF Swept
<1>5. Unexpired(items) = loop[N].items
  BY DEF Unexpired
<1> HIDE DEF N, State, start
<1>6. turn \in [State \X (1 .. N) -> State]
  BY <1>2
<1>7. PICK f \in [0 .. N -> State] : Turns(f, N, start, turn)
  <2>1. N \in Nat
    BY <1>1
  <2> HIDE DEF turn
  <2> QED
    BY <1>2, <1>6, <2>1, TurnsExist
<1>8. f[0] = start /\ \A n \in 1 .. N : f[n] = turn[<<f[n - 1], n>>]
  <2> HIDE DEF turn
  <2> QED
    BY <1>1, <1>7 DEF Turns
<1>9. \A n \in 1 .. N : Expire(f[n - 1]) \in State => f[n] = Expire(f[n - 1])
  <2> SUFFICES ASSUME NEW n \in 1 .. N, Expire(f[n - 1]) \in State
               PROVE  f[n] = Expire(f[n - 1])
    OBVIOUS
  <2>1. <<f[n - 1], n>> \in State \X (1 .. N)
    BY <1>1
  <2> QED
    BY <1>8, <2>1
<1> HIDE DEF turn
<1>10. \A n \in 0 .. N : Swept(f[n], items, n)
  <2> DEFINE Reached == {n \in 0 .. N : Swept(f[n], items, n)}
  <2>1. N \in Nat /\ 0 \in Reached
    BY <1>1, <1>2, <1>8
  <2>2. ASSUME NEW n \in 1 .. N, n - 1 \in Reached
        PROVE  n \in Reached
    <3>1. Swept(Expire(f[n - 1]), items, n)
      BY <1>3, <2>2
    <3>2. f[n] = Expire(f[n - 1])
      BY <1>4, <1>9, <3>1
    <3> QED
      BY <2>1, <3>1, <3>2
  <2>3. \A n \in 0 .. N : n \in Reached
    <3> HIDE DEF Reached
    <3> QED
      BY <2>1, <2>2, EveryTurn
  <2> QED
    BY <2>3
<1>11. Loop(f)
  <2>1. \A n \in 1 .. N : f[n] = Expire(f[n - 1])
    <3> SUFFICES ASSUME NEW n \in 1 .. N
                 PROVE  f[n] = Expire(f[n - 1])
      OBVIOUS
    <3>1. n - 1 \in 0 .. N
      BY <1>1
    <3>2. Swept(Expire(f[n - 1]), items, n)
      BY <1>3, <1>10, <3>1
    <3> QED
      BY <1>4, <1>9, <3>2
  <2>2. \A n \in 0 .. N : f[n] = IF n = 0 THEN start ELSE Expire(f[n - 1])
    BY <1>1, <1>8, <2>1
  <2> QED
    BY <2>2
<1>12. Loop(loop)
  BY <1>11
<1> HIDE DEF loop
<1>13. loop[0] = start /\ \A n \in 1 .. N : loop[n] = Expire(loop[n - 1])
  BY <1>1, <1>12
<1>14. Swept(loop[N], items, N)
  <2>1. N \in Nat /\ 0 \in Done
    BY <1>1, <1>2, <1>13
  <2>2. ASSUME NEW n \in 1 .. N, n - 1 \in Done
        PROVE  n \in Done
    <3>1. Swept(Expire(loop[n - 1]), items, n)
      BY <1>3, <2>2
    <3> QED
      BY <1>13, <2>1, <3>1
  <2>3. \A n \in 0 .. N : n \in Done
    <3> HIDE DEF Done
    <3> QED
      BY <2>1, <2>2, EveryTurn
  <2> QED
    BY <2>1, <2>3
<1> DEFINE acc == loop[N]
           r == acc.items
<1>15. /\ acc.i \in Nat /\ r \in Seq(Item) /\ acc.i + N = N + 1 + Len(r)
       /\ \A j \in DOMAIN r : j < acc.i => Fresh(r[j])
       /\ \A j \in DOMAIN r : r[j] \in ToSet(items)
       /\ \A x \in ToSet(items) : Fresh(x) => x \in ToSet(r)
       /\ Distinct(r)
  BY <1>1, <1>14 DEF Swept
<1> HIDE DEF acc, r
<1>16. Len(r) \in Nat /\ DOMAIN r = 1 .. Len(r) /\ acc.i = Len(r) + 1
  BY <1>1, <1>15
<1>17. \A j \in DOMAIN r : Fresh(r[j]) /\ r[j] \in ToSet(items)
  BY <1>15, <1>16
<1>18. ToSet(r) = {x \in ToSet(items) : Fresh(x)}
  BY <1>15, <1>17 DEF ToSet
<1> QED
  BY <1>5, <1>15, <1>18 DEF r, acc

Given(response) == [response |-> response, timestamp |-> now]

\* The item that has the response, the only one, gets the new timestamp.
LEMMA TouchRenews ==
    ASSUME now \in Nat, NEW items \in Seq(Item), Distinct(items), NEW response \in Responses
    PROVE  LET t == Touch(items, response)
               known == \E i \in DOMAIN items : items[i].response = response
           IN  /\ t \in Seq(Item) /\ Distinct(t)
               /\ known => ToSet(t) = {Given(response)} \cup
                                      {x \in ToSet(items) : x.response # response}
               /\ ~known => t = items
<1> DEFINE L == Len(items)
           I == {i \in 1 .. L : items[i].response = response}
           new == Given(response)
<1>1. L \in Nat /\ DOMAIN items = 1 .. L /\ \A i \in 1 .. L : items[i] \in Item
  OBVIOUS
<1>2. SelectInSeq(items, LAMBDA item : item.response = response) = IF I # {} THEN Min(I) ELSE 0
  BY DEF SelectInSeq
<1>3. CASE I = {}
  <2>1. Touch(items, response) = items
    BY <1>2, <1>3 DEF Touch
  <2>2. ~\E i \in DOMAIN items : items[i].response = response
    BY <1>1, <1>3
  <2> QED
    BY <2>1, <2>2
<1>4. CASE I # {}
  <2>1. Min(I) \in I
    <3>1. I \subseteq Nat
      BY <1>1
    <3> HIDE DEF I
    <3>2. \E x \in I : \A y \in I : x <= y
      BY <1>4, <3>1, LeastOne
    <3> QED
      BY <3>2 DEF Min
  <2> DEFINE k == Min(I)
             t == [items EXCEPT ![k].timestamp = now]
  <2>2. k \in 1 .. L /\ items[k].response = response /\ k # 0
    BY <1>1, <2>1
  <2>3. Touch(items, response) = t
    BY <1>2, <1>4, <2>2 DEF Touch
  <2> HIDE DEF k, I, L
  <2>4. [items[k] EXCEPT !.timestamp = now] = new /\ new \in Item
    BY <1>1, <2>2 DEF Item, Given
  <2>5. t = [i \in 1 .. L |-> IF i = k THEN new ELSE items[i]]
    BY <1>1, <2>2, <2>4
  <2> HIDE DEF t, new
  <2>6. t \in Seq(Item) /\ DOMAIN t = 1 .. L /\ \A i \in 1 .. L : t[i] = IF i = k THEN new ELSE items[i]
    <3>1. t \in [1 .. L -> Item]
      BY <1>1, <2>4, <2>5
    <3>2. t \in Seq(Item)
      BY <1>1, <3>1
    <3> QED
      BY <2>5, <3>2
  <2>7. new.response = response
    BY DEF new, Given
  <2>8. \A i \in 1 .. L : t[i].response = items[i].response
    BY <2>2, <2>6, <2>7
  <2>9. Distinct(t)
    BY <1>1, <2>6, <2>8 DEF Distinct
  <2>10. ToSet(t) = {t[i] : i \in 1 .. L} /\ ToSet(items) = {items[i] : i \in 1 .. L}
    BY <1>1, <2>6 DEF ToSet
  <2>11. \A i \in 1 .. L : items[i].response = response => i = k
    BY <1>1, <2>2 DEF Distinct
  <2>12. ToSet(t) = {new} \cup {x \in ToSet(items) : x.response # response}
    <3>1. \A x \in ToSet(t) : x = new \/ (x \in ToSet(items) /\ x.response # response)
      BY <2>6, <2>10, <2>11
    <3>2. new \in ToSet(t)
      BY <2>2, <2>6, <2>10
    <3>3. ASSUME NEW x \in ToSet(items), x.response # response
          PROVE  x \in ToSet(t)
      BY <2>2, <2>6, <2>10, <3>3
    <3> QED
      BY <3>1, <3>2, <3>3
  <2>13. \E i \in DOMAIN items : items[i].response = response
    BY <1>1, <2>2
  <2> QED
    BY <2>3, <2>6, <2>9, <2>12, <2>13 DEF new
<1> QED
  BY <1>3, <1>4

\* What a response makes of an entry.
LEMMA RefreshedEntry ==
    ASSUME now \in Nat, NEW items \in Seq(Item), Distinct(items), NEW response \in Responses
    PROVE  LET r == Refreshed(items, response)
           IN  /\ r \in Seq(Item) /\ Distinct(r)
               /\ ToSet(r) = {Given(response)} \cup
                             {x \in ToSet(items) : Fresh(x) /\ x.response # response}
<1> DEFINE t == Touch(items, response)
           kept == Unexpired(t)
           known == \E i \in DOMAIN items : items[i].response = response
           new == Given(response)
<1>1. /\ t \in Seq(Item) /\ Distinct(t)
      /\ known => ToSet(t) = {new} \cup {x \in ToSet(items) : x.response # response}
      /\ ~known => t = items
  BY TouchRenews
<1>2. Fresh(new) /\ new \in Item /\ new.response = response
  <2>1. now - now = 0 /\ MaxAge \in Nat
    BY ConversationBoundsAssumption
  <2> QED
    BY <2>1 DEF Fresh, Given, Item
<1> HIDE DEF t
<1>3. kept \in Seq(Item) /\ ToSet(kept) = {x \in ToSet(t) : Fresh(x)} /\ Distinct(kept)
  BY <1>1, UnexpiredKeeps
<1>4. Refreshed(items, response) = IF known THEN kept ELSE Append(kept, new)
  BY DEF Refreshed, t, Given
<1>5. CASE known
  <2>1. ToSet(kept) = {new} \cup {x \in ToSet(items) : Fresh(x) /\ x.response # response}
    BY <1>1, <1>2, <1>3, <1>5
  <2> HIDE DEF kept, known
  <2> QED
    BY <1>3, <1>4, <1>5, <2>1
<1>6. CASE ~known
  <2>1. \A x \in ToSet(items) : x.response # response
    BY <1>6 DEF ToSet
  <2>2. ToSet(kept) = {x \in ToSet(items) : Fresh(x) /\ x.response # response}
    BY <1>1, <1>3, <1>6, <2>1
  <2> HIDE DEF kept, known, new
  <2>3. Append(kept, new) \in Seq(Item) /\ ToSet(Append(kept, new)) = ToSet(kept) \cup {new}
    BY <1>2, <1>3, AppendSet
  <2>4. Distinct(Append(kept, new))
    <3> DEFINE L == Len(kept)
               a == Append(kept, new)
    <3>1. /\ L \in Nat /\ DOMAIN kept = 1 .. L /\ DOMAIN a = 1 .. (L + 1)
          /\ \A i \in 1 .. L : a[i] = kept[i]
          /\ a[L + 1] = new
      BY <1>2, <1>3
    <3>2. \A i \in 1 .. L : kept[i].response # response
      <4>1. \A i \in 1 .. L : kept[i] \in ToSet(kept)
        BY <3>1 DEF ToSet
      <4> QED
        BY <2>2, <4>1
    <3>3. \A i, j \in 1 .. L : kept[i].response = kept[j].response => i = j
      BY <1>3, <3>1 DEF Distinct
    <3> HIDE DEF L, a
    <3>4. \A i \in 1 .. (L + 1) : i = L + 1 \/ i \in 1 .. L
      BY <3>1
    <3>5. Distinct(a)
      BY <1>2, <3>1, <3>2, <3>3, <3>4 DEF Distinct
    <3> QED
      BY <3>5 DEF a
  <2> QED
    BY <1>4, <1>6, <2>2, <2>3, <2>4 DEF new
<1> QED
  BY <1>5, <1>6

CacheInv ==
    /\ now \in Nat
    /\ cache \in [Hashes -> Seq(Item)]
    /\ \A h \in Hashes : Distinct(cache[h])

LEMMA InitCache == DialogInit => CacheInv
<1> SUFFICES ASSUME DialogInit
             PROVE  CacheInv
  OBVIOUS
<1>1. PICK h \in Hashes, r1, r2 \in Responses :
         cache \in {[g \in Hashes |-> << >>],
                    [g \in Hashes |-> IF g = h /\ r1.tagged /\ r2.tagged /\ r1 # r2
                                      THEN <<[response |-> r1, timestamp |-> 0],
                                             [response |-> r2, timestamp |-> 0]>> ELSE << >>]}
  BY DEF DialogInit
<1>2. now = 0
  BY DEF DialogInit
<1> DEFINE two == <<[response |-> r1, timestamp |-> 0], [response |-> r2, timestamp |-> 0]>>
<1>3. two \in Seq(Item) /\ (r1 # r2 => Distinct(two))
  BY DEF Item, Distinct
<1>4. << >> \in Seq(Item) /\ Distinct(<< >>)
  BY DEF Distinct
<1> HIDE DEF two
<1>5. cache \in {[g \in Hashes |-> << >>],
                 [g \in Hashes |-> IF g = h /\ r1.tagged /\ r2.tagged /\ r1 # r2
                                   THEN two ELSE << >>]}
  BY <1>1 DEF two
<1> QED
  BY <1>2, <1>3, <1>4, <1>5 DEF CacheInv

\* The entries after a step: untouched, dropped, or refreshed by a response.
LEMMA NextCache ==
    ASSUME CacheInv, [DialogNext]_dialogVars
    PROVE  /\ CacheInv'
           /\ \A h \in Hashes :
                \/ cache'[h] \in {cache[h], << >>}
                \/ \E r \in Requests, x \in Responses :
                      /\ OnConversation(r, {x}) /\ h = message[r].inputHash
                      /\ cache'[h] = Refreshed(cache[h], x)
<1> USE DEF CacheInv
<1>1. ASSUME UNCHANGED <<now, cache>>
      PROVE  /\ CacheInv'
             /\ \A h \in Hashes : cache'[h] \in {cache[h], << >>}
  BY <1>1
<1>2. ASSUME NEW r \in Requests, NEW text \in Texts,
             Classify(r, text) \/ PrecacheLine(r, text) \/ Ask(r, text)
      PROVE  UNCHANGED <<now, cache>>
  BY <1>2 DEF Classify, PrecacheLine, Ask, conversationVars
<1>3. ASSUME NEW r \in Requests, OnAnswer(r)
      PROVE  UNCHANGED <<now, cache>>
  BY <1>3 DEF OnAnswer, conversationVars
<1>4. ASSUME NEW r \in Requests, Responded(r), cache' # cache
      PROVE  /\ CacheInv'
             /\ \A h \in Hashes :
                  \/ cache'[h] \in {cache[h], << >>}
                  \/ \E x \in Responses :
                        /\ OnConversation(r, {x}) /\ h = message[r].inputHash
                        /\ cache'[h] = Refreshed(cache[h], x)
  <2>1. PICK response \in {{}} \cup {{x} : x \in Responses} : OnConversation(r, response)
    BY <1>4 DEF Responded
  <2>2. now' = now
    BY <2>1 DEF OnConversation
  <2>3. response # {} /\ cache' = Cached(message[r], CHOOSE x \in response : TRUE)
    BY <1>4, <2>1 DEF OnConversation, OnResponse
  <2>4. PICK x \in Responses : response = {x}
    BY <2>3
  <2>5. (CHOOSE y \in response : TRUE) = x
    BY <2>4
  <2> DEFINE g == message[r].inputHash
  <2>6. cache' = [cache EXCEPT ![g] = Refreshed(cache[g], x)]
    BY <1>4, <2>3, <2>5 DEF Cached
  <2>7. ASSUME NEW h \in Hashes, h = g
        PROVE  Refreshed(cache[h], x) \in Seq(Item) /\ Distinct(Refreshed(cache[h], x))
    BY RefreshedEntry
  <2> HIDE DEF g
  <2>8. \A h \in Hashes : cache'[h] = IF h = g THEN Refreshed(cache[h], x) ELSE cache[h]
    BY <2>6
  <2>9. CacheInv'
    <3>1. cache' = [h \in Hashes |-> IF h = g THEN Refreshed(cache[h], x) ELSE cache[h]]
      BY <2>6
    <3> QED
      BY <2>2, <2>7, <3>1
  <2> QED
    BY <2>1, <2>4, <2>8, <2>9 DEF g
<1>5. ASSUME NEW r \in Requests, Responded(r)
      PROVE  now' = now
  BY <1>5 DEF Responded, OnConversation
<1>6. CASE Tick
  BY <1>6 DEF Tick
<1>7. CASE Drop
  <2>1. PICK g \in Hashes : cache' = [cache EXCEPT ![g] = << >>]
    BY <1>7 DEF Drop
  <2>2. << >> \in Seq(Item) /\ Distinct(<< >>)
    BY DEF Distinct
  <2> QED
    BY <1>7, <2>1, <2>2 DEF Drop
<1>8. CASE UNCHANGED dialogVars
  BY <1>1, <1>8 DEF dialogVars, conversationVars
<1>9. ASSUME NEW r \in Requests, Responded(r)
      PROVE  /\ CacheInv'
             /\ \A h \in Hashes :
                  \/ cache'[h] \in {cache[h], << >>}
                  \/ \E x \in Responses :
                        /\ OnConversation(r, {x}) /\ h = message[r].inputHash
                        /\ cache'[h] = Refreshed(cache[h], x)
  BY <1>1, <1>4, <1>5, <1>9
<1> QED
  BY <1>1, <1>2, <1>3, <1>6, <1>7, <1>8, <1>9 DEF DialogNext

LEMMA CacheInvariance == DialogSpec => []CacheInv
<1>1. CacheInv /\ [DialogNext]_dialogVars => CacheInv'
  BY NextCache
<1> QED
  BY InitCache, <1>1, PTL DEF DialogSpec

\* Refreshing an entry keeps exactly what has not expired and the response just
\* given, each once, for entries of any length.
THEOREM CacheIsFresh == DialogSpec => EntriesAreFresh
<1> DEFINE RefreshedOnly ==
        \A h \in Hashes : cache'[h] \notin {cache[h], << >>} =>
           \E new \in ToSet(cache'[h]) :
              /\ new.timestamp = now
              /\ ToSet(cache'[h]) = {new} \cup {i \in ToSet(cache[h]) :
                                                  now - i.timestamp <= MaxAge
                                                  /\ i.response # new.response}
              /\ \A i, j \in DOMAIN cache'[h] :
                    cache'[h][i].response = cache'[h][j].response => i = j
<1>1. CacheInv /\ [DialogNext]_dialogVars => RefreshedOnly
  <2> SUFFICES ASSUME CacheInv, [DialogNext]_dialogVars, NEW h \in Hashes,
                      cache'[h] \notin {cache[h], << >>}
               PROVE  \E new \in ToSet(cache'[h]) :
                         /\ new.timestamp = now
                         /\ ToSet(cache'[h]) = {new} \cup {i \in ToSet(cache[h]) :
                                                             now - i.timestamp <= MaxAge
                                                             /\ i.response # new.response}
                         /\ \A i, j \in DOMAIN cache'[h] :
                               cache'[h][i].response = cache'[h][j].response => i = j
    OBVIOUS
  <2>1. PICK x \in Responses : cache'[h] = Refreshed(cache[h], x)
    BY NextCache
  <2>2. now \in Nat /\ cache[h] \in Seq(Item) /\ Distinct(cache[h])
    BY DEF CacheInv
  <2>3. /\ Distinct(cache'[h])
        /\ ToSet(cache'[h]) = {Given(x)} \cup
                              {i \in ToSet(cache[h]) : Fresh(i) /\ i.response # x}
    BY <2>1, <2>2, RefreshedEntry
  <2>4. Given(x).timestamp = now /\ Given(x).response = x
    BY DEF Given
  <2>5. Given(x) \in ToSet(cache'[h])
    BY <2>3
  <2> QED
    BY <2>3, <2>4, <2>5 DEF Fresh, Distinct
<1> QED
  BY <1>1, CacheInvariance, PTL DEF DialogSpec, EntriesAreFresh

-----------------------------------------------------------------------------
(* Answers fit what was said.                                              *)

\* An answer fits because a request and its message have the same hash until the
\* message is answered, and only that hash's entry is read or written.
Fits(q, m, g) ==
    /\ q.said \in Hashes /\ m.inputHash \in Hashes
    /\ q.got \subseteq g[q.said]
    /\ m.live /\ m.callback => q.said = m.inputHash

FitInv ==
    /\ stack \in Stacks
    /\ given \in [Hashes -> SUBSET Responses]
    /\ \A r \in Requests : Fits(request[r], message[r], given)
    /\ \A h \in Hashes : \A item \in ToSet(cache[h]) : item.response \in given[h]

LEMMA FitInvFits == FitInv => AnswersFit
  BY DEF FitInv, Fits, AnswersFit

LEMMA InitFits == DialogInit => FitInv
<1> SUFFICES ASSUME DialogInit
             PROVE  FitInv
  OBVIOUS
<1>1. CacheInv
  BY InitCache
<1>2. given = [h \in Hashes |-> {i.response : i \in ToSet(cache[h])}]
  BY DEF DialogInit
<1>3. ASSUME NEW h \in Hashes
      PROVE  {i.response : i \in ToSet(cache[h])} \subseteq Responses
  <2>1. cache[h] \in Seq(Item)
    BY <1>1 DEF CacheInv
  <2>2. \A i \in ToSet(cache[h]) : i \in Item
    BY <2>1 DEF ToSet
  <2> QED
    BY <2>2 DEF Item
<1>4. PICK h \in Hashes :
         /\ message = [r \in Requests |-> [live |-> FALSE, inputHash |-> h,
                                           useCache |-> FALSE, callback |-> FALSE]]
         /\ request = [r \in Requests |-> Unused(h)]
  BY DEF DialogInit
<1>5. \A r \in Requests : Fits(request[r], message[r], given)
  BY <1>4 DEF Fits, Unused
<1>6. stack \in Stacks
  BY OpeningAssumption DEF DialogInit
<1> QED
  BY <1>2, <1>3, <1>5, <1>6 DEF FitInv

\* A place of the dialog that an answer leads to is one.
LEMMA NextStackType ==
    ASSUME stack \in Stacks, NEW response, response \subseteq Responses
    PROVE  NextStack(response) \in Stacks
<1>1. CASE response = {}
  BY <1>1 DEF NextStack
<1>2. CASE response # {}
  <2>1. (CHOOSE x \in response : TRUE) \in Responses
    BY <1>2
  <2> QED
    BY <2>1, ResponsesAssumption DEF NextStack
<1> QED
  BY <1>1, <1>2

\* One request and its message change, the history and the cache do not.
LEMMA ChangedFits ==
    ASSUME FitInv, NEW r \in Requests, NEW q, NEW m, Become(r, q, m), Fits(q, m, given),
           stack' \in Stacks, UNCHANGED <<given, cache>>
    PROVE  FitInv'
<1>1. \A p \in Requests : Fits(request'[p], message'[p], given)
  BY DEF Become, FitInv
<1> QED
  BY <1>1 DEF FitInv, Fits

LEMMA ClassifyFits ==
    ASSUME AllOwned, CacheInv, FitInv, NEW r \in Requests, NEW text \in Texts, Classify(r, text)
    PROVE  FitInv'
<1> DEFINE hash == InputHash(text, stack)
<1>1. hash \in Hashes
  BY DEF FitInv, InputHash, Hashes
<1>2. UNCHANGED <<given, cache>> /\ \A h \in Hashes : given[h] \subseteq Responses
  BY DEF Classify, FitInv
<1>3. CASE found
  <2>1. PICK hit \in Hits(hash, useCache) :
           /\ Message(r, hash, useCache, TRUE, hit)
           /\ request' = [request EXCEPT
                  ![r] = Constructed(IF hit = {} THEN New(text) ELSE Answered(New(text), hit))]
           /\ stack' = NextStack(hit)
    BY <1>3 DEF Classify
  <2> DEFINE made == IF hit = {} THEN New(text) ELSE Answered(New(text), hit)
             q == Constructed(made)
             m == [live |-> TRUE, inputHash |-> hash,
                   useCache |-> useCache, callback |-> TRUE /\ hit = {}]
  <2>2. request' = [request EXCEPT ![r] = q] /\ message' = [message EXCEPT ![r] = m]
    BY <2>1 DEF Message
  <2>3. q \in Objects({hash}, {hit})
    <3>1. CASE hit = {}
      BY <3>1, NewObject, ConstructedWaits
    <3>2. CASE hit # {}
      <4>1. made \in Objects({hash}, {hit}) /\ made.classified
        BY <3>2, NewObject, LiveAnswered
      <4> HIDE DEF made
      <4> QED
        BY <4>1, ConstructedDeletes
    <3> QED
      BY <3>1, <3>2
  <2>4. hit \subseteq given[hash]
    <3>1. CASE hit = {}
      BY <3>1
    <3>2. CASE hit # {}
      <4>1. PICK item \in ToSet(cache[hash]) : hit = {item.response}
        BY <3>2 DEF Hits
      <4> QED
        BY <1>1, <4>1 DEF FitInv
    <3> QED
      BY <3>1, <3>2
  <2>5. stack' \in Stacks
    BY <1>1, <1>2, <2>1, <2>4, NextStackType DEF FitInv
  <2>6. m.inputHash = hash
    OBVIOUS
  <2>7. q.said = hash /\ q.got = hit
    <3> HIDE DEF q, hash
    <3> QED
      BY <2>3 DEF Objects
  <2> HIDE DEF q, m, hash
  <2>8. Fits(q, m, given)
    BY <1>1, <2>4, <2>6, <2>7 DEF Fits
  <2>9. Become(r, q, m)
    BY <2>2 DEF Become, AllOwned
  <2> QED
    BY <1>2, <2>5, <2>8, <2>9, ChangedFits
<1>4. CASE ~found
  <2> DEFINE q == [New(text) EXCEPT !.classified = TRUE, !.answers = 1, !.live = FALSE]
  <2>1. request' = [request EXCEPT ![r] = q] /\ UNCHANGED <<message, stack>>
    BY <1>4 DEF Classify
  <2>2. q.said = hash /\ q.got = {}
    BY DEF New, Unused
  <2> HIDE DEF q, hash
  <2>3. Untouched(request[r], message[r])
    BY NewUntouched DEF Classify
  <2>4. Fits(q, message[r], given)
    BY <1>1, <2>2, <2>3 DEF Fits, FitInv, Untouched
  <2>5. Become(r, q, message[r])
    BY <2>1 DEF Become, AllOwned
  <2> QED
    BY <1>2, <2>1, <2>4, <2>5, ChangedFits DEF FitInv
<1> QED
  BY <1>3, <1>4

LEMMA PrecacheFits ==
    ASSUME AllOwned, FitInv, NEW r \in Requests, NEW text \in Texts, PrecacheLine(r, text)
    PROVE  FitInv'
<1>0. PICK hit \in Hits(InputHash(text, stack), TRUE) :
         Message(r, InputHash(text, stack), TRUE, FALSE, hit)
  BY DEF PrecacheLine, Precache
<1> DEFINE m == [live |-> TRUE, inputHash |-> InputHash(text, stack),
                 useCache |-> TRUE, callback |-> FALSE /\ hit = {}]
<1>1. /\ request' = request /\ message' = [message EXCEPT ![r] = m]
      /\ UNCHANGED <<cache, stack, given>>
  BY <1>0 DEF PrecacheLine, Message
<1>2. m.inputHash \in Hashes /\ ~m.callback
  BY DEF FitInv, InputHash, Hashes
<1> HIDE DEF m
<1>3. Fits(request[r], m, given)
  BY <1>2 DEF FitInv, Fits
<1>4. Become(r, request[r], m)
  BY <1>1 DEF AllOwned, Become
<1> QED
  BY <1>1, <1>3, <1>4, ChangedFits DEF FitInv

LEMMA AskFits ==
    ASSUME AllOwned, FitInv, NEW r \in Requests, NEW text \in Texts, Ask(r, text)
    PROVE  FitInv'
<1> DEFINE q == [New(text) EXCEPT !.classified = TRUE]
           made == IF proxy = "DeepQA" THEN DeepQARequest(q)
                   ELSE IF found THEN q ELSE Answered(q, {})
           hash == InputHash(text, stack)
<1>1. /\ NextRequest(r) /\ UNCHANGED <<message, cache, stack, given>>
      /\ request' = [request EXCEPT ![r] = made]
  BY DEF Ask, conversationVars, InteractRequest, OtherRequest
<1>2. hash \in Hashes
  BY DEF FitInv, InputHash, Hashes
<1>3. q \in Objects({hash}, {{}}) /\ q.live /\ q.answers = 0
  BY NewObject DEF Objects
<1> HIDE DEF q, hash
<1>4. made \in Objects({hash}, {{}})
  <2>1. DeepQARequest(q) \in Objects({hash}, {{}})
    BY <1>3 DEF DeepQARequest, Objects
  <2> QED
    BY <1>3, <2>1, LiveAnswered
<1> HIDE DEF made
<1>5. made.said = hash /\ made.got = {}
  BY <1>4 DEF Objects
<1>6. Untouched(request[r], message[r])
  BY <1>1, NewUntouched
<1>7. Fits(made, message[r], given)
  BY <1>2, <1>5, <1>6 DEF Fits, FitInv, Untouched
<1>8. Become(r, made, message[r])
  BY <1>1 DEF Become, AllOwned
<1> QED
  BY <1>1, <1>7, <1>8, ChangedFits DEF FitInv

LEMMA OnAnswerFits ==
    ASSUME AllOwned, FitInv, NEW r \in Requests, OnAnswer(r)
    PROVE  FitInv'
<1> DEFINE q == Answered(request[r], {})
<1>1. /\ request' = [request EXCEPT ![r] = q] /\ UNCHANGED <<message, cache, stack, given>>
      /\ request[r].live
  BY DEF OnAnswer, conversationVars
<1>2. request[r] \in Objects({request[r].said}, {request[r].got}) /\ request[r].answers = 0
  BY <1>1 DEF AllOwned, Owned
<1>3. q \in Objects({request[r].said}, {{}})
  BY <1>1, <1>2, LiveAnswered
<1> HIDE DEF q
<1>4. q.said = request[r].said /\ q.got = {}
  BY <1>3 DEF Objects
<1>5. Fits(q, message[r], given)
  BY <1>4 DEF Fits, FitInv
<1>6. Become(r, q, message[r])
  BY <1>1 DEF Become, AllOwned
<1> QED
  BY <1>1, <1>5, <1>6, ChangedFits DEF FitInv

\* A response goes into the history of the message's hash, into its entry, and
\* to the request that waits for it.
LEMMA OnConversationFits ==
    ASSUME AllOwned, CacheInv, FitInv, [DialogNext]_dialogVars,
           NEW r \in Requests, NEW response, response \subseteq Responses,
           OnConversation(r, response)
    PROVE  FitInv'
<1> DEFINE q == IF message[r].callback THEN Answered(request[r], response) ELSE request[r]
           m == [message[r] EXCEPT !.live = FALSE]
           hash == message[r].inputHash
<1>1. /\ message[r].live /\ message' = [message EXCEPT ![r] = m]
      /\ given' = [given EXCEPT ![hash] = @ \cup response]
  BY DEF OnConversation, OnResponse
<1>2. hash \in Hashes /\ Owned(request[r], message[r]) /\ Fits(request[r], message[r], given)
  BY DEF FitInv, Fits, AllOwned
<1>3. given' \in [Hashes -> SUBSET Responses] /\ given'[hash] = given[hash] \cup response
      /\ \A h \in Hashes : given[h] \subseteq given'[h]
  BY <1>1, <1>2 DEF FitInv
<1> HIDE DEF hash
<1>4. stack' \in Stacks
  BY NextStackType DEF OnConversation, FitInv
<1>5. m.inputHash = hash /\ ~m.live
  BY <1>2 DEF Owned, Messages, hash
<1>6. Become(r, q, m)
  <2>1. CASE message[r].callback
    BY <1>1, <2>1 DEF OnConversation, Become, AllOwned
  <2>2. CASE ~message[r].callback
    BY <1>1, <2>2 DEF OnConversation, Become, AllOwned
  <2> QED
    BY <2>1, <2>2
<1>7. q.said \in Hashes /\ q.got \subseteq given'[q.said]
  <2>1. CASE message[r].callback
    <3>1. /\ request[r] \in Objects({request[r].said}, {request[r].got})
          /\ request[r].live /\ request[r].answers = 0
      BY <1>1, <1>2, <2>1 DEF Owned
    <3>2. q \in Objects({request[r].said}, {response})
      BY <2>1, <3>1, LiveAnswered
    <3> HIDE DEF q, m
    <3>3. q.said = request[r].said /\ q.got = response
      BY <3>2 DEF Objects
    <3>4. request[r].said = hash
      BY <1>1, <1>2, <2>1 DEF Fits, hash
    <3> QED
      BY <1>2, <1>3, <3>3, <3>4
  <2>2. CASE ~message[r].callback
    <3>1. q = request[r]
      BY <2>2
    <3> HIDE DEF q, m
    <3> QED
      BY <1>2, <1>3, <3>1 DEF Fits
  <2> QED
    BY <2>1, <2>2
<1> HIDE DEF q, m
<1>8. Fits(q, m, given')
  BY <1>2, <1>5, <1>7 DEF Fits
<1>9. \A p \in Requests : Fits(request'[p], message'[p], given')
  <2>1. \A p \in Requests : Fits(request[p], message[p], given')
    BY <1>3 DEF FitInv, Fits
  <2> QED
    BY <1>6, <1>8, <2>1 DEF Become
<1>10. ASSUME NEW h \in Hashes, NEW item \in ToSet(cache'[h])
       PROVE  item.response \in given'[h]
  <2>1. CASE cache'[h] = cache[h]
    BY <1>3, <1>10, <2>1 DEF FitInv
  <2>2. CASE cache'[h] # cache[h]
    <3>1. /\ response # {} /\ h = hash
          /\ cache'[h] = Refreshed(cache[h], CHOOSE x \in response : TRUE)
      BY <1>10, <2>2 DEF OnConversation, OnResponse, Cached, CacheInv, hash
    <3>2. PICK x \in response : cache'[h] = Refreshed(cache[h], x)
      BY <3>1
    <3>3. now \in Nat /\ cache[h] \in Seq(Item) /\ Distinct(cache[h]) /\ x \in Responses
      BY <3>2 DEF CacheInv
    <3>4. item = Given(x) \/ item \in ToSet(cache[h])
      BY <1>10, <3>2, <3>3, RefreshedEntry
    <3>5. CASE item = Given(x)
      BY <1>3, <3>1, <3>5 DEF Given
    <3>6. CASE item \in ToSet(cache[h])
      BY <1>3, <3>6 DEF FitInv
    <3> QED
      BY <3>4, <3>5, <3>6
  <2> QED
    BY <2>1, <2>2
<1> QED
  BY <1>3, <1>4, <1>9, <1>10 DEF FitInv

LEMMA NextFits ==
    ASSUME AllOwned, CacheInv, FitInv, [DialogNext]_dialogVars
    PROVE  FitInv'
<1>1. ASSUME NEW r \in Requests, NEW text \in Texts,
             Classify(r, text) \/ PrecacheLine(r, text) \/ Ask(r, text)
      PROVE  FitInv'
  BY <1>1, ClassifyFits, PrecacheFits, AskFits
<1>2. ASSUME NEW r \in Requests, Responded(r) \/ OnAnswer(r)
      PROVE  FitInv'
  <2>1. ASSUME NEW response \in {{}} \cup {{x} : x \in Responses}, OnConversation(r, response)
        PROVE  FitInv'
    <3>1. response \subseteq Responses
      OBVIOUS
    <3> QED
      BY <2>1, <3>1, OnConversationFits
  <2> QED
    BY <1>2, <2>1, OnAnswerFits DEF Responded
<1>3. ASSUME UNCHANGED <<stack, given, request, message>>, \A h \in Hashes : cache'[h] \in {cache[h], << >>}
      PROVE  FitInv'
  <2>1. ToSet(<< >>) = {}
    BY DEF ToSet
  <2>2. \A h \in Hashes : \A item \in ToSet(cache'[h]) : item.response \in given[h]
    BY <1>3, <2>1 DEF FitInv
  <2> QED
    BY <1>3, <2>2 DEF FitInv, Fits
<1>4. CASE (Tick \/ Drop) /\ UNCHANGED <<configured, stack, request, asked, given>>
  <2>1. \A h \in Hashes : cache'[h] \in {cache[h], << >>}
    BY <1>4 DEF Tick, Drop, CacheInv
  <2> QED
    BY <1>3, <1>4, <2>1 DEF Tick, Drop
<1>5. CASE UNCHANGED dialogVars
  BY <1>3, <1>5 DEF dialogVars, conversationVars
<1> QED
  BY <1>1, <1>2, <1>4, <1>5 DEF DialogNext

\* Every answer, from the cache or the server, is one the server has given to
\* that text at that place of the dialog, for any number of requests in flight.
THEOREM AnswersAlwaysFit == DialogSpec => []AnswersFit
<1>1. DialogInit => AllOwned /\ CacheInv /\ FitInv
  BY InitOwned, InitCache, InitFits
<1>2. AllOwned /\ CacheInv /\ FitInv /\ [DialogNext]_dialogVars
        => (AllOwned /\ CacheInv /\ FitInv)'
  BY NextOwned, NextCache, NextFits
<1> QED
  BY <1>1, <1>2, FitInvFits, PTL DEF DialogSpec
=============================================================================
