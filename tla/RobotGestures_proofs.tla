------------------------ MODULE RobotGestures_proofs ------------------------
(***************************************************************************)
(* Theorems about the gestures, the microphone and the platform of a robot *)
(* that runs ROS, for any number of requests, starts and clients.          *)
(***************************************************************************)
EXTENDS RobotGestures, TLAPS, FiniteSetTheorems, SequenceTheorems

-----------------------------------------------------------------------------
(* The table of gestures.                                                  *)

\* What the handlers rely on, whichever the gesture: who pauses has a sound to
\* pause for, and a gesture that pauses with its queue cannot fail to start.
KindFits(k) ==
    /\ k.name # "WinSpeech"
    /\ k.first \in {"tts", "thread"}
    /\ k.pause \in {"sound", "queue", "nobody"}
    /\ k.pause = "sound" <=> k.first = "tts" /\ k.play # "gone"
    /\ k.pause = "queue" =>
         k.first = "thread" /\ k.aborts = FALSE /\ k.unable = "never" /\ k.waits = FALSE
    /\ k.waits \in BOOLEAN /\ (k.waits = TRUE => k.first = "tts")
    /\ k.throws \in BOOLEAN /\ (k.throws = TRUE => k.pause = "nobody")
    /\ k.pops \in {"main", "thread"}
    /\ k.pops = "thread" => k.first = "thread" /\ k.pause = "nobody" /\ k.aborts = FALSE

LEMMA SpeechFits ==
  ASSUME NEW name, name # "WinSpeech", NEW waits \in BOOLEAN
  PROVE  KindFits(SpeechOnThread(name, waits))
  BY DEF SpeechOnThread, KindFits

LEMMA OnThreadFits ==
  ASSUME NEW name, name # "WinSpeech", NEW aborts \in BOOLEAN, NEW throws \in BOOLEAN
  PROVE  KindFits(OnThread(name, aborts, throws))
  BY DEF OnThread, KindFits

LEMMA KindsFit ==
  ASSUME NEW k \in QueuedKinds
  PROVE  KindFits(k)
<1>1. CASE k \in {LinuxSpeech, SotaSpeech}
  BY <1>1, SpeechFits DEF LinuxSpeech, SotaSpeech
<1>2. CASE k = AQSpeech
  BY <1>2 DEF AQSpeech, SpeechOnThread, KindFits
<1>3. CASE k = RaspiSpeech
  BY <1>3 DEF RaspiSpeech, SpeechOnThread, KindFits
<1>4. CASE k = RemoteSpeech
  BY <1>4 DEF RemoteSpeech, SpeechOnThread, KindFits
<1>5. CASE k = NaoSpeech
  BY <1>5 DEF NaoSpeech, OnThread, KindFits
<1>6. CASE k \in {NaoVolume, NaoPosture, NaoSystem, NaoMoveJoint}
  BY <1>6, OnThreadFits DEF NaoVolume, NaoPosture, NaoSystem, NaoMoveJoint
<1>7. CASE k \in {RaspiMoveJoint, RaspiAnimate, ABBMoveJoint}
  BY <1>7, OnThreadFits DEF RaspiMoveJoint, RaspiAnimate, ABBMoveJoint
<1>8. CASE k \in {MacSound, WinSound, NaoMove}
  BY <1>8, OnThreadFits DEF MacSound, WinSound, NaoMove
<1>9. CASE k = RosMoveJoint
  BY <1>9 DEF RosMoveJoint, OnThread, KindFits
<1>10. CASE k = NaoAnimate
  BY <1>10 DEF NaoAnimate, OnThread, KindFits
<1>11. CASE k = NaoSound
  BY <1>11 DEF NaoSound, OnThread, KindFits
<1>12. QED
  BY <1>1, <1>2, <1>3, <1>4, <1>5, <1>6, <1>7, <1>8, <1>9, <1>10, <1>11 DEF QueuedKinds

LEMMA WinIsNoQueuedKind == WinSpeechGesture \notin QueuedKinds
  BY KindsFit DEF KindFits, WinSpeechGesture

-----------------------------------------------------------------------------
(* The microphone.                                                         *)

Live == {"posted", "looping", "reading", "leaving"}

\* A thread that has not set m_ThreadStopped is the newest one, of a started
\* microphone; an open recorder belongs to it, and it is past its first look.
MicInv ==
    /\ mic \in Mic
    /\ \A t \in Captures :
         /\ mic.thread[t] # "threw"
         /\ mic.thread[t] \in Live => mic.started /\ t = mic.starts /\ ~mic.stopped
    /\ mic.stream => mic.starts \in Captures /\ mic.thread[mic.starts] \in {"looping", "reading"}

LEMMA MicHandlers ==
  ASSUME MicInv, OnStart \/ OnStop \/ OnStopReturns
  PROVE  MicInv'
<1>1. CASE OnStart
  <2> DEFINE n == mic.starts + 1
  <2>1. /\ mic' = [mic EXCEPT !.starts = n, !.started = TRUE, !.stop = FALSE,
                              !.stopped = FALSE, !.thread[n] = "posted"]
        /\ ~mic.started /\ mic.starts < MaxStarts
    BY <1>1 DEF OnStart
  <2>2. mic.starts \in Nat /\ MaxStarts \in Nat /\ n \in Captures
    BY <2>1, StartsAssumption DEF MicInv, Mic, Captures
  <2>3. ~mic.stream
    BY <2>1 DEF MicInv, Live
  <2>4. mic' \in Mic
    <3>1. /\ mic' = [mic EXCEPT !.starts = n, !.started = TRUE, !.stop = FALSE,
                                !.stopped = FALSE, !.thread = [mic.thread EXCEPT ![n] = "posted"]]
          /\ n \in 0 .. MaxStarts
      BY <2>1, <2>2 DEF Captures
    <3>2. [mic.thread EXCEPT ![n] = "posted"]
            \in [Captures -> {"none", "posted", "looping", "reading", "leaving", "ended", "threw"}]
      BY <2>2 DEF MicInv, Mic
    <3> HIDE DEF n
    <3>3. QED
      BY <3>1, <3>2 DEF MicInv, Mic
  <2>5. \A t \in Captures : mic.thread[t] \notin Live
    BY <2>1 DEF MicInv
  <2>6. \A t \in Captures : mic'.thread[t] = IF t = n THEN "posted" ELSE mic.thread[t]
    BY <2>1, <2>2 DEF MicInv, Mic
  <2>7. mic'.started = TRUE /\ mic'.starts = n /\ mic'.stopped = FALSE
        /\ mic'.stream = mic.stream
    BY <2>1 DEF MicInv, Mic
  <2> HIDE DEF n
  <2>8. QED
    BY <2>3, <2>4, <2>5, <2>6, <2>7 DEF MicInv
<1>2. CASE OnStop
  BY <1>2 DEF OnStop, MicInv, Mic
<1>3. CASE OnStopReturns
  <2>1. mic' = [mic EXCEPT !.started = FALSE] /\ mic.stopped
    BY <1>3 DEF OnStopReturns
  <2>2. QED
    BY <2>1 DEF MicInv, Mic, Live
<1>4. QED
  BY <1>1, <1>2, <1>3

LEMMA MicThreadKeeps ==
  ASSUME MicInv, NEW t \in Captures, ReceiveData(t)
  PROVE  MicInv'
<1>1. /\ mic.thread \in [Captures -> {"none", "posted", "looping", "reading", "leaving",
                                     "ended", "threw"}]
      /\ mic \in Mic
  BY DEF MicInv, Mic
<1>2. CASE ReceiveDataBegins(t)
  <2>1. mic.thread[t] = "posted" /\ ~mic.stream
    BY <1>2 DEF ReceiveDataBegins, MicInv, Live
  <2>2. mic' = [mic EXCEPT !.thread[t] = "looping"]
    BY <1>2, <2>1 DEF ReceiveDataBegins
  <2>3. QED
    BY <1>1, <2>1, <2>2 DEF MicInv, Mic, Live
<1>3. CASE ReceiveDataChecks(t)
  <2>1. mic.thread[t] = "looping" /\ t = mic.starts
    BY <1>3 DEF ReceiveDataChecks, MicInv, Live
  <2>2. \/ mic' = [mic EXCEPT !.stream = FALSE, !.thread[t] = "leaving"]
        \/ mic' = [mic EXCEPT !.stream = FALSE]
        \/ mic' = [mic EXCEPT !.stream = TRUE, !.thread[t] = "reading"]
    BY <1>3 DEF ReceiveDataChecks
  <2>3. CASE mic' = [mic EXCEPT !.stream = FALSE, !.thread[t] = "leaving"]
    BY <1>1, <2>1, <2>3 DEF MicInv, Mic, Live
  <2>4. CASE mic' = [mic EXCEPT !.stream = FALSE]
    BY <1>1, <2>1, <2>4 DEF MicInv, Mic, Live
  <2>5. CASE mic' = [mic EXCEPT !.stream = TRUE, !.thread[t] = "reading"]
    BY <1>1, <2>1, <2>5 DEF MicInv, Mic, Live
  <2>6. QED
    BY <2>2, <2>3, <2>4, <2>5
<1>4. CASE ReceiveDataReads(t)
  <2>1. mic.thread[t] = "reading" /\ mic' = [mic EXCEPT !.thread[t] = "looping"]
    BY <1>4 DEF ReceiveDataReads
  <2>2. QED
    BY <1>1, <2>1 DEF MicInv, Mic, Live
<1>5. CASE ReceiveDataEnds(t)
  <2>1. /\ mic.thread[t] = "leaving"
        /\ mic' = [mic EXCEPT !.stopped = TRUE, !.thread[t] = "ended"]
    BY <1>5 DEF ReceiveDataEnds
  <2>2. QED
    BY <1>1, <2>1 DEF MicInv, Mic, Live
<1>6. QED
  BY <1>2, <1>3, <1>4, <1>5 DEF ReceiveData

\* No gesture and no platform touches the microphone's own state.
LEMMA OthersLeaveMic ==
  ASSUME \/ GestureAsked \/ GestureVoices \/ GestureAborted
         \/ GestureData \/ GestureThread \/ GestureDone
         \/ WinAsked \/ WinVoices \/ WinAborted
         \/ WinPiece \/ WinNull \/ WinEnds \/ WinDone
         \/ RosGoal \/ RosFrame \/ RosTimeout \/ RosEnds
         \/ RosTimer \/ RosState \/ RosSocket \/ UNCHANGED vars
  PROVE  mic' = mic
<1>1. CASE GestureAsked \/ GestureVoices \/ GestureAborted
  BY <1>1 DEF GestureAsked, GestureVoices, GestureAborted, Execute, OnVoices, Abort, micVars
<1>2. CASE GestureData \/ GestureThread \/ GestureDone
  BY <1>2 DEF GestureData, GestureThread, GestureDone, OnSpeechData, OnSpeechSound,
     OnSpeechNull, ThreadEnds, OnDone, DonePops, DonePlays, micVars
<1>3. CASE WinAsked \/ WinVoices \/ WinAborted
  BY <1>3 DEF WinAsked, WinVoices, WinAborted, WinExecute, WinOnVoices, WinAbort, micVars
<1>4. CASE WinPiece \/ WinNull \/ WinEnds \/ WinDone
  BY <1>4 DEF WinPiece, WinNull, WinEnds, WinDone, WinOnSpeechPiece, WinOnSpeechNull,
     WinPlayEnds, WinOnSpeechDone, micVars
<1>5. CASE RosGoal \/ RosFrame \/ RosTimeout \/ RosEnds
  BY <1>5 DEF RosGoal, RosFrame, RosTimeout, RosEnds, PublishGoal, OnGoalStatusMatches,
     OnGoalStatusSets, OnTimeout, MoveThreadEnds, micVars
<1>6. CASE RosTimer \/ RosState \/ RosSocket \/ UNCHANGED vars
  BY <1>6 DEF RosTimer, RosState, RosSocket, Elsewhere, vars, micVars
<1>7. QED
  BY <1>1, <1>2, <1>3, <1>4, <1>5, <1>6

LEMMA MicInitHolds ==
  ASSUME Init
  PROVE  MicInv
<1>1. mic = [starts |-> 0, started |-> FALSE, stop |-> FALSE, stopped |-> FALSE,
             stream |-> FALSE, thread |-> [t \in Captures |-> "none"]]
  BY DEF Init, MicInit
<1>2. 0 \in 0 .. MaxStarts
  BY StartsAssumption
<1>3. QED
  BY <1>1, <1>2 DEF MicInv, Mic, Live

LEMMA MicInvariant == Spec => []MicInv
<1>1. ASSUME MicInv, [Next]_vars
      PROVE  MicInv'
  <2>1. CASE MicStarts \/ MicStops \/ MicWaited
    BY <1>1, <2>1, MicHandlers DEF MicStarts, MicStops, MicWaited
  <2>2. CASE MicThread
    BY <1>1, <2>2, MicThreadKeeps DEF MicThread
  <2>3. ASSUME mic' = mic
        PROVE  MicInv'
    BY <1>1, <2>3 DEF MicInv
  <2>4. QED
    BY <1>1, <2>1, <2>2, <2>3, OthersLeaveMic DEF Next
<1>2. QED
  BY <1>1, MicInitHolds, PTL DEF Spec

\* ReceiveData never finds the recorder of an earlier thread open, however
\* often the microphone is stopped, started and paused.
THEOREM RecorderAlwaysFresh == Spec => []RecorderIsFresh
<1>1. MicInv => RecorderIsFresh
  BY DEF MicInv, RecorderIsFresh, Live
<1>2. QED
  BY <1>1, MicInvariant, PTL

-----------------------------------------------------------------------------
(* The queue.  A state of the gesture is that of its handlers' functions.  *)

GestureState == [queue : Seq(Requests), stage : [Requests -> Stages], paused : Int]

Quiet(s) == \A r \in Requests : s.stage[r] = "none"

\* What is under way is the request at the front.
Front(s) == \A r \in Requests : s.stage[r] # "none" => s.queue # << >> /\ r = Head(s.queue)

LEMMA Parts ==
  ASSUME NEW q \in Seq(Requests), NEW g \in [Requests -> Stages], NEW n \in Int
  PROVE  [queue |-> q, stage |-> g, paused |-> n] \in GestureState
  BY DEF GestureState

LEMMA HeadTail ==
  ASSUME NEW q \in Seq(Requests), q # << >>
  PROVE  Head(q) \in Requests /\ Tail(q) \in Seq(Requests)
  OBVIOUS

LEMMA AppendFacts ==
  ASSUME NEW q \in Seq(Requests), NEW r \in Requests
  PROVE  /\ Append(q, r) \in Seq(Requests) /\ Append(q, r) # << >>
         /\ q # << >> => Head(Append(q, r)) = Head(q)
<1>1. Append(q, r) \in Seq(Requests) /\ Len(Append(q, r)) = Len(q) + 1 /\ Len(q) \in Nat
  OBVIOUS
<1>2. Append(q, r) # << >>
  BY <1>1
<1>3. ASSUME q # << >>
      PROVE  Head(Append(q, r)) = Head(q)
  BY <1>3
<1>4. QED
  BY <1>1, <1>2, <1>3

LEMMA Pushed ==
  ASSUME NEW q, NEW g, NEW n, NEW m, NEW r
  PROVE  /\ PushRequest([queue |-> q, stage |-> g, paused |-> n], r)
              = [queue |-> Append(q, r), stage |-> g, paused |-> n]
         /\ [[queue |-> q, stage |-> g, paused |-> n] EXCEPT !.paused = m]
              = [queue |-> q, stage |-> g, paused |-> m]
<1> DEFINE s == [queue |-> q, stage |-> g, paused |-> n]
<1>1. s.queue = q
  OBVIOUS
<1>2. ASSUME NEW p
      PROVE  [s EXCEPT !.queue = p] = [queue |-> p, stage |-> g, paused |-> n]
  OBVIOUS
<1>3. PushRequest(s, r) = [s EXCEPT !.queue = Append(s.queue, r)]
  BY DEF PushRequest
<1>4. PushRequest(s, r) = [queue |-> Append(q, r), stage |-> g, paused |-> n]
  <2> HIDE DEF s
  <2> QED
    BY <1>1, <1>2, <1>3
<1>5. [s EXCEPT !.paused = m] = [queue |-> q, stage |-> g, paused |-> m]
  OBVIOUS
<1>6. QED
  BY <1>4, <1>5

\* What is left of a queue when k requests at its front are skipped.
LEMMA RestFacts ==
  ASSUME NEW q \in Seq(Requests), NEW k \in Nat, NEW rest, rest = SubSeq(q, k + 1, Len(q))
  PROVE  /\ rest \in Seq(Requests) /\ Len(rest) \in Nat /\ Len(q) \in Nat
         /\ Len(rest) <= Len(q)
         /\ \A i \in 1 .. Len(rest) : i + k \in 1 .. Len(q) /\ rest[i] = q[i + k]
         /\ k = 0 => rest = q
         /\ rest # << >> => /\ Head(rest) = rest[1] /\ 1 \in 1 .. Len(rest)
                            /\ Head(rest) \in Requests
<1>1. Len(q) \in Nat /\ \A i \in k + 1 .. Len(q) : q[i] \in Requests
  BY LenProperties, ElementOfSeq
<1>2. /\ rest \in Seq(Requests)
      /\ Len(rest) = IF k + 1 <= Len(q) THEN Len(q) - k ELSE 0
      /\ \A i \in 1 .. Len(q) - k : rest[i] = q[i + k]
  BY <1>1, SubSeqProperties
<1>3. k = 0 => rest = q
  BY SubSeqFull
<1>4. rest # << >> => /\ Head(rest) = rest[1] /\ 1 \in 1 .. Len(rest)
                      /\ Head(rest) \in Requests
  BY <1>2, EmptySeq, HeadTail
<1>5. QED
  BY <1>1, <1>2, <1>3, <1>4

LEMMA Emptied ==
  ASSUME NEW q, NEW g, NEW n, NEW s, s = [queue |-> q, stage |-> g, paused |-> n]
  PROVE  DoneResumes([s EXCEPT !.queue = << >>])
           = [queue |-> << >>, stage |-> g, paused |-> IF kind.pause = "sound" THEN n - 1 ELSE n]
<1> DEFINE e == [queue |-> << >>, stage |-> g, paused |-> n]
<1>1. [s EXCEPT !.queue = << >>] = e
  OBVIOUS
<1>2. DoneResumes(e) = [e EXCEPT !.paused = IF kind.pause = "sound" THEN n - 1 ELSE n]
  BY DEF DoneResumes, OnResume
<1>3. QED
  BY <1>1, <1>2

LEMMA Muted ==
  ASSUME NEW q, NEW g, NEW n, NEW h, NEW s, s = [queue |-> q, stage |-> g, paused |-> n]
  PROVE  [s EXCEPT !.stage = h, !.paused = n + 1]
           = [queue |-> q, stage |-> h, paused |-> n + 1]
<1>1. [s EXCEPT !.stage = h, !.paused = n + 1] = [[s EXCEPT !.stage = h] EXCEPT !.paused = n + 1]
  OBVIOUS
<1>2. [s EXCEPT !.stage = h] = [queue |-> q, stage |-> h, paused |-> n]
  OBVIOUS
<1>3. [[queue |-> q, stage |-> h, paused |-> n] EXCEPT !.paused = n + 1]
        = [queue |-> q, stage |-> h, paused |-> n + 1]
  OBVIOUS
<1>4. QED
  BY <1>1, <1>2, <1>3

LEMMA SkipsFacts ==
  ASSUME NEW skips \in Skips
  PROVE  skips \in Nat /\ (skips > 0 => kind.unable # "never")
<1>1. CASE kind.unable = "never"
  BY <1>1 DEF Skips
<1>2. CASE kind.unable # "never"
  BY <1>2, RequestsAssumption DEF Skips
<1>3. QED
  BY <1>1, <1>2

\* The requests at the front are skipped, and the one that follows them, if
\* any, is put under way.
Rest(s, skips) == SubSeq(s.queue, skips + 1, Len(s.queue))

Started(s, skips, rest, next) ==
    /\ next \in GestureState
    /\ next.queue = rest
    /\ next.stage = IF rest = << >> THEN s.stage
                    ELSE [s.stage EXCEPT ![Head(rest)] = kind.first]
    /\ next.paused <= s.paused
    /\ skips = 0 \/ kind.pause # "sound" => next.paused = s.paused

LEMMA StartedFacts ==
  ASSUME KindFits(kind), NEW s \in GestureState, NEW skips \in Nat
  PROVE  Started(s, skips, Rest(s, skips), StartFront(SkipFront(s, skips)))
<1> DEFINE rest == SubSeq(s.queue, skips + 1, Len(s.queue))
           next == StartFront(SkipFront(s, skips))
           n == IF kind.pause = "sound" THEN s.paused - (Len(s.queue) - Len(rest)) ELSE s.paused
           g == [s.stage EXCEPT ![Head(rest)] = kind.first]
           h == IF rest = << >> THEN s.stage ELSE g
           skipped == [queue |-> rest, stage |-> s.stage, paused |-> n]
<1>1. /\ s.queue \in Seq(Requests) /\ s.stage \in [Requests -> Stages] /\ s.paused \in Int
      /\ s = [queue |-> s.queue, stage |-> s.stage, paused |-> s.paused]
  BY DEF GestureState
<1>2. /\ rest \in Seq(Requests) /\ Len(rest) \in Nat /\ Len(s.queue) \in Nat
      /\ Len(rest) <= Len(s.queue) /\ (skips = 0 => rest = s.queue)
  BY <1>1, RestFacts
<1>3. /\ n \in Int /\ n <= s.paused
      /\ skips = 0 \/ kind.pause # "sound" => n = s.paused
  BY <1>1, <1>2
<1>4. SkipFront(s, skips) = skipped
  <2>1. SkipFront(s, skips) = [s EXCEPT !.queue = rest, !.paused = n]
    BY DEF SkipFront
  <2> HIDE DEF n
  <2>2. QED
    BY <1>1, <2>1
<1>5. h \in [Requests -> Stages]
  BY <1>1, <1>2, HeadTail DEF KindFits, Stages
<1>6. next = [queue |-> rest, stage |-> h, paused |-> n]
  <2> HIDE DEF n
  <2>1. /\ skipped.queue = rest /\ skipped.stage = s.stage
        /\ next = StartFront(skipped)
    BY <1>4
  <2>2. CASE rest = << >>
    BY <2>1, <2>2 DEF StartFront
  <2>3. CASE rest # << >>
    <3>1. next = [skipped EXCEPT !.stage = g]
      BY <2>1, <2>3 DEF StartFront
    <3> HIDE DEF g
    <3>2. next = [queue |-> rest, stage |-> g, paused |-> n]
      BY <3>1
    <3>3. QED
      BY <2>3, <3>2
  <2>4. QED
    BY <2>2, <2>3
<1> HIDE DEF n, h, next, rest
<1>7. next \in GestureState
  BY <1>2, <1>3, <1>5, <1>6, Parts
<1>8. next.queue = rest /\ next.stage = h /\ next.paused = n
  BY <1>6
<1>9. Started(s, skips, rest, next)
  BY <1>3, <1>7, <1>8 DEF h, Started
<1>10. QED
  BY <1>9 DEF Rest, rest, next

\* What a start may do in any state, also when what is under way is not the
\* front: it puts the front under way, or the request that follows those that
\* are skipped, or does nothing.
LEMMA StartRequestCases ==
  ASSUME KindFits(kind), NEW s \in GestureState, s.queue # << >>,
         NEW skips \in Nat, skips > 0 => kind.unable # "never",
         NEW next, next = StartRequest(s, skips)
  PROVE  /\ next \in GestureState
         /\ \/ next = s
            \/ /\ VoicesKnown /\ next = StartFront(SkipFront(s, skips))
               /\ skips > 0 => kind.pause # "queue"
<1>1. CASE next = s
  BY <1>1
<1>2. CASE /\ VoicesKnown /\ (skips = 0 \/ kind.unable = "next")
           /\ next = StartFront(SkipFront(s, skips))
  <2>1. next \in GestureState
    BY <1>2, StartedFacts DEF Started
  <2>2. skips > 0 => kind.pause # "queue"
    BY <1>2 DEF KindFits
  <2>3. QED
    BY <1>2, <2>1, <2>2
<1>3. QED
  BY <1>1, <1>2 DEF StartRequest

LEMMA StartRequestStages ==
  ASSUME KindFits(kind), NEW s \in GestureState, s.queue # << >>,
         NEW skips \in Nat, skips > 0 => kind.unable # "never",
         NEW next, next = StartRequest(s, skips)
  PROVE  /\ next \in GestureState
         /\ \A r \in Requests : next.stage[r] \in {s.stage[r], kind.first}
         /\ ~VoicesKnown => next = s
<1> DEFINE rest == Rest(s, skips)
<1>1. s.stage \in [Requests -> Stages] /\ next \in GestureState
  <2>1. next \in GestureState
    BY StartRequestCases
  <2>2. QED
    BY <2>1 DEF GestureState
<1>2. CASE next = s
  BY <1>1, <1>2
<1>3. CASE VoicesKnown /\ next = StartFront(SkipFront(s, skips))
  <2>1. Started(s, skips, rest, next)
    BY <1>3, StartedFacts
  <2> HIDE DEF rest
  <2>2. next.stage = IF rest = << >> THEN s.stage
                     ELSE [s.stage EXCEPT ![Head(rest)] = kind.first]
    BY <2>1 DEF Started
  <2>3. QED
    BY <1>1, <1>3, <2>2
<1>4. QED
  BY <1>2, <1>3, StartRequestCases

Playing(s) == \E r \in Requests : s.stage[r] \in {"thread", "posted"}

\* Nothing starts before the voices are known; the front is what is under way;
\* who pauses with the queue has paused exactly while there is one; and who
\* pauses for each sound has paused at least once while one plays.
Fits(s, aborted, failed) ==
    /\ s \in GestureState
    /\ ~VoicesKnown => Quiet(s)
    /\ \A r \in Requests : s.stage[r] = "tts" => kind.first = "tts"
    /\ ~aborted => Front(s)
    /\ kind.pause = "queue" => s.paused = IF s.queue = << >> THEN 0 ELSE 1
    /\ kind.pause = "sound" /\ ~aborted /\ ~failed =>
           s.paused >= 0 /\ (Playing(s) => s.paused >= 1)

\* A start from a state in which nothing is under way.
LEMMA StartFits ==
  ASSUME KindFits(kind), NEW s \in GestureState, s.queue # << >>, Quiet(s),
         NEW skips \in Nat, skips > 0 => kind.unable # "never",
         NEW next, next = StartRequest(s, skips),
         NEW aborted \in BOOLEAN, NEW failed \in BOOLEAN,
         kind.pause = "queue" => s.paused = 1,
         kind.pause = "sound" /\ ~aborted /\ ~failed => s.paused >= 0
  PROVE  Fits(next, aborted, failed \/ skips > 0)
<1> DEFINE rest == Rest(s, skips)
<1>1. /\ s.stage \in [Requests -> Stages] /\ s.paused \in Int
      /\ s.queue \in Seq(Requests)
  BY DEF GestureState
<1>2. CASE next = s
  BY <1>1, <1>2 DEF Fits, Quiet, Front, Playing
<1>3. CASE /\ VoicesKnown /\ next = StartFront(SkipFront(s, skips))
           /\ skips > 0 => kind.pause # "queue"
  <2>0. Started(s, skips, rest, next) /\ (skips = 0 => rest = s.queue)
    <3>1. Started(s, skips, rest, next)
      BY <1>3, StartedFacts
    <3>2. skips = 0 => rest = s.queue
      BY <1>1, RestFacts DEF Rest
    <3>3. QED
      BY <3>1, <3>2
  <2> HIDE DEF rest
  <2>1. /\ next \in GestureState /\ next.queue = rest /\ next.paused \in Int
        /\ next.stage = IF rest = << >> THEN s.stage
                        ELSE [s.stage EXCEPT ![Head(rest)] = kind.first]
        /\ skips = 0 => next.paused = s.paused
    BY <2>0 DEF GestureState, Started
  <2>2. skips = 0 => rest = s.queue
    BY <2>0
  <2>3. \A r \in Requests :
          next.stage[r] = IF rest # << >> /\ r = Head(rest) THEN kind.first ELSE "none"
    BY <1>1, <2>1 DEF Quiet
  <2>4. kind.pause = "sound" => ~Playing(next)
    BY <2>3 DEF Playing, KindFits
  <2>5. Front(next)
    BY <2>1, <2>3 DEF Front
  <2>6. \A r \in Requests : next.stage[r] = "tts" => kind.first = "tts"
    BY <2>3
  <2>7. kind.pause = "queue" => next.paused = IF next.queue = << >> THEN 0 ELSE 1
    BY <1>3, <2>1, <2>2
  <2>8. kind.pause = "sound" /\ ~aborted /\ ~(failed \/ skips > 0) => next.paused >= 0
    BY <2>1
  <2>9. QED
    BY <1>3, <2>1, <2>4, <2>5, <2>6, <2>7, <2>8 DEF Fits
<1>4. QED
  BY <1>2, <1>3, StartRequestCases

\* A done handler, for a request that is under way.
LEMMA DoneFits ==
  ASSUME KindFits(kind), NEW aborted \in BOOLEAN, NEW failed \in BOOLEAN,
         aborted => kind.aborts,
         NEW s \in GestureState, Fits(s, aborted, failed),
         NEW r \in Requests, s.stage[r] # "none",
         kind.pause = "sound" /\ ~failed => s.stage[r] \in {"thread", "posted"},
         NEW skips \in Nat, skips > 0 => kind.unable # "never",
         NEW next, next = RequestDone(Ended(s, r), skips)
  PROVE  Fits(next, aborted, failed \/ skips > 0)
<1> DEFINE e == Ended(s, r)
           n == IF kind.pause = "sound" THEN s.paused - 1 ELSE s.paused
           q == IF s.queue = << >> THEN s.queue ELSE Tail(s.queue)
           g == [s.stage EXCEPT ![r] = "none"]
           popped == PopRequest(DoneResumes(e))
<1>1. /\ s.queue \in Seq(Requests) /\ s.stage \in [Requests -> Stages] /\ s.paused \in Int
      /\ s = [queue |-> s.queue, stage |-> s.stage, paused |-> s.paused]
  BY DEF GestureState
<1>2. VoicesKnown
  BY DEF Fits, Quiet
<1>3. g \in [Requests -> Stages] /\ q \in Seq(Requests) /\ n \in Int
  BY <1>1, HeadTail DEF Stages
<1>4. popped = [queue |-> q, stage |-> g, paused |-> n]
  <2>1. e = [queue |-> s.queue, stage |-> g, paused |-> s.paused]
    BY <1>1 DEF Ended
  <2> HIDE DEF g, e
  <2>2. DoneResumes(e) = [queue |-> s.queue, stage |-> g, paused |-> n]
    BY <2>1 DEF DoneResumes, OnResume
  <2>3. QED
    BY <2>2 DEF PopRequest
<1>5. popped \in GestureState
  BY <1>3, <1>4, Parts, ZenonT(40)
<1>6. CASE ~aborted
  <2>1. s.queue # << >> /\ r = Head(s.queue)
        /\ \A p \in Requests : s.stage[p] # "none" => p = r
    BY <1>6 DEF Fits, Front
  <2>2. Quiet(popped)
    BY <1>1, <1>4, <2>1 DEF Quiet
  <2>3. kind.pause = "queue" => popped.paused = 1
    BY <1>4, <2>1 DEF Fits
  <2>4. kind.pause = "sound" /\ ~failed => popped.paused >= 0
    BY <1>1, <1>4, <1>6 DEF Fits, Playing
  <2> HIDE DEF popped
  <2>5. CASE popped.queue # << >>
    <3>1. next = StartRequest(popped, skips)
      BY <2>5 DEF RequestDone, popped
    <3>2. QED
      BY <1>5, <1>6, <2>2, <2>3, <2>4, <2>5, <3>1, StartFits
  <2>6. CASE popped.queue = << >>
    <3>1. next = IF kind.pause = "queue" THEN [popped EXCEPT !.paused = OnResume(@)] ELSE popped
      BY <2>6 DEF RequestDone, popped
    <3> DEFINE m == IF kind.pause = "queue" THEN popped.paused - 1 ELSE popped.paused
    <3>2. /\ next = [queue |-> << >>, stage |-> popped.stage, paused |-> m]
          /\ popped.stage \in [Requests -> Stages] /\ m \in Int
          /\ << >> \in Seq(Requests)
      BY <1>5, <2>6, <3>1 DEF GestureState, OnResume
    <3>3. next \in GestureState /\ next.queue = << >> /\ Quiet(next)
          /\ next.paused = m
      <4> HIDE DEF m
      <4>1. next \in GestureState
        BY <3>2, Parts
      <4>2. QED
        BY <3>2, <4>1, <2>2 DEF Quiet
    <3>4. QED
      BY <1>6, <2>3, <2>4, <3>3 DEF Fits, Quiet, Front, Playing
  <2>7. QED
    BY <2>5, <2>6
<1>7. CASE aborted
  <2>1. kind.pause # "queue"
    BY <1>7 DEF KindFits
  <2>2. \A p \in Requests : popped.stage[p] = "tts" => kind.first = "tts"
    BY <1>1, <1>4 DEF Fits
  <2> HIDE DEF popped
  <2>3. CASE popped.queue = << >>
    <3>1. next = popped
      BY <2>1, <2>3 DEF RequestDone, popped
    <3>2. QED
      BY <1>2, <1>5, <1>7, <2>1, <2>2, <3>1 DEF Fits
  <2>4. CASE popped.queue # << >>
    <3>1. next = StartRequest(popped, skips)
      BY <2>4 DEF RequestDone, popped
    <3>2. /\ next \in GestureState
          /\ \A p \in Requests : next.stage[p] \in {popped.stage[p], kind.first}
      BY <1>5, <2>4, <3>1, StartRequestStages
    <3>3. QED
      BY <1>2, <1>7, <2>1, <2>2, <3>2 DEF Fits
  <2>5. QED
    BY <2>3, <2>4
<1>8. QED
  BY <1>6, <1>7

LEMMA StartFitsAborted ==
  ASSUME KindFits(kind), NEW s \in GestureState, s.queue # << >>, kind.pause # "queue",
         ~VoicesKnown => Quiet(s),
         \A r \in Requests : s.stage[r] = "tts" => kind.first = "tts",
         NEW skips \in Nat, skips > 0 => kind.unable # "never",
         NEW next, next = StartRequest(s, skips), NEW failed \in BOOLEAN
  PROVE  Fits(next, TRUE, failed)
  BY StartRequestStages DEF Fits

LEMMA FitsWhateverFailed ==
  ASSUME NEW s, NEW aborted \in BOOLEAN, NEW failed \in BOOLEAN, Fits(s, aborted, failed),
         NEW more \in BOOLEAN
  PROVE  Fits(s, aborted, failed \/ more)
  BY DEF Fits

HistoryType == asked \in Nat /\ history \in [aborted : BOOLEAN, failed : BOOLEAN, behind : BOOLEAN]

QueueInv ==
    /\ HistoryType
    /\ kind \in QueuedKinds =>
         /\ history.aborted => kind.aborts
         /\ Fits(Now, history.aborted, history.failed)

LEMMA NowIs ==
  ASSUME QueueInv, kind \in QueuedKinds
  PROVE  /\ Now \in GestureState
         /\ Now = [queue |-> queue, stage |-> stage, paused |-> paused]
         /\ queue \in Seq(Requests) /\ stage \in [Requests -> Stages] /\ paused \in Int
         /\ KindFits(kind)
         /\ history.aborted \in BOOLEAN /\ history.failed \in BOOLEAN
<1>1. Now \in GestureState
  BY DEF QueueInv, Fits
<1>2. QED
  BY <1>1, KindsFit DEF Now, GestureState, QueueInv, HistoryType

\* A handler that leaves the voices alone keeps the invariant if the state it
\* makes fits.
LEMMA Becomes ==
  ASSUME QueueInv, kind \in QueuedKinds, UNCHANGED <<kind, voices>>,
         NEW next, Become(next), HistoryType',
         history'.aborted => kind.aborts,
         Fits(next, history'.aborted, history'.failed)
  PROVE  QueueInv'
<1>1. next = [queue |-> queue', stage |-> stage', paused |-> paused']
  BY DEF Become, Fits, GestureState
<1>2. Now' = next
  BY <1>1 DEF Now
<1>3. VoicesKnown' <=> VoicesKnown
  BY DEF VoicesKnown
<1>4. Fits(next, history.aborted, history.failed)'
  BY <1>2, <1>3 DEF Fits, Quiet, Front, Playing
<1>5. QED
  BY <1>2, <1>4 DEF QueueInv

LEMMA FailedHistory ==
  ASSUME HistoryType, NEW b \in BOOLEAN, Failed(b), asked' \in Nat
  PROVE  /\ HistoryType'
         /\ history'.aborted = history.aborted /\ history'.behind = history.behind
         /\ history'.failed = (history.failed \/ b)
  BY DEF HistoryType, Failed

LEMMA SkipsHistory ==
  ASSUME HistoryType, NEW skips \in Nat, Failed(skips > 0), asked' \in Nat
  PROVE  /\ HistoryType'
         /\ history'.aborted = history.aborted /\ history'.behind = history.behind
         /\ history'.failed = (history.failed \/ skips > 0)
<1> DEFINE b == skips > 0
<1>1. b \in BOOLEAN /\ Failed(b)
  OBVIOUS
<1> HIDE DEF b
<1>2. /\ HistoryType'
      /\ history'.aborted = history.aborted /\ history'.behind = history.behind
      /\ history'.failed = (history.failed \/ b)
  BY <1>1, FailedHistory
<1>3. QED
  BY <1>2 DEF b

LEMMA ExecuteKeeps ==
  ASSUME QueueInv, Execute
  PROVE  QueueInv'
<1>1. kind \in QueuedKinds /\ asked < MaxRequests /\ asked' = asked + 1
      /\ UNCHANGED <<kind, voices>>
  BY DEF Execute, MainThreadFree
<1>2. PICK skips \in Skips :
        LET pushed == PushRequest(Now, asked + 1)
            muted  == [pushed EXCEPT !.paused =
                          IF kind.pause = "queue" THEN OnPause(@) ELSE @]
        IN  /\ Become(IF queue = << >> THEN StartRequest(muted, skips) ELSE pushed)
            /\ Failed(skips > 0)
  BY DEF Execute
<1>3. /\ skips \in Nat /\ (skips > 0 => kind.unable # "never")
      /\ asked + 1 \in Requests /\ asked + 1 \in Nat
  <2>1. asked \in Nat /\ MaxRequests \in Nat
    BY RequestsAssumption DEF QueueInv, HistoryType
  <2>2. asked + 1 \in Requests /\ asked + 1 \in Nat
    BY <1>1, <2>1 DEF Requests
  <2>3. QED
    BY <2>2, SkipsFacts
<1>4. /\ HistoryType' /\ history'.aborted = history.aborted
      /\ history'.failed = (history.failed \/ skips > 0)
  BY <1>1, <1>2, <1>3, SkipsHistory DEF QueueInv
<1>5. /\ Fits(Now, history.aborted, history.failed) /\ (history.aborted => kind.aborts)
      /\ Now = [queue |-> queue, stage |-> stage, paused |-> paused]
      /\ queue \in Seq(Requests) /\ stage \in [Requests -> Stages] /\ paused \in Int
      /\ KindFits(kind)
      /\ history.aborted \in BOOLEAN /\ history.failed \in BOOLEAN
  BY <1>1, NowIs DEF QueueInv
<1> DEFINE q == Append(queue, asked + 1)
           n == IF kind.pause = "queue" THEN paused + 1 ELSE paused
           pushed == PushRequest(Now, asked + 1)
           muted == [pushed EXCEPT !.paused = IF kind.pause = "queue" THEN OnPause(@) ELSE @]
<1>6. /\ pushed = [queue |-> q, stage |-> stage, paused |-> paused]
      /\ muted = [queue |-> q, stage |-> stage, paused |-> n]
  <2>1. pushed = [queue |-> q, stage |-> stage, paused |-> paused]
    BY <1>5, Pushed
  <2> HIDE DEF pushed
  <2>2. pushed.paused = paused
    BY <2>1
  <2>3. muted = [pushed EXCEPT !.paused = n]
    BY <2>2 DEF OnPause
  <2> HIDE DEF muted, n, q
  <2>4. QED
    BY <2>1, <2>3
<1>7. q \in Seq(Requests) /\ n \in Int /\ q # << >>
      /\ (queue # << >> => Head(q) = Head(queue))
  BY <1>3, <1>5, AppendFacts
<1> HIDE DEF q, n, pushed, muted
<1>8. pushed \in GestureState /\ muted \in GestureState
  BY <1>5, <1>6, <1>7, Parts
<1>9. CASE queue # << >>
  <2>1. Fits(pushed, history.aborted, history.failed \/ skips > 0)
    BY <1>5, <1>6, <1>7, <1>8, <1>9 DEF Fits, Front, Quiet, Playing
  <2>2. Become(pushed)
    BY <1>2, <1>9 DEF pushed
  <2>3. QED
    BY <1>1, <1>4, <1>5, <2>1, <2>2, Becomes
<1>10. CASE queue = << >>
  <2>1. Become(StartRequest(muted, skips))
    BY <1>2, <1>10 DEF muted, pushed
  <2>2. muted.queue # << >> /\ (~VoicesKnown => Quiet(muted))
        /\ \A r \in Requests : muted.stage[r] = "tts" => kind.first = "tts"
    BY <1>5, <1>6, <1>7 DEF Fits, Quiet
  <2>3. CASE history.aborted
    <3>1. kind.pause # "queue"
      BY <1>5, <2>3 DEF KindFits
    <3>2. Fits(StartRequest(muted, skips), TRUE, history.failed \/ skips > 0)
      BY <1>3, <1>5, <1>8, <2>2, <3>1, StartFitsAborted
    <3>3. QED
      BY <1>1, <1>4, <1>5, <2>1, <2>3, <3>2, Becomes
  <2>4. CASE ~history.aborted
    <3>1. Quiet(muted)
      BY <1>5, <1>6, <1>10, <2>4 DEF Fits, Front, Quiet
    <3>2. kind.pause = "queue" => muted.paused = 1
      BY <1>5, <1>6, <1>10 DEF Fits, n
    <3>3. kind.pause = "sound" /\ ~history.aborted /\ ~history.failed => muted.paused >= 0
      BY <1>5, <1>6 DEF Fits, n
    <3>4. Fits(StartRequest(muted, skips), history.aborted, history.failed \/ skips > 0)
      BY <1>3, <1>5, <1>8, <2>2, <3>1, <3>2, <3>3, StartFits
    <3>5. QED
      BY <1>1, <1>4, <1>5, <2>1, <3>4, Becomes
  <2>5. QED
    BY <1>5, <2>3, <2>4
<1>11. QED
  BY <1>9, <1>10

\* The facts every handler of a queued gesture starts from.
LEMMA Facts ==
  ASSUME QueueInv, kind \in QueuedKinds
  PROVE  /\ Fits(Now, history.aborted, history.failed) /\ (history.aborted => kind.aborts)
         /\ Now \in GestureState
         /\ Now = [queue |-> queue, stage |-> stage, paused |-> paused]
         /\ queue \in Seq(Requests) /\ stage \in [Requests -> Stages] /\ paused \in Int
         /\ KindFits(kind) /\ HistoryType
         /\ history.aborted \in BOOLEAN /\ history.failed \in BOOLEAN
  BY NowIs DEF QueueInv

LEMMA DoneKeeps ==
  ASSUME QueueInv, NEW r \in Requests, OnDone(r)
  PROVE  QueueInv'
<1>1. kind \in QueuedKinds /\ UNCHANGED <<kind, voices, asked>> /\ stage[r] = "posted"
  BY DEF OnDone, MainThreadFree
<1>2. PICK skips \in Skips : Become(RequestDone(Ended(Now, r), skips)) /\ Failed(skips > 0)
  BY DEF OnDone
<1>3. skips \in Nat /\ (skips > 0 => kind.unable # "never")
  BY SkipsFacts
<1>4. asked' \in Nat
  BY <1>1 DEF QueueInv, HistoryType
<1>5. /\ HistoryType' /\ history'.aborted = history.aborted
      /\ history'.failed = (history.failed \/ skips > 0)
  BY <1>1, <1>2, <1>3, <1>4, SkipsHistory, Facts
<1>6. Now.stage[r] = "posted"
  BY <1>1, Facts
<1>7. Fits(RequestDone(Ended(Now, r), skips), history.aborted, history.failed \/ skips > 0)
  BY <1>1, <1>3, <1>6, Facts, DoneFits, ZenonT(40)
<1>8. QED
  BY <1>1, <1>2, <1>5, <1>7, Facts, Becomes

\* The end of a thread, or of a request without a sound: the stage of one
\* request moves on, and nothing else.
LEMMA StageMoves ==
  ASSUME QueueInv, kind \in QueuedKinds, NEW r \in Requests, stage[r] # "none",
         UNCHANGED <<kind, voices, queue, paused, asked>>,
         NEW to \in {"none", "posted"}, stage' = [stage EXCEPT ![r] = to],
         to = "posted" => stage[r] \in {"thread", "posted"},
         HistoryType', history'.aborted = history.aborted, history.failed => history'.failed
  PROVE  QueueInv'
<1> DEFINE g == [stage EXCEPT ![r] = to]
           next == [queue |-> queue, stage |-> g, paused |-> paused]
<1>1. /\ Fits(Now, history.aborted, history.failed) /\ (history.aborted => kind.aborts)
      /\ Now = [queue |-> queue, stage |-> stage, paused |-> paused]
      /\ queue \in Seq(Requests) /\ stage \in [Requests -> Stages] /\ paused \in Int
      /\ history.aborted \in BOOLEAN /\ history.failed \in BOOLEAN
  BY Facts
<1>2. g \in [Requests -> Stages]
  BY <1>1 DEF Stages
<1>3. next \in GestureState
  BY <1>1, <1>2, Parts
<1>4. \A p \in Requests : next.stage[p] = IF p = r THEN to ELSE stage[p]
  BY <1>1
<1>5. Become(next)
  BY DEF Become
<1>6. next.queue = queue /\ next.paused = paused
  OBVIOUS
<1> HIDE DEF next, g
<1>7. /\ Now.queue = queue /\ Now.stage = stage /\ Now.paused = paused
  BY <1>1
<1>8. Playing(next) => Playing(Now)
  BY <1>4, <1>7 DEF Playing
<1>9. Front(Now) => Front(next)
  BY <1>4, <1>6, <1>7 DEF Front
<1>10. VoicesKnown
  BY <1>1, <1>7 DEF Fits, Quiet
<1>11. Fits(next, history.aborted, history'.failed)
  BY <1>1, <1>3, <1>4, <1>6, <1>7, <1>8, <1>9, <1>10 DEF Fits
<1>12. QED
  BY <1>1, <1>5, <1>11, Becomes

LEMMA ThreadEndsKeeps ==
  ASSUME QueueInv, NEW r \in Requests, ThreadEnds(r)
  PROVE  QueueInv'
<1>1. /\ kind \in QueuedKinds /\ stage[r] = "thread"
      /\ UNCHANGED <<kind, voices, queue, paused, asked>>
  BY DEF ThreadEnds
<1>2. PICK thrown \in {FALSE, kind.throws} :
        /\ stage' = [stage EXCEPT ![r] = IF thrown THEN "none" ELSE "posted"]
        /\ Failed(thrown)
  BY DEF ThreadEnds
<1>3. /\ HistoryType' /\ history'.aborted = history.aborted
      /\ history.failed => history'.failed
  BY <1>1, <1>2 DEF Failed, QueueInv, HistoryType
<1>4. CASE thrown
  <2>1. stage' = [stage EXCEPT ![r] = "none"]
    BY <1>2, <1>4
  <2>2. QED
    BY <1>1, <1>3, <2>1, StageMoves
<1>5. CASE ~thrown
  <2>1. stage' = [stage EXCEPT ![r] = "posted"]
    BY <1>2, <1>5
  <2>2. QED
    BY <1>1, <1>3, <2>1, StageMoves
<1>6. QED
  BY <1>4, <1>5

LEMMA MoveThreadEndsKeeps ==
  ASSUME QueueInv, NEW r \in Requests, MoveThreadEnds(r)
  PROVE  QueueInv'
<1>1. /\ kind \in QueuedKinds /\ stage[r] = "thread"
      /\ UNCHANGED <<kind, voices, queue, paused, asked, history>>
      /\ stage' = [stage EXCEPT ![r] = "posted"]
  BY DEF MoveThreadEnds, IsRos, QueuedKinds
<1>2. /\ HistoryType' /\ history'.aborted = history.aborted
      /\ history.failed => history'.failed
  BY <1>1 DEF QueueInv, HistoryType
<1>3. QED
  BY <1>1, <1>2, StageMoves

\* A sound arrives: it is published, or played while the microphone is paused.
LEMMA SoundKeeps ==
  ASSUME QueueInv, NEW r \in Requests, OnSpeechSound(r)
  PROVE  QueueInv'
<1>1. kind \in QueuedKinds /\ UNCHANGED <<kind, voices, asked>> /\ stage[r] = "tts"
  BY DEF OnSpeechSound, MainThreadFree
<1>2. PICK skips \in Skips :
        /\ Become(IF kind.play = "gone" THEN RequestDone(Ended(Now, r), skips)
                  ELSE [Now EXCEPT !.stage[r] = "thread", !.paused = OnPause(@)])
        /\ Failed(skips > 0)
  BY DEF OnSpeechSound
<1>3. skips \in Nat /\ (skips > 0 => kind.unable # "never")
  BY SkipsFacts
<1>4. asked' \in Nat
  BY <1>1 DEF QueueInv, HistoryType
<1>5. /\ HistoryType' /\ history'.aborted = history.aborted
      /\ history'.failed = (history.failed \/ skips > 0)
  BY <1>1, <1>2, <1>3, <1>4, SkipsHistory, Facts
<1>6. /\ Fits(Now, history.aborted, history.failed) /\ (history.aborted => kind.aborts)
      /\ Now = [queue |-> queue, stage |-> stage, paused |-> paused]
      /\ queue \in Seq(Requests) /\ stage \in [Requests -> Stages] /\ paused \in Int
      /\ KindFits(kind)
      /\ history.aborted \in BOOLEAN /\ history.failed \in BOOLEAN
  BY <1>1, Facts
<1>7. Now.stage = stage /\ Now.queue = queue /\ Now.paused = paused /\ Now \in GestureState
  BY <1>6 DEF Fits
<1>8. VoicesKnown /\ kind.first = "tts"
  BY <1>1, <1>6, <1>7 DEF Fits, Quiet
<1>9. CASE kind.play = "gone"
  <2>1. kind.pause # "sound" /\ Now.stage[r] = "tts"
    BY <1>1, <1>6, <1>7, <1>9 DEF KindFits
  <2>2. Fits(RequestDone(Ended(Now, r), skips), history.aborted, history.failed \/ skips > 0)
    BY <1>1, <1>3, <2>1, Facts, DoneFits, ZenonT(40)
  <2>3. QED
    BY <1>1, <1>2, <1>5, <1>6, <1>9, <2>2, Becomes
<1>10. CASE kind.play # "gone"
  <2> DEFINE g == [stage EXCEPT ![r] = "thread"]
             next == [Now EXCEPT !.stage[r] = "thread", !.paused = OnPause(@)]
  <2>1. kind.pause = "sound"
    BY <1>6, <1>8, <1>10 DEF KindFits
  <2>2. next = [queue |-> queue, stage |-> g, paused |-> paused + 1]
    <3>1. next = [Now EXCEPT !.stage = g, !.paused = paused + 1]
      BY <1>7 DEF OnPause
    <3> HIDE DEF g, next
    <3>2. QED
      BY <1>6, <3>1, Muted
  <2>3. g \in [Requests -> Stages] /\ paused + 1 \in Int
    BY <1>6 DEF Stages
  <2>4. \A p \in Requests : g[p] = IF p = r THEN "thread" ELSE stage[p]
    BY <1>6
  <2>5. Become(next)
    BY <1>2, <1>10
  <2> HIDE DEF next, g
  <2>6. next \in GestureState
    BY <1>6, <2>2, <2>3, Parts
  <2>7. next.queue = queue /\ next.stage = g /\ next.paused = paused + 1
    BY <2>2
  <2>8. Front(Now) => Front(next)
    BY <1>1, <1>7, <2>4, <2>7 DEF Front
  <2>9. Fits(next, history.aborted, history.failed \/ skips > 0)
    BY <1>6, <1>7, <1>8, <2>1, <2>4, <2>6, <2>7, <2>8 DEF Fits
  <2>10. QED
    BY <1>1, <1>5, <1>6, <2>5, <2>9, Becomes
<1>11. QED
  BY <1>9, <1>10

LEMMA NullKeeps ==
  ASSUME QueueInv, NEW r \in Requests, OnSpeechNull(r)
  PROVE  QueueInv'
<1>1. kind \in QueuedKinds /\ UNCHANGED <<kind, voices, asked>> /\ stage[r] = "tts"
  BY DEF OnSpeechNull, MainThreadFree
<1>2. PICK skips \in Skips :
        Become(IF kind.unable = "next" THEN RequestDone(Ended(Now, r), skips) ELSE Ended(Now, r))
  BY DEF OnSpeechNull
<1>3. skips \in Nat /\ (skips > 0 => kind.unable # "never")
  BY SkipsFacts
<1>4. Failed(TRUE) /\ asked' \in Nat
  BY <1>1 DEF OnSpeechNull, QueueInv, HistoryType
<1>5. /\ HistoryType' /\ history'.aborted = history.aborted /\ history'.failed = TRUE
  BY <1>1, <1>4, FailedHistory, Facts
<1>6. /\ Fits(Now, history.aborted, history.failed) /\ (history.aborted => kind.aborts)
      /\ Now = [queue |-> queue, stage |-> stage, paused |-> paused]
      /\ queue \in Seq(Requests) /\ stage \in [Requests -> Stages] /\ paused \in Int
      /\ KindFits(kind)
      /\ history.aborted \in BOOLEAN /\ history.failed \in BOOLEAN
  BY <1>1, Facts
<1>7. Now.stage = stage /\ Now.queue = queue /\ Now.paused = paused /\ Now \in GestureState
  BY <1>6 DEF Fits
<1>8. CASE kind.unable = "next"
  <2>1. Fits(Now, history.aborted, TRUE) /\ Now.stage[r] = "tts"
    BY <1>1, <1>6, <1>7 DEF Fits
  <2>2. Fits(RequestDone(Ended(Now, r), skips), history.aborted, TRUE \/ skips > 0)
    BY <1>1, <1>3, <2>1, Facts, DoneFits
  <2>3. Fits(RequestDone(Ended(Now, r), skips), history.aborted, TRUE)
    BY <2>2
  <2>4. QED
    BY <1>1, <1>2, <1>5, <1>6, <1>8, <2>3, Becomes
<1>9. CASE kind.unable # "next"
  <2>1. Become(Ended(Now, r))
    BY <1>2, <1>9
  <2>2. queue' = queue /\ paused' = paused /\ stage' = [stage EXCEPT ![r] = "none"]
    BY <2>1, <1>6 DEF Become, Ended
  <2>3. QED
    BY <1>1, <1>5, <2>2, StageMoves
<1>10. QED
  BY <1>8, <1>9

\* Abort leaves a state in which only the queue is known.
LEMMA AbortKeeps ==
  ASSUME QueueInv, Abort
  PROVE  QueueInv'
<1> DEFINE m == IF kind.pause = "sound" THEN paused - 1 ELSE paused
           next == [queue |-> << >>, stage |-> stage, paused |-> m]
<1>1. /\ kind \in QueuedKinds /\ UNCHANGED <<kind, voices, asked>> /\ kind.aborts
      /\ history' = [history EXCEPT !.aborted = TRUE]
  BY DEF Abort, MainThreadFree
<1>2. HistoryType' /\ history'.aborted = TRUE /\ history'.failed \in BOOLEAN
  BY <1>1 DEF QueueInv, HistoryType
<1>3. /\ Fits(Now, history.aborted, history.failed)
      /\ Now = [queue |-> queue, stage |-> stage, paused |-> paused]
      /\ stage \in [Requests -> Stages] /\ paused \in Int
      /\ KindFits(kind)
  BY <1>1, Facts
<1>4. DoneResumes([Now EXCEPT !.queue = << >>]) = next
  BY <1>3, Emptied, SMTT(20)
<1>5. Become(next)
  BY <1>4 DEF Abort
<1>6. m \in Int /\ << >> \in Seq(Requests)
  BY <1>3
<1> HIDE DEF m
<1>7. next \in GestureState
  BY <1>3, <1>6, Parts
<1>8. next.stage = stage /\ Now.stage = stage
  BY <1>3
<1> HIDE DEF next
<1>9. kind.pause # "queue"
  BY <1>1, <1>3 DEF KindFits
<1>10. Fits(next, TRUE, history'.failed)
  BY <1>3, <1>7, <1>8, <1>9 DEF Fits, Quiet
<1>11. QED
  BY <1>1, <1>2, <1>5, <1>10, Becomes

\* The voices are named, or not: what waited for them starts, if anything does.
LEMMA VoicesKeep ==
  ASSUME QueueInv, OnVoices
  PROVE  QueueInv'
<1>1. /\ kind \in QueuedKinds /\ UNCHANGED <<kind, asked>> /\ voices = "awaited"
      /\ voices' \in {"named", "missing"} /\ kind.first = "tts"
  BY DEF OnVoices, MainThreadFree
<1>2. PICK skips \in Skips :
        /\ Become(IF kind.waits /\ voices' = "named" /\ queue # << >>
                  THEN StartFront(SkipFront(Now, skips)) ELSE Now)
        /\ Failed(skips > 0)
  BY DEF OnVoices
<1>3. skips \in Nat /\ (skips > 0 => kind.unable # "never")
  BY SkipsFacts
<1>4. asked' \in Nat
  BY <1>1 DEF QueueInv, HistoryType
<1>5. /\ HistoryType' /\ history'.aborted = history.aborted
      /\ history'.failed = (history.failed \/ skips > 0)
  BY <1>1, <1>2, <1>3, <1>4, SkipsHistory, Facts
<1>6. /\ Fits(Now, history.aborted, history.failed) /\ (history.aborted => kind.aborts)
      /\ Now = [queue |-> queue, stage |-> stage, paused |-> paused]
      /\ queue \in Seq(Requests) /\ stage \in [Requests -> Stages] /\ paused \in Int
      /\ KindFits(kind)
      /\ history.aborted \in BOOLEAN /\ history.failed \in BOOLEAN
  BY <1>1, Facts
<1>7. Now.stage = stage /\ Now.queue = queue /\ Now.paused = paused /\ Now \in GestureState
  BY <1>6 DEF Fits
<1>8. kind.pause # "queue"
  BY <1>1, <1>6 DEF KindFits
\* It is enough that the new state fits, where nothing is under way for one
\* who still waits.
<1>9. ASSUME NEW next \in GestureState, Become(next),
             ~history.aborted => Front(next),
             ~VoicesKnown' => Quiet(next),
             kind.pause = "sound" /\ ~history.aborted /\ ~history.failed /\ skips = 0 =>
                 next.paused >= 0 /\ (Playing(next) => next.paused >= 1)
      PROVE  QueueInv'
  <2>1. next = [queue |-> queue', stage |-> stage', paused |-> paused']
    BY <1>9 DEF Become, GestureState
  <2>2. Now' = next
    BY <2>1 DEF Now
  <2>3. ~history'.failed => ~history.failed /\ skips = 0
    <3>1. ~history'.failed => ~history.failed /\ ~(skips > 0)
      BY <1>5
    <3>2. QED
      BY <1>3, <3>1
  <2>4. /\ ~history'.aborted => Front(next)
        /\ kind.pause = "sound" /\ ~history'.aborted /\ ~history'.failed =>
             next.paused >= 0 /\ (Playing(next) => next.paused >= 1)
    BY <1>5, <1>9, <2>3
  <2>5. Fits(Now, history.aborted, history.failed)'
    BY <1>1, <1>6, <1>8, <1>9, <2>2, <2>4 DEF Fits, Quiet, Front, Playing
  <2>6. QED
    BY <1>1, <1>5, <1>6, <2>5 DEF QueueInv
<1>10. CASE ~(kind.waits /\ voices' = "named" /\ queue # << >>)
  <2>1. Become(Now)
    BY <1>2, <1>10
  <2>2. ~VoicesKnown' => Quiet(Now)
    BY <1>1, <1>6 DEF VoicesKnown, Fits
  <2>3. QED
    BY <1>6, <1>7, <1>9, <2>1, <2>2 DEF Fits
<1>11. CASE kind.waits /\ voices' = "named" /\ queue # << >>
  <2>1. Quiet(Now) /\ VoicesKnown'
    BY <1>1, <1>6, <1>11 DEF VoicesKnown, Fits
  <2> DEFINE next == StartFront(SkipFront(Now, skips))
             rest == Rest(Now, skips)
  <2>2. Become(next)
    BY <1>2, <1>11
  <2>3. Started(Now, skips, rest, next)
    BY <1>3, <1>6, <1>7, StartedFacts
  <2> HIDE DEF next, rest
  <2>4. /\ next \in GestureState /\ next.queue = rest
        /\ next.stage = IF rest = << >> THEN stage ELSE [stage EXCEPT ![Head(rest)] = "tts"]
        /\ skips = 0 => next.paused = paused
    BY <1>1, <1>7, <2>3 DEF Started
  <2>5. \A p \in Requests :
          next.stage[p] = IF rest # << >> /\ p = Head(rest) THEN "tts" ELSE "none"
    BY <1>6, <1>7, <2>1, <2>4 DEF Quiet
  <2>6. Front(next) /\ ~Playing(next)
    BY <2>4, <2>5 DEF Front, Playing
  <2>7. QED
    BY <1>6, <1>7, <1>9, <2>1, <2>2, <2>4, <2>6 DEF Fits
<1>12. QED
  BY <1>10, <1>11

\* NaoSound, which pops on a thread: nothing is ever aborted, so only the front
\* is under way.
LEMMA PoolFacts ==
  ASSUME QueueInv, kind \in QueuedKinds, kind.pops = "thread",
         NEW r \in Requests, stage[r] # "none"
  PROVE  /\ queue # << >> /\ r = Head(queue)
         /\ \A p \in Requests : stage[p] # "none" => p = r
         /\ VoicesKnown /\ ~history.aborted
         /\ kind.first = "thread" /\ kind.pause = "nobody"
<1>1. /\ Fits(Now, history.aborted, history.failed)
      /\ Now.queue = queue /\ Now.stage = stage
      /\ KindFits(kind) /\ (history.aborted => kind.aborts)
      /\ history.aborted \in BOOLEAN
  BY NowIs DEF QueueInv
<1>2. /\ kind.first = "thread" /\ kind.pause = "nobody" /\ ~history.aborted
  BY <1>1 DEF KindFits
<1>3. Front(Now) /\ VoicesKnown
  BY <1>1, <1>2 DEF Fits, Quiet
<1>4. QED
  BY <1>1, <1>2, <1>3 DEF Front

\* The front is popped, or what was popped is followed by a start.
LEMMA PoolKeeps ==
  ASSUME QueueInv, kind \in QueuedKinds, kind.pops = "thread",
         NEW r \in Requests, stage[r] # "none",
         UNCHANGED <<kind, voices, asked, history>>,
         NEW q \in Seq(Requests), NEW h \in [Requests -> Stages], NEW to \in {"next", "thread"},
         \A p \in Requests : h[p] = IF q # << >> /\ p = Head(q) THEN to ELSE "none",
         Become([queue |-> q, stage |-> h, paused |-> paused])
  PROVE  QueueInv'
<1> DEFINE next == [queue |-> q, stage |-> h, paused |-> paused]
<1>1. next.queue = q /\ next.stage = h /\ next.paused = paused
  OBVIOUS
<1>2. paused \in Int /\ HistoryType /\ (history.aborted => kind.aborts)
  BY Facts
<1>3. next \in GestureState
  BY <1>2, Parts
<1>4. Become(next)
  OBVIOUS
<1> HIDE DEF next
<1>5. Fits(next, history.aborted, history.failed)
  BY <1>1, <1>3, PoolFacts DEF Fits, Front
<1>6. HistoryType'
  BY <1>2 DEF HistoryType
<1>7. QED
  BY <1>2, <1>4, <1>5, <1>6, Becomes

\* What the two steps of PlayDone make of the state.
LEMMA PoolSteps ==
  ASSUME QueueInv, NEW r \in Requests, DonePops(r) \/ DonePlays(r)
  PROVE  /\ kind \in QueuedKinds /\ kind.pops = "thread" /\ stage[r] # "none"
         /\ UNCHANGED <<kind, voices, asked, history>>
         /\ \E q \in {queue, Tail(queue)}, h \in [Requests -> Stages], to \in {"next", "thread"} :
               /\ q \in Seq(Requests)
               /\ \A p \in Requests : h[p] = IF q # << >> /\ p = Head(q) THEN to ELSE "none"
               /\ Become([queue |-> q, stage |-> h, paused |-> paused])
<1>1. /\ kind \in QueuedKinds /\ kind.pops = "thread" /\ stage[r] # "none"
      /\ UNCHANGED <<kind, voices, asked, history>>
  BY DEF DonePops, DonePlays
<1>2. /\ queue \in Seq(Requests) /\ stage \in [Requests -> Stages]
      /\ Now = [queue |-> queue, stage |-> stage, paused |-> paused]
  BY <1>1, Facts
<1>3. /\ queue # << >> /\ r = Head(queue) /\ kind.first = "thread"
      /\ \A p \in Requests : stage[p] # "none" => p = r
  BY <1>1, PoolFacts
<1> DEFINE g == [stage EXCEPT ![r] = "none"]
           ended == Ended(Now, r)
<1>4. g \in [Requests -> Stages] /\ \A p \in Requests : g[p] = "none"
  BY <1>2, <1>3 DEF Stages
<1>5. ended = [queue |-> queue, stage |-> g, paused |-> paused]
  BY <1>2 DEF Ended
<1> HIDE DEF g, ended
<1>6. CASE DonePops(r)
  <2> DEFINE q == Tail(queue)
             popped == [queue |-> q, stage |-> g, paused |-> paused]
             h == IF q = << >> THEN g ELSE [g EXCEPT ![Head(q)] = "next"]
  <2>1. q \in Seq(Requests) /\ (q # << >> => Head(q) \in Requests)
    BY <1>2, <1>3, HeadTail
  <2> HIDE DEF q
  <2>2. PopRequest(ended) = popped
    BY <1>3, <1>5, SMTT(20) DEF PopRequest, q
  <2>3. Become(IF popped.queue = << >> THEN popped
               ELSE [popped EXCEPT !.stage[Head(popped.queue)] = "next"])
    BY <1>6, <2>2 DEF DonePops, ended
  <2>4. Become([queue |-> q, stage |-> h, paused |-> paused])
    <3>1. CASE q = << >>
      BY <2>3, <3>1
    <3>2. CASE q # << >>
      BY <2>3, <3>2
    <3>3. QED
      BY <3>1, <3>2
  <2>5. /\ h \in [Requests -> Stages]
        /\ \A p \in Requests : h[p] = IF q # << >> /\ p = Head(q) THEN "next" ELSE "none"
    BY <1>4, <2>1 DEF Stages
  <2> HIDE DEF h
  <2>6. q \in {queue, Tail(queue)}
    BY DEF q
  <2>7. QED
    BY <1>1, <2>1, <2>4, <2>5, <2>6
<1>7. CASE DonePlays(r)
  <2> DEFINE h == [g EXCEPT ![Head(queue)] = "thread"]
  <2>1. Become(StartFront(ended))
    BY <1>7 DEF DonePlays, ended
  <2>2. StartFront(ended) = [queue |-> queue, stage |-> h, paused |-> paused]
    BY <1>3, <1>5 DEF StartFront
  <2>3. /\ h \in [Requests -> Stages]
        /\ \A p \in Requests : h[p] = IF queue # << >> /\ p = Head(queue) THEN "thread" ELSE "none"
    BY <1>3, <1>4 DEF Stages
  <2> HIDE DEF h
  <2>4. Become([queue |-> queue, stage |-> h, paused |-> paused])
    BY <2>1, <2>2
  <2>5. QED
    BY <1>1, <1>2, <2>3, <2>4
<1>8. QED
  BY <1>6, <1>7

LEMMA PoolStepsKeep ==
  ASSUME QueueInv, NEW r \in Requests, DonePops(r) \/ DonePlays(r)
  PROVE  QueueInv'
  BY PoolSteps, PoolKeeps

\* The queue's invariant is kept by every step.
LEMMA QueueKept ==
  ASSUME QueueInv, [Next]_vars
  PROVE  QueueInv'
<1>1. ASSUME UNCHANGED <<gestureVars, paused>>
      PROVE  QueueInv'
  <2>1. Now' = Now /\ UNCHANGED <<kind, voices, asked, history>>
    BY <1>1 DEF Now, gestureVars
  <2>2. Fits(Now, history.aborted, history.failed)' <=> Fits(Now, history.aborted, history.failed)
    BY <2>1 DEF Fits, Quiet, Front, Playing, VoicesKnown
  <2>3. QED
    BY <2>1, <2>2 DEF QueueInv, HistoryType
<1>2. ASSUME kind = WinSpeechGesture, kind' = kind, HistoryType'
      PROVE  QueueInv'
  BY <1>2, WinIsNoQueuedKind DEF QueueInv
<1>3. CASE MicStarts \/ MicStops \/ MicWaited
  BY <1>1, <1>3 DEF MicStarts, MicStops, MicWaited, OnStart, OnStop, OnStopReturns, OthersIdle
<1>4. CASE MicThread
  BY <1>1, <1>4 DEF MicThread, OthersIdle, ReceiveData, ReceiveDataBegins, ReceiveDataChecks,
     ReceiveDataReads, ReceiveDataEnds
<1>5. CASE GestureAsked \/ GestureVoices \/ GestureAborted \/ GestureThread \/ GestureDone
  BY <1>5, ExecuteKeeps, VoicesKeep, AbortKeeps, ThreadEndsKeeps, DoneKeeps, PoolStepsKeep
  DEF GestureAsked, GestureVoices, GestureAborted, GestureThread, GestureDone
<1>6. CASE GestureData \/ RosEnds
  BY <1>6, SoundKeeps, NullKeeps, MoveThreadEndsKeeps DEF GestureData, OnSpeechData, RosEnds
<1>7. CASE WinAsked \/ WinVoices \/ WinAborted
  <2>1. kind = WinSpeechGesture /\ kind' = kind
    BY <1>7 DEF WinAsked, WinVoices, WinAborted, WinExecute, WinOnVoices, WinAbort, WinFree, IsWin
  <2>2. CASE WinAsked
    <3>1. PICK skips \in 0 .. MaxRequests : Failed(skips > 0)
      BY <2>2 DEF WinAsked, WinExecute
    <3>2. asked' \in Nat
      BY <2>2 DEF WinAsked, WinExecute, QueueInv, HistoryType
    <3>3. HistoryType'
      BY <3>1, <3>2, SkipsHistory, RequestsAssumption DEF QueueInv
    <3>4. QED
      BY <1>2, <2>1, <3>3
  <2>3. CASE WinVoices
    <3>1. PICK skips \in 0 .. MaxRequests : Failed(skips > 0)
      BY <2>3 DEF WinVoices, WinOnVoices
    <3>2. asked' \in Nat
      BY <2>3 DEF WinVoices, WinOnVoices, QueueInv, HistoryType
    <3>3. HistoryType'
      BY <3>1, <3>2, SkipsHistory, RequestsAssumption DEF QueueInv
    <3>4. QED
      BY <1>2, <2>1, <3>3
  <2>4. CASE WinAborted
    <3>1. HistoryType'
      BY <2>4 DEF WinAborted, WinAbort, QueueInv, HistoryType
    <3>2. QED
      BY <1>2, <2>1, <3>1
  <2>5. QED
    BY <1>7, <2>2, <2>3, <2>4
<1>8. CASE WinPiece \/ WinNull \/ WinEnds \/ WinDone
  <2>1. kind = WinSpeechGesture /\ kind' = kind
    BY <1>8 DEF WinPiece, WinNull, WinEnds, WinDone, WinOnSpeechPiece, WinOnSpeechNull,
       WinPlayEnds, WinOnSpeechDone, WinFree, IsWin
  <2>2. CASE WinPiece
    <3>1. HistoryType'
      BY <2>2 DEF WinPiece, WinOnSpeechPiece, QueueInv, HistoryType
    <3>2. QED
      BY <1>2, <2>1, <3>1
  <2>3. CASE WinNull
    <3>1. Failed(~win.playing) /\ asked' \in Nat
      BY <2>3 DEF WinNull, WinOnSpeechNull, QueueInv, HistoryType
    <3>2. HistoryType'
      BY <3>1, FailedHistory DEF QueueInv
    <3>3. QED
      BY <1>2, <2>1, <3>2
  <2>4. CASE WinEnds
    <3> DEFINE b == history.behind \/ ~(win.done \/ win.abort)
    <3>1. history' = [history EXCEPT !.behind = b] /\ asked' = asked /\ b \in BOOLEAN
      BY <2>4 DEF WinEnds, WinPlayEnds
    <3> HIDE DEF b
    <3>2. HistoryType'
      BY <3>1 DEF QueueInv, HistoryType
    <3>3. QED
      BY <1>2, <2>1, <3>2
  <2>5. CASE WinDone
    <3>1. HistoryType'
      BY <2>5 DEF WinDone, WinOnSpeechDone, Failed, QueueInv, HistoryType
    <3>2. QED
      BY <1>2, <2>1, <3>1
  <2>6. QED
    BY <1>8, <2>2, <2>3, <2>4, <2>5
<1>9. CASE RosGoal \/ RosFrame \/ RosTimeout
  BY <1>1, <1>9 DEF RosGoal, RosFrame, RosTimeout, PublishGoal, OnGoalStatusMatches,
     OnGoalStatusSets, OnTimeout
<1>10. CASE RosTimer \/ RosState \/ RosSocket \/ UNCHANGED vars
  BY <1>1, <1>10 DEF RosTimer, RosState, RosSocket, Elsewhere, vars
<1>11. QED
  BY <1>3, <1>4, <1>5, <1>6, <1>7, <1>8, <1>9, <1>10 DEF Next

LEMMA QueueInitHolds ==
  ASSUME Init
  PROVE  QueueInv
<1> DEFINE g == [r \in Requests |-> "none"]
<1>1. /\ queue = << >> /\ stage = g /\ paused = 0 /\ asked = 0
      /\ history = [aborted |-> FALSE, failed |-> FALSE, behind |-> FALSE]
  BY DEF Init, GestureInit, MicInit
<1>2. g \in [Requests -> Stages] /\ << >> \in Seq(Requests) /\ 0 \in Int
  BY DEF Stages
<1>3. \A r \in Requests : g[r] = "none"
  OBVIOUS
<1> HIDE DEF g
<1>4. Now = [queue |-> << >>, stage |-> g, paused |-> 0]
  BY <1>1 DEF Now
<1>5. Now \in GestureState /\ Quiet(Now) /\ Now.queue = << >> /\ Now.paused = 0
  BY <1>2, <1>3, <1>4, Parts DEF Quiet
<1>6. Fits(Now, FALSE, FALSE)
  BY <1>5 DEF Fits, Quiet, Front, Playing
<1>7. QED
  BY <1>1, <1>6 DEF QueueInv, HistoryType

-----------------------------------------------------------------------------
(* The stream of WinSpeechGesture: its queue q, stages g, pauses p, and     *)
(* flags and counters w.                                                   *)

NoneUnderWay(g) == \A r \in Requests : g[r] = "none"

\* Whatever was aborted: the pause belongs to m_bPlayingSpeech, and while it is
\* set a thread plays or its OnSpeechDone is on its way.
WinFits(q, g, p, w) ==
    /\ q \in Seq(Requests) /\ g \in [Requests -> {"none", "tts"}] /\ w \in Win
    /\ p = IF w.playing THEN 1 ELSE 0
    /\ w.playing => w.threads + w.posts > 0

\* Until an abort, or a stream that ran dry: one thread at most, or its
\* OnSpeechDone, for the front; a stream still open is that of the front.
WinCalm(q, g, w) ==
    /\ ~w.abort
    /\ w.threads + w.posts <= 1
    /\ w.threads > 0 => w.playing
    /\ w.threads + w.posts > 0 => q # << >>
    /\ \A r \in Requests : g[r] # "none" => q # << >> /\ r = Head(q) /\ w.posts = 0 /\ ~w.done

WinInv ==
    /\ kind \in QueuedKinds \cup {WinSpeechGesture}
    /\ kind \in QueuedKinds => win.threads = 0 /\ win.posts = 0
    /\ kind = WinSpeechGesture =>
         /\ WinFits(queue, stage, paused, win)
         /\ voices = "awaited" => NoneUnderWay(stage) /\ win.threads = 0 /\ win.posts = 0
         /\ ~history.aborted /\ ~history.behind => WinCalm(queue, stage, win)

LEMMA WinNext ==
  ASSUME NEW q, NEW g, NEW p, NEW w \in Win
  PROVE  StreamEnded([queue |-> q, stage |-> g, paused |-> p, win |-> w])
           = [queue |-> q, stage |-> g,
              paused |-> IF w.playing THEN p - 1 ELSE p,
              win |-> [w EXCEPT !.playing = FALSE]]
<1> DEFINE v == [w EXCEPT !.playing = FALSE]
           s == [queue |-> q, stage |-> g, paused |-> p, win |-> w]
<1>1. s.queue = q /\ s.stage = g /\ s.paused = p /\ s.win = w
  OBVIOUS
<1>2. CASE w.playing
  <2>1. StreamEnded(s) = [s EXCEPT !.paused = p - 1, !.win = v]
    BY <1>1, <1>2 DEF StreamEnded, OnResume
  <2> HIDE DEF v
  <2>2. [s EXCEPT !.paused = p - 1, !.win = v] = [[s EXCEPT !.paused = p - 1] EXCEPT !.win = v]
    OBVIOUS
  <2>3. [s EXCEPT !.paused = p - 1] = [queue |-> q, stage |-> g, paused |-> p - 1, win |-> w]
    OBVIOUS
  <2>4. [[queue |-> q, stage |-> g, paused |-> p - 1, win |-> w] EXCEPT !.win = v]
          = [queue |-> q, stage |-> g, paused |-> p - 1, win |-> v]
    OBVIOUS
  <2>5. QED
    BY <1>2, <2>1, <2>2, <2>3, <2>4 DEF v
<1>3. CASE ~w.playing
  <2>1. w = v
    BY <1>3 DEF Win
  <2>2. StreamEnded(s) = s
    BY <1>1, <1>3 DEF StreamEnded
  <2>3. QED
    BY <1>3, <2>1, <2>2
<1>4. QED
  BY <1>2, <1>3

\* A start opens a stream for the front, or for the request after those that
\* are skipped, or empties the queue.
LEMMA WinStarts ==
  ASSUME NEW q, NEW g, NEW p, NEW w, WinFits(q, g, p, w), q # << >>,
         NEW s, s = [queue |-> q, stage |-> g, paused |-> p, win |-> w],
         NEW skips \in Nat, NEW next, next = WinStartSpeech(s, skips)
  PROVE  /\ WinFits(next.queue, next.stage, next.paused, next.win)
         /\ NoneUnderWay(g) /\ w.threads = 0 /\ w.posts = 0 /\ ~w.abort
              => WinCalm(next.queue, next.stage, next.win)
<1>1. s.queue = q /\ s.stage = g /\ s.paused = p /\ s.win = w
  OBVIOUS
<1> DEFINE rest == SubSeq(q, skips + 1, Len(q))
           skipped == IF skips = 0 THEN s ELSE StreamEnded([s EXCEPT !.queue = rest])
           v == IF skips = 0 THEN w ELSE [w EXCEPT !.playing = FALSE]
           n == IF skips = 0 \/ ~w.playing THEN p ELSE p - 1
<1>2. w \in Win /\ q \in Seq(Requests)
  BY DEF WinFits
<1>3. rest \in Seq(Requests) /\ (skips = 0 => rest = q)
  BY <1>2, RestFacts
<1>4. rest # << >> => Head(rest) \in Requests
  BY <1>3, HeadTail
<1>5. next = IF rest = << >> THEN skipped
             ELSE [skipped EXCEPT !.stage[Head(rest)] = "tts",
                                  !.win.done = FALSE, !.win.abort = FALSE]
  BY <1>1 DEF WinStartSpeech
<1> HIDE DEF rest
<1>6. skipped = [queue |-> rest, stage |-> g, paused |-> n, win |-> v]
  <2>1. CASE skips = 0
    BY <1>3, <2>1
  <2>2. CASE skips # 0
    <3> DEFINE e == [queue |-> rest, stage |-> g, paused |-> p, win |-> w]
    <3>1. [s EXCEPT !.queue = rest] = e
      OBVIOUS
    <3>2. skipped = StreamEnded(e)
      BY <2>2, <3>1
    <3>3. StreamEnded(e) = [queue |-> rest, stage |-> g,
                            paused |-> IF w.playing THEN p - 1 ELSE p,
                            win |-> [w EXCEPT !.playing = FALSE]]
      BY <1>2, WinNext
    <3>4. (IF w.playing THEN p - 1 ELSE p) = n /\ [w EXCEPT !.playing = FALSE] = v
      BY <2>2
    <3> HIDE DEF skipped, e, v, n
    <3>5. QED
      BY <3>2, <3>3, <3>4
  <2>3. QED
    BY <2>1, <2>2
<1>7. /\ v \in Win /\ v.abort = w.abort /\ v.done = w.done
      /\ v.threads = w.threads /\ v.posts = w.posts
      /\ n = IF v.playing THEN 1 ELSE 0
      /\ v.playing => w.playing
  <2>1. w.playing \in BOOLEAN /\ p = IF w.playing THEN 1 ELSE 0
    BY <1>2 DEF WinFits, Win
  <2>2. CASE skips = 0
    BY <1>2, <2>1, <2>2
  <2>3. CASE skips # 0
    <3>1. /\ v \in Win /\ v.abort = w.abort /\ v.done = w.done /\ v.playing = FALSE
          /\ v.threads = w.threads /\ v.posts = w.posts
      BY <1>2, <2>3 DEF Win
    <3>2. n = 0
      BY <2>1, <2>3
    <3>3. QED
      BY <3>1, <3>2
  <2>4. QED
    BY <2>2, <2>3
<1> HIDE DEF v, n, skipped
<1>8. CASE rest = << >>
  <2>1. next.queue = << >> /\ next.stage = g /\ next.paused = n /\ next.win = v
    BY <1>5, <1>6, <1>8
  <2>2. WinFits(next.queue, next.stage, next.paused, next.win)
    BY <1>3, <1>7, <1>8, <2>1 DEF WinFits
  <2>3. NoneUnderWay(g) /\ w.threads = 0 /\ w.posts = 0 /\ ~w.abort
          => WinCalm(next.queue, next.stage, next.win)
    BY <1>7, <2>1 DEF WinCalm, NoneUnderWay
  <2>4. QED
    BY <2>2, <2>3
<1>9. CASE rest # << >>
  <2> DEFINE h == [g EXCEPT ![Head(rest)] = "tts"]
             u == [v EXCEPT !.done = FALSE, !.abort = FALSE]
  <2>1. next.queue = rest /\ next.stage = h /\ next.paused = n /\ next.win = u
    <3>1. next = [skipped EXCEPT !.stage = h, !.win = u]
      BY <1>5, <1>6, <1>9
    <3> HIDE DEF h, u
    <3>2. QED
      BY <1>6, <3>1
  <2>2. /\ h \in [Requests -> {"none", "tts"}]
        /\ \A r \in Requests : h[r] = IF r = Head(rest) THEN "tts" ELSE g[r]
    BY DEF WinFits
  <2>3. /\ u \in Win /\ u.done = FALSE /\ u.abort = FALSE
        /\ u.playing = v.playing /\ u.threads = w.threads /\ u.posts = w.posts
    BY <1>7 DEF Win
  <2> HIDE DEF h, u
  <2>4. QED
    BY <1>3, <1>7, <1>9, <2>1, <2>2, <2>3 DEF WinFits, WinCalm, NoneUnderWay, Win
<1>10. QED
  BY <1>8, <1>9

LEMMA WinPushed ==
  ASSUME NEW q, NEW g, NEW p, NEW w, NEW r
  PROVE  PushRequest([queue |-> q, stage |-> g, paused |-> p, win |-> w], r)
           = [queue |-> Append(q, r), stage |-> g, paused |-> p, win |-> w]
  BY SMTT(20) DEF PushRequest

\* What every handler of the Windows gesture starts from.
LEMMA WinFacts ==
  ASSUME WinInv, QueueInv, IsWin
  PROVE  /\ WinFits(queue, stage, paused, win)
         /\ voices = "awaited" => NoneUnderWay(stage) /\ win.threads = 0 /\ win.posts = 0
         /\ ~history.aborted /\ ~history.behind => WinCalm(queue, stage, win)
         /\ queue \in Seq(Requests) /\ stage \in [Requests -> {"none", "tts"}] /\ win \in Win
         /\ win.threads \in Nat /\ win.posts \in Nat
         /\ HistoryType /\ kind \notin QueuedKinds
         /\ WinNow = [queue |-> queue, stage |-> stage, paused |-> paused, win |-> win]
  BY WinIsNoQueuedKind DEF WinInv, QueueInv, IsWin, WinFits, Win, WinNow

\* The invariant of the next state, from its parts.
LEMMA WinBecomes ==
  ASSUME WinInv, QueueInv, IsWin, kind' = kind,
         WinFits(queue', stage', paused', win'),
         voices' = "awaited" => NoneUnderWay(stage') /\ win'.threads = 0 /\ win'.posts = 0,
         ~history'.aborted /\ ~history'.behind => WinCalm(queue', stage', win')
  PROVE  WinInv'
  BY WinIsNoQueuedKind DEF WinInv, IsWin, WinFits, WinCalm, NoneUnderWay

LEMMA WinExecuteKeeps ==
  ASSUME WinInv, QueueInv, WinExecute
  PROVE  WinInv'
<1>1. IsWin /\ kind' = kind /\ voices' = voices /\ asked < MaxRequests
  BY DEF WinExecute, WinFree
<1>2. PICK skips \in 0 .. MaxRequests :
        LET pushed == PushRequest(WinNow, asked + 1)
        IN  /\ WinBecome(IF queue = << >> /\ voices # "awaited"
                         THEN WinStartSpeech(pushed, skips) ELSE pushed)
            /\ Failed(skips > 0)
  BY DEF WinExecute
<1> DEFINE q == Append(queue, asked + 1)
           pushed == PushRequest(WinNow, asked + 1)
<1>3. asked + 1 \in Requests
  BY <1>1, RequestsAssumption DEF QueueInv, HistoryType, Requests
<1>4. /\ pushed = [queue |-> q, stage |-> stage, paused |-> paused, win |-> win]
      /\ q \in Seq(Requests) /\ q # << >> /\ (queue # << >> => Head(q) = Head(queue))
  <2>1. WinNow = [queue |-> queue, stage |-> stage, paused |-> paused, win |-> win]
        /\ queue \in Seq(Requests)
    BY <1>1, WinFacts
  <2>2. pushed = [queue |-> q, stage |-> stage, paused |-> paused, win |-> win]
    BY <2>1, WinPushed
  <2>3. QED
    BY <1>3, <2>1, <2>2, AppendFacts
<1>5. history'.aborted = history.aborted /\ history'.behind = history.behind
  BY <1>2 DEF Failed, QueueInv, HistoryType
<1> HIDE DEF q, pushed
<1>6. /\ WinFits(q, stage, paused, win)
      /\ voices = "awaited" => NoneUnderWay(stage) /\ win.threads = 0 /\ win.posts = 0
      /\ ~history.aborted /\ ~history.behind => WinCalm(queue, stage, win)
  BY <1>1, <1>4, WinFacts DEF WinFits
<1>7. CASE queue = << >> /\ voices # "awaited"
  <2> DEFINE next == WinStartSpeech(pushed, skips)
  <2>1. queue' = next.queue /\ stage' = next.stage /\ paused' = next.paused /\ win' = next.win
    BY <1>2, <1>7 DEF WinBecome, pushed
  <2>2. ~history.aborted /\ ~history.behind =>
            NoneUnderWay(stage) /\ win.threads = 0 /\ win.posts = 0 /\ ~win.abort
    BY <1>1, <1>6, <1>7, WinFacts DEF WinCalm, NoneUnderWay
  <2>3. /\ WinFits(next.queue, next.stage, next.paused, next.win)
        /\ ~history.aborted /\ ~history.behind => WinCalm(next.queue, next.stage, next.win)
    BY <1>4, <1>6, <2>2, WinStarts
  <2> HIDE DEF next
  <2>4. QED
    BY <1>1, <1>5, <1>7, <2>1, <2>3, WinBecomes
<1>8. CASE ~(queue = << >> /\ voices # "awaited")
  <2>1. queue' = q /\ stage' = stage /\ paused' = paused /\ win' = win
    BY <1>2, <1>4, <1>8 DEF WinBecome, pushed
  <2>2. ~history.aborted /\ ~history.behind => WinCalm(q, stage, win)
    BY <1>4, <1>6, <1>8 DEF WinCalm, NoneUnderWay
  <2>3. QED
    BY <1>1, <1>5, <1>6, <2>1, <2>2, WinBecomes
<1>9. QED
  BY <1>7, <1>8

LEMMA WinVoicesKeep ==
  ASSUME WinInv, QueueInv, WinOnVoices
  PROVE  WinInv'
<1>1. IsWin /\ kind' = kind /\ voices = "awaited" /\ voices' \in {"named", "missing"}
  BY DEF WinOnVoices, WinFree
<1>2. PICK skips \in 0 .. MaxRequests :
        /\ WinBecome(IF queue # << >> THEN WinStartSpeech(WinNow, skips) ELSE WinNow)
        /\ Failed(skips > 0)
  BY DEF WinOnVoices
<1>3. history'.aborted = history.aborted /\ history'.behind = history.behind
  BY <1>2 DEF Failed, QueueInv, HistoryType
<1>4. /\ WinFits(queue, stage, paused, win)
      /\ NoneUnderWay(stage) /\ win.threads = 0 /\ win.posts = 0
      /\ ~history.aborted /\ ~history.behind => WinCalm(queue, stage, win)
      /\ WinNow = [queue |-> queue, stage |-> stage, paused |-> paused, win |-> win]
  BY <1>1, WinFacts
<1>5. CASE queue # << >>
  <2> DEFINE next == WinStartSpeech(WinNow, skips)
  <2>1. queue' = next.queue /\ stage' = next.stage /\ paused' = next.paused /\ win' = next.win
    BY <1>2, <1>5 DEF WinBecome
  <2>2. ~history.aborted /\ ~history.behind => ~win.abort
    BY <1>4 DEF WinCalm
  <2>3. /\ WinFits(next.queue, next.stage, next.paused, next.win)
        /\ ~history.aborted /\ ~history.behind => WinCalm(next.queue, next.stage, next.win)
    BY <1>4, <1>5, <2>2, WinStarts
  <2> HIDE DEF next
  <2>4. QED
    BY <1>1, <1>3, <2>1, <2>3, WinBecomes
<1>6. CASE queue = << >>
  <2>1. queue' = queue /\ stage' = stage /\ paused' = paused /\ win' = win
    BY <1>2, <1>4, <1>6 DEF WinBecome
  <2>2. QED
    BY <1>1, <1>3, <1>4, <2>1, WinBecomes
<1>7. QED
  BY <1>5, <1>6

LEMMA WinAbortKeeps ==
  ASSUME WinInv, QueueInv, WinAbort
  PROVE  WinInv'
<1>1. /\ IsWin /\ UNCHANGED <<kind, voices, queue, stage, paused>>
      /\ win' = [win EXCEPT !.abort = TRUE]
      /\ history' = [history EXCEPT !.aborted = TRUE]
  BY DEF WinAbort, WinFree
<1>2. history'.aborted
  BY <1>1 DEF QueueInv, HistoryType
<1>3. /\ win' \in Win /\ win'.playing = win.playing
      /\ win'.threads = win.threads /\ win'.posts = win.posts
  BY <1>1, WinFacts DEF Win
<1>4. WinFits(queue, stage, paused, win')
  BY <1>1, <1>3, WinFacts DEF WinFits
<1>5. QED
  BY <1>1, <1>2, <1>3, <1>4, WinFacts, WinBecomes

\* The first piece of a stream starts the thread, and pauses.
LEMMA WinPieceKeeps ==
  ASSUME WinInv, QueueInv, NEW r \in Requests, WinOnSpeechPiece(r)
  PROVE  WinInv'
<1>1. /\ IsWin /\ UNCHANGED <<kind, voices, queue, stage, history>>
      /\ stage[r] = "tts" /\ ~win.playing
      /\ win' = [win EXCEPT !.playing = TRUE, !.threads = win.threads + 1]
      /\ paused' = paused + 1
  BY DEF WinOnSpeechPiece, WinFree, OnPause
<1>2. /\ win' \in Win /\ win'.playing /\ win'.abort = win.abort /\ win'.done = win.done
      /\ win'.threads = win.threads + 1 /\ win'.posts = win.posts
  <2> DEFINE m == win.threads + 1
  <2>1. win \in Win /\ m \in Nat /\ win' = [win EXCEPT !.playing = TRUE, !.threads = m]
    BY <1>1, WinFacts
  <2> HIDE DEF m
  <2>2. /\ win' \in Win /\ win'.playing /\ win'.abort = win.abort /\ win'.done = win.done
        /\ win'.threads = m /\ win'.posts = win.posts
    BY <2>1 DEF Win
  <2>3. QED
    BY <2>2 DEF m
<1>3. WinFits(queue, stage, paused', win')
  BY <1>1, <1>2, WinFacts DEF WinFits, Win
<1>4. voices # "awaited"
  BY <1>1, WinFacts DEF NoneUnderWay
<1>5. ~history.aborted /\ ~history.behind => WinCalm(queue, stage, win')
  BY <1>1, <1>2, WinFacts DEF WinCalm
<1>6. QED
  BY <1>1, <1>3, <1>4, <1>5, WinBecomes

\* The end of a stream: with no thread to play it, OnSpeechDone is posted.
LEMMA WinNullKeeps ==
  ASSUME WinInv, QueueInv, NEW r \in Requests, WinOnSpeechNull(r)
  PROVE  WinInv'
<1> DEFINE g == [stage EXCEPT ![r] = "none"]
           n == IF win.playing THEN win.posts ELSE win.posts + 1
<1>1. /\ IsWin /\ UNCHANGED <<kind, voices, queue, paused>>
      /\ stage[r] = "tts" /\ stage' = g
      /\ win' = [win EXCEPT !.done = TRUE, !.posts = n]
  BY DEF WinOnSpeechNull, WinFree
<1>2. history'.aborted = history.aborted /\ history'.behind = history.behind
  BY DEF WinOnSpeechNull, Failed, QueueInv, HistoryType
<1>3. /\ win' \in Win /\ win'.playing = win.playing /\ win'.abort = win.abort /\ win'.done
      /\ win'.threads = win.threads /\ win'.posts = n
  <2>1. win \in Win /\ n \in Nat
    BY <1>1, WinFacts
  <2> HIDE DEF n
  <2>2. QED
    BY <1>1, <2>1 DEF Win
<1>4. /\ g \in [Requests -> {"none", "tts"}]
      /\ \A p \in Requests : g[p] = IF p = r THEN "none" ELSE stage[p]
  BY <1>1, WinFacts
<1> HIDE DEF g
<1>5. WinFits(queue, g, paused, win')
  BY <1>1, <1>3, <1>4, WinFacts DEF WinFits
<1>6. voices # "awaited"
  BY <1>1, WinFacts DEF NoneUnderWay
<1>7. ~history.aborted /\ ~history.behind => WinCalm(queue, g, win')
  BY <1>1, <1>3, <1>4, WinFacts DEF WinCalm, WinFits
<1>8. QED
  BY <1>1, <1>2, <1>5, <1>6, <1>7, WinBecomes

LEMMA WinEndsKeeps ==
  ASSUME WinInv, QueueInv, WinPlayEnds
  PROVE  WinInv'
<1> DEFINE b == history.behind \/ ~(win.done \/ win.abort)
<1>1. /\ IsWin /\ UNCHANGED <<kind, voices, queue, stage, paused>> /\ win.threads > 0
      /\ win' = [win EXCEPT !.threads = win.threads - 1, !.posts = win.posts + 1]
      /\ history' = [history EXCEPT !.behind = b]
  BY DEF WinPlayEnds
<1>2. history'.aborted = history.aborted /\ history'.behind = b
  BY <1>1 DEF QueueInv, HistoryType
<1>3. /\ win' \in Win /\ win'.playing = win.playing /\ win'.abort = win.abort
      /\ win'.done = win.done
      /\ win'.threads = win.threads - 1 /\ win'.posts = win.posts + 1
  <2> DEFINE m == win.threads - 1
             k == win.posts + 1
  <2>1. /\ win \in Win /\ m \in Nat /\ k \in Nat
        /\ win' = [win EXCEPT !.threads = m, !.posts = k]
    BY <1>1, WinFacts
  <2> HIDE DEF m, k
  <2>2. /\ win' \in Win /\ win'.playing = win.playing /\ win'.abort = win.abort
        /\ win'.done = win.done /\ win'.threads = m /\ win'.posts = k
    BY <2>1 DEF Win
  <2>3. QED
    BY <2>2 DEF m, k
<1>4. WinFits(queue, stage, paused, win')
  BY <1>1, <1>3, WinFacts DEF WinFits
<1>5. voices # "awaited"
  BY <1>1, WinFacts
<1>6. ~history'.aborted /\ ~history'.behind => WinCalm(queue, stage, win')
  <2>1. HAVE ~history'.aborted /\ ~history'.behind
  <2>2. WinCalm(queue, stage, win) /\ win.done
    BY <1>1, <1>2, <2>1, WinFacts DEF WinCalm
  <2>3. win.threads \in Nat /\ win.posts \in Nat
    BY <1>1, WinFacts
  <2>4. QED
    BY <1>1, <1>3, <2>2, <2>3 DEF WinCalm
<1>7. QED
  BY <1>1, <1>4, <1>5, <1>6, WinBecomes

\* OnSpeechDone resumes, pops the front and starts the next one.
LEMMA WinDoneKeeps ==
  ASSUME WinInv, QueueInv, WinOnSpeechDone
  PROVE  WinInv'
<1> DEFINE w == [win EXCEPT !.posts = @ - 1]
           s == [queue |-> queue, stage |-> stage, paused |-> paused, win |-> w]
           ended == StreamEnded(s)
           popped == PopRequest(ended)
<1>1. IsWin /\ kind' = kind /\ voices' = voices /\ win.posts > 0
  BY DEF WinOnSpeechDone, WinFree
<1>2. [WinNow EXCEPT !.win.posts = @ - 1] = s
  BY DEF WinNow
<1>3. PICK skips \in 0 .. MaxRequests :
        /\ WinBecome(IF popped.queue = << >> THEN popped ELSE WinStartSpeech(popped, skips))
        /\ Failed(skips > 0)
  BY <1>2 DEF WinOnSpeechDone
<1>4. history'.aborted = history.aborted /\ history'.behind = history.behind
  BY <1>3 DEF Failed, QueueInv, HistoryType
<1>5. /\ w \in Win /\ w.playing = win.playing /\ w.threads = win.threads
      /\ w.posts = win.posts - 1 /\ w.abort = win.abort /\ w.done = win.done
  BY <1>1, WinFacts DEF Win
<1> DEFINE v == [w EXCEPT !.playing = FALSE]
           q == IF queue = << >> THEN queue ELSE Tail(queue)
           n == IF w.playing THEN paused - 1 ELSE paused
<1>6. /\ v \in Win /\ v.playing = FALSE /\ v.threads = win.threads
      /\ v.posts = win.posts - 1 /\ v.abort = win.abort /\ v.done = win.done
  BY <1>5 DEF Win
<1> HIDE DEF w
<1>7. ended = [queue |-> queue, stage |-> stage, paused |-> n, win |-> v]
  BY <1>5, WinNext
<1>8. n = 0 /\ q \in Seq(Requests)
  BY <1>1, <1>5, WinFacts, HeadTail DEF WinFits
<1> HIDE DEF ended, v, n
<1>9. popped = [queue |-> q, stage |-> stage, paused |-> n, win |-> v]
  BY <1>7 DEF PopRequest
<1>10. WinFits(q, stage, n, v)
  BY <1>1, <1>6, <1>8, WinFacts DEF WinFits
<1>11. voices # "awaited"
  BY <1>1, WinFacts
<1>12. ~history.aborted /\ ~history.behind =>
           NoneUnderWay(stage) /\ v.threads = 0 /\ v.posts = 0 /\ ~v.abort
  BY <1>1, <1>6, WinFacts DEF WinCalm, NoneUnderWay
<1> HIDE DEF popped, q
<1>13. CASE q # << >>
  <2> DEFINE next == WinStartSpeech(popped, skips)
  <2>1. popped.queue # << >>
    BY <1>9, <1>13
  <2>2. queue' = next.queue /\ stage' = next.stage /\ paused' = next.paused /\ win' = next.win
    BY <1>3, <2>1 DEF WinBecome
  <2>3. /\ WinFits(next.queue, next.stage, next.paused, next.win)
        /\ ~history.aborted /\ ~history.behind => WinCalm(next.queue, next.stage, next.win)
    BY <1>9, <1>10, <1>12, <1>13, WinStarts
  <2> HIDE DEF next
  <2>4. QED
    BY <1>1, <1>4, <1>11, <2>2, <2>3, WinBecomes
<1>14. CASE q = << >>
  <2>1. queue' = q /\ stage' = stage /\ paused' = n /\ win' = v
    BY <1>3, <1>9, <1>14 DEF WinBecome
  <2>2. NoneUnderWay(stage) /\ v.threads = 0 /\ v.posts = 0 /\ ~v.abort => WinCalm(q, stage, v)
    BY DEF WinCalm, NoneUnderWay
  <2>3. QED
    BY <1>1, <1>4, <1>10, <1>11, <1>12, <2>1, <2>2, WinBecomes
<1>15. QED
  BY <1>13, <1>14

LEMMA WinKept ==
  ASSUME WinInv, QueueInv, [Next]_vars
  PROVE  WinInv'
<1>1. ASSUME UNCHANGED <<gestureVars, winVars, paused>>
      PROVE  WinInv'
  BY <1>1 DEF WinInv, gestureVars, winVars, WinFits, WinCalm, NoneUnderWay
<1>2. ASSUME kind \in QueuedKinds, kind' = kind, win' = win
      PROVE  WinInv'
  BY <1>2, WinIsNoQueuedKind DEF WinInv
<1>3. CASE MicStarts \/ MicStops \/ MicWaited
  BY <1>1, <1>3 DEF MicStarts, MicStops, MicWaited, OnStart, OnStop, OnStopReturns, OthersIdle
<1>4. CASE MicThread
  BY <1>1, <1>4 DEF MicThread, OthersIdle, ReceiveData, ReceiveDataBegins, ReceiveDataChecks,
     ReceiveDataReads, ReceiveDataEnds
<1>5. CASE GestureAsked \/ GestureVoices \/ GestureAborted
  BY <1>2, <1>5 DEF GestureAsked, GestureVoices, GestureAborted, Execute, OnVoices, Abort,
     MainThreadFree, winVars
<1>6. CASE GestureData \/ GestureThread \/ GestureDone
  BY <1>2, <1>6 DEF GestureData, GestureThread, GestureDone, OnSpeechData, OnSpeechSound,
     OnSpeechNull, ThreadEnds, OnDone, DonePops, DonePlays, MainThreadFree, winVars
<1>7. CASE WinAsked \/ WinVoices \/ WinAborted
  BY <1>7, WinExecuteKeeps, WinVoicesKeep, WinAbortKeeps DEF WinAsked, WinVoices, WinAborted
<1>8. CASE WinPiece \/ WinNull \/ WinEnds \/ WinDone
  BY <1>8, WinPieceKeeps, WinNullKeeps, WinEndsKeeps, WinDoneKeeps
  DEF WinPiece, WinNull, WinEnds, WinDone
<1>9. CASE RosGoal \/ RosFrame \/ RosTimeout
  BY <1>1, <1>9 DEF RosGoal, RosFrame, RosTimeout, PublishGoal, OnGoalStatusMatches,
     OnGoalStatusSets, OnTimeout
<1>10. CASE RosEnds
  BY <1>2, <1>10 DEF RosEnds, MoveThreadEnds, IsRos, QueuedKinds, winVars
<1>11. CASE RosTimer \/ RosState \/ RosSocket \/ UNCHANGED vars
  BY <1>1, <1>11 DEF RosTimer, RosState, RosSocket, Elsewhere, vars
<1>12. QED
  BY <1>3, <1>4, <1>5, <1>6, <1>7, <1>8, <1>9, <1>10, <1>11 DEF Next

LEMMA WinInitHolds ==
  ASSUME Init
  PROVE  WinInv
<1> DEFINE g == [r \in Requests |-> "none"]
<1>1. /\ queue = << >> /\ stage = g /\ paused = 0
      /\ win = [playing |-> FALSE, done |-> TRUE, abort |-> FALSE, threads |-> 0, posts |-> 0]
      /\ kind \in QueuedKinds \cup {WinSpeechGesture}
  BY DEF Init, GestureInit, MicInit, WinInit
<1>2. g \in [Requests -> {"none", "tts"}] /\ NoneUnderWay(g) /\ << >> \in Seq(Requests)
  BY DEF NoneUnderWay
<1>3. /\ win \in Win /\ win.playing = FALSE /\ win.abort = FALSE
      /\ win.threads = 0 /\ win.posts = 0
  BY <1>1 DEF Win
<1> HIDE DEF g
<1>4. WinFits(queue, stage, paused, win) /\ WinCalm(queue, stage, win)
  BY <1>1, <1>2, <1>3 DEF WinFits, WinCalm, NoneUnderWay
<1>5. QED
  BY <1>1, <1>2, <1>3, <1>4 DEF WinInv

GestureInv == QueueInv /\ WinInv

LEMMA GestureInvariant == Spec => []GestureInv
<1>1. GestureInv /\ [Next]_vars => GestureInv'
  BY QueueKept, WinKept DEF GestureInv
<1>2. Init => GestureInv
  BY QueueInitHolds, WinInitHolds DEF GestureInv
<1>3. QED
  BY <1>1, <1>2, PTL DEF Spec

LEMMA QueuedFacts ==
  ASSUME GestureInv, kind \in QueuedKinds
  PROVE  /\ stage \in [Requests -> Stages] /\ Now.stage = stage
         /\ Now.queue = queue /\ Now.paused = paused /\ paused \in Int
         /\ Fits(Now, history.aborted, history.failed)
         /\ KindFits(kind) /\ win.threads = 0 /\ win.posts = 0
<1>1. QueueInv /\ WinInv
  BY DEF GestureInv
<1>2. Now = [queue |-> queue, stage |-> stage, paused |-> paused]
  BY DEF Now
<1>3. QED
  BY <1>1, <1>2, Facts DEF WinInv

\* One request at a time, of whichever gesture, and it is the front.
THEOREM OneAtATimeAlways == Spec => []OneAtATime
<1>1. ASSUME GestureInv
      PROVE  OneAtATime
  <2>1. CASE kind \in QueuedKinds
    BY <1>1, <2>1, QueuedFacts DEF OneAtATime, UnderWay, Fits, Front
  <2>2. CASE kind = WinSpeechGesture
    BY <1>1, <2>2 DEF GestureInv, WinInv, WinCalm, OneAtATime, UnderWay
  <2>3. QED
    BY <1>1, <2>1, <2>2 DEF GestureInv, WinInv
<1>2. QED
  BY <1>1, GestureInvariant, PTL

\* While the robot talks, its microphone is paused.
THEOREM MicrophonePaused == Spec => []PausedWhileTalking
<1>1. ASSUME GestureInv, Talking, ~history.aborted, ~history.failed, ~history.behind
      PROVE  paused > 0
  <2>1. CASE kind \in QueuedKinds
    <3>1. kind # WinSpeechGesture
      BY <2>1, WinIsNoQueuedKind
    <3>2. CASE kind.pause = "sound" /\ \E r \in Requests : stage[r] = "thread"
      BY <1>1, <2>1, <3>2, QueuedFacts DEF Fits, Playing
    <3>3. CASE kind.pause = "queue" /\ UnderWay # {}
      <4>1. queue # << >>
        BY <1>1, <2>1, <3>3, QueuedFacts DEF Fits, Front, UnderWay
      <4>2. QED
        BY <1>1, <2>1, <3>3, <4>1, QueuedFacts DEF Fits
    <3>4. QED
      BY <1>1, <2>1, <3>2, <3>3, QueuedFacts DEF Talking
  <2>2. CASE kind = WinSpeechGesture
    <3>1. kind.pause = "sound"
      BY <2>2 DEF WinSpeechGesture
    <3>2. QED
      BY <1>1, <2>2, <3>1 DEF Talking, GestureInv, WinInv, WinFits, WinCalm
  <2>3. QED
    BY <1>1, <2>1, <2>2 DEF GestureInv, WinInv
<1>2. GestureInv => PausedWhileTalking
  BY <1>1 DEF PausedWhileTalking
<1>3. QED
  BY <1>2, GestureInvariant, PTL

-----------------------------------------------------------------------------
(* Every pause is returned, whatever was aborted or failed.                *)

\* The requests wait in the order in which they were made.
Ascending(q, n) ==
    \A i \in 1 .. Len(q) : q[i] <= n /\ \A j \in 1 .. Len(q) : i < j => q[i] < q[j]

LEMMA AscendingAppend ==
  ASSUME NEW q \in Seq(Requests), NEW n \in Nat, n + 1 \in Requests, Ascending(q, n)
  PROVE  Ascending(Append(q, n + 1), n + 1)
<1> DEFINE p == Append(q, n + 1)
<1>1. /\ Len(p) = Len(q) + 1 /\ p[Len(q) + 1] = n + 1
      /\ \A i \in 1 .. Len(q) : p[i] = q[i]
  BY AppendProperties
<1>2. Len(q) \in Nat /\ \A i \in 1 .. Len(q) : q[i] \in Nat
  BY LenProperties, ElementOfSeq, RequestsAssumption DEF Requests
<1> HIDE DEF p
<1>3. QED
  BY <1>1, <1>2 DEF Ascending

LEMMA AscendingTail ==
  ASSUME NEW q \in Seq(Requests), q # << >>, NEW n \in Nat, Ascending(q, n)
  PROVE  /\ Ascending(Tail(q), n) /\ Head(q) <= n
         /\ Tail(q) # << >> => Head(q) < Head(Tail(q))
<1> DEFINE p == Tail(q)
<1>1. /\ p \in Seq(Requests) /\ Len(p) = Len(q) - 1
      /\ \A i \in 1 .. Len(p) : p[i] = q[i + 1]
  BY HeadTailProperties
<1>2. Len(q) \in Nat \ {0} /\ Head(q) = q[1]
  BY EmptySeq
<1>3. p # << >> => Len(p) # 0 /\ Head(p) = p[1]
  BY <1>1, EmptySeq
<1> HIDE DEF p
<1>4. Ascending(p, n)
  <2>1. \A i \in 1 .. Len(p) : i + 1 \in 1 .. Len(q) /\ p[i] = q[i + 1]
    BY <1>1, <1>2
  <2>2. ASSUME NEW i \in 1 .. Len(p), NEW j \in 1 .. Len(p), i < j
        PROVE  p[i] < p[j]
    <3>1. q[i + 1] < q[j + 1]
      BY <2>1, <2>2 DEF Ascending
    <3>2. QED
      BY <2>1, <3>1
  <2>3. ASSUME NEW i \in 1 .. Len(p)
        PROVE  p[i] <= n
    BY <2>1 DEF Ascending
  <2>4. QED
    BY <2>2, <2>3 DEF Ascending
<1>5. Head(q) <= n
  BY <1>2 DEF Ascending
<1>6. ASSUME p # << >>
      PROVE  Head(q) < Head(p)
  <2>1. 1 \in 1 .. Len(p) /\ 1 \in 1 .. Len(q) /\ 2 \in 1 .. Len(q)
    BY <1>1, <1>2, <1>3, <1>6
  <2>2. p[1] = q[2] /\ q[1] < q[2]
    BY <1>1, <2>1 DEF Ascending
  <2>3. QED
    BY <1>2, <1>3, <1>6, <2>2
<1>7. QED
  BY <1>4, <1>5, <1>6 DEF p

LEMMA AscendingRest ==
  ASSUME NEW q \in Seq(Requests), q # << >>, NEW n \in Nat, Ascending(q, n), NEW k \in Nat,
         NEW rest, rest = SubSeq(q, k + 1, Len(q))
  PROVE  /\ Ascending(rest, n)
         /\ rest # << >> => Head(rest) <= n /\ (k > 0 => Head(q) < Head(rest))
<1>1. /\ rest \in Seq(Requests) /\ Len(rest) \in Nat /\ Len(q) \in Nat
      /\ \A i \in 1 .. Len(rest) : i + k \in 1 .. Len(q) /\ rest[i] = q[i + k]
      /\ rest # << >> => Head(rest) = rest[1] /\ 1 \in 1 .. Len(rest)
  BY RestFacts
<1>2. Ascending(rest, n)
  <2>1. ASSUME NEW i \in 1 .. Len(rest), NEW j \in 1 .. Len(rest), i < j
        PROVE  rest[i] < rest[j]
    <3>1. q[i + k] < q[j + k]
      BY <1>1, <2>1 DEF Ascending
    <3>2. QED
      BY <1>1, <3>1
  <2>2. ASSUME NEW i \in 1 .. Len(rest)
        PROVE  rest[i] <= n
    BY <1>1 DEF Ascending
  <2>3. QED
    BY <2>1, <2>2 DEF Ascending
<1>3. ASSUME rest # << >>
      PROVE  Head(rest) <= n
  BY <1>1, <1>2, <1>3 DEF Ascending
<1>4. ASSUME rest # << >>, k > 0
      PROVE  Head(q) < Head(rest)
  <2>1. Head(q) = q[1] /\ 1 \in 1 .. Len(q)
    BY <1>1, EmptySeq
  <2>2. Head(rest) = q[1 + k] /\ 1 + k \in 1 .. Len(q)
    BY <1>1, <1>4
  <2>3. q[1] < q[1 + k]
    BY <1>4, <2>1, <2>2 DEF Ascending
  <2>4. QED
    BY <2>1, <2>2, <2>3
<1>5. QED
  BY <1>2, <1>3, <1>4

\* The sounds that will call a done handler.
Sounding(g) == {r \in Requests : g[r] \in {"thread", "posted"}}

\* No request behind the front was ever started; and there is no pause but
\* those that the sounds under way will return.
Returns(s, n) ==
    /\ Ascending(s.queue, n)
    /\ \A r \in Requests :
           s.stage[r] # "none" => r <= n /\ (s.queue # << >> => r <= Head(s.queue))
    /\ kind.pause = "sound" => s.paused <= Cardinality(Sounding(s.stage))
    /\ kind.pause = "nobody" => s.paused <= 0

PausesInv == kind \in QueuedKinds /\ kind.pause # "queue" => Returns(Now, asked)

LEMMA SoundingFinite ==
  ASSUME NEW g
  PROVE  IsFiniteSet(Sounding(g)) /\ Cardinality(Sounding(g)) \in Nat
<1>1. IsFiniteSet(Requests)
  BY FS_Interval, RequestsAssumption DEF Requests
<1>2. Sounding(g) \in SUBSET Requests
  BY DEF Sounding
<1>3. IsFiniteSet(Sounding(g))
  BY <1>1, <1>2, FS_Subset
<1>4. QED
  BY <1>3, FS_CardinalityType

LEMMA PausesBecome ==
  ASSUME kind \in QueuedKinds, kind' = kind, NEW next \in GestureState, Become(next),
         Returns(next, asked')
  PROVE  PausesInv'
<1>1. next = [queue |-> queue', stage |-> stage', paused |-> paused']
  BY DEF Become, GestureState
<1>2. Now' = next
  BY <1>1 DEF Now
<1>3. Returns(Now, asked)'
  BY <1>2 DEF Returns, Sounding, Ascending
<1>4. QED
  BY <1>3 DEF PausesInv

\* What is put under way after those that are skipped was never started.
LEMMA StartedReturns ==
  ASSUME KindFits(kind), NEW s \in GestureState, s.queue # << >>, NEW n \in Nat,
         Returns(s, n), s.stage[Head(s.queue)] = "none", NEW skips \in Nat,
         NEW next, next = StartFront(SkipFront(s, skips))
  PROVE  next \in GestureState /\ Returns(next, n)
<1> DEFINE rest == SubSeq(s.queue, skips + 1, Len(s.queue))
<1>0. /\ rest = SubSeq(s.queue, skips + 1, Len(s.queue))
      /\ Started(s, skips, rest, next)
  BY StartedFacts DEF Rest
<1> HIDE DEF rest
<1>1. /\ s.stage \in [Requests -> Stages] /\ s.paused \in Int /\ s.queue \in Seq(Requests)
      /\ Head(s.queue) \in Requests
  BY HeadTail DEF GestureState
<1>2. /\ next \in GestureState /\ next.queue = rest
      /\ next.stage = IF rest = << >> THEN s.stage
                      ELSE [s.stage EXCEPT ![Head(rest)] = kind.first]
      /\ next.paused <= s.paused
      /\ kind.pause # "sound" => next.paused = s.paused
  BY <1>0 DEF Started
<1>3. /\ rest \in Seq(Requests) /\ (skips = 0 => rest = s.queue)
      /\ rest # << >> => Head(rest) \in Requests
  BY <1>0, <1>1, RestFacts
<1>4. /\ Ascending(rest, n)
      /\ rest # << >> => Head(rest) <= n /\ (skips > 0 => Head(s.queue) < Head(rest))
  BY <1>0, <1>1, AscendingRest DEF Returns
<1>5. \A r \in Requests : r \in Nat
  BY RequestsAssumption DEF Requests
<1>6. rest # << >> => Head(s.queue) <= Head(rest) /\ s.stage[Head(rest)] = "none"
  <2>1. CASE skips = 0
    BY <1>1, <1>3, <1>5, <2>1
  <2>2. CASE skips > 0
    BY <1>1, <1>3, <1>4, <1>5, <2>2 DEF Returns
  <2>3. QED
    BY <2>1, <2>2
<1>7. \A r \in Requests :
        next.stage[r] = IF rest # << >> /\ r = Head(rest) THEN kind.first ELSE s.stage[r]
  BY <1>1, <1>2
<1>8. kind.pause = "sound" => Sounding(next.stage) = Sounding(s.stage)
  BY <1>6, <1>7 DEF Sounding, KindFits
<1>9. \A r \in Requests :
        next.stage[r] # "none" => r <= n /\ (rest # << >> => r <= Head(rest))
  <2>1. \A r \in Requests :
          s.stage[r] # "none" => r <= n /\ r <= Head(s.queue)
    BY DEF Returns
  <2>2. QED
    BY <1>1, <1>3, <1>4, <1>5, <1>6, <1>7, <2>1
<1>10. next.paused \in Int /\ Cardinality(Sounding(s.stage)) \in Nat
  BY <1>2, SoundingFinite DEF GestureState
<1>11. kind.pause = "sound" => next.paused <= Cardinality(Sounding(next.stage))
  BY <1>1, <1>2, <1>8, <1>10 DEF Returns
<1>12. kind.pause = "nobody" => next.paused <= 0
  BY <1>2 DEF Returns
<1>13. QED
  BY <1>2, <1>4, <1>9, <1>11, <1>12 DEF Returns

\* A start keeps the order and the balance, if its request was never started.
LEMMA StartReturns ==
  ASSUME KindFits(kind), NEW s \in GestureState, s.queue # << >>, NEW n \in Nat,
         Returns(s, n), s.stage[Head(s.queue)] = "none",
         NEW skips \in Nat, skips > 0 => kind.unable # "never",
         NEW next, next = StartRequest(s, skips)
  PROVE  next \in GestureState /\ Returns(next, n)
  BY StartRequestCases, StartedReturns

\* A done handler returns the pause of the request whose sound has ended.
LEMMA DoneReturnsPause ==
  ASSUME KindFits(kind), NEW s \in GestureState, NEW n \in Nat, Returns(s, n),
         kind.pause # "queue",
         NEW r \in Requests, s.stage[r] # "none",
         NEW skips \in Nat, skips > 0 => kind.unable # "never",
         NEW next, next = RequestDone(Ended(s, r), skips)
  PROVE  next \in GestureState /\ Returns(next, n)
<1> DEFINE e == Ended(s, r)
           m == IF kind.pause = "sound" THEN s.paused - 1 ELSE s.paused
           q == IF s.queue = << >> THEN s.queue ELSE Tail(s.queue)
           g == [s.stage EXCEPT ![r] = "none"]
           popped == PopRequest(DoneResumes(e))
<1>1. /\ s.queue \in Seq(Requests) /\ s.stage \in [Requests -> Stages] /\ s.paused \in Int
      /\ s = [queue |-> s.queue, stage |-> s.stage, paused |-> s.paused]
  BY DEF GestureState
<1>2. g \in [Requests -> Stages] /\ q \in Seq(Requests) /\ m \in Int
  BY <1>1, HeadTail DEF Stages
<1>3. popped = [queue |-> q, stage |-> g, paused |-> m]
  <2>1. e = [queue |-> s.queue, stage |-> g, paused |-> s.paused]
    <3>1. e = [s EXCEPT !.stage = g]
      BY DEF Ended
    <3> HIDE DEF e, g
    <3>2. [s EXCEPT !.stage = g] = [queue |-> s.queue, stage |-> g, paused |-> s.paused]
      BY DEF GestureState
    <3>3. QED
      BY <3>1, <3>2
  <2> HIDE DEF g, e
  <2>2. DoneResumes(e) = [queue |-> s.queue, stage |-> g, paused |-> m]
    BY <2>1 DEF DoneResumes, OnResume
  <2>3. QED
    BY <2>2, SMTT(20) DEF PopRequest
<1>4. popped \in GestureState /\ popped.queue = q /\ popped.stage = g /\ popped.paused = m
  <2> HIDE DEF popped, q, g, m
  <2>1. QED
    BY <1>2, <1>3, Parts
<1>5. \A p \in Requests : g[p] = IF p = r THEN "none" ELSE s.stage[p]
  BY <1>1
<1>6. kind.pause = "sound" => m <= Cardinality(Sounding(g))
  <2>1. Sounding(g) = Sounding(s.stage) \ {r}
    BY <1>5 DEF Sounding
  <2>2. IsFiniteSet(Sounding(s.stage)) /\ Cardinality(Sounding(s.stage)) \in Nat
    BY SoundingFinite
  <2>3. Cardinality(Sounding(g)) >= Cardinality(Sounding(s.stage)) - 1
    <3> DEFINE S == Sounding(s.stage)
    <3>1. IsFiniteSet(S) /\ Cardinality(S) \in Nat
      BY <2>2
    <3> HIDE DEF S
    <3>2. Cardinality(S \ {r}) = IF r \in S THEN Cardinality(S) - 1 ELSE Cardinality(S)
      BY <3>1, FS_RemoveElement
    <3>3. Cardinality(S \ {r}) >= Cardinality(S) - 1
      BY <3>1, <3>2
    <3>4. Sounding(g) = S \ {r}
      BY <2>1 DEF S
    <3>5. QED
      BY <3>3, <3>4 DEF S
  <2>4. Cardinality(Sounding(g)) \in Nat
    BY SoundingFinite
  <2> HIDE DEF g
  <2>5. QED
    BY <1>1, <2>2, <2>3, <2>4 DEF Returns
<1>7. Ascending(q, n) /\ (s.queue # << >> /\ q # << >> => Head(s.queue) < Head(q))
  <2>1. Ascending(s.queue, n)
    BY DEF Returns
  <2>2. CASE s.queue = << >>
    BY <2>1, <2>2
  <2>3. CASE s.queue # << >>
    BY <1>1, <2>1, <2>3, AscendingTail
  <2>4. QED
    BY <2>2, <2>3
<1>8. q # << >> => Head(q) \in Nat
  <2>1. q \in Seq(Requests)
    BY <1>2
  <2> HIDE DEF q
  <2>2. QED
    BY <2>1, HeadTail, RequestsAssumption DEF Requests
<1>9. s.queue # << >> => Head(s.queue) \in Nat
  BY <1>1, HeadTail, RequestsAssumption DEF Requests
<1>10. \A p \in Requests : p \in Nat
  BY RequestsAssumption DEF Requests
<1>11. \A p \in Requests : g[p] # "none" => p <= n /\ (q # << >> => p < Head(q))
  <2>1. q # << >> => s.queue # << >>
    OBVIOUS
  <2> HIDE DEF g, q
  <2>2. QED
    BY <1>5, <1>7, <1>8, <1>9, <1>10, <2>1 DEF Returns
<1>12. kind.pause = "nobody" => m <= 0
  BY DEF Returns
<1> HIDE DEF q, g, m
<1>13. Returns(popped, n)
  BY <1>4, <1>6, <1>7, <1>8, <1>10, <1>11, <1>12 DEF Returns
<1>14. CASE popped.queue = << >>
  <2>1. next = popped
    BY <1>14 DEF RequestDone
  <2>2. QED
    BY <1>4, <1>13, <2>1
<1>15. CASE popped.queue # << >>
  <2>1. next = StartRequest(popped, skips)
    BY <1>15 DEF RequestDone
  <2>2. popped.stage[Head(popped.queue)] = "none"
    BY <1>2, <1>4, <1>8, <1>11, <1>15, HeadTail
  <2> HIDE DEF popped
  <2>3. QED
    BY <1>4, <1>13, <1>15, <2>1, <2>2, StartReturns
<1>16. QED
  BY <1>14, <1>15

\* What each handler starts from, and where it leaves the queue alone.
LEMMA PausesFacts ==
  ASSUME QueueInv, PausesInv, kind \in QueuedKinds, kind.pause # "queue"
  PROVE  Returns(Now, asked) /\ asked \in Nat
  BY DEF PausesInv, QueueInv, HistoryType

LEMMA AskReturns ==
  ASSUME QueueInv, PausesInv, Execute, kind.pause # "queue"
  PROVE  PausesInv'
<1>1. kind \in QueuedKinds /\ asked < MaxRequests /\ asked' = asked + 1 /\ kind' = kind
  BY DEF Execute, MainThreadFree
<1> DEFINE q == Append(queue, asked + 1)
           s == [queue |-> q, stage |-> stage, paused |-> paused]
           pushed == PushRequest(Now, asked + 1)
           muted == [pushed EXCEPT !.paused = IF kind.pause = "queue" THEN OnPause(@) ELSE @]
<1>2. PICK skips \in Skips :
        Become(IF queue = << >> THEN StartRequest(muted, skips) ELSE pushed)
  BY DEF Execute
<1>3. skips \in Nat /\ (skips > 0 => kind.unable # "never")
  BY SkipsFacts
<1>4. /\ Now = [queue |-> queue, stage |-> stage, paused |-> paused]
      /\ queue \in Seq(Requests) /\ stage \in [Requests -> Stages] /\ paused \in Int
      /\ KindFits(kind)
  BY <1>1, Facts
<1>5. asked \in Nat /\ asked + 1 \in Requests /\ asked + 1 \in Nat
  <2>1. asked \in Nat /\ MaxRequests \in Nat
    BY RequestsAssumption DEF QueueInv, HistoryType
  <2>2. QED
    BY <1>1, <2>1 DEF Requests
<1>6. pushed = s
  BY <1>4, Pushed
<1> HIDE DEF pushed
<1>7. muted = s
  <2>1. muted = [s EXCEPT !.paused = s.paused]
    BY <1>6
  <2> HIDE DEF q, muted
  <2>2. QED
    BY <2>1
<1> HIDE DEF muted
<1>8. /\ q \in Seq(Requests) /\ q # << >>
      /\ queue # << >> => Head(q) = Head(queue)
      /\ queue = << >> => Head(q) = asked + 1
  <2>1. q \in Seq(Requests) /\ q # << >> /\ (queue # << >> => Head(q) = Head(queue))
    BY <1>4, <1>5, AppendFacts
  <2>2. queue = << >> => Head(q) = asked + 1
    BY <1>4, HeadTailAppend
  <2>3. QED
    BY <2>1, <2>2
<1>9. Ascending(queue, asked) /\ Ascending(q, asked + 1)
  <2>1. Ascending(queue, asked)
    BY <1>1, <1>4, PausesFacts DEF Returns
  <2>2. QED
    BY <1>4, <1>5, <2>1, AscendingAppend
<1> HIDE DEF q
<1>10. s \in GestureState /\ s.queue = q /\ s.stage = stage /\ s.paused = paused
  BY <1>4, <1>8, Parts
<1>11. /\ Now.queue = queue /\ Now.stage = stage /\ Now.paused = paused
  BY <1>4
<1>12. \A r \in Requests : r \in Nat
  BY RequestsAssumption DEF Requests
<1>13. Returns(Now, asked)
  BY <1>1, PausesFacts
<1> HIDE DEF s
<1>14. \A r \in Requests : stage[r] # "none" => r <= asked + 1 /\ r <= Head(q) /\ r # asked + 1
  BY <1>5, <1>8, <1>11, <1>12, <1>13 DEF Returns
<1>15. Returns(s, asked + 1)
  BY <1>9, <1>10, <1>11, <1>13, <1>14 DEF Returns
<1>16. CASE queue # << >>
  BY <1>1, <1>2, <1>6, <1>10, <1>15, <1>16, PausesBecome
<1>17. CASE queue = << >>
  <2> DEFINE next == StartRequest(s, skips)
  <2>1. s.stage[Head(s.queue)] = "none"
    BY <1>5, <1>8, <1>10, <1>14, <1>17
  <2>2. next \in GestureState /\ Returns(next, asked + 1)
    BY <1>3, <1>4, <1>5, <1>8, <1>10, <1>15, <2>1, StartReturns
  <2>3. Become(next)
    BY <1>2, <1>7, <1>17
  <2> HIDE DEF next
  <2>4. QED
    BY <1>1, <2>2, <2>3, PausesBecome
<1>18. QED
  BY <1>16, <1>17

LEMMA DoneHandlerReturns ==
  ASSUME QueueInv, PausesInv, kind.pause # "queue", NEW r \in Requests, OnDone(r)
  PROVE  PausesInv'
<1>1. kind \in QueuedKinds /\ kind' = kind /\ asked' = asked /\ stage[r] = "posted"
  BY DEF OnDone, MainThreadFree
<1>2. PICK skips \in Skips : Become(RequestDone(Ended(Now, r), skips))
  BY DEF OnDone
<1> DEFINE next == RequestDone(Ended(Now, r), skips)
<1>3. Now \in GestureState /\ Now.stage[r] # "none" /\ KindFits(kind)
      /\ Returns(Now, asked) /\ asked \in Nat
  BY <1>1, Facts, PausesFacts
<1>4. next \in GestureState /\ Returns(next, asked)
  BY <1>3, SkipsFacts, DoneReturnsPause
<1>5. Become(next)
  BY <1>2
<1> HIDE DEF next
<1>6. QED
  BY <1>1, <1>4, <1>5, PausesBecome

LEMMA PoolReturns ==
  ASSUME QueueInv, PausesInv, NEW r \in Requests, DonePops(r) \/ DonePlays(r)
  PROVE  PausesInv'
<1>1. /\ kind \in QueuedKinds /\ kind.pops = "thread" /\ stage[r] # "none"
      /\ UNCHANGED <<kind, asked>>
  BY PoolSteps
<1>2. PICK q \in {queue, Tail(queue)}, h \in [Requests -> Stages], to \in {"next", "thread"} :
        /\ q \in Seq(Requests)
        /\ \A p \in Requests : h[p] = IF q # << >> /\ p = Head(q) THEN to ELSE "none"
        /\ Become([queue |-> q, stage |-> h, paused |-> paused])
  BY PoolSteps
<1> DEFINE next == [queue |-> q, stage |-> h, paused |-> paused]
<1>3. next.queue = q /\ next.stage = h /\ next.paused = paused
  OBVIOUS
<1>4. /\ paused \in Int /\ queue \in Seq(Requests)
      /\ Now = [queue |-> queue, stage |-> stage, paused |-> paused]
  BY <1>1, Facts
<1>5. next \in GestureState /\ Become(next)
  BY <1>2, <1>4, Parts
<1> HIDE DEF next
<1>6. kind.pause = "nobody" /\ queue # << >>
  BY <1>1, PoolFacts
<1>7. Ascending(queue, asked) /\ paused <= 0 /\ asked \in Nat
  BY <1>1, <1>4, <1>6, PausesFacts DEF Returns
<1>8. Ascending(q, asked)
  BY <1>2, <1>4, <1>6, <1>7, AscendingTail
<1>9. q # << >> => Head(q) \in Nat /\ Head(q) <= asked
  BY <1>2, <1>7, <1>8, AscendingTail, HeadTail, RequestsAssumption DEF Requests
<1>10. Returns(next, asked)
  BY <1>2, <1>3, <1>6, <1>7, <1>8, <1>9 DEF Returns
<1>11. QED
  BY <1>1, <1>5, <1>10, PausesBecome

\* A stage that moves on without a handler, and what it pauses or returns.
LEMMA StageReturns ==
  ASSUME QueueInv, PausesInv, kind \in QueuedKinds, kind.pause # "queue",
         NEW r \in Requests, stage[r] # "none", kind' = kind, queue' = queue, asked' = asked,
         NEW to \in {"none", "thread", "posted"}, stage' = [stage EXCEPT ![r] = to],
         paused' \in Int,
         \/ paused' = paused /\ (kind.pause = "sound" =>
              (to \in {"thread", "posted"} \/ stage[r] = "tts"))
         \/ paused' = paused + 1 /\ to = "thread" /\ stage[r] = "tts" /\ kind.pause = "sound"
  PROVE  PausesInv'
<1> DEFINE g == [stage EXCEPT ![r] = to]
           next == [queue |-> queue, stage |-> g, paused |-> paused']
<1>1. /\ Now = [queue |-> queue, stage |-> stage, paused |-> paused]
      /\ queue \in Seq(Requests) /\ stage \in [Requests -> Stages] /\ paused \in Int
      /\ Returns(Now, asked)
  BY Facts, PausesFacts
<1>2. g \in [Requests -> Stages] /\ \A p \in Requests : g[p] = IF p = r THEN to ELSE stage[p]
  BY <1>1 DEF Stages
<1>3. Become(next)
  BY DEF Become
<1>4. next.queue = queue /\ next.stage = g /\ next.paused = paused'
  OBVIOUS
<1> HIDE DEF g
<1>5. next \in GestureState
  BY <1>1, <1>2, Parts
<1> HIDE DEF next
<1>6. Now.queue = queue /\ Now.stage = stage /\ Now.paused = paused
  BY <1>1
<1> DEFINE S == Sounding(stage)
           T == Sounding(g)
<1>7. IsFiniteSet(S) /\ Cardinality(S) \in Nat /\ IsFiniteSet(T) /\ Cardinality(T) \in Nat
  BY SoundingFinite
<1>8. CASE paused' = paused
  <2>1. kind.pause = "sound" => paused' <= Cardinality(T)
    <3>1. HAVE kind.pause = "sound"
    <3>2. paused <= Cardinality(S) /\ (to \in {"thread", "posted"} \/ stage[r] = "tts")
      BY <1>1, <1>6, <1>8, <3>1 DEF Returns
    <3>3. S \in SUBSET T
      BY <1>2, <3>2 DEF Sounding
    <3> HIDE DEF S, T
    <3>4. Cardinality(S) <= Cardinality(T)
      BY <1>7, <3>3, FS_Subset
    <3>5. QED
      BY <1>1, <1>7, <1>8, <3>2, <3>4
  <2>2. Returns(next, asked)
    BY <1>1, <1>2, <1>4, <1>6, <1>8, <2>1 DEF Returns
  <2>3. QED
    BY <1>3, <1>5, <2>2, PausesBecome
<1>9. CASE paused' = paused + 1 /\ to = "thread" /\ stage[r] = "tts" /\ kind.pause = "sound"
  <2>1. T = S \cup {r} /\ r \notin S
    BY <1>2, <1>9 DEF Sounding
  <2>2. paused <= Cardinality(S)
    BY <1>1, <1>6, <1>9 DEF Returns
  <2>3. paused' <= Cardinality(T)
    <3> HIDE DEF S, T
    <3>1. Cardinality(T) = Cardinality(S) + 1
      BY <1>7, <2>1, FS_AddElement
    <3>2. QED
      BY <1>1, <1>7, <1>9, <2>2, <3>1
  <2>4. Returns(next, asked)
    BY <1>1, <1>2, <1>4, <1>6, <1>9, <2>3 DEF Returns
  <2>5. QED
    BY <1>3, <1>5, <2>4, PausesBecome
<1>10. QED
  BY <1>8, <1>9

LEMMA SoundReturns ==
  ASSUME QueueInv, PausesInv, kind.pause # "queue", NEW r \in Requests, OnSpeechSound(r)
  PROVE  PausesInv'
<1>1. kind \in QueuedKinds /\ kind' = kind /\ asked' = asked /\ stage[r] = "tts"
  BY DEF OnSpeechSound, MainThreadFree
<1>2. PICK skips \in Skips :
        Become(IF kind.play = "gone" THEN RequestDone(Ended(Now, r), skips)
               ELSE [Now EXCEPT !.stage[r] = "thread", !.paused = OnPause(@)])
  BY DEF OnSpeechSound
<1>3. /\ Now \in GestureState /\ Now.stage = stage /\ Now.queue = queue /\ Now.paused = paused
      /\ KindFits(kind) /\ paused \in Int
      /\ Fits(Now, history.aborted, history.failed)
      /\ Returns(Now, asked) /\ asked \in Nat
  <2>1. Now = [queue |-> queue, stage |-> stage, paused |-> paused]
    BY <1>1, Facts
  <2>2. QED
    BY <1>1, <2>1, Facts, PausesFacts
<1>4. CASE kind.play = "gone"
  <2> DEFINE next == RequestDone(Ended(Now, r), skips)
  <2>1. next \in GestureState /\ Returns(next, asked)
    BY <1>1, <1>3, SkipsFacts, DoneReturnsPause
  <2>2. Become(next)
    BY <1>2, <1>4
  <2> HIDE DEF next
  <2>3. QED
    BY <1>1, <2>1, <2>2, PausesBecome
<1>5. CASE kind.play # "gone"
  <2> DEFINE next == [Now EXCEPT !.stage[r] = "thread", !.paused = OnPause(@)]
             g == [stage EXCEPT ![r] = "thread"]
  <2>1. kind.pause = "sound"
    BY <1>1, <1>3, <1>5 DEF Fits, KindFits
  <2>2. Become(next)
    BY <1>2, <1>5
  <2>3. next = [queue |-> queue, stage |-> g, paused |-> paused + 1]
    <3>1. next = [Now EXCEPT !.stage = g, !.paused = paused + 1]
      BY <1>3 DEF OnPause
    <3>2. Now = [queue |-> queue, stage |-> stage, paused |-> paused]
      BY DEF Now
    <3> HIDE DEF g, next
    <3>3. QED
      BY <3>1, <3>2, Muted
  <2> HIDE DEF g, next
  <2>4. queue' = queue /\ stage' = g /\ paused' = paused + 1
    BY <2>2, <2>3 DEF Become
  <2>5. stage' = [stage EXCEPT ![r] = "thread"] /\ paused' \in Int
    BY <1>3, <2>4 DEF g
  <2>6. QED
    BY <1>1, <2>1, <2>4, <2>5, StageReturns
<1>6. QED
  BY <1>4, <1>5

LEMMA NullReturns ==
  ASSUME QueueInv, PausesInv, kind.pause # "queue", NEW r \in Requests, OnSpeechNull(r)
  PROVE  PausesInv'
<1>1. kind \in QueuedKinds /\ kind' = kind /\ asked' = asked /\ stage[r] = "tts"
  BY DEF OnSpeechNull, MainThreadFree
<1>2. PICK skips \in Skips :
        Become(IF kind.unable = "next" THEN RequestDone(Ended(Now, r), skips) ELSE Ended(Now, r))
  BY DEF OnSpeechNull
<1>3. /\ Now \in GestureState /\ KindFits(kind) /\ paused \in Int
      /\ Now = [queue |-> queue, stage |-> stage, paused |-> paused]
      /\ Returns(Now, asked) /\ asked \in Nat
  BY <1>1, Facts, PausesFacts
<1>4. CASE kind.unable = "next"
  <2> DEFINE next == RequestDone(Ended(Now, r), skips)
  <2>1. Now.stage[r] # "none"
    BY <1>1, <1>3
  <2>2. next \in GestureState /\ Returns(next, asked)
    BY <1>3, <2>1, SkipsFacts, DoneReturnsPause
  <2>3. Become(next)
    BY <1>2, <1>4
  <2> HIDE DEF next
  <2>4. QED
    BY <1>1, <2>2, <2>3, PausesBecome
<1>5. CASE kind.unable # "next"
  <2>1. Become(Ended(Now, r))
    BY <1>2, <1>5
  <2>2. queue' = queue /\ paused' = paused /\ stage' = [stage EXCEPT ![r] = "none"]
    BY <2>1, <1>3 DEF Become, Ended
  <2>3. QED
    BY <1>1, <1>3, <2>2, StageReturns
<1>6. QED
  BY <1>4, <1>5

LEMMA ThreadReturns ==
  ASSUME QueueInv, PausesInv, kind.pause # "queue", NEW r \in Requests,
         ThreadEnds(r) \/ MoveThreadEnds(r)
  PROVE  PausesInv'
<1>1. /\ kind \in QueuedKinds /\ stage[r] = "thread"
      /\ kind' = kind /\ queue' = queue /\ asked' = asked /\ paused' = paused
  BY DEF ThreadEnds, MoveThreadEnds, IsRos, QueuedKinds
<1>2. paused \in Int /\ KindFits(kind)
  BY <1>1, Facts
<1>3. \/ stage' = [stage EXCEPT ![r] = "posted"]
      \/ stage' = [stage EXCEPT ![r] = "none"] /\ kind.pause = "nobody"
  BY <1>2 DEF ThreadEnds, MoveThreadEnds, KindFits
<1>4. QED
  BY <1>1, <1>2, <1>3, StageReturns

LEMMA EmptyReturns ==
  ASSUME NEW s \in GestureState, NEW n \in Nat, Returns(s, n),
         NEW next \in GestureState, next.queue = << >>, next.stage = s.stage,
         next.paused <= s.paused, kind.pause = "nobody" => next.paused = s.paused
  PROVE  Returns(next, n)
<1>1. Ascending(<< >>, n)
  BY EmptySeq DEF Ascending
<1>2. next.paused \in Int /\ s.paused \in Int /\ Cardinality(Sounding(s.stage)) \in Nat
  BY SoundingFinite DEF GestureState
<1>3. QED
  BY <1>1, <1>2 DEF Returns

LEMMA AbortReturns ==
  ASSUME QueueInv, PausesInv, kind.pause # "queue", Abort
  PROVE  PausesInv'
<1> DEFINE m == IF kind.pause = "sound" THEN paused - 1 ELSE paused
           next == [queue |-> << >>, stage |-> stage, paused |-> m]
<1>1. kind \in QueuedKinds /\ kind' = kind /\ asked' = asked
  BY DEF Abort, MainThreadFree
<1>2. /\ Now \in GestureState /\ Now = [queue |-> queue, stage |-> stage, paused |-> paused]
      /\ stage \in [Requests -> Stages] /\ paused \in Int
      /\ Returns(Now, asked) /\ asked \in Nat
  BY <1>1, Facts, PausesFacts
<1>3. DoneResumes([Now EXCEPT !.queue = << >>]) = next
  <2>1. Now = [queue |-> queue, stage |-> stage, paused |-> paused]
    BY <1>2
  <2>2. QED
    BY <2>1, Emptied
<1>4. Become(next)
  BY <1>3 DEF Abort
<1>5. m \in Int /\ m <= paused /\ (kind.pause = "nobody" => m = paused) /\ << >> \in Seq(Requests)
  BY <1>2
<1> HIDE DEF m
<1>6. next \in GestureState
  BY <1>2, <1>5, Parts
<1>7. /\ next.queue = << >> /\ next.stage = Now.stage /\ next.paused = m
      /\ Now.paused = paused
  BY <1>2
<1> HIDE DEF next
<1>8. Returns(next, asked)
  BY <1>2, <1>5, <1>6, <1>7, EmptyReturns
<1>9. QED
  BY <1>1, <1>4, <1>6, <1>8, PausesBecome

LEMMA VoicesReturn ==
  ASSUME QueueInv, PausesInv, kind.pause # "queue", OnVoices
  PROVE  PausesInv'
<1>1. /\ kind \in QueuedKinds /\ kind' = kind /\ asked' = asked /\ voices = "awaited"
      /\ kind.first = "tts"
  BY DEF OnVoices, MainThreadFree
<1>2. PICK skips \in Skips :
        Become(IF kind.waits /\ voices' = "named" /\ queue # << >>
               THEN StartFront(SkipFront(Now, skips)) ELSE Now)
  BY DEF OnVoices
<1>3. /\ Now \in GestureState /\ Now = [queue |-> queue, stage |-> stage, paused |-> paused]
      /\ queue \in Seq(Requests) /\ stage \in [Requests -> Stages] /\ paused \in Int
      /\ Fits(Now, history.aborted, history.failed)
      /\ Returns(Now, asked) /\ asked \in Nat
  BY <1>1, Facts, PausesFacts
<1>4. Now.queue = queue /\ Now.stage = stage /\ Now.paused = paused
  BY <1>3
<1>5. CASE ~(kind.waits /\ voices' = "named" /\ queue # << >>)
  <2>1. Become(Now)
    BY <1>2, <1>5
  <2>2. QED
    BY <1>1, <1>3, <2>1, PausesBecome
<1>6. CASE kind.waits /\ voices' = "named" /\ queue # << >>
  <2>1. Quiet(Now)
    BY <1>1, <1>3, <1>6 DEF VoicesKnown, Fits
  <2> DEFINE next == StartFront(SkipFront(Now, skips))
  <2>2. Become(next)
    BY <1>2, <1>6
  <2>3. Now.queue # << >> /\ Now.stage[Head(Now.queue)] = "none"
    BY <1>3, <1>4, <1>6, <2>1, HeadTail DEF Quiet
  <2>4. KindFits(kind) /\ skips \in Nat
    BY <1>1, Facts, SkipsFacts
  <2>5. next \in GestureState /\ Returns(next, asked)
    BY <1>3, <2>3, <2>4, StartedReturns
  <2> HIDE DEF next
  <2>6. QED
    BY <1>1, <2>2, <2>5, PausesBecome
<1>7. QED
  BY <1>5, <1>6

LEMMA PausesKept ==
  ASSUME QueueInv, WinInv, PausesInv, [Next]_vars
  PROVE  PausesInv'
<1>1. kind' = kind
  <2>1. CASE MicStarts \/ MicStops \/ MicWaited \/ MicThread \/ UNCHANGED vars
    BY <2>1 DEF MicStarts, MicStops, MicWaited, MicThread, OthersIdle, vars, gestureVars
  <2>2. CASE GestureAsked \/ GestureVoices \/ GestureAborted
    BY <2>2 DEF GestureAsked, GestureVoices, GestureAborted, Execute, OnVoices, Abort
  <2>3. CASE GestureData \/ GestureThread \/ GestureDone
    BY <2>3 DEF GestureData, GestureThread, GestureDone, OnSpeechData, OnSpeechSound,
       OnSpeechNull, ThreadEnds, OnDone, DonePops, DonePlays
  <2>4. CASE WinAsked \/ WinVoices \/ WinAborted
    BY <2>4 DEF WinAsked, WinVoices, WinAborted, WinExecute, WinOnVoices, WinAbort
  <2>5. CASE WinPiece \/ WinNull \/ WinEnds \/ WinDone
    BY <2>5 DEF WinPiece, WinNull, WinEnds, WinDone, WinOnSpeechPiece, WinOnSpeechNull,
       WinPlayEnds, WinOnSpeechDone
  <2>6. CASE RosGoal \/ RosFrame \/ RosTimeout \/ RosEnds
    BY <2>6 DEF RosGoal, RosFrame, RosTimeout, RosEnds, PublishGoal, OnGoalStatusMatches,
       OnGoalStatusSets, OnTimeout, MoveThreadEnds, gestureVars
  <2>7. CASE RosTimer \/ RosState \/ RosSocket
    BY <2>7 DEF RosTimer, RosState, RosSocket, Elsewhere, gestureVars
  <2>8. QED
    BY <2>1, <2>2, <2>3, <2>4, <2>5, <2>6, <2>7 DEF Next
<1>2. CASE kind \notin QueuedKinds \/ kind.pause = "queue"
  BY <1>1, <1>2 DEF PausesInv
<1>3. CASE kind \in QueuedKinds /\ kind.pause # "queue"
  <2>1. kind # WinSpeechGesture
    BY <1>3, WinIsNoQueuedKind
  <2>2. ASSUME UNCHANGED <<gestureVars, paused>>
        PROVE  PausesInv'
    BY <2>2 DEF PausesInv, Returns, Sounding, Ascending, Now, gestureVars
  <2>3. CASE MicStarts \/ MicStops \/ MicWaited
    BY <2>2, <2>3 DEF MicStarts, MicStops, MicWaited, OnStart, OnStop, OnStopReturns, OthersIdle
  <2>4. CASE MicThread
    BY <2>2, <2>4 DEF MicThread, OthersIdle, ReceiveData, ReceiveDataBegins, ReceiveDataChecks,
       ReceiveDataReads, ReceiveDataEnds
  <2>5. CASE GestureAsked \/ GestureVoices \/ GestureAborted
    BY <1>3, <2>5, AskReturns, VoicesReturn, AbortReturns
    DEF GestureAsked, GestureVoices, GestureAborted
  <2>6. CASE GestureData \/ GestureThread \/ GestureDone \/ RosEnds
    BY <1>3, <2>6, SoundReturns, NullReturns, ThreadReturns, DoneHandlerReturns, PoolReturns
    DEF GestureData, GestureThread, GestureDone, RosEnds, OnSpeechData
  <2>7. CASE WinAsked \/ WinVoices \/ WinAborted
    BY <2>1, <2>7 DEF WinAsked, WinVoices, WinAborted, WinExecute, WinOnVoices, WinAbort,
       WinFree, IsWin
  <2>8. CASE WinPiece \/ WinNull \/ WinEnds \/ WinDone
    BY <2>1, <2>8 DEF WinPiece, WinNull, WinEnds, WinDone, WinOnSpeechPiece, WinOnSpeechNull,
       WinPlayEnds, WinOnSpeechDone, WinFree, IsWin
  <2>9. CASE RosGoal \/ RosFrame \/ RosTimeout
    BY <2>2, <2>9 DEF RosGoal, RosFrame, RosTimeout, PublishGoal, OnGoalStatusMatches,
       OnGoalStatusSets, OnTimeout
  <2>10. CASE RosTimer \/ RosState \/ RosSocket \/ UNCHANGED vars
    BY <2>2, <2>10 DEF RosTimer, RosState, RosSocket, Elsewhere, vars
  <2>11. QED
    BY <2>3, <2>4, <2>5, <2>6, <2>7, <2>8, <2>9, <2>10 DEF Next
<1>4. QED
  BY <1>2, <1>3

LEMMA PausesInitHolds ==
  ASSUME Init
  PROVE  PausesInv
<1>1. /\ queue = << >> /\ stage = [r \in Requests |-> "none"] /\ paused = 0
  BY DEF Init, GestureInit, MicInit
<1>2. Ascending(<< >>, asked)
  BY EmptySeq DEF Ascending
<1>3. Cardinality(Sounding(stage)) \in Nat
  BY SoundingFinite
<1>4. Now.queue = << >> /\ Now.stage = stage /\ Now.paused = 0
  BY <1>1 DEF Now
<1>5. \A r \in Requests : stage[r] = "none"
  BY <1>1
<1>6. QED
  BY <1>2, <1>3, <1>4, <1>5 DEF PausesInv, Returns

\* Whatever was aborted or failed, nothing stays paused when nothing is left
\* to say; and on Windows the count never goes below zero.
THEOREM PausesComeBack == Spec => []PausesAreReturned
<1>1. ASSUME GestureInv, PausesInv
      PROVE  PausesAreReturned
  <2>1. CASE kind \in QueuedKinds
    <3>1. kind # WinSpeechGesture
      BY <2>1, WinIsNoQueuedKind
    <3>2. /\ Now.stage = stage /\ Now.queue = queue /\ Now.paused = paused /\ paused \in Int
          /\ Fits(Now, history.aborted, history.failed) /\ KindFits(kind)
      BY <1>1, <2>1, QueuedFacts
    <3>3. ASSUME Idle
          PROVE  paused <= 0
      <4>1. queue = << >> /\ Sounding(stage) = {}
        BY <3>3 DEF Idle, UnderWay, Sounding
      <4>2. Cardinality(Sounding(stage)) = 0
        BY <4>1, FS_EmptySet
      <4>3. CASE kind.pause = "queue"
        BY <3>2, <4>1, <4>3 DEF Fits
      <4>4. CASE kind.pause # "queue"
        BY <1>1, <2>1, <3>2, <4>2, <4>4 DEF PausesInv, Returns, KindFits
      <4>5. QED
        BY <4>3, <4>4
    <3>4. QED
      BY <3>1, <3>3 DEF PausesAreReturned
  <2>2. CASE kind = WinSpeechGesture
    BY <1>1, <2>2 DEF GestureInv, WinInv, WinFits, Idle, PausesAreReturned, Win
  <2>3. QED
    BY <1>1, <2>1, <2>2 DEF GestureInv, WinInv
<1>2. GestureInv /\ PausesInv /\ [Next]_vars => PausesInv'
  BY PausesKept DEF GestureInv
<1>3. QED
  BY <1>1, <1>2, PausesInitHolds, GestureInvariant, PTL DEF Spec

-----------------------------------------------------------------------------
(* The connection to the robot.                                            *)

\* A client that is closed while m_bActive is set has its callback posted.
PlatformInv ==
    /\ platform \in [client : Nat, active : BOOLEAN,
                     sock : {"none", "connecting", "connected", "closed"}, posted : Seq(Nat)]
    /\ platform.client = 0 <=> platform.sock = "none"
    /\ platform.sock = "closed" /\ platform.active =>
           \E i \in DOMAIN platform.posted : platform.posted[i] = platform.client

\* A step of the platform: it keeps the invariant, and is one of the promise.
Promised == PlatformInv' /\ (PlatformPromise!Next \/ PlatformState' = PlatformState)

LEMMA LinkState ==
  ASSUME PlatformInv
  PROVE  /\ platform.sock = "none" => PlatformState = "closed"
         /\ platform.sock \in {"connecting", "connected"} => PlatformState = "open"
         /\ platform.sock = "closed" /\ ~platform.active => PlatformState = "waiting"
         /\ platform.sock = "closed" /\ platform.active => PlatformState = "lost"
<1>1. CASE platform.sock = "none"
  BY <1>1 DEF PlatformState
<1>2. CASE platform.sock \in {"connecting", "connected"}
  BY <1>2 DEF PlatformState
<1>3. CASE platform.sock = "closed" /\ ~platform.active
  BY <1>3 DEF PlatformState
<1>4. CASE platform.sock = "closed" /\ platform.active
  <2>1. platform.client \in {platform.posted[i] : i \in DOMAIN platform.posted}
    BY <1>4 DEF PlatformInv
  <2>2. QED
    BY <1>4, <2>1 DEF PlatformState
<1>5. QED
  BY <1>1, <1>2, <1>3, <1>4 DEF PlatformInv

LEMMA LinkStateNext ==
  ASSUME PlatformInv'
  PROVE  /\ platform'.sock = "none" => PlatformState' = "closed"
         /\ platform'.sock \in {"connecting", "connected"} => PlatformState' = "open"
         /\ platform'.sock = "closed" /\ ~platform'.active => PlatformState' = "waiting"
         /\ platform'.sock = "closed" /\ platform'.active => PlatformState' = "lost"
<1>1. CASE platform'.sock = "none"
  BY <1>1 DEF PlatformState
<1>2. CASE platform'.sock \in {"connecting", "connected"}
  BY <1>2 DEF PlatformState
<1>3. CASE platform'.sock = "closed" /\ ~platform'.active
  BY <1>3 DEF PlatformState
<1>4. CASE platform'.sock = "closed" /\ platform'.active
  <2>1. platform'.client \in {platform'.posted[i] : i \in DOMAIN platform'.posted}
    BY <1>4 DEF PlatformInv
  <2>2. QED
    BY <1>4, <2>1 DEF PlatformState
<1>5. QED
  BY <1>1, <1>2, <1>3, <1>4 DEF PlatformInv

LEMMA ConnectsKeeps ==
  ASSUME PlatformInv, Connects
  PROVE  Promised
<1>1. PICK ok \in BOOLEAN : platform' = ConnectToRobot(platform, ok)
  BY DEF Connects
<1>2. CASE platform.active
  <2>1. platform' = platform
    BY <1>1, <1>2 DEF ConnectToRobot
  <2>2. QED
    BY <2>1 DEF Promised, PlatformInv, PlatformState
<1>3. CASE ~platform.active
  <2> DEFINE n == platform.client + 1
             to == IF ok THEN "connecting" ELSE "closed"
  <2>1. platform' = [platform EXCEPT !.client = n, !.active = ok, !.sock = to]
    BY <1>1, <1>3 DEF ConnectToRobot
  <2>2. n \in Nat /\ n # 0 /\ to \in {"connecting", "closed"}
    BY DEF PlatformInv
  <2>3. to = "closed" <=> ~ok
    OBVIOUS
  <2> HIDE DEF n, to
  <2>4. /\ platform' \in [client : Nat, active : BOOLEAN,
                          sock : {"none", "connecting", "connected", "closed"}, posted : Seq(Nat)]
        /\ platform'.client = n /\ platform'.active = ok /\ platform'.sock = to
    BY <2>1, <2>2 DEF PlatformInv
  <2>5. PlatformInv'
    BY <2>2, <2>3, <2>4 DEF PlatformInv
  <2>6. PlatformState' \in {"open", "waiting"}
    BY <2>2, <2>3, <2>4, <2>5, LinkStateNext
  <2>7. PlatformState \in {"closed", "open", "waiting"}
    BY <1>3, LinkState DEF PlatformInv
  <2>8. QED
    BY <2>5, <2>6, <2>7 DEF Promised, PlatformPromise!Next, PlatformPromise!Connect,
       PlatformPromise!Lose, PlatformPromise!Retry
<1>4. QED
  BY <1>2, <1>3

\* A callback of whichever client, once the current one is closed, lets the
\* timer connect again.
LEMMA ClientStateKeeps ==
  ASSUME PlatformInv, OnClientState
  PROVE  Promised
<1> DEFINE closed == Head(platform.posted) # platform.client \/ platform.sock = "closed"
           now == platform.active /\ ~closed
           rest == Tail(platform.posted)
<1>1. /\ platform.posted # << >>
      /\ platform' = [platform EXCEPT !.posted = rest, !.active = now]
  BY DEF OnClientState
<1>2. rest \in Seq(Nat) /\ now \in BOOLEAN
  <2>1. platform.posted \in Seq(Nat)
    BY DEF PlatformInv
  <2>2. rest \in Seq(Nat)
    BY <1>1, <2>1, HeadTailProperties
  <2>3. QED
    BY <2>2
<1>3. platform.sock = "closed" => ~now
  OBVIOUS
<1> HIDE DEF rest, now
<1>4. /\ platform' \in [client : Nat, active : BOOLEAN,
                        sock : {"none", "connecting", "connected", "closed"}, posted : Seq(Nat)]
      /\ platform'.client = platform.client /\ platform'.active = now
      /\ platform'.sock = platform.sock
  BY <1>1, <1>2 DEF PlatformInv
<1>5. PlatformInv'
  BY <1>3, <1>4 DEF PlatformInv
<1>6. CASE platform.sock = "closed"
  <2>1. PlatformState' = "waiting" /\ PlatformState \in {"waiting", "lost"}
    BY <1>3, <1>4, <1>5, <1>6, LinkState, LinkStateNext DEF PlatformInv
  <2>2. QED
    BY <1>5, <2>1 DEF Promised, PlatformPromise!Next, PlatformPromise!Notice
<1>7. CASE platform.sock # "closed"
  <2>1. PlatformState' = PlatformState
    BY <1>4, <1>5, <1>7, LinkState, LinkStateNext DEF PlatformInv
  <2>2. QED
    BY <1>5, <2>1 DEF Promised
<1>8. QED
  BY <1>6, <1>7

LEMMA SocketKeeps ==
  ASSUME PlatformInv, ClientOpens \/ ClientLost
  PROVE  Promised
<1> DEFINE posted == Append(platform.posted, platform.client)
<1>1. PICK to \in {"connected", "closed"} :
        platform' = [platform EXCEPT !.sock = to, !.posted = posted]
  BY DEF ClientOpens, ClientLost, SocketChanges
<1>2. platform.sock \in {"connecting", "connected"}
  BY DEF ClientOpens, ClientLost, SocketChanges
<1>3. platform.posted \in Seq(Nat) /\ platform.client \in Nat
  BY DEF PlatformInv
<1>4. /\ posted \in Seq(Nat)
      /\ \E i \in DOMAIN posted : posted[i] = platform.client
  <2>1. /\ posted \in Seq(Nat) /\ Len(posted) = Len(platform.posted) + 1
        /\ posted[Len(platform.posted) + 1] = platform.client
    BY <1>3, AppendProperties
  <2>2. Len(platform.posted) + 1 \in DOMAIN posted
    BY <1>3, <2>1, LenProperties
  <2>3. QED
    BY <2>1, <2>2
<1> HIDE DEF posted
<1>5. /\ platform' \in [client : Nat, active : BOOLEAN,
                        sock : {"none", "connecting", "connected", "closed"}, posted : Seq(Nat)]
      /\ platform'.client = platform.client /\ platform'.active = platform.active
      /\ platform'.sock = to /\ platform'.posted = posted
  BY <1>1, <1>4 DEF PlatformInv
<1>6. PlatformInv'
  BY <1>2, <1>4, <1>5 DEF PlatformInv
<1>7. PlatformState = "open" /\ PlatformState' \in {"open", "lost", "waiting"}
  BY <1>2, <1>5, <1>6, LinkState, LinkStateNext DEF PlatformInv
<1>8. QED
  BY <1>6, <1>7 DEF Promised, PlatformPromise!Next, PlatformPromise!Lose

LEMMA PlatformLeft ==
  ASSUME PlatformInv, platform' = platform
  PROVE  Promised
  BY DEF Promised, PlatformInv, PlatformState

\* The platform implements ReconnectingLink: however clients are refused,
\* replaced or lost, and whichever callback comes late, no lost robot is
\* forgotten.
THEOREM RobotIsNeverForgotten == Spec => PlatformPromise!Safety
<1>1. ASSUME PlatformInv, [Next]_vars
      PROVE  Promised
  <2>1. CASE RosTimer \/ RosState \/ RosSocket
    BY <1>1, <2>1, ConnectsKeeps, ClientStateKeeps, SocketKeeps
    DEF RosTimer, ReconnectTimer, RosState, RosSocket
  <2>2. CASE RosGoal
    BY <1>1, <2>2, ConnectsKeeps, PlatformLeft DEF RosGoal, Instance, platformVars
  <2>3. CASE RosFrame \/ RosTimeout \/ RosEnds \/ UNCHANGED vars
    BY <1>1, <2>3, PlatformLeft DEF RosFrame, RosTimeout, RosEnds, vars, platformVars
  <2>4. CASE MicStarts \/ MicStops \/ MicWaited \/ MicThread
    BY <1>1, <2>4, PlatformLeft
    DEF MicStarts, MicStops, MicWaited, MicThread, OthersIdle, NoRos, platformVars
  <2>5. CASE GestureAsked \/ GestureVoices \/ GestureAborted \/ GestureData \/ GestureThread \/ GestureDone
    BY <1>1, <2>5, PlatformLeft
    DEF GestureAsked, GestureVoices, GestureAborted, GestureData, GestureThread, GestureDone,
        NoRos, platformVars
  <2>6. CASE WinAsked \/ WinVoices \/ WinAborted \/ WinPiece \/ WinNull \/ WinEnds \/ WinDone
    BY <1>1, <2>6, PlatformLeft
    DEF WinAsked, WinVoices, WinAborted, WinPiece, WinNull, WinEnds, WinDone, NoRos, platformVars
  <2>7. QED
    BY <1>1, <2>1, <2>2, <2>3, <2>4, <2>5, <2>6 DEF Next
<1>2. Init => PlatformInv /\ PlatformPromise!Init
  <2>1. ASSUME Init
        PROVE  /\ platform \in [client : Nat, active : BOOLEAN,
                                sock : {"none", "connecting", "connected", "closed"}, posted : Seq(Nat)]
               /\ platform.client = 0 /\ platform.sock = "none"
    <3>1. platform = [client |-> 0, active |-> FALSE, sock |-> "none", posted |-> << >>]
      BY <2>1 DEF Init, PlatformInit
    <3>2. << >> \in Seq(Nat)
      OBVIOUS
    <3>3. QED
      BY <3>1, <3>2
  <2>2. QED
    BY <2>1, LinkState DEF PlatformInv, PlatformPromise!Init
<1>3. PlatformInv /\ [Next]_vars => PlatformInv' /\ [PlatformPromise!Next]_PlatformState
  BY <1>1 DEF Promised
<1>4. QED
  BY <1>2, <1>3, PTL DEF Spec, PlatformPromise!Safety

-----------------------------------------------------------------------------
(* Type correctness.                                                       *)

\* Who blocks the main thread, what the service said of its voices, and the
\* goal that is waited for.
ThreadsTyped ==
    /\ mainThread \in {"free", "stopping", "playing"}
    /\ voices \in {"awaited", "named", "missing"}
    /\ ros \in Ros

LEMMA ThreadsStayTyped ==
  ASSUME ThreadsTyped, [Next]_vars
  PROVE  ThreadsTyped'
<1>1. ASSUME UNCHANGED <<mainThread, voices>>, ros' \in Ros
      PROVE  ThreadsTyped'
  BY <1>1 DEF ThreadsTyped
<1>2. ASSUME ros' = ros, voices' = voices, mainThread' \in {mainThread, "free", "stopping", "playing"}
      PROVE  ThreadsTyped'
  BY <1>2 DEF ThreadsTyped
<1>3. CASE MicStarts \/ MicStops \/ MicWaited \/ MicThread
  BY <1>2, <1>3 DEF MicStarts, MicStops, MicWaited, MicThread, OnStart, OnStop, OnStopReturns,
     OthersIdle, NoRos, rosVars, gestureVars, ReceiveData, ReceiveDataBegins, ReceiveDataChecks,
     ReceiveDataReads, ReceiveDataEnds
<1>4. CASE GestureAsked \/ GestureAborted \/ GestureDone \/ GestureThread
  BY <1>2, <1>4 DEF GestureAsked, GestureAborted, GestureDone, GestureThread, Execute, Abort,
     OnDone, DonePops, DonePlays, ThreadEnds, NoRos, rosVars, micVars
<1>5. CASE GestureData
  BY <1>2, <1>5 DEF GestureData, OnSpeechData, OnSpeechSound, OnSpeechNull, NoRos, rosVars, micVars
<1>6. CASE GestureVoices \/ WinVoices
  BY <1>6 DEF GestureVoices, WinVoices, OnVoices, WinOnVoices, NoRos, rosVars, micVars, ThreadsTyped
<1>7. CASE WinAsked \/ WinAborted \/ WinPiece \/ WinNull \/ WinEnds \/ WinDone
  BY <1>2, <1>7 DEF WinAsked, WinAborted, WinPiece, WinNull, WinEnds, WinDone, WinExecute, WinAbort,
     WinOnSpeechPiece, WinOnSpeechNull, WinPlayEnds, WinOnSpeechDone, NoRos, rosVars, micVars
<1>8. CASE RosGoal
  <2>1. PICK r \in Requests : PublishGoal(r)
    BY <1>8 DEF RosGoal
  <2>2. ros' = [ros EXCEPT !.goal = r, !.done = FALSE, !.timer = TRUE]
        /\ UNCHANGED <<mainThread, voices>>
    BY <2>1 DEF PublishGoal, gestureVars, micVars
  <2>3. ros' \in Ros
    BY <2>2 DEF ThreadsTyped, Ros
  <2>4. QED
    BY <1>1, <2>2, <2>3
<1>9. CASE RosFrame \/ RosTimeout \/ RosEnds
  <2>1. UNCHANGED <<mainThread, voices>>
    BY <1>9 DEF RosFrame, RosTimeout, RosEnds, OnGoalStatusMatches, OnGoalStatusSets, OnTimeout,
       MoveThreadEnds, gestureVars, micVars
  <2>2. \/ ros' = [ros EXCEPT !.matched = TRUE]
        \/ ros' = [ros EXCEPT !.matched = FALSE, !.done = TRUE]
        \/ ros' = [ros EXCEPT !.timer = FALSE, !.done = TRUE]
        \/ ros' = [ros EXCEPT !.timer = FALSE]
    BY <1>9 DEF RosFrame, RosTimeout, RosEnds, OnGoalStatusMatches, OnGoalStatusSets, OnTimeout,
       MoveThreadEnds
  <2>3. ros' \in Ros
    BY <2>2 DEF ThreadsTyped, Ros
  <2>4. QED
    BY <1>1, <2>1, <2>3
<1>10. CASE RosTimer \/ RosState \/ RosSocket \/ UNCHANGED vars
  BY <1>2, <1>10 DEF RosTimer, RosState, RosSocket, Elsewhere, vars, micVars, gestureVars, rosVars
<1>11. QED
  BY <1>3, <1>4, <1>5, <1>6, <1>7, <1>8, <1>9, <1>10 DEF Next

\* The flags of the stream stay those of a WinSpeechGesture that never was.
WinTyped == kind \in QueuedKinds => win \in Win

LEMMA WinStaysTyped ==
  ASSUME WinTyped, WinInv, [Next]_vars
  PROVE  WinTyped'
<1>1. ASSUME kind' = kind, kind \in QueuedKinds => win' = win
      PROVE  WinTyped'
  BY <1>1 DEF WinTyped
<1>2. CASE MicStarts \/ MicStops \/ MicWaited \/ MicThread
  BY <1>1, <1>2 DEF MicStarts, MicStops, MicWaited, MicThread, OthersIdle, gestureVars, winVars
<1>3. CASE GestureAsked \/ GestureVoices \/ GestureAborted \/ GestureThread \/ GestureDone
  BY <1>1, <1>3 DEF GestureAsked, GestureVoices, GestureAborted, GestureThread, GestureDone,
     Execute, OnVoices, Abort, ThreadEnds, OnDone, DonePops, DonePlays, winVars
<1>4. CASE GestureData \/ RosEnds
  BY <1>1, <1>4 DEF GestureData, OnSpeechData, OnSpeechSound, OnSpeechNull, RosEnds,
     MoveThreadEnds, winVars
<1>5. CASE WinAsked \/ WinVoices \/ WinAborted
  BY <1>1, <1>5, WinIsNoQueuedKind DEF WinAsked, WinVoices, WinAborted, WinExecute, WinOnVoices,
     WinAbort, WinFree, IsWin
<1>6. CASE WinPiece \/ WinNull \/ WinEnds \/ WinDone
  BY <1>1, <1>6, WinIsNoQueuedKind DEF WinPiece, WinNull, WinEnds, WinDone, WinOnSpeechPiece,
     WinOnSpeechNull, WinPlayEnds, WinOnSpeechDone, WinFree, IsWin
<1>7. CASE RosGoal \/ RosFrame \/ RosTimeout
  BY <1>1, <1>7 DEF RosGoal, RosFrame, RosTimeout, PublishGoal, OnGoalStatusMatches,
     OnGoalStatusSets, OnTimeout, gestureVars, winVars
<1>8. CASE RosTimer \/ RosState \/ RosSocket \/ UNCHANGED vars
  BY <1>1, <1>8 DEF RosTimer, RosState, RosSocket, Elsewhere, vars, gestureVars, winVars
<1>9. QED
  BY <1>2, <1>3, <1>4, <1>5, <1>6, <1>7, <1>8 DEF Next

\* No more requests are made than the bound.
AskedBounded == asked \in 0 .. MaxRequests

LEMMA AskedStaysBounded ==
  ASSUME AskedBounded, [Next]_vars
  PROVE  AskedBounded'
<1>1. ASSUME asked' = asked
      PROVE  AskedBounded'
  BY <1>1 DEF AskedBounded
<1>2. CASE GestureAsked \/ WinAsked
  <2>1. asked' = asked + 1 /\ asked < MaxRequests
    BY <1>2 DEF GestureAsked, WinAsked, Execute, WinExecute
  <2>2. QED
    BY <2>1, RequestsAssumption DEF AskedBounded
<1>3. CASE MicStarts \/ MicStops \/ MicWaited \/ MicThread
  BY <1>1, <1>3 DEF MicStarts, MicStops, MicWaited, MicThread, OthersIdle, gestureVars
<1>4. CASE GestureVoices \/ GestureAborted \/ GestureData \/ GestureThread \/ GestureDone
  BY <1>1, <1>4 DEF GestureVoices, GestureAborted, GestureData, GestureThread, GestureDone,
     OnVoices, Abort, OnSpeechData, OnSpeechSound, OnSpeechNull, ThreadEnds, OnDone,
     DonePops, DonePlays
<1>5. CASE WinVoices \/ WinAborted \/ WinPiece \/ WinNull \/ WinEnds \/ WinDone
  BY <1>1, <1>5 DEF WinVoices, WinAborted, WinPiece, WinNull, WinEnds, WinDone, WinOnVoices,
     WinAbort, WinOnSpeechPiece, WinOnSpeechNull, WinPlayEnds, WinOnSpeechDone
<1>6. CASE RosGoal \/ RosFrame \/ RosTimeout \/ RosEnds
  BY <1>1, <1>6 DEF RosGoal, RosFrame, RosTimeout, RosEnds, PublishGoal, OnGoalStatusMatches,
     OnGoalStatusSets, OnTimeout, MoveThreadEnds, gestureVars
<1>7. CASE RosTimer \/ RosState \/ RosSocket \/ UNCHANGED vars
  BY <1>1, <1>7 DEF RosTimer, RosState, RosSocket, Elsewhere, vars, gestureVars
<1>8. QED
  BY <1>2, <1>3, <1>4, <1>5, <1>6, <1>7 DEF Next

\* A client is there before its callbacks are.
PlatformTyped ==
    /\ platform \in Platform
    /\ platform.client = 0 => platform.sock = "none"

LEMMA PlatformStaysTyped ==
  ASSUME PlatformTyped, [Next]_vars
  PROVE  PlatformTyped'
<1>1. ASSUME platform' = platform
      PROVE  PlatformTyped'
  BY <1>1 DEF PlatformTyped
<1>2. ASSUME Connects
      PROVE  PlatformTyped'
  <2>1. PICK ok \in BOOLEAN : platform' = ConnectToRobot(platform, ok)
    BY <1>2 DEF Connects
  <2>2. platform.client < MaxClients
    BY <1>2 DEF Connects
  <2> DEFINE n == platform.client + 1
             to == IF ok THEN "connecting" ELSE "closed"
  <2>3. n \in 0 .. MaxClients /\ n # 0
    BY <2>2, ClientsAssumption DEF PlatformTyped, Platform
  <2>4. platform' \in {platform, [platform EXCEPT !.client = n, !.active = ok, !.sock = to]}
    BY <2>1 DEF ConnectToRobot
  <2>5. to \in {"connecting", "closed"}
    OBVIOUS
  <2> HIDE DEF n, to
  <2>6. QED
    BY <1>1, <2>3, <2>4, <2>5 DEF PlatformTyped, Platform
<1>3. CASE RosState
  <2> DEFINE closed == Head(platform.posted) # platform.client \/ platform.sock = "closed"
             now == platform.active /\ ~closed
             rest == Tail(platform.posted)
  <2>1. platform.posted # << >>
        /\ platform' = [platform EXCEPT !.posted = rest, !.active = now]
    BY <1>3 DEF RosState, OnClientState
  <2>2. rest \in Seq(1 .. MaxClients) /\ now \in BOOLEAN
    <3>1. platform.posted \in Seq(1 .. MaxClients)
      BY DEF PlatformTyped, Platform
    <3>2. rest \in Seq(1 .. MaxClients)
      BY <2>1, <3>1, HeadTailProperties
    <3>3. QED
      BY <3>2
  <2> HIDE DEF rest, now
  <2>3. QED
    BY <2>1, <2>2 DEF PlatformTyped, Platform
<1>4. CASE RosSocket
  <2> DEFINE posted == Append(platform.posted, platform.client)
  <2>1. PICK to \in {"connected", "closed"} :
          platform' = [platform EXCEPT !.sock = to, !.posted = posted]
    BY <1>4 DEF RosSocket, ClientOpens, ClientLost, SocketChanges
  <2>2. platform.sock # "none"
    BY <1>4 DEF RosSocket, ClientOpens, ClientLost, SocketChanges
  <2>3. platform.client \in 1 .. MaxClients /\ platform.posted \in Seq(1 .. MaxClients)
    BY <2>2, ClientsAssumption DEF PlatformTyped, Platform
  <2>4. posted \in Seq(1 .. MaxClients)
    BY <2>3, AppendProperties
  <2> HIDE DEF posted
  <2>5. platform' \in Platform /\ platform'.client = platform.client
    BY <2>1, <2>4 DEF PlatformTyped, Platform
  <2>6. QED
    BY <2>3, <2>5 DEF PlatformTyped
<1>5. CASE RosTimer \/ RosGoal
  BY <1>1, <1>2, <1>5 DEF RosTimer, ReconnectTimer, RosGoal, Instance, platformVars
<1>6. CASE RosFrame \/ RosTimeout \/ RosEnds \/ UNCHANGED vars
  BY <1>1, <1>6 DEF RosFrame, RosTimeout, RosEnds, vars, platformVars
<1>7. CASE MicStarts \/ MicStops \/ MicWaited \/ MicThread
  BY <1>1, <1>7 DEF MicStarts, MicStops, MicWaited, MicThread, OthersIdle, NoRos, platformVars
<1>8. CASE GestureAsked \/ GestureVoices \/ GestureAborted \/ GestureData \/ GestureThread \/ GestureDone
  BY <1>1, <1>8 DEF GestureAsked, GestureVoices, GestureAborted, GestureData, GestureThread,
     GestureDone, NoRos, platformVars
<1>9. CASE WinAsked \/ WinVoices \/ WinAborted \/ WinPiece \/ WinNull \/ WinEnds \/ WinDone
  BY <1>1, <1>9 DEF WinAsked, WinVoices, WinAborted, WinPiece, WinNull, WinEnds, WinDone, NoRos,
     platformVars
<1>10. QED
  BY <1>3, <1>4, <1>5, <1>6, <1>7, <1>8, <1>9 DEF Next

LEMMA TypesHoldFirst ==
  ASSUME Init
  PROVE  ThreadsTyped /\ WinTyped /\ AskedBounded /\ PlatformTyped
<1>1. /\ mainThread = "free" /\ voices = "awaited" /\ asked = 0
      /\ ros = [goal |-> NoGoal, done |-> FALSE, timer |-> FALSE, matched |-> FALSE]
      /\ win = [playing |-> FALSE, done |-> TRUE, abort |-> FALSE, threads |-> 0, posts |-> 0]
      /\ platform = [client |-> 0, active |-> FALSE, sock |-> "none", posted |-> << >>]
  BY DEF Init, MicInit, GestureInit, RosInit, WinInit, PlatformInit
<1>2. ThreadsTyped
  BY <1>1 DEF ThreadsTyped, Ros
<1>3. WinTyped
  BY <1>1 DEF WinTyped, Win
<1>4. AskedBounded
  BY <1>1, RequestsAssumption DEF AskedBounded
<1>5. PlatformTyped
  <2>1. << >> \in Seq(1 .. MaxClients) /\ 0 \in 0 .. MaxClients
    BY ClientsAssumption
  <2>2. QED
    BY <1>1, <2>1 DEF PlatformTyped, Platform
<1>6. QED
  BY <1>2, <1>3, <1>4, <1>5

\* The variables keep the types of the code's members, the count of pauses
\* and the sequence of requests among them, whichever the gesture.
THEOREM GesturesTyped == Spec => []GesturesTypeOK
<1> DEFINE Typed == ThreadsTyped /\ WinTyped /\ AskedBounded /\ PlatformTyped
<1>1. Typed /\ WinInv /\ [Next]_vars => Typed'
  BY ThreadsStayTyped, WinStaysTyped, AskedStaysBounded, PlatformStaysTyped
<1>2. ASSUME Typed, GestureInv, MicInv
      PROVE  GesturesTypeOK
  <2>1. /\ paused \in Int /\ queue \in Seq(Requests) /\ stage \in [Requests -> Stages]
        /\ win \in Win
    <3>1. CASE kind \in QueuedKinds
      BY <1>2, <3>1, NowIs DEF GestureInv, WinTyped
    <3>2. CASE kind = WinSpeechGesture
      <4>1. WinFits(queue, stage, paused, win)
        BY <1>2, <3>2 DEF GestureInv, WinInv
      <4>2. stage \in [Requests -> Stages]
        BY <4>1 DEF WinFits, Stages
      <4>3. QED
        BY <4>1, <4>2 DEF WinFits
    <3>3. QED
      BY <1>2, <3>1, <3>2 DEF GestureInv, WinInv
  <2>2. mic \in Mic /\ history \in [aborted : BOOLEAN, failed : BOOLEAN, behind : BOOLEAN]
        /\ kind \in QueuedKinds \cup {WinSpeechGesture}
    BY <1>2 DEF MicInv, GestureInv, QueueInv, HistoryType, WinInv
  <2>3. QED
    BY <1>2, <2>1, <2>2 DEF GesturesTypeOK, ThreadsTyped, AskedBounded, PlatformTyped
<1>3. Spec => []MicInv
  BY MicInvariant
<1>4. GestureInv => WinInv
  BY DEF GestureInv
<1> HIDE DEF Typed
<1>5. Init => Typed
  BY TypesHoldFirst DEF Typed
<1>6. QED
  BY <1>1, <1>2, <1>3, <1>4, <1>5, GestureInvariant, PTL DEF Spec
=============================================================================
