--------------------------- MODULE Sensors_proofs ---------------------------
(***************************************************************************)
(* Theorems about the capture sensors and the cameras on timers, for any   *)
(* number of starts, pauses and cameras started.                           *)
(***************************************************************************)
EXTENDS Sensors, TLAPS, FiniteSetTheorems

-----------------------------------------------------------------------------
(* The capture threads.                                                    *)

CapType ==
    /\ cap \in [starts : Nat, started : BOOLEAN, stop : BOOLEAN,
                stopped : BOOLEAN, asked : Nat]
    /\ thread \in [Captures -> Places]
    /\ pauses \in Nat /\ overheard \in Nat

\* What may still set m_ThreadStopped, which is what OnStop waits for.
Live == Running \cup (IF "sets both" \in device.fails THEN {} ELSE {"failing"})

\* Such a thread is the newest one, of a started sensor, and has not set it.
LiveIsNewest ==
    Careful => \A t \in Captures :
        thread[t] \in Live => cap.started /\ t = cap.starts /\ ~cap.stopped

CaptureInv == CapType /\ LiveIsNewest

LEMMA RestartedFields ==
  ASSUME CapType
  PROVE  /\ Restarted(cap).starts = cap.starts + 1
         /\ Restarted(cap).started = TRUE
         /\ Careful => Restarted(cap).stopped = FALSE
         /\ Restarted(cap) \in [starts : Nat, started : BOOLEAN, stop : BOOLEAN,
                                stopped : BOOLEAN, asked : Nat]
<1> DEFINE stop == cap.stop /\ "stop" \notin device.clears
           stopped == cap.stopped /\ "stopped" \notin device.clears
<1>1. stop \in BOOLEAN /\ stopped \in BOOLEAN /\ (Careful => stopped = FALSE)
  BY DEF Careful, Flags
<1>2. Restarted(cap) = [cap EXCEPT !.starts = @ + 1, !.started = TRUE, !.stop = stop,
                                   !.stopped = stopped]
  BY DEF Restarted
<1> HIDE DEF stop, stopped
<1>3. cap = [starts |-> cap.starts, started |-> cap.started, stop |-> cap.stop,
             stopped |-> cap.stopped, asked |-> cap.asked]
      /\ cap.starts \in Nat /\ cap.asked \in Nat
  BY DEF CapType
<1>4. Restarted(cap) = [starts |-> cap.starts + 1, started |-> TRUE, stop |-> stop,
                        stopped |-> stopped, asked |-> cap.asked]
  BY <1>2, <1>3
<1>5. QED
  BY <1>1, <1>3, <1>4

LEMMA StartKeeps ==
  ASSUME CaptureInv, OnStart, device' = device
  PROVE  CaptureInv'
<1>1. PICK found \in BOOLEAN :
        thread' = [thread EXCEPT ![cap.starts + 1] = IF found THEN "posted" ELSE "none"]
  BY DEF OnStart
<1>2. /\ cap' = Restarted(cap) /\ ~cap.started
      /\ UNCHANGED <<pauses, overheard>>
  BY DEF OnStart
<1>3. CapType'
  BY <1>1, <1>2, RestartedFields DEF CaptureInv, CapType, Places
<1>4. ASSUME Careful, NEW t \in Captures, thread'[t] \in Live'
      PROVE  cap'.started /\ t = cap'.starts /\ ~cap'.stopped
  <2>1. Live' = Live
    BY DEF Live
  <2>2. thread[t] \notin Live
    BY <1>2, <1>4 DEF CaptureInv, LiveIsNewest
  <2>3. t = cap.starts + 1
    BY <1>1, <1>4, <2>1, <2>2 DEF CaptureInv, CapType
  <2>4. QED
    BY <1>2, <1>4, <2>3, RestartedFields DEF CaptureInv
<1>5. QED
  BY <1>3, <1>4 DEF CaptureInv, LiveIsNewest, Careful

\* OnStop only raises m_StopThread; it returns once no thread is live.
LEMMA StopKeeps ==
  ASSUME CaptureInv, OnStop \/ OnStopReturns, device' = device
  PROVE  CaptureInv'
<1>1. CASE OnStop
  BY <1>1 DEF OnStop, CaptureInv, CapType, LiveIsNewest, Live, Careful
<1>2. CASE OnStopReturns
  <2>1. cap' = [cap EXCEPT !.started = FALSE] /\ cap.stopped
        /\ UNCHANGED <<thread, pauses, overheard>>
    BY <1>2 DEF OnStopReturns
  <2>2. CapType'
    BY <2>1 DEF CaptureInv, CapType
  <2>3. Careful => \A t \in Captures : thread[t] \notin Live
    BY <2>1 DEF CaptureInv, LiveIsNewest
  <2>4. QED
    BY <2>1, <2>2, <2>3 DEF CaptureInv, LiveIsNewest, Live, Careful
<1>3. QED
  BY <1>1, <1>2

LEMMA PauseKeeps ==
  ASSUME CaptureInv, OnPause \/ OnResume \/ OnGetImage, device' = device
  PROVE  CaptureInv'
<1>1. /\ CapType' /\ UNCHANGED thread
      /\ cap'.started = cap.started /\ cap'.starts = cap.starts
      /\ cap'.stopped = cap.stopped
  <2>1. CASE OnPause \/ OnResume
    BY <2>1 DEF OnPause, OnResume, CaptureInv, CapType
  <2>2. CASE OnGetImage
    <3>1. overheard' \in Nat /\ UNCHANGED <<thread, pauses>>
      BY <2>2 DEF OnGetImage, Overhears, CaptureInv, CapType
    <3>2. \/ cap' = [cap EXCEPT !.asked = @ - 1]
          \/ cap' = [cap EXCEPT !.asked = @ - 1, !.stop = TRUE]
      BY <2>2 DEF OnGetImage
    <3>3. cap.asked - 1 \in Nat
      BY <2>2 DEF OnGetImage, CaptureInv, CapType
    <3>4. QED
      BY <3>1, <3>2, <3>3 DEF CaptureInv, CapType
  <2>3. QED
    BY <2>1, <2>2
<1>2. QED
  BY <1>1 DEF CaptureInv, LiveIsNewest, Live, Careful

\* Every step of a thread leads from a live place to another, unless it fails
\* or sets m_ThreadStopped; and no other step leads to a live one.
LEMMA ThreadStepKeeps ==
  ASSUME CaptureInv, NEW t \in Captures, ThreadStep(t), device' = device
  PROVE  CaptureInv'
<1>1. /\ CapType'
      /\ \E p \in Places : thread' = [thread EXCEPT ![t] = p]
      /\ cap'.started = cap.started /\ cap'.starts = cap.starts
      /\ thread'[t] \in Live => thread[t] \in Live
      /\ cap'.stopped => cap.stopped \/ (thread[t] \in Live /\ thread'[t] \notin Live)
  <2> USE DEF CaptureInv, CapType, Goes, Places
  <2>1. CASE Begins(t)
    BY <2>1 DEF Begins, Live, Running
  <2>2. CASE DeviceOpens(t) \/ LoopHead(t)
    BY <2>2 DEF DeviceOpens, LoopHead, Live, Running
  <2>3. CASE Grabs(t) \/ Posts(t)
    <3>1. /\ UNCHANGED <<cap, pauses>> /\ (UNCHANGED overheard \/ Overhears)
          /\ thread[t] \in {"grabbing", "taken"}
          /\ \E p \in {"looping", "taken"} : thread' = [thread EXCEPT ![t] = p]
      BY <2>3 DEF Grabs, Posts
    <3>2. overheard' \in Nat
      BY <3>1 DEF Overhears
    <3>3. QED
      BY <3>1, <3>2 DEF Live, Running
  <2>4. CASE Asks(t)
    BY <2>4 DEF Asks, Live, Running
  <2>5. CASE Fails(t)
    BY <2>5 DEF Fails, Live, Running
  <2>6. CASE Failed(t)
    BY <2>6 DEF Failed, Live, Running
  <2>7. CASE Leaves(t)
    BY <2>7 DEF Leaves, Live, Running
  <2>8. QED
    BY <2>1, <2>2, <2>3, <2>4, <2>5, <2>6, <2>7 DEF ThreadStep
<1>2. ASSUME Careful, NEW u \in Captures, thread'[u] \in Live
      PROVE  cap'.started /\ u = cap'.starts /\ ~cap'.stopped
  <2>1. thread[u] \in Live
    BY <1>1, <1>2 DEF CaptureInv, CapType
  <2>2. cap.started /\ u = cap.starts /\ ~cap.stopped
    BY <2>1, <1>2 DEF CaptureInv, LiveIsNewest
  <2>3. thread[t] \in Live => t = u
    BY <2>2, <1>2 DEF CaptureInv, LiveIsNewest
  <2>4. QED
    BY <1>1, <1>2, <2>2, <2>3
<1>3. Live' = Live
  BY DEF Live
<1>4. QED
  BY <1>1, <1>2, <1>3 DEF CaptureInv, LiveIsNewest, Careful

LEMMA CaptureStepKeeps ==
  ASSUME CaptureInv, [Next]_vars
  PROVE  CaptureInv'
<1>1. CASE CameraStep \/ HealthStep \/ UNCHANGED vars
  BY <1>1 DEF CameraStep, HealthStep, InCheck, RaiseStep, RaisedStep, NewsStep, SettleStep,
     MoveStep, vars, capVars, CaptureInv, CapType, LiveIsNewest, Live, Careful
<1>2. CASE StartStep
  BY <1>2, StartKeeps DEF StartStep, Threads
<1>3. CASE StopStep \/ WaitedStep
  BY <1>3, StopKeeps DEF StopStep, WaitedStep, Threads
<1>4. CASE PauseStep \/ AnswerStep
  BY <1>4, PauseKeeps DEF PauseStep, AnswerStep, Threads
<1>5. ASSUME NEW t \in Captures, CaptureStep(t)
      PROVE  CaptureInv'
  BY <1>5, ThreadStepKeeps DEF CaptureStep, Threads
<1>6. QED
  BY <1>1, <1>2, <1>3, <1>4, <1>5 DEF Next

\* What the table of sensors says of all of them.
LEMMA DevicesKnown ==
  ASSUME NEW d \in CaptureDevices \cup {Timed}
  PROVE  /\ d.initially \subseteq BOOLEAN
         /\ d.clears = Flags => d.polls = FALSE
<1>1. ASSUME NEW name, NEW clears, NEW initially \in SUBSET BOOLEAN, NEW checks, NEW fails,
             d = Sensor(name, clears, initially, checks, fails)
      PROVE  d.initially \subseteq BOOLEAN /\ d.polls = FALSE
  BY <1>1 DEF Sensor
<1>2. CASE d \in {PointGreyCamera, RemoteCamera}
  <2>1. d.initially = {TRUE} /\ d.clears = {}
    BY <1>2, Zenon DEF PointGreyCamera, RemoteCamera, Sensor
  <2>2. "stop" \in Flags
    BY DEF Flags
  <2>3. QED
    BY <2>1, <2>2
<1>3. CASE d = Recorder
  BY <1>1, <1>3 DEF Recorder
<1>4. CASE d = AQMicrophone
  BY <1>1, <1>4 DEF AQMicrophone
<1>5. CASE d = WinMicrophone
  BY <1>1, <1>5 DEF WinMicrophone
<1>6. CASE d = NaoHealthSensor
  BY <1>1, <1>6 DEF NaoHealthSensor
<1>7. CASE d = NaoCamera
  BY <1>1, <1>7 DEF NaoCamera
<1>8. CASE d = NaoDepthCamera
  BY <1>1, <1>8 DEF NaoDepthCamera
<1>9. CASE d = Timed
  BY <1>1, <1>9 DEF Timed
<1>10. QED
  BY <1>2, <1>3, <1>4, <1>5, <1>6, <1>7, <1>8, <1>9 DEF CaptureDevices

LEMMA CaptureInitHolds ==
  ASSUME Init
  PROVE  CaptureInv
<1>1. device.initially \subseteq BOOLEAN
  BY DevicesKnown DEF Init
<1>2. /\ thread = [t \in Captures |-> "none"] /\ pauses = 0 /\ overheard = 0
      /\ \E stopped \in BOOLEAN :
           cap = [starts |-> 0, started |-> FALSE, stop |-> FALSE,
                  stopped |-> stopped, asked |-> 0]
  BY <1>1 DEF Init, CaptureInit
<1>3. QED
  BY <1>2 DEF CaptureInv, CapType, LiveIsNewest, Live, Running, Places

LEMMA CaptureInvariant == Spec => []CaptureInv
  BY CaptureInitHolds, CaptureStepKeeps, PTL DEF Spec

\* A sensor whose OnStart resets both flags never captures with two threads,
\* nor after OnStop has returned.
THEOREM NeverTwoCaptures == Spec => []OneCapture
<1>1. CaptureInv => OneCapture
  BY DEF CaptureInv, LiveIsNewest, Live, OneCapture
<1>2. QED
  BY <1>1, CaptureInvariant, PTL
-----------------------------------------------------------------------------
(* What is heard under a pause.                                            *)

Looks == Careful /\ device.checks \in {"head", "grabbed"}

\* Where a thread may hold a clip that it will post whatever the pauses are.
InClip == {"taken"} \cup (IF device.checks = "head" THEN {"grabbing"} ELSE {})

\* Only a clip that is still to be posted may follow those overheard so far.
AtMostOneClip ==
    Looks /\ pauses > 0 =>
        /\ overheard <= 1
        /\ \A t \in Captures : thread[t] \in InClip => overheard = 0

ClipInv ==
    /\ CaptureInv
    /\ device \in CaptureDevices \cup {Timed}
    /\ Careful => cap.asked = 0
    /\ AtMostOneClip

LEMMA NothingAsked ==
  ASSUME ClipInv, Careful
  PROVE  device.polls = FALSE /\ ~OnGetImage
<1>1. device.polls = FALSE
  BY DevicesKnown DEF ClipInv, Careful
<1>2. ~OnGetImage
  BY DEF ClipInv, OnGetImage
<1>3. QED
  BY <1>1, <1>2

LEMMA ClipHandlers ==
  ASSUME ClipInv, OnStart \/ OnStop \/ OnStopReturns \/ OnPause \/ OnResume \/ OnGetImage,
         device' = device
  PROVE  AtMostOneClip' /\ (Careful' => cap'.asked = 0)
<1> SUFFICES ASSUME Careful
             PROVE  AtMostOneClip' /\ cap'.asked = 0
  BY DEF AtMostOneClip, Looks, Careful
<1>1. CASE OnStart
  <2>1. /\ cap' = Restarted(cap) /\ UNCHANGED <<pauses, overheard>>
        /\ \E p \in {"posted", "none"} : thread' = [thread EXCEPT ![cap.starts + 1] = p]
    BY <1>1 DEF OnStart
  <2>2. \A t \in Captures : thread'[t] \in InClip => thread[t] \in InClip
    BY <2>1 DEF InClip, ClipInv, CaptureInv, CapType
  <2>3. cap'.asked = 0
    BY <2>1 DEF Restarted, ClipInv, CaptureInv, CapType
  <2>4. QED
    BY <2>1, <2>2, <2>3 DEF ClipInv, AtMostOneClip, Looks, InClip, Careful
<1>2. CASE OnStop \/ OnStopReturns
  <2>1. UNCHANGED <<thread, pauses, overheard>> /\ cap'.asked = cap.asked
    BY <1>2 DEF OnStop, OnStopReturns, ClipInv, CaptureInv, CapType
  <2>2. QED
    BY <2>1 DEF ClipInv, AtMostOneClip, Looks, InClip, Careful
<1>3. CASE OnPause
  <2>1. /\ UNCHANGED <<cap, thread>> /\ pauses \in Nat
        /\ IF pauses = 0 THEN overheard' = 0 ELSE overheard' = overheard
    BY <1>3 DEF OnPause, ClipInv, CaptureInv, CapType
  <2>2. QED
    BY <2>1 DEF ClipInv, AtMostOneClip, Looks, InClip, Careful
<1>4. CASE OnResume
  <2>1. /\ UNCHANGED <<cap, thread, overheard>> /\ pauses > 0
    BY <1>4 DEF OnResume
  <2>2. QED
    BY <2>1 DEF ClipInv, AtMostOneClip, Looks, InClip, Careful
<1>5. QED
  BY <1>1, <1>2, <1>3, <1>4, NothingAsked

LEMMA ClipThread ==
  ASSUME ClipInv, NEW t \in Captures, ThreadStep(t), device' = device
  PROVE  AtMostOneClip' /\ (Careful' => cap'.asked = 0)
<1> SUFFICES ASSUME Careful
             PROVE  AtMostOneClip' /\ cap'.asked = 0
  BY DEF AtMostOneClip, Looks, Careful
<1> USE DEF Goes, ClipInv
<1>1. ~device.polls /\ ~Asks(t)
  BY NothingAsked DEF Asks
<1>2. cap'.asked = 0 /\ pauses' = pauses /\ (\E p : thread' = [thread EXCEPT ![t] = p])
  <2>1. CASE Begins(t) \/ DeviceOpens(t) \/ LoopHead(t) \/ Grabs(t) \/ Posts(t)
    BY <2>1 DEF Begins, DeviceOpens, LoopHead, Grabs, Posts, CaptureInv, CapType
  <2>2. CASE Fails(t) \/ Failed(t) \/ Leaves(t)
    BY <2>2 DEF Fails, Failed, Leaves, CaptureInv, CapType
  <2>3. QED
    BY <1>1, <2>1, <2>2 DEF ThreadStep
<1> SUFFICES ASSUME Looks, pauses > 0
             PROVE  /\ overheard' <= 1
                    /\ \A u \in Captures : thread'[u] \in InClip => overheard' = 0
  BY <1>2 DEF AtMostOneClip, Looks, InClip, Careful
<1>3. overheard \in Nat /\ overheard <= 1 /\ thread \in [Captures -> Places]
  BY DEF AtMostOneClip, CaptureInv, CapType
<1>4. \A u \in Captures : thread[u] \in InClip => overheard = 0
  BY DEF AtMostOneClip
<1>5. CASE UNCHANGED overheard /\ thread'[t] \notin InClip
  BY <1>5, <1>2, <1>3, <1>4
<1>6. CASE thread[t] \in InClip /\ thread'[t] \notin InClip /\ Overhears
  <2>1. overheard' = 1
    BY <1>6, <1>4 DEF Overhears
  <2>2. \A u \in Captures : u # t => thread[u] \notin InClip
    BY <1>6 DEF CaptureInv, LiveIsNewest, Live, Running, InClip
  <2>3. QED
    BY <2>1, <2>2, <1>6, <1>2, <1>3
<1>7. CASE LoopHead(t)
  BY <1>7, <1>3, <1>5 DEF LoopHead, InClip, Looks
<1>8. CASE Grabs(t) \/ Posts(t)
  <2>1. \/ UNCHANGED overheard /\ thread'[t] = "looping"
        \/ thread[t] \in InClip /\ Overhears /\ thread'[t] = "looping"
    BY <1>8, <1>3 DEF Grabs, Posts, InClip
  <2>2. "looping" \notin InClip
    BY DEF InClip
  <2>3. QED
    BY <2>1, <2>2, <1>5, <1>6
<1>9. CASE Begins(t) \/ DeviceOpens(t) \/ Fails(t) \/ Failed(t) \/ Leaves(t)
  <2>1. UNCHANGED overheard /\ thread'[t] \in {"opening", "looping", "failing", "threw",
                                               "failed", "ended"}
    BY <1>9, <1>3 DEF Begins, DeviceOpens, Fails, Failed, Leaves
  <2>2. QED
    BY <2>1, <1>5 DEF InClip
<1>10. QED
  BY <1>1, <1>7, <1>8, <1>9 DEF ThreadStep

LEMMA ClipStep ==
  ASSUME ClipInv, [Next]_vars
  PROVE  ClipInv'
<1>1. CaptureInv'
  BY CaptureStepKeeps DEF ClipInv
<1>2. device' = device
  BY DEF Next, StartStep, StopStep, WaitedStep, PauseStep, AnswerStep, CaptureStep,
     CameraStep, HealthStep, InCheck, RaiseStep, RaisedStep, NewsStep, SettleStep, MoveStep,
     Threads, vars
<1>3. CASE CameraStep \/ HealthStep \/ UNCHANGED vars
  BY <1>1, <1>2, <1>3 DEF CameraStep, HealthStep, InCheck, RaiseStep, RaisedStep,
     NewsStep, SettleStep, MoveStep, vars, capVars, ClipInv, AtMostOneClip, Looks,
     InClip, Careful
<1>4. CASE StartStep \/ StopStep \/ WaitedStep \/ PauseStep \/ AnswerStep
  BY <1>1, <1>2, <1>4, ClipHandlers DEF StartStep, StopStep, WaitedStep, PauseStep,
     AnswerStep, ClipInv
<1>5. ASSUME NEW t \in Captures, CaptureStep(t)
      PROVE  ClipInv'
  BY <1>1, <1>2, <1>5, ClipThread DEF CaptureStep, ClipInv
<1>6. QED
  BY <1>3, <1>4, <1>5 DEF Next

\* Under a pause a sensor that looks at m_Paused, before a clip or after it,
\* posts at most the one clip that was being captured when the pause began.
THEOREM AtMostOneClipHeard == Spec => []OneClipAfterPause
<1>1. ASSUME Init
      PROVE  ClipInv
  <2>1. cap.asked = 0 /\ pauses = 0 /\ device \in CaptureDevices \cup {Timed}
    BY <1>1 DEF Init, CaptureInit
  <2>2. QED
    BY <1>1, <2>1, CaptureInitHolds DEF ClipInv, AtMostOneClip
<1>2. ClipInv => OneClipAfterPause
  BY DEF ClipInv, AtMostOneClip, Looks, OneClipAfterPause
<1>3. QED
  BY <1>1, <1>2, ClipStep, PTL DEF Spec

-----------------------------------------------------------------------------
(* The cameras on timers.                                                  *)

Held(c) == IF camera[c].held THEN 1 ELSE 0

\* The shared sensor is counted at least once for each camera that holds it.
Counted ==
    /\ kinect \in [open : BOOLEAN, count : Nat]
    /\ camera \in [Cameras -> Camera]
    /\ Held("color") + Held("depth") <= kinect.count
    /\ Held("color") + Held("depth") > 0 => kinect.open

LEMMA HoldersCounted ==
  ASSUME camera \in [Cameras -> Camera]
  PROVE  /\ Cardinality(Holders) = Held("color") + Held("depth")
         /\ Holders # {} => Held("color") + Held("depth") > 0
<1> DEFINE a == camera["color"].held
           b == camera["depth"].held
<1>1. Holders = (IF a THEN {"color"} ELSE {}) \cup (IF b THEN {"depth"} ELSE {})
  BY DEF Holders, Kinects
<1>2. CASE a /\ b
  <2>1. Holders = {"color"} \cup {"depth"}
    BY <1>1, <1>2
  <2>2. IsFiniteSet({"color"}) /\ Cardinality({"color"}) = 1
    BY FS_Singleton
  <2>3. Cardinality({"color"} \cup {"depth"}) = 2
    BY <2>2, FS_AddElement
  <2>4. QED
    BY <2>1, <2>3, <1>2 DEF Held
<1>3. CASE a /\ ~b
  <2>1. Holders = {"color"}
    BY <1>1, <1>3
  <2>2. Cardinality({"color"}) = 1
    BY FS_Singleton
  <2>3. QED
    BY <2>1, <2>2, <1>3 DEF Held
<1>4. CASE ~a /\ b
  <2>1. Holders = {"depth"}
    BY <1>1, <1>4
  <2>2. Cardinality({"depth"}) = 1
    BY FS_Singleton
  <2>3. QED
    BY <2>1, <2>2, <1>4 DEF Held
<1>5. CASE ~a /\ ~b
  <2>1. Holders = {}
    BY <1>1, <1>5
  <2>2. QED
    BY <2>1, <1>5, FS_EmptySet DEF Held
<1>6. QED
  BY <1>2, <1>3, <1>4, <1>5

\* The shared sensor after one camera starts or stops, where n says whether the
\* other one holds it and h whether this one did.
LEMMA KinectCounts ==
  ASSUME kinect \in [open : BOOLEAN, count : Nat], NEW n \in {0, 1}, NEW h \in {0, 1},
         n + h <= kinect.count, n + h > 0 => kinect.open,
         NEW c \in Kinects, NEW found \in BOOLEAN, NEW opened \in BOOLEAN
  PROVE  LET k == KinectStarted(c, found, opened)
             f == IF h = 1 THEN FreeKinect(kinect) ELSE kinect
             m == IF opened /\ (kinect.open \/ found) THEN n + 1 ELSE n
         IN  /\ k \in [open : BOOLEAN, count : Nat]
             /\ m <= k.count /\ (m > 0 => k.open)
             /\ f \in [open : BOOLEAN, count : Nat]
             /\ n <= f.count /\ (n > 0 => f.open)
<1> DEFINE g == GrabKinect(found)
<1>1. /\ g = [open |-> kinect.open \/ found, count |-> kinect.count + 1]
      /\ g.open = (kinect.open \/ found) /\ g.count = kinect.count + 1
      /\ kinect.count \in Nat /\ kinect.open \in BOOLEAN
  BY DEF GrabKinect
<1>2. \A k \in [open : BOOLEAN, count : Nat] :
        k.open /\ k.count > 0 =>
            /\ FreeKinect(k) = [open |-> k.count # 1, count |-> k.count - 1]
            /\ FreeKinect(k) \in [open : BOOLEAN, count : Nat]
  BY DEF FreeKinect
<1>3. g \in [open : BOOLEAN, count : Nat]
  BY <1>1
<1>4. KinectStarted(c, found, opened) = IF g.open /\ ~opened THEN FreeKinect(g) ELSE g
  BY DEF KinectStarted
<1> HIDE DEF g
<1>5. CASE g.open /\ ~opened
  BY <1>1, <1>2, <1>3, <1>4, <1>5
<1>6. CASE ~(g.open /\ ~opened)
  BY <1>1, <1>2, <1>3, <1>4, <1>6
<1>7. QED
  BY <1>5, <1>6

Other(c) == IF c = "color" THEN "depth" ELSE "color"

\* One camera's change, which leaves the other alone.
LEMMA CountedAgain ==
  ASSUME Counted, NEW c \in Kinects, NEW me \in Camera,
         camera' = [camera EXCEPT ![c] = me],
         kinect' \in [open : BOOLEAN, count : Nat],
         LET m == Held(Other(c)) + (IF me.held THEN 1 ELSE 0)
         IN  m <= kinect'.count /\ (m > 0 => kinect'.open)
  PROVE  Counted'
<1>1. /\ camera' \in [Cameras -> Camera] /\ camera'[c] = me
      /\ camera'[Other(c)] = camera[Other(c)]
  BY DEF Counted, Cameras, Kinects, Other
<1>2. Held("color")' + Held("depth")' = Held(Other(c)) + (IF me.held THEN 1 ELSE 0)
  BY <1>1 DEF Held, Other, Kinects
<1>3. QED
  BY <1>1, <1>2 DEF Counted

LEMMA OpensKeeps ==
  ASSUME Counted, NEW c \in Cameras, NEW me \in Camera,
         NEW found \in BOOLEAN, NEW opened \in BOOLEAN, Opens(c, me, found, opened)
  PROVE  Counted'
<1> DEFINE now == Opened(c, me, found, opened)
<1>1. camera' = [camera EXCEPT ![c] = now] /\ kinect' = KinectStarted(c, found, opened)
  BY DEF Opens
<1>2. now \in Camera
  BY DEF Opened, Camera
<1>3. CASE c \in Kinects
  <2>1. now.held = (opened /\ (kinect.open \/ found))
    BY <1>3 DEF Opened, Camera
  <2>2. /\ kinect \in [open : BOOLEAN, count : Nat]
        /\ Held(c) \in {0, 1} /\ Held(Other(c)) \in {0, 1}
        /\ Held(Other(c)) + Held(c) = Held("color") + Held("depth")
    BY <1>3 DEF Counted, Held, Other, Kinects
  <2>3. /\ Held(Other(c)) + Held(c) <= kinect.count
        /\ Held(Other(c)) + Held(c) > 0 => kinect.open
    BY <2>2 DEF Counted
  <2> DEFINE n == Held(Other(c))
  <2> HIDE DEF now, n
  <2>4. n \in {0, 1}
    BY <2>2 DEF n
  <2>5. LET m == IF opened /\ (kinect.open \/ found) THEN n + 1 ELSE n
        IN  /\ kinect' \in [open : BOOLEAN, count : Nat]
            /\ m <= kinect'.count /\ (m > 0 => kinect'.open)
    BY <1>1, <1>3, <2>2, <2>3, <2>4, KinectCounts DEF n
  <2>6. n + (IF now.held THEN 1 ELSE 0)
          = IF opened /\ (kinect.open \/ found) THEN n + 1 ELSE n
    BY <2>1, <2>4
  <2>7. QED
    BY <1>1, <1>2, <1>3, <2>5, <2>6, CountedAgain DEF n
<1>4. CASE c = "opencv"
  BY <1>1, <1>2, <1>4 DEF Counted, Held, Cameras, Kinects, KinectStarted
<1>5. QED
  BY <1>3, <1>4 DEF Cameras

LEMMA ClosesKeeps ==
  ASSUME Counted, NEW c \in Cameras, NEW me \in Camera, Closes(c, me)
  PROVE  Counted'
<1> DEFINE now == Closed(me)
<1>1. camera' = [camera EXCEPT ![c] = now] /\ kinect' = KinectStopped(c)
  BY DEF Closes
<1>2. now \in Camera /\ now.held = FALSE
  BY DEF Closed, Camera
<1> HIDE DEF now
<1>3. CASE c \in Kinects
  <2>1. /\ kinect \in [open : BOOLEAN, count : Nat]
        /\ Held(c) \in {0, 1} /\ Held(Other(c)) \in {0, 1}
        /\ Held(Other(c)) + Held(c) = Held("color") + Held("depth")
        /\ camera[c].held <=> Held(c) = 1
    BY <1>3 DEF Counted, Held, Other, Kinects
  <2>2. /\ Held(Other(c)) + Held(c) <= kinect.count
        /\ Held(Other(c)) + Held(c) > 0 => kinect.open
    BY <2>1 DEF Counted
  <2> DEFINE n == Held(Other(c))
             h == Held(c)
  <2>3. kinect' = IF h = 1 THEN FreeKinect(kinect) ELSE kinect
    BY <1>1, <1>3, <2>1 DEF KinectStopped
  <2> HIDE DEF n, h
  <2>4. n \in {0, 1} /\ h \in {0, 1}
    BY <2>1 DEF n, h
  <2>5. /\ kinect' \in [open : BOOLEAN, count : Nat]
        /\ n <= kinect'.count /\ (n > 0 => kinect'.open)
    BY <1>3, <2>1, <2>2, <2>3, <2>4, KinectCounts DEF n, h
  <2>6. n + (IF now.held THEN 1 ELSE 0) = n
    BY <1>2, <2>4
  <2>7. QED
    BY <1>1, <1>2, <1>3, <2>5, <2>6, CountedAgain DEF n
<1>4. CASE c = "opencv"
  BY <1>1, <1>2, <1>4 DEF Counted, Held, Cameras, Kinects, KinectStopped
<1>5. QED
  BY <1>3, <1>4 DEF Cameras

\* What a camera's flags say of each other.
CameraFits(me) ==
    /\ me.started /\ me.paused = 0 /\ ~me.failed => me.timer
    /\ me.timer => me.paused = 0
    /\ me.timer /\ ~me.twice => me.held

CamerasInv == Counted /\ \A c \in Cameras : CameraFits(camera[c])

LEMMA OpenedFits ==
  ASSUME NEW c \in Cameras, NEW me \in Camera, NEW found \in BOOLEAN, NEW opened \in BOOLEAN,
         me.paused = 0
  PROVE  CameraFits(Opened(c, me, found, opened))
<1> DEFINE runs == opened /\ (c \in Kinects => kinect.open \/ found)
<1>1. Opened(c, me, found, opened) =
        [me EXCEPT !.timer = me.timer \/ runs, !.held = runs \/ c \notin Kinects,
                   !.failed = ~runs, !.twice = me.twice \/ me.timer]
  BY DEF Opened
<1>2. CASE runs
  BY <1>1, <1>2 DEF CameraFits, Camera
<1>3. CASE ~runs
  BY <1>1, <1>3 DEF CameraFits, Camera
<1>4. QED
  BY <1>2, <1>3

LEMMA CameraStepKeeps ==
  ASSUME CamerasInv, NEW c \in Cameras,
         CameraStart(c) \/ CameraStop(c) \/ CameraPause(c) \/ CameraResume(c)
  PROVE  CamerasInv'
<1>1. /\ camera[c] \in Camera /\ CameraFits(camera[c])
      /\ camera \in [Cameras -> Camera]
  BY DEF CamerasInv, Counted
<1>2. ASSUME NEW me \in Camera, Changes(c, me), me.held = camera[c].held, CameraFits(me)
      PROVE  CamerasInv'
  <2>1. Counted'
    <3>1. /\ camera' \in [Cameras -> Camera] /\ kinect' = kinect
          /\ \A d \in Cameras : camera'[d].held = camera[d].held
      BY <1>1, <1>2 DEF Changes
    <3>2. Held("color")' = Held("color") /\ Held("depth")' = Held("depth")
      BY <3>1 DEF Held, Cameras, Kinects
    <3>3. QED
      BY <3>1, <3>2 DEF CamerasInv, Counted
  <2>2. QED
    BY <1>1, <1>2, <2>1 DEF CamerasInv, Changes
<1>3. ASSUME NEW me \in Camera, Closes(c, me), me.started => me.paused > 0
      PROVE  CamerasInv'
  <2>1. CameraFits(Closed(me))
    BY <1>3 DEF CameraFits, Closed, Camera
  <2>2. QED
    BY <1>1, <1>3, <2>1, ClosesKeeps DEF CamerasInv, Closes
<1>4. ASSUME NEW me \in Camera, NEW found \in BOOLEAN, NEW opened \in BOOLEAN,
             Opens(c, me, found, opened), me.paused = 0
      PROVE  CamerasInv'
  BY <1>1, <1>4, OpensKeeps, OpenedFits DEF CamerasInv, Opens
<1>5. CASE CameraStart(c)
  <2> DEFINE me == [camera[c] EXCEPT !.started = TRUE]
  <2>1. /\ me \in Camera /\ me.held = camera[c].held /\ me.paused = camera[c].paused
        /\ me.timer = camera[c].timer /\ me.twice = camera[c].twice /\ me.paused \in Nat
    BY <1>1 DEF Camera
  <2>2. me.paused > 0 => CameraFits(me)
    <3> HIDE DEF me
    <3>1. QED
      BY <1>1, <2>1 DEF CameraFits
  <2>3. \/ me.paused = 0 /\ \E found, opened \in BOOLEAN : Opens(c, me, found, opened)
        \/ me.paused > 0 /\ Changes(c, me)
    BY <1>5 DEF CameraStart
  <2> HIDE DEF me
  <2>4. QED
    BY <1>2, <1>4, <2>1, <2>2, <2>3
<1>6. CASE CameraStop(c)
  <2>1. [camera[c] EXCEPT !.started = FALSE] \in Camera
    BY <1>1 DEF Camera
  <2>2. [camera[c] EXCEPT !.started = FALSE].started = FALSE
    BY <1>1 DEF Camera
  <2>3. QED
    BY <1>3, <1>6, <2>1, <2>2 DEF CameraStop
<1>7. CASE CameraPause(c)
  <2> DEFINE me == [camera[c] EXCEPT !.paused = @ + 1]
  <2>1. /\ me \in Camera /\ me.held = camera[c].held /\ me.paused = camera[c].paused + 1
        /\ camera[c].paused \in Nat
        /\ camera[c].paused > 0 => CameraFits(me)
    BY <1>1 DEF Camera, CameraFits
  <2>2. \/ Closes(c, me)
        \/ camera[c].paused > 0 /\ Changes(c, me)
    BY <1>7 DEF CameraPause
  <2> HIDE DEF me
  <2>3. QED
    BY <1>2, <1>3, <2>1, <2>2
<1>8. CASE CameraResume(c)
  <2> DEFINE me == [camera[c] EXCEPT !.paused = @ - 1]
  <2>1. /\ camera[c].paused \in Nat /\ camera[c].paused - 1 \in Nat
        /\ me.held = camera[c].held /\ me.paused = camera[c].paused - 1
    BY <1>1, <1>8 DEF Camera, CameraResume
  <2>2. me \in Camera
    BY <1>1, <2>1 DEF Camera
  <2>3. me.paused > 0 => CameraFits(me)
    BY <1>1, <2>1 DEF Camera, CameraFits
  <2>4. \/ me.paused = 0 /\ \E found, opened \in BOOLEAN : Opens(c, me, found, opened)
        \/ me.paused > 0 /\ Changes(c, me)
    BY <1>8 DEF CameraResume
  <2> HIDE DEF me
  <2>5. QED
    BY <1>2, <1>4, <2>1, <2>2, <2>3, <2>4
<1>9. QED
  BY <1>5, <1>6, <1>7, <1>8

LEMMA CamerasInitHolds ==
  ASSUME Init
  PROVE  CamerasInv
<1> DEFINE first == [started |-> FALSE, paused |-> 0, timer |-> FALSE, held |-> FALSE,
                     failed |-> FALSE, twice |-> FALSE]
<1>1. kinect = [open |-> FALSE, count |-> 0] /\ camera = [c \in Cameras |-> first]
  BY DEF Init, CamerasInit
<1>2. first \in Camera
  BY DEF Camera
<1>3. first.timer = FALSE /\ first.held = FALSE /\ first.started = FALSE
  OBVIOUS
<1> HIDE DEF first
<1>4. Held("color") = 0 /\ Held("depth") = 0
  BY <1>1, <1>3 DEF Held, Cameras, Kinects
<1>5. CameraFits(first)
  BY <1>3 DEF CameraFits
<1>6. QED
  BY <1>1, <1>2, <1>4, <1>5 DEF CamerasInv, Counted

LEMMA CamerasNextKeeps ==
  ASSUME CamerasInv, [Next]_vars
  PROVE  CamerasInv'
<1>1. CASE CameraStep
  BY <1>1, CameraStepKeeps DEF CameraStep, CamerasNext
<1>2. CASE UNCHANGED camVars
  BY <1>2 DEF camVars, CamerasInv, Counted, Held
<1>3. QED
  BY <1>1, <1>2 DEF Next, StartStep, StopStep, WaitedStep, PauseStep, AnswerStep,
     CaptureStep, HealthStep, InCheck, RaiseStep, RaisedStep, NewsStep, SettleStep,
     MoveStep, Threads, vars

LEMMA CamerasInvariant == Spec => []CamerasInv
  BY CamerasNextKeeps, CamerasInitHolds, PTL DEF Spec

\* The shared Kinect is open as long as a camera holds it, and is counted at
\* least once for each.
THEOREM KinectOutlivesHolders == Spec => []SharedSensorLives
<1>1. CamerasInv => SharedSensorLives
  BY HoldersCounted DEF CamerasInv, Counted, SharedSensorLives
<1>2. QED
  BY <1>1, CamerasInvariant, PTL

\* A camera on a timer runs when it is wanted and only then.
THEOREM CamerasRunWhenWanted == Spec => []RunsWhenWanted
<1>1. CamerasInv => RunsWhenWanted
  BY DEF CamerasInv, CameraFits, RunsWhenWanted
<1>2. QED
  BY <1>1, CamerasInvariant, PTL

-----------------------------------------------------------------------------
(* Types, of the health sensor too.                                        *)

LEMMA HealthTypes ==
  ASSUME NEW h \in HealthState, NEW posture \in Postures
  PROVE  /\ OnPostureChanged(h, posture) \in HealthState
         /\ SetPostureId(h, posture) \in HealthState
         /\ Watched(h) \in HealthState /\ Unwatched(h) \in HealthState
         /\ h.at # "raising" => Checked(h) \in HealthState
<1>1. \A g \in HealthState, p \in Postures : OnPostureChanged(g, p) \in HealthState
  BY DEF HealthState, OnPostureChanged
<1>2. \A p \in Postures : [h EXCEPT !.posture = p] \in HealthState
  BY DEF HealthState
<1>3. SetPostureId(h, posture) \in HealthState
  BY <1>1, <1>2 DEF SetPostureId
<1>4. [h EXCEPT !.listed = TRUE, !.at = "check"] \in HealthState /\ Unwatched(h) \in HealthState
  BY DEF HealthState, Unwatched
<1>5. Watched(h) \in HealthState
  BY <1>1, <1>4 DEF Watched, Postures
<1>6. ASSUME h.at # "raising"
      PROVE  Checked(h) \in HealthState
  <2>1. h.at \in {"check", "raised"}
    BY <1>6 DEF HealthState
  <2>2. /\ [h EXCEPT !.at = "check"] \in HealthState
        /\ [h EXCEPT !.told = TRUE] \in HealthState
        /\ [h EXCEPT !.count = 0] \in HealthState
    BY DEF HealthState
  <2>3. h.count = 0 \/ h.count > 0
    BY DEF HealthState
  <2>4. \/ Checked(h) = [h EXCEPT !.at = "check"]
        \/ Checked(h) = [h EXCEPT !.told = TRUE]
        \/ Checked(h) = h
        \/ Checked(h) = [h EXCEPT !.count = 0]
    <3>1. CASE h.at = "raised"
      BY <3>1 DEF Checked
    <3>2. CASE h.at = "check" /\ Fallen(h) /\ h.count > 0
      BY <3>2 DEF Checked
    <3>3. CASE h.at = "check" /\ Fallen(h) /\ h.count = 0
      BY <3>3 DEF Checked
    <3>4. CASE h.at = "check" /\ ~Fallen(h)
      BY <3>4 DEF Checked
    <3>5. QED
      BY <2>1, <2>3, <3>1, <3>2, <3>3, <3>4
  <2>5. QED
    BY <2>2, <2>4
<1>7. QED
  BY <1>1, <1>3, <1>4, <1>5, <1>6

\* The bounds that the invariant of the threads leaves out.
Typed == CaptureInv /\ CamerasInv /\ SensorsTypeOK

LEMMA HealthTyped ==
  ASSUME Typed, Next
  PROVE  health' \in HealthState
<1>1. health \in HealthState
  BY DEF Typed, SensorsTypeOK
<1>2. "Stand" \in Postures
  BY DEF Postures
<1>3. CASE UNCHANGED health
  BY <1>1, <1>3
<1>4. CASE StartStep \/ StopStep
  BY <1>1, <1>2, <1>4, HealthTypes DEF StartStep, StopStep, Handled
<1>5. CASE WaitedStep \/ PauseStep \/ AnswerStep \/ CameraStep
  BY <1>1, <1>5 DEF WaitedStep, PauseStep, AnswerStep, CameraStep
<1>6. ASSUME NEW t \in Captures, CaptureStep(t)
      PROVE  health' \in HealthState
  BY <1>1, <1>2, <1>6, HealthTypes DEF CaptureStep, Turn
<1>7. CASE RaiseStep
  <2>1. health' = [SetPostureId(health, "Stand") EXCEPT !.at = "raising"]
    BY <1>7 DEF RaiseStep, RaiseBegins
  <2>2. SetPostureId(health, "Stand") \in HealthState
    BY <1>1, <1>2, HealthTypes
  <2>3. QED
    BY <2>1, <2>2 DEF HealthState
<1>8. CASE RaisedStep
  <2>1. health' = [health EXCEPT !.at = "raised", !.count = health.count + 1]
    BY <1>8 DEF RaisedStep, RaiseEnds
  <2>2. health.count + 1 \in Nat
    BY <1>1 DEF HealthState
  <2>3. QED
    BY <1>1, <2>1, <2>2 DEF HealthState
<1>9. CASE NewsStep
  <2>1. health.news \in Seq(Postures) /\ health.news # << >>
    BY <1>1, <1>9 DEF NewsStep, PostureReported, HealthState
  <2>2. Head(health.news) \in Postures /\ Tail(health.news) \in Seq(Postures)
    BY <2>1
  <2>3. [health EXCEPT !.news = Tail(@)] \in HealthState
    BY <1>1, <2>2 DEF HealthState
  <2>4. QED
    BY <1>9, <2>2, <2>3, HealthTypes DEF NewsStep, PostureReported
<1>10. CASE SettleStep
  BY <1>1, <1>10 DEF SettleStep, Settles, HealthState
<1>11. CASE MoveStep
  <2>1. PICK posture \in Postures :
          health' = [health EXCEPT !.moves = @ + 1, !.news = Append(@, posture)]
    BY <1>11 DEF MoveStep, Moves
  <2>2. health.news \in Seq(Postures) /\ health.moves + 1 \in Nat
    BY <1>1 DEF HealthState
  <2>3. Append(health.news, posture) \in Seq(Postures)
    BY <2>2
  <2>4. QED
    BY <1>1, <2>1, <2>2, <2>3 DEF HealthState
<1>12. QED
  BY <1>4, <1>5, <1>6, <1>7, <1>8, <1>9, <1>10, <1>11 DEF Next, HealthStep

LEMMA BoundsKept ==
  ASSUME Typed, Next
  PROVE  cap'.starts \in 0 .. MaxStarts /\ overheard' \in 0 .. 2
         /\ main' \in {"free", "stopping"} /\ device' = device
<1>1. /\ cap.starts \in 0 .. MaxStarts /\ overheard \in 0 .. 2
      /\ main \in {"free", "stopping"} /\ MaxStarts \in Nat
      /\ cap \in [starts : 0 .. MaxStarts, started : BOOLEAN, stop : BOOLEAN,
                  stopped : BOOLEAN, asked : Nat]
  BY CapturesAssumption DEF Typed, SensorsTypeOK, CaptureTypeOK
<1>2. Overhears => overheard' \in 0 .. 2
  BY <1>1 DEF Overhears
<1>3. CASE StartStep
  <2>1. cap.starts < MaxStarts /\ cap' = Restarted(cap) /\ UNCHANGED <<overheard, main, device>>
    BY <1>3 DEF StartStep, OnStart, Threads
  <2>2. cap'.starts = cap.starts + 1
    BY <2>1, RestartedFields DEF Typed, CaptureInv
  <2>3. QED
    BY <1>1, <2>1, <2>2
<1>4. CASE StopStep \/ WaitedStep
  BY <1>1, <1>4 DEF StopStep, OnStop, WaitedStep, OnStopReturns, Threads
<1>5. CASE PauseStep \/ AnswerStep
  <2>1. UNCHANGED <<main, device>>
    BY <1>5 DEF PauseStep, OnPause, OnResume, AnswerStep, OnGetImage, Threads
  <2>2. cap'.starts = cap.starts
    BY <1>1, <1>5 DEF PauseStep, OnPause, OnResume, AnswerStep, OnGetImage
  <2>3. overheard' \in 0 .. 2
    BY <1>1, <1>2, <1>5 DEF PauseStep, OnPause, OnResume, AnswerStep, OnGetImage
  <2>4. QED
    BY <1>1, <2>1, <2>2, <2>3
<1>6. ASSUME NEW t \in Captures, CaptureStep(t)
      PROVE  cap'.starts \in 0 .. MaxStarts /\ overheard' \in 0 .. 2
             /\ main' \in {"free", "stopping"} /\ device' = device
  <2>1. UNCHANGED <<main, device>> /\ ThreadStep(t)
    BY <1>6 DEF CaptureStep, Threads, ThreadStep, Begins, DeviceOpens, LoopHead, Grabs, Posts,
       Asks, Fails, Failed, Leaves
  <2>2. UNCHANGED overheard \/ Overhears
    BY <2>1 DEF ThreadStep, Begins, DeviceOpens, LoopHead, Grabs, Posts, Asks, Fails, Failed,
       Leaves
  <2>3. cap'.starts = cap.starts
    BY <1>1, <2>1 DEF ThreadStep, Begins, DeviceOpens, LoopHead, Grabs, Posts, Asks, Fails,
       Failed, Leaves
  <2>4. QED
    BY <1>1, <1>2, <2>1, <2>2, <2>3
<1>7. CASE CameraStep \/ HealthStep
  BY <1>1, <1>7 DEF CameraStep, HealthStep, InCheck, RaiseStep, RaisedStep, NewsStep, SettleStep,
     MoveStep, capVars
<1>8. QED
  BY <1>3, <1>4, <1>5, <1>6, <1>7 DEF Next

\* Every variable of the sensors keeps its type, of the flags and threads, the
\* timed cameras and the health sensor with its posture.
THEOREM SensorsTyped == Spec => []SensorsTypeOK
<1>1. ASSUME Init
      PROVE  Typed
  <2>1. CaptureInv /\ CamerasInv
    BY <1>1, CaptureInitHolds, CamerasInitHolds
  <2>2. health \in HealthState
    <3>1. << >> \in Seq(Postures)
      OBVIOUS
    <3>2. QED
      BY <1>1, <3>1 DEF Init, HealthInit, HealthState, Postures
  <2>3. cap.starts = 0 /\ overheard = 0 /\ main = "free"
    BY <1>1 DEF Init, CaptureInit
  <2>4. QED
    BY <1>1, <2>1, <2>2, <2>3, CapturesAssumption DEF Init, Typed, SensorsTypeOK, CaptureTypeOK,
       CamerasTypeOK, CaptureInv, CapType, CamerasInv, Counted
<1>2. ASSUME Typed, [Next]_vars
      PROVE  Typed'
  <2>1. CASE UNCHANGED vars
    BY <1>2, <2>1, CaptureStepKeeps DEF vars, capVars, camVars, Typed, SensorsTypeOK,
       CaptureTypeOK, CamerasTypeOK, CamerasInv, Counted, Held
  <2>2. CASE Next
    <3>1. CaptureInv'
      BY <1>2, CaptureStepKeeps DEF Typed
    <3>2. CamerasInv'
      BY <1>2, CamerasNextKeeps DEF Typed
    <3>3. health' \in HealthState
      BY <1>2, <2>2, HealthTyped
    <3>4. QED
      BY <1>2, <2>2, <3>1, <3>2, <3>3, BoundsKept DEF Typed, SensorsTypeOK, CaptureTypeOK,
         CamerasTypeOK, CaptureInv, CapType, CamerasInv, Counted
  <2>3. QED
    BY <1>2, <2>1, <2>2
<1>3. Typed => SensorsTypeOK
  BY DEF Typed
<1>4. QED
  BY <1>1, <1>2, <1>3, PTL DEF Spec

-----------------------------------------------------------------------------
(* The count of falls.                                                     *)

\* While the robot is being raised nothing has been counted yet.
FallsCounted(h) ==
    /\ h.count \in {0, 1}
    /\ h.told => Fallen(h) /\ h.count = 1
    /\ h.at = "raising" => h.count = 0

LEMMA PostureCounts ==
  ASSUME NEW h \in HealthState, NEW posture \in Postures, FallsCounted(h)
  PROVE  /\ FallsCounted(OnPostureChanged(h, posture))
         /\ FallsCounted(SetPostureId(h, posture))
<1>1. ASSUME NEW g \in HealthState, FallsCounted(g)
      PROVE  FallsCounted(OnPostureChanged(g, posture))
  BY <1>1 DEF HealthState, FallsCounted, OnPostureChanged
<1>2. [h EXCEPT !.posture = posture] \in HealthState
      /\ FallsCounted([h EXCEPT !.posture = posture])
  BY DEF HealthState, FallsCounted, Fallen
<1>3. QED
  BY <1>1, <1>2 DEF SetPostureId

LEMMA FallsStep ==
  ASSUME health \in HealthState, FallsCounted(health), [Next]_vars
  PROVE  FallsCounted(health')
<1> USE DEF HealthState
<1>1. CASE UNCHANGED health
  BY <1>1
<1>2. CASE StartStep
  <2>1. "Stand" \in Postures /\ IsStablePosture("Stand")
    BY DEF Postures, IsStablePosture
  <2>2. Watched(health).count = 0 /\ Watched(health).told = FALSE
    BY <2>1 DEF Watched, OnPostureChanged
  <2>3. FallsCounted(Watched(health))
    BY <2>2 DEF FallsCounted
  <2>4. QED
    BY <1>2, <2>3 DEF StartStep, Handled
<1>3. CASE StopStep
  <2>1. FallsCounted(Unwatched(health))
    BY DEF FallsCounted, Unwatched, Fallen
  <2>2. QED
    BY <1>3, <2>1 DEF StopStep, Handled
<1>4. ASSUME NEW t \in Captures, CaptureStep(t)
      PROVE  FallsCounted(health')
  <2>1. UNCHANGED health \/ health' = Checked(health)
    BY <1>4 DEF CaptureStep, Turn
  <2>2. health.at \in {"check", "raised"}
    BY <1>4 DEF CaptureStep
  <2>3. CASE health.at = "raised"
    <3>1. Checked(health) = [health EXCEPT !.at = "check"]
      BY <2>3 DEF Checked
    <3>2. FallsCounted([health EXCEPT !.at = "check"])
      BY DEF FallsCounted, Fallen
    <3>3. QED
      BY <2>1, <3>1, <3>2
  <2>4. CASE health.at = "check" /\ Fallen(health) /\ health.count > 0
    <3>1. Checked(health) = [health EXCEPT !.told = TRUE]
      BY <2>4 DEF Checked
    <3>2. FallsCounted([health EXCEPT !.told = TRUE])
      BY <2>4 DEF FallsCounted, Fallen
    <3>3. QED
      BY <2>1, <3>1, <3>2
  <2>5. CASE health.at = "check" /\ Fallen(health) /\ health.count = 0
    BY <2>1, <2>5 DEF Checked
  <2>6. CASE health.at = "check" /\ ~Fallen(health)
    <3>1. Checked(health) = [health EXCEPT !.count = 0]
      BY <2>6 DEF Checked
    <3>2. FallsCounted([health EXCEPT !.count = 0])
      BY <2>6 DEF FallsCounted, Fallen
    <3>3. QED
      BY <2>1, <3>1, <3>2
  <2>7. QED
    BY <2>2, <2>3, <2>4, <2>5, <2>6
<1>5. CASE RaiseStep
  <2>1. /\ health' = [SetPostureId(health, "Stand") EXCEPT !.at = "raising"]
        /\ health.count = 0
    BY <1>5 DEF RaiseStep, RaiseBegins, Raises
  <2> DEFINE h == SetPostureId(health, "Stand")
  <2>2. h \in HealthState /\ FallsCounted(h)
    BY HealthTypes, PostureCounts DEF Postures
  <2>3. h.count = 0
    BY <2>1 DEF SetPostureId, OnPostureChanged
  <2> HIDE DEF h
  <2>4. QED
    BY <2>1, <2>2, <2>3 DEF FallsCounted, Fallen, h
<1>6. CASE RaisedStep
  <2>1. health' = [health EXCEPT !.at = "raised", !.count = health.count + 1]
        /\ health.at = "raising"
    BY <1>6 DEF RaisedStep, RaiseEnds
  <2>2. QED
    BY <2>1 DEF FallsCounted, Fallen
<1>7. CASE NewsStep
  <2>1. health.news \in Seq(Postures) /\ health.news # << >>
    BY <1>7 DEF NewsStep, PostureReported
  <2>2. Head(health.news) \in Postures /\ Tail(health.news) \in Seq(Postures)
    BY <2>1
  <2> DEFINE h == [health EXCEPT !.news = Tail(@)]
  <2>3. h \in HealthState
    BY <2>2
  <2>4. FallsCounted(h)
    BY DEF FallsCounted, Fallen
  <2>5. health' = SetPostureId(h, Head(health.news))
    BY <1>7 DEF NewsStep, PostureReported
  <2> HIDE DEF h
  <2>6. QED
    BY <2>2, <2>3, <2>4, <2>5, PostureCounts
<1>8. CASE SettleStep
  BY <1>8 DEF SettleStep, Settles, FallsCounted, Fallen
<1>9. CASE MoveStep
  BY <1>9 DEF MoveStep, Moves, FallsCounted, Fallen
<1>10. QED
  BY <1>1, <1>2, <1>3, <1>4, <1>5, <1>6, <1>7, <1>8, <1>9 DEF Next, HealthStep, WaitedStep,
     PauseStep, AnswerStep, CameraStep, vars

\* Whatever the robot and its platform announce while the thread of
\* NaoHealthSensor waits for SetPosture, a failure is reported only of a robot
\* that is down, and after a single call of SetPosture.
THEOREM FailuresAreReal == Spec => []FailureIsReal
<1>1. ASSUME Init
      PROVE  FallsCounted(health)
  BY <1>1 DEF Init, HealthInit, FallsCounted
<1>2. SensorsTypeOK => health \in HealthState
  BY DEF SensorsTypeOK
<1>3. FallsCounted(health) => FailureIsReal
  BY DEF FallsCounted, FailureIsReal
<1> DEFINE Inv == FallsCounted(health)
<1>4. Init => Inv
  BY <1>1
<1>5. SensorsTypeOK /\ Inv /\ [Next]_vars => Inv'
  BY <1>2, FallsStep
<1>6. Inv => FailureIsReal
  BY <1>3
<1> HIDE DEF Inv
<1>7. QED
  BY <1>4, <1>5, <1>6, SensorsTyped, PTL DEF Spec
=============================================================================
