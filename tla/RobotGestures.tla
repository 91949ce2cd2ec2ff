--------------------------- MODULE RobotGestures ---------------------------
(***************************************************************************)
(* One gesture of one platform together with the platform's microphone:    *)
(* both run their handlers on the main thread, and share the count of      *)
(* pauses.                                                                 *)
(***************************************************************************)
EXTENDS RosMove, RosPlatform

vars == <<micVars, paused, gestureVars, winVars, rosVars, platformVars>>

Init ==
    /\ MicInit
    /\ kind \in QueuedKinds \cup {WinSpeechGesture}
    /\ GestureInit
    /\ WinInit
    /\ RosInit
    /\ PlatformInit

NoRos == UNCHANGED <<rosVars, platformVars>>

OthersIdle == kind.mic /\ UNCHANGED <<gestureVars, winVars>> /\ NoRos

MicStarts == OnStart /\ OthersIdle
MicStops  == OnStop /\ OthersIdle
MicWaited == OnStopReturns /\ OthersIdle
MicThread == (\E t \in Captures : ReceiveData(t)) /\ OthersIdle

GestureAsked   == Execute /\ UNCHANGED winVars /\ NoRos
GestureVoices  == OnVoices /\ UNCHANGED winVars /\ NoRos
GestureAborted == Abort /\ UNCHANGED winVars /\ NoRos
GestureData    == (\E r \in Requests : OnSpeechData(r)) /\ UNCHANGED winVars /\ NoRos
GestureThread  == (\E r \in Requests : ThreadEnds(r)) /\ UNCHANGED winVars /\ NoRos
GestureDone    ==
    (\E r \in Requests : OnDone(r) \/ DonePops(r) \/ DonePlays(r))
        /\ UNCHANGED winVars /\ NoRos

WinAsked    == WinExecute /\ NoRos
WinVoices   == WinOnVoices /\ NoRos
WinAborted  == WinAbort /\ NoRos
WinPiece    == (\E r \in Requests : WinOnSpeechPiece(r)) /\ NoRos
WinNull     == (\E r \in Requests : WinOnSpeechNull(r)) /\ NoRos
WinEnds     == WinPlayEnds /\ NoRos
WinDone     == WinOnSpeechDone /\ NoRos

\* The first goal instantiates the platform, whose client then carries the
\* goals and the status frames.
RosGoal ==
    /\ \E r \in Requests : PublishGoal(r)
    /\ Instance \/ (platform.client > 0 /\ UNCHANGED platformVars)
    /\ UNCHANGED winVars
RosFrame ==
    /\ (platform.sock = "connected" /\ OnGoalStatusMatches) \/ OnGoalStatusSets
    /\ UNCHANGED <<winVars, platformVars>>
RosTimeout  == OnTimeout /\ UNCHANGED <<winVars, platformVars>>
RosEnds     == (\E r \in Requests : MoveThreadEnds(r)) /\ UNCHANGED <<winVars, platformVars>>

Elsewhere == UNCHANGED <<micVars, paused, gestureVars, winVars, rosVars>>

RosTimer     == ReconnectTimer /\ Elsewhere
RosState     == OnClientState /\ Elsewhere
RosSocket    == (ClientOpens \/ ClientLost) /\ Elsewhere

Next ==
    \/ MicStarts \/ MicStops \/ MicWaited \/ MicThread
    \/ GestureAsked \/ GestureVoices \/ GestureAborted
    \/ GestureData \/ GestureThread \/ GestureDone
    \/ WinAsked \/ WinVoices \/ WinAborted
    \/ WinPiece \/ WinNull \/ WinEnds \/ WinDone
    \/ RosGoal \/ RosFrame \/ RosTimeout \/ RosEnds
    \/ RosTimer \/ RosState \/ RosSocket

Spec == Init /\ [][Next]_vars

\* The service answers every request, threads and recorders go on, timers
\* fire, and the main thread and the pool run what is posted to them.  Nobody must ask or stop anything.
Fairness ==
    /\ WF_vars(MicWaited)
    /\ WF_vars(MicThread)
    /\ WF_vars(GestureVoices)
    /\ WF_vars(GestureData)
    /\ WF_vars(GestureThread)
    /\ WF_vars(GestureDone)
    /\ WF_vars(WinVoices)
    /\ WF_vars(WinNull)
    /\ WF_vars(WinEnds)
    /\ WF_vars(WinDone)
    /\ WF_vars(RosGoal)
    /\ WF_vars(RosTimeout)
    /\ WF_vars(RosEnds)
    /\ WF_vars(RosState)

FairSpec == Spec /\ Fairness

-----------------------------------------------------------------------------
(* Properties.                                                             *)

\* The variables keep the types of the code's members.
GesturesTypeOK ==
    /\ mic \in Mic
    /\ paused \in Int
    /\ mainThread \in {"free", "stopping", "playing"}
    /\ kind \in QueuedKinds \cup {WinSpeechGesture}
    /\ queue \in Seq(Requests)
    /\ stage \in [Requests -> Stages]
    /\ voices \in {"awaited", "named", "missing"}
    /\ asked \in 0 .. MaxRequests
    /\ history \in [aborted : BOOLEAN, failed : BOOLEAN, behind : BOOLEAN]
    /\ win \in Win
    /\ ros \in Ros
    /\ platform \in Platform

UnderWay == {r \in Requests : stage[r] # "none"}

\* Until something is aborted (or a stream runs dry on Windows), the robot
\* does one thing at a time, and it is the request at the front: the done
\* handlers, which pop the front whatever ended, pop the one that ended, and
\* two sounds never share the file tmp.wav.
OneAtATime ==
    ~history.aborted /\ ~history.behind =>
        \A r \in UnderWay : queue # << >> /\ r = Head(queue)

Talking ==
    \/ kind.pause = "sound" /\ kind # WinSpeechGesture
         /\ \E r \in Requests : stage[r] = "thread"
    \/ kind.pause = "queue" /\ UnderWay # {}
    \/ win.threads > 0

\* While the robot talks the microphone is paused, so that it does not hear
\* itself: the count is above zero as long as no abort and no failure has
\* resumed it once too often.
PausedWhileTalking ==
    Talking /\ ~history.aborted /\ ~history.failed /\ ~history.behind => paused > 0

Idle == queue = << >> /\ UnderWay = {} /\ win.threads = 0 /\ win.posts = 0

\* Whatever was aborted or failed, a robot that has nothing left to say
\* listens again; and on Windows, where WinMicrophone asserts it, the count
\* of pauses never goes below zero.
PausesAreReturned ==
    /\ Idle => paused <= 0
    /\ kind = WinSpeechGesture => paused >= 0

\* A capture thread starts only after the one before has closed its recorder:
\* ReceiveData never throws its "m_Stream is not NULL".
RecorderIsFresh ==
    \A t \in Captures :
        /\ mic.thread[t] # "threw"
        /\ mic.thread[t] = "posted" => ~mic.stream

\* What keeps a request waiting for ever: voices that are missing, where they
\* are waited for; a NULL sound or a missing service on the Raspberry Pi; an
\* exception in the thread of NaoMoveGesture.
Stuck ==
    \/ kind.waits /\ voices = "missing" /\ kind # WinSpeechGesture
    \/ kind.unable = "kept" /\ history.failed
    \/ kind.throws /\ history.failed

\* Every request leaves the queue, so its callback is called, unless the
\* gesture is stuck.
RequestsEnd ==
    \A r \in Requests :
        (\E i \in DOMAIN queue : queue[i] = r)
            ~> (Stuck \/ \A i \in DOMAIN queue : queue[i] # r)

=============================================================================
