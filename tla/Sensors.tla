------------------------------ MODULE Sensors ------------------------------
(***************************************************************************)
(* One capture sensor with a thread of its own, or the cameras that run on *)
(* timers.  Two sensors meet nowhere but in the main thread, which one of  *)
(* them blocks in OnStop, so that each is taken alone.  The thread of      *)
(* NaoHealthSensor does not capture: its turns are the checks of module    *)
(* NaoHealth, in the midst of which it may wait for the robot to get up.   *)
(***************************************************************************)
EXTENDS CaptureSensors, TimedCameras, NaoHealth

vars == <<device, pauses, capVars, camVars, health>>

Timed == Sensor("timed", Flags, {FALSE}, "never", {})

Init ==
    /\ device \in CaptureDevices \cup {Timed}
    /\ pauses = 0
    /\ CaptureInit
    /\ CamerasInit
    /\ HealthInit

Threads == device # Timed /\ UNCHANGED <<device, camVars>>

\* What a step of the thread is for the health sensor: the end of a check, or
\* a step beside one.
Turn(t) ==
    IF device = NaoHealthSensor /\ Grabs(t)
    THEN ~Raises(health) /\ health' = Checked(health)
    ELSE UNCHANGED health

Handled(h) == health' = IF device = NaoHealthSensor THEN h ELSE health

\* NaoHealthSensor has no OnPause.
Pausable == device # NaoHealthSensor

StartStep  == OnStart /\ Threads /\ Handled(Watched(health))
StopStep   == OnStop /\ Threads /\ Handled(Unwatched(health))
WaitedStep == OnStopReturns /\ Threads /\ UNCHANGED health
PauseStep  == (OnPause \/ OnResume) /\ Pausable /\ Threads /\ UNCHANGED health
AnswerStep == OnGetImage /\ Threads /\ UNCHANGED health
CaptureStep(t) == ThreadStep(t) /\ health.at # "raising" /\ Turn(t) /\ Threads
CameraStep == CamerasNext /\ device = Timed /\ UNCHANGED <<device, pauses, capVars, health>>

\* The robot's posture and its sensor; while it waits for SetPosture the thread
\* stays where it is.
InCheck == device = NaoHealthSensor /\ UNCHANGED <<device, pauses, capVars, camVars>>

RaiseStep == (\E t \in Captures : thread[t] = "grabbing") /\ RaiseBegins /\ InCheck
RaisedStep == RaiseEnds /\ InCheck
NewsStep == PostureReported /\ InCheck
SettleStep == Settles /\ InCheck
MoveStep == (\E posture \in Postures : Moves(posture)) /\ InCheck

HealthStep == RaiseStep \/ RaisedStep \/ NewsStep \/ SettleStep \/ MoveStep

Next ==
    \/ StartStep \/ StopStep \/ WaitedStep \/ PauseStep \/ AnswerStep
    \/ \E t \in Captures : CaptureStep(t)
    \/ CameraStep
    \/ HealthStep

\* The threads run, the main thread leaves its wait once it may, and GetImage
\* is answered; goToPosture ends, one way or another, and time passes.  Nobody
\* must start, stop or pause anything, nor the robot move.
Fairness ==
    /\ WF_vars(WaitedStep)
    /\ WF_vars(AnswerStep)
    /\ \A t \in Captures : WF_vars(CaptureStep(t))
    /\ WF_vars(RaiseStep) /\ WF_vars(RaisedStep) /\ WF_vars(SettleStep)

Spec == Init /\ [][Next]_vars
FairSpec == Spec /\ Fairness

\* The types of all of them.
SensorsTypeOK ==
    /\ device \in CaptureDevices \cup {Timed}
    /\ CaptureTypeOK
    /\ CamerasTypeOK
    /\ health \in HealthState

-----------------------------------------------------------------------------
\* NaoHealthSensor is started and nothing has ended its thread.
Watching ==
    /\ device = NaoHealthSensor /\ cap.started /\ main = "free"
    /\ \E t \in Captures : thread[t] \in {"posted", "opening", "looping", "grabbing"}

\* A robot whose last posture is not stable is raised, or reported as one that
\* could not be: neither the wait for SetPosture, during which the posture and
\* the count change on other threads, nor a count left from an earlier fall
\* makes the sensor overlook it.
FallsAreAttended ==
    (Watching /\ Fallen(health))
        ~> (health.at = "raising" \/ health.told \/ ~Fallen(health) \/ ~Watching)
=============================================================================
