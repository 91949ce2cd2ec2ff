---------------------------- MODULE TimedCameras ----------------------------
(***************************************************************************)
(* The cameras that capture on a timer: KinectCamera and KinectDepthCamera,*)
(* which share one sensor counted by GrabKinect and FreeKinect, and        *)
(* OpenCVCamera, which opens a capture of its own.  A pause stops the      *)
(* timer and the device, and the last resume starts them, whether the      *)
(* sensor base had stopped the camera meanwhile or not (external: it pairs *)
(* OnPause and OnResume, for a sensor in any state).  All of it runs on    *)
(* the main thread.  The timer's callback, which reads a frame, is left    *)
(* out.                                                                    *)
(***************************************************************************)
EXTENDS Naturals, FiniteSets

CONSTANTS
    MaxGrabs,      \* bound: sm_nSharedSensorCount
    MaxHolds      \* bound: pauses of a camera at one time

ASSUME GrabsAssumption == MaxGrabs \in Nat /\ MaxHolds \in Nat

VARIABLES
    kinect,        \* sm_pSharedSensor is set, and sm_nSharedSensorCount
    camera         \* each camera

camVars == <<kinect, camera>>

Kinects == {"color", "depth"}
Cameras == Kinects \cup {"opencv"}

(***************************************************************************)
(* "started" is the sensor base's view; "paused" is m_Paused; "timer" says *)
(* that m_spWaitTimer is set and "held" that m_pSensor or m_VideoCapture   *)
(* is; "failed" remembers that the last start failed, and "twice" that a   *)
(* running camera was started again, which overwrites what it holds.       *)
(***************************************************************************)
Camera ==
    [started : BOOLEAN, paused : Nat, timer : BOOLEAN, held : BOOLEAN,
     failed : BOOLEAN, twice : BOOLEAN]

CamerasInit ==
    /\ kinect = [open |-> FALSE, count |-> 0]
    /\ camera = [c \in Cameras |->
                    [started |-> FALSE, paused |-> 0, timer |-> FALSE,
                     held |-> FALSE, failed |-> FALSE, twice |-> FALSE]]

-----------------------------------------------------------------------------
(* GrabKinect counts even when no sensor is found; FreeKinect compares its *)
(* argument, which is the shared sensor or one that was shut down.         *)

\* Mutant: only a sensor that was just created is counted.
GrabKinect_CountsCreated(found) ==
    [open |-> kinect.open \/ found, count |-> kinect.count + (IF kinect.open THEN 0 ELSE 1)]

GrabKinect(found) == [open |-> kinect.open \/ found, count |-> kinect.count + 1]

FreeKinect(k) ==
    IF k.open THEN [open |-> k.count # 1, count |-> k.count - 1] ELSE k

\* The shared sensor after a start or a stop of camera c.
KinectStarted(c, found, opened) ==
    CASE c \notin Kinects                               -> kinect
      [] c \in Kinects /\ GrabKinect(found).open /\ ~opened -> FreeKinect(GrabKinect(found))
      [] OTHER                                          -> GrabKinect(found)

KinectStopped(c) ==
    IF c \in Kinects /\ camera[c].held THEN FreeKinect(kinect) ELSE kinect

\* The camera itself: OnStart when it is not paused, and OnStop.
Opened(c, me, found, opened) ==
    LET runs == opened /\ (c \in Kinects => kinect.open \/ found)
    IN  [me EXCEPT !.timer = @ \/ runs, !.held = runs \/ c \notin Kinects,
                   !.failed = ~runs, !.twice = @ \/ me.timer]

Closed(me) == [me EXCEPT !.timer = FALSE, !.held = FALSE, !.twice = FALSE]

\* One of them is done, or, while paused, nothing.
Opens(c, me, found, opened) ==
    /\ kinect.count < MaxGrabs
    /\ camera' = [camera EXCEPT ![c] = Opened(c, me, found, opened)]
    /\ kinect' = KinectStarted(c, found, opened)

Closes(c, me) ==
    /\ camera' = [camera EXCEPT ![c] = Closed(me)]
    /\ kinect' = KinectStopped(c)

Changes(c, me) == camera' = [camera EXCEPT ![c] = me] /\ UNCHANGED kinect

-----------------------------------------------------------------------------
CameraStart(c) ==
    LET me == [camera[c] EXCEPT !.started = TRUE]
    IN  /\ ~camera[c].started
        /\ \/ me.paused = 0 /\ \E found, opened \in BOOLEAN : Opens(c, me, found, opened)
           \/ me.paused > 0 /\ Changes(c, me)

CameraStop(c) ==
    /\ camera[c].started
    /\ Closes(c, [camera[c] EXCEPT !.started = FALSE])

CameraPause(c) ==
    LET me == [camera[c] EXCEPT !.paused = @ + 1]
    IN  /\ camera[c].paused < MaxHolds
        /\ \/ camera[c].paused = 0 /\ Closes(c, me)
           \/ camera[c].paused > 0 /\ Changes(c, me)

CameraResume(c) ==
    LET me == [camera[c] EXCEPT !.paused = @ - 1]
    IN  /\ camera[c].paused > 0
        /\ \/ me.paused = 0 /\ \E found, opened \in BOOLEAN : Opens(c, me, found, opened)
           \/ me.paused > 0 /\ Changes(c, me)

CamerasNext ==
    \E c \in Cameras : CameraStart(c) \/ CameraStop(c) \/ CameraPause(c) \/ CameraResume(c)

-----------------------------------------------------------------------------
(* Properties.                                                             *)

\* The types of the cameras' members.
CamerasTypeOK ==
    /\ kinect \in [open : BOOLEAN, count : Nat]
    /\ camera \in [Cameras -> Camera]

Holders == {c \in Kinects : camera[c].held}

\* The shared sensor is never shut down under a camera that holds it, whatever
\* the order of starts, failures, pauses and stops of the two: the count never
\* falls below the number of its holders.  (It may stay above it: a search that
\* finds no sensor is counted, and so is a camera started twice; the sensor is
\* then never shut down.)
SharedSensorLives ==
    /\ Holders # {} => kinect.open
    /\ Cardinality(Holders) <= kinect.count

\* A camera that is started and not paused runs, unless its last start failed;
\* a paused one does not; and the timer never reads from a device that was
\* closed, unless a running camera was started again (after the resume that
\* follows a stop) and failed.
RunsWhenWanted ==
    \A c \in Cameras :
        LET me == camera[c]
        IN  /\ me.started /\ me.paused = 0 /\ ~me.failed => me.timer
            /\ me.timer => me.paused = 0
            /\ me.timer /\ ~me.twice => me.held
=============================================================================
