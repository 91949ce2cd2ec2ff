--------------------------- MODULE CaptureSensors ---------------------------
(***************************************************************************)
(* The sensors that capture on a thread of their own: microphones, cameras *)
(* and the health sensor of the Nao.  They share one protocol: OnStart     *)
(* posts the thread, OnStop sets m_StopThread and waits, blocking the main *)
(* thread, for m_ThreadStopped, and m_Paused counts the pauses.  They do   *)
(* not share it exactly, and the record "device" holds what each one does. *)
(* The sensor base and the manager that start, stop and pause sensors are  *)
(* external.  What is captured is left out, and so is the recorder process *)
(* of the Linux microphones (module Microphone).                           *)
(***************************************************************************)
EXTENDS Naturals

CONSTANTS
    MaxStarts,     \* bound: how often the sensor is started
    MaxPauses,     \* bound: pauses at one time
    MaxAsked       \* bound: images asked for and not answered

ASSUME CapturesAssumption == MaxStarts \in Nat /\ MaxPauses \in Nat /\ MaxAsked \in Nat

VARIABLES
    device,        \* which sensor this is
    cap,           \* its flags
    thread,        \* the place of each thread started
    pauses,        \* m_Paused
    overheard,     \* history: clips captured and posted under the current pause
    main           \* "free", or "stopping" in the busy wait of OnStop

capVars == <<cap, thread, overheard, main>>

Captures == 1 .. MaxStarts

(***************************************************************************)
(* "clears" are the flags OnStart resets; "initially" the values           *)
(* m_ThreadStopped may have at first (some leave it uninitialized);        *)
(* "begins" says that the thread resets m_ThreadStopped; "optional" that   *)
(* OnStart may find nothing to capture from; "plain" that the flags are    *)
(* not volatile, so that an empty loop need not read them again; "checks"  *)
(* is where the thread looks at m_Paused; "fails" is what an error does to *)
(* it; "polls" that the images are answers to requests.                    *)
(***************************************************************************)
Flags == {"stop", "stopped"}

Sensor(name, clears, initially, checks, fails) ==
    [name |-> name, clears |-> clears, initially |-> initially, begins |-> FALSE,
     optional |-> FALSE, plain |-> FALSE, checks |-> checks, fails |-> fails,
     polls |-> FALSE]

Recorder        == Sensor("recorder", Flags, {FALSE}, "head", {})
AQMicrophone    == Sensor("AQMicrophone", Flags, {FALSE}, "never", {"sets both"})
WinMicrophone   == Sensor("WinMicrophone", Flags, {TRUE}, "grabbed", {"gives up", "throws"})
NaoHealthSensor == Sensor("NaoHealthSensor", Flags, {FALSE}, "never", {"gives up"})
NaoCamera       == Sensor("NaoCamera", {"stop"}, BOOLEAN, "head", {"gives up"})
NaoDepthCamera  == Sensor("NaoDepthCamera", {"stop"}, BOOLEAN, "grabbed", {"gives up"})
PointGreyCamera ==
    [Sensor("PointGreyCamera", {}, {TRUE}, "head", {"gives up"})
        EXCEPT !.begins = TRUE, !.optional = TRUE, !.plain = TRUE]
RemoteCamera ==
    [Sensor("RemoteCamera", {}, {TRUE}, "head", {})
        EXCEPT !.begins = TRUE, !.optional = TRUE, !.plain = TRUE, !.polls = TRUE]

CaptureDevices ==
    {Recorder, AQMicrophone, WinMicrophone, NaoHealthSensor, NaoCamera,
     NaoDepthCamera, PointGreyCamera, RemoteCamera}

Places ==
    {"none", "posted", "opening", "looping", "grabbing", "taken", "spinning",
     "leaving", "ended", "failing", "failed", "threw"}

CaptureInit ==
    /\ \E stopped \in device.initially :
         cap = [starts |-> 0, started |-> FALSE, stop |-> FALSE,
                stopped |-> stopped, asked |-> 0]
    /\ thread = [t \in Captures |-> "none"]
    /\ overheard = 0
    /\ main = "free"

-----------------------------------------------------------------------------
(* The handlers, on the main thread.                                       *)

\* Mutants: OnStart does not reset m_ThreadStopped, or not m_StopThread.
Restarted_OldStopped(c) ==
    [c EXCEPT !.starts = @ + 1, !.started = TRUE,
              !.stop = IF "stop" \in device.clears THEN FALSE ELSE @]
Restarted_OldStop(c) ==
    [c EXCEPT !.starts = @ + 1, !.started = TRUE,
              !.stopped = IF "stopped" \in device.clears THEN FALSE ELSE @]

Restarted(c) ==
    [c EXCEPT !.starts = @ + 1, !.started = TRUE,
              !.stop = @ /\ "stop" \notin device.clears,
              !.stopped = @ /\ "stopped" \notin device.clears]

OnStart ==
    /\ main = "free"
    /\ ~cap.started
    /\ cap.starts < MaxStarts
    /\ cap' = Restarted(cap)
    /\ \E found \in IF device.optional THEN BOOLEAN ELSE {TRUE} :
         thread' = [thread EXCEPT ![cap.starts + 1] = IF found THEN "posted" ELSE "none"]
    /\ UNCHANGED <<pauses, overheard, main>>

OnStop ==
    /\ main = "free"
    /\ cap.started
    /\ cap' = [cap EXCEPT !.stop = TRUE]
    /\ main' = "stopping"
    /\ UNCHANGED <<thread, pauses, overheard>>

\* The busy wait of OnStop ends.
OnStopReturns ==
    /\ main = "stopping"
    /\ cap.stopped
    /\ cap' = [cap EXCEPT !.started = FALSE]
    /\ main' = "free"
    /\ UNCHANGED <<thread, pauses, overheard>>

OnPause ==
    /\ main = "free"
    /\ pauses < MaxPauses
    /\ pauses' = pauses + 1
    /\ overheard' = IF pauses = 0 THEN 0 ELSE overheard
    /\ UNCHANGED <<cap, thread, main>>

OnResume ==
    /\ main = "free"
    /\ pauses > 0
    /\ pauses' = pauses - 1
    /\ UNCHANGED <<cap, thread, overheard, main>>

\* 2 stands for any number above one.
Overhears == overheard' = IF pauses > 0 /\ overheard < 2 THEN overheard + 1 ELSE overheard

\* The answer to GetImage of RemoteCamera: an image, or none, which ends the
\* thread.
OnGetImage ==
    /\ cap.asked > 0
    /\ \/ cap' = [cap EXCEPT !.asked = @ - 1] /\ Overhears
       \/ cap' = [cap EXCEPT !.asked = @ - 1, !.stop = TRUE] /\ UNCHANGED overheard
    /\ UNCHANGED <<thread, pauses, main>>

-----------------------------------------------------------------------------
(* The capture thread, step by step.                                       *)

Goes(t, from, to) == thread[t] = from /\ thread' = [thread EXCEPT ![t] = to]

Begins(t) ==
    /\ Goes(t, "posted", "opening")
    /\ cap' = [cap EXCEPT !.stopped = @ /\ ~device.begins]
    /\ UNCHANGED <<pauses, overheard, main>>

DeviceOpens(t) ==
    /\ Goes(t, "opening", "looping")
    /\ UNCHANGED <<cap, pauses, overheard, main>>

\* Mutants: the head of the loop does not look at m_Paused, or, while paused,
\* not at m_StopThread.
LoopHead_Unpaused(t) ==
    /\ Goes(t, "looping", IF cap.stop THEN "leaving" ELSE "grabbing")
    /\ UNCHANGED <<cap, pauses, overheard, main>>
LoopHead_DeafWhilePaused(t) ==
    /\ \/ pauses = 0 /\ cap.stop /\ Goes(t, "looping", "leaving")
       \/ pauses = 0 /\ ~cap.stop /\ Goes(t, "looping", "grabbing")
       \/ pauses > 0 /\ Goes(t, "looping", "looping")
    /\ UNCHANGED <<cap, pauses, overheard, main>>

\* The head of the loop.  A paused loop that does nothing and reads plain
\* flags may be compiled to one that never ends.
LoopHead(t) ==
    /\ \/ cap.stop /\ Goes(t, "looping", "leaving")
       \/ /\ ~cap.stop
          /\ device.checks = "head" => pauses = 0
          /\ Goes(t, "looping", "grabbing")
       \/ /\ ~cap.stop
          /\ device.checks = "head" /\ pauses > 0
          /\ device.plain
          /\ Goes(t, "looping", "spinning")
    /\ UNCHANGED <<cap, pauses, overheard, main>>

\* The device is read: a clip is posted or held, or there is none.
Grabs(t) ==
    /\ ~device.polls
    /\ \/ Goes(t, "grabbing", "looping") /\ UNCHANGED overheard
       \/ device.checks = "head" /\ Goes(t, "grabbing", "looping") /\ Overhears
       \/ device.checks = "grabbed" /\ pauses = 0 /\ Goes(t, "grabbing", "taken")
            /\ UNCHANGED overheard
    /\ UNCHANGED <<cap, pauses, main>>

\* A clip taken before the pause is posted under it.
Posts(t) ==
    /\ Goes(t, "taken", "looping")
    /\ Overhears
    /\ UNCHANGED <<cap, pauses, main>>

Asks(t) ==
    /\ device.polls
    /\ cap.asked < MaxAsked
    /\ Goes(t, "grabbing", "looping")
    /\ cap' = [cap EXCEPT !.asked = @ + 1]
    /\ UNCHANGED <<pauses, overheard, main>>

\* An error while opening or reading the device; WinMicrophone gives up only
\* while opening it.
Fails(t) ==
    /\ \/ /\ "gives up" \in device.fails
          /\ \/ Goes(t, "opening", "failing")
             \/ "throws" \notin device.fails /\ Goes(t, "grabbing", "failing")
          /\ UNCHANGED cap
       \/ /\ "throws" \in device.fails
          /\ \E place \in {"opening", "grabbing"} : Goes(t, place, "threw")
          /\ UNCHANGED cap
       \/ /\ "sets both" \in device.fails
          /\ Goes(t, "opening", "failing")
          /\ cap' = [cap EXCEPT !.stopped = TRUE]
    /\ UNCHANGED <<pauses, overheard, main>>

\* The last assignment of a thread that failed: in AQMicrophone it is that of
\* m_StopThread.
Failed(t) ==
    /\ Goes(t, "failing", "failed")
    /\ cap' = IF "sets both" \in device.fails
              THEN [cap EXCEPT !.stop = TRUE] ELSE [cap EXCEPT !.stopped = TRUE]
    /\ UNCHANGED <<pauses, overheard, main>>

Leaves(t) ==
    /\ Goes(t, "leaving", "ended")
    /\ cap' = [cap EXCEPT !.stopped = TRUE]
    /\ UNCHANGED <<pauses, overheard, main>>

ThreadStep(t) ==
    \/ Begins(t) \/ DeviceOpens(t) \/ LoopHead(t) \/ Grabs(t) \/ Posts(t)
    \/ Asks(t) \/ Fails(t) \/ Failed(t) \/ Leaves(t)

CaptureNext ==
    \/ OnStart \/ OnStop \/ OnStopReturns \/ OnPause \/ OnResume \/ OnGetImage
    \/ \E t \in Captures : ThreadStep(t)

-----------------------------------------------------------------------------
(* Properties.                                                             *)

\* The types of the flags, and the places of the threads.
CaptureTypeOK ==
    /\ cap \in [starts : 0 .. MaxStarts, started : BOOLEAN, stop : BOOLEAN,
                stopped : BOOLEAN, asked : Nat]
    /\ thread \in [Captures -> Places]
    /\ pauses \in Nat
    /\ overheard \in 0 .. 2
    /\ main \in {"free", "stopping"}

\* The sensors whose OnStart resets both flags.
Careful == device.clears = Flags

Running == {"posted", "opening", "looping", "grabbing", "taken", "spinning", "leaving"}

\* OnStop has stopped the thread when it returns: a sensor never captures with
\* two threads, nor with one after it was stopped.  This takes OnStart to
\* reset both flags, which the cameras of the Nao, PointGreyCamera and
\* RemoteCamera do not.
OneCapture ==
    Careful => \A t \in Captures :
                   thread[t] \in Running => cap.started /\ t = cap.starts

\* While the robot talks it hears at most the clip that was being captured when
\* the pause began, wherever the thread looks at m_Paused: between the look and
\* the clip's end, or its post, at most one pause can begin unseen.
OneClipAfterPause ==
    Careful /\ device.checks \in {"head", "grabbed"} /\ pauses > 0 => overheard <= 1

\* Where OnStop never returns: the thread left by an exception that nothing
\* catches, or never reads its flags again.
Hangs == \E t \in Captures : thread[t] \in {"threw", "spinning"}

\* OnStop gives the main thread back, paused or not, whatever failed.
SensorStops == (main = "stopping") ~> (main = "free" \/ Hangs)

\* PointGreyCamera and RemoteCamera never reset m_StopThread: they do not capture
\* again once OnStop, or an empty image of RemoteCamera, has set it.
NeverReset == cap.stop /\ "stop" \notin device.clears

\* AQMicrophone's m_StopThread was set by the thread of an earlier start, after
\* the stop and the start that came between its two assignments.
SetLate ==
    /\ cap.stop /\ "sets both" \in device.fails
    /\ \E t \in Captures : t < cap.starts /\ thread[t] = "failed"

\* A sensor that is started, or started again, captures once it is not paused,
\* and does so with the thread of that start, unless that thread found nothing
\* to capture from or failed itself, or the code left m_StopThread set.
CapturesAgain ==
    (cap.started /\ main = "free" /\ pauses = 0)
        ~> (\/ ~cap.started \/ main = "stopping" \/ pauses > 0
            \/ thread[cap.starts] = "grabbing"
            \/ thread[cap.starts] \in {"none", "failing", "failed", "threw", "spinning"}
            \/ NeverReset \/ SetLate)
=============================================================================
