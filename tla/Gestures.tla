------------------------------ MODULE Gestures ------------------------------
(***************************************************************************)
(* The gestures of the platforms that queue their requests.  Execute       *)
(* queues a request and starts it when it is alone; a stage on another     *)
(* thread or in the text to speech service follows; a "done" handler, on   *)
(* the main thread but for NaoSound, pops the request at the front and     *)
(* starts the next one.                                                    *)
(* The files differ in the branches they have, which one record per file   *)
(* names: the fields are used by the handlers below.                       *)
(*                                                                         *)
(*   first   where a started request goes: "tts" or a "thread"             *)
(*   play    what its sound does: a "thread" plays it, it blocks the       *)
(*           "main" thread, or it is published and "gone" at once; a       *)
(*           "goal" is left to module RosMove                              *)
(*   waits   nothing starts until the service has named its voices         *)
(*   pause   who pauses the microphone: each "sound", the "queue" as long  *)
(*           as it has requests, or "nobody"                               *)
(*   unable  a request that cannot start, or gets no sound: the "next" one *)
(*           is tried, or it is "kept", or this "never" happens            *)
(*   aborts  Abort empties the queue                                       *)
(*   throws  an exception on the thread loses the done call                *)
(*   pops    the done handler runs on the "main" thread, or on another     *)
(*           "thread", between whose two calls other handlers may run      *)
(*   mic     the platform's microphone is the one of module Microphone     *)
(*                                                                         *)
(* PushRequest, ActiveRequest, PopRequest and PopAllRequests are external: *)
(* the first is true for a request that is alone, PopRequest drops the     *)
(* front and is true when requests remain.  Each is taken as atomic.       *)
(***************************************************************************)
EXTENDS Microphone

CONSTANT MaxRequests      \* bound: requests ever made

ASSUME RequestsAssumption == MaxRequests \in Nat

VARIABLES
    kind,     \* the gesture, one record of Kinds
    queue,    \* the requests, the active one first
    stage,    \* what is under way for each request ever made
    voices,   \* m_pVoices: "awaited", "named", or "missing" for a NULL answer
    asked,    \* how many requests were made
    history   \* what happened: an abort, a failure, a stream that fell behind

gestureVars == <<kind, queue, stage, voices, asked, history>>

Requests == 1 .. MaxRequests

SpeechOnThread(name, waits) ==
    [name |-> name, first |-> "tts", play |-> "thread", waits |-> waits,
     pause |-> "sound", unable |-> "next", aborts |-> TRUE, throws |-> FALSE,
     pops |-> "main", mic |-> TRUE]

OnThread(name, aborts, throws) ==
    [name |-> name, first |-> "thread", play |-> "gone", waits |-> FALSE,
     pause |-> "nobody", unable |-> "never", aborts |-> aborts,
     throws |-> throws, pops |-> "main", mic |-> FALSE]

LinuxSpeech     == SpeechOnThread("LinuxSpeech", FALSE)
AQSpeech        == [SpeechOnThread("AQSpeech", FALSE) EXCEPT !.mic = FALSE]
SotaSpeech      == SpeechOnThread("SotaSpeech", TRUE)
RaspiSpeech     == [SpeechOnThread("RaspiSpeech", FALSE) EXCEPT
                       !.play = "main", !.unable = "kept"]
RemoteSpeech    == [SpeechOnThread("RemoteSpeech", TRUE) EXCEPT
                       !.play = "gone", !.pause = "nobody", !.aborts = FALSE,
                       !.mic = FALSE]
NaoSpeech       == [OnThread("NaoSpeech", FALSE, FALSE) EXCEPT
                       !.pause = "queue", !.mic = TRUE]
NaoVolume       == OnThread("NaoVolume", FALSE, FALSE)
NaoPosture      == OnThread("NaoPosture", FALSE, FALSE)
NaoSystem       == OnThread("NaoSystem", FALSE, FALSE)
NaoMoveJoint    == OnThread("NaoMoveJoint", FALSE, FALSE)
RaspiMoveJoint  == OnThread("RaspiMoveJoint", FALSE, FALSE)
RaspiAnimate    == OnThread("RaspiAnimate", FALSE, FALSE)
ABBMoveJoint    == OnThread("ABBMoveJoint", FALSE, FALSE)
MacSound        == OnThread("MacSound", FALSE, FALSE)
WinSound        == OnThread("WinSound", FALSE, FALSE)
NaoSound        == [OnThread("NaoSound", FALSE, FALSE) EXCEPT !.pops = "thread"]
RosMoveJoint    == [OnThread("RosMoveJoint", FALSE, FALSE) EXCEPT !.play = "goal"]
NaoAnimate      == [OnThread("NaoAnimate", TRUE, FALSE) EXCEPT !.unable = "next"]
NaoMove         == OnThread("NaoMove", TRUE, TRUE)

QueuedKinds ==
    {LinuxSpeech, AQSpeech, SotaSpeech, RaspiSpeech, RemoteSpeech, NaoSpeech,
     NaoVolume, NaoPosture, NaoSystem, NaoMoveJoint, RaspiMoveJoint,
     RaspiAnimate, ABBMoveJoint, MacSound, WinSound, NaoSound, RosMoveJoint,
     NaoAnimate, NaoMove}

\* What is under way for a request; "next" is NaoSound's between the pop of
\* the request before and the call of Play.
Stages == {"none", "tts", "thread", "posted", "next"}

-----------------------------------------------------------------------------
(* The handlers' common steps, as functions of the queue, the stages and   *)
(* the microphone's count.                                                 *)

Now == [queue |-> queue, stage |-> stage, paused |-> paused]

Become(s) == queue' = s.queue /\ stage' = s.stage /\ paused' = s.paused

PushRequest(s, r) == [s EXCEPT !.queue = Append(@, r)]

PopRequest(s) == [s EXCEPT !.queue = IF @ = << >> THEN @ ELSE Tail(@)]

\* OnSpeechDone's resume, by the files that have one.
DoneResumes(s) ==
    [s EXCEPT !.paused = IF kind.pause = "sound" THEN OnResume(@) ELSE @]

\* Requests at the front cannot start: each is finished in turn, by a nested
\* call of the done handler.
SkipFront(s, skips) ==
    LET rest == SubSeq(s.queue, skips + 1, Len(s.queue))
    IN  [s EXCEPT !.queue = rest,
                  !.paused = IF kind.pause = "sound"
                             THEN @ - (Len(s.queue) - Len(rest)) ELSE @]

StartFront(s) ==
    IF s.queue = << >> THEN s ELSE [s EXCEPT !.stage[Head(s.queue)] = kind.first]

VoicesKnown == ~kind.waits \/ voices = "named"

\* StartSpeech, Play or ExecuteAnimation.  "skips" is how many requests at the
\* front cannot start, as the service is missing, the topic has no
\* subscribers, or no animation fits the posture of the moment.
StartRequest(s, skips) ==
    IF VoicesKnown /\ (skips = 0 \/ kind.unable = "next")
    THEN StartFront(SkipFront(s, skips))
    ELSE s

Skips == IF kind.unable = "never" THEN {0} ELSE 0 .. MaxRequests

\* Mutants: the microphone is not resumed; only the front is ever started.
RequestDone_NoResume(s, skips) ==
    LET popped == PopRequest(s)
    IN  IF popped.queue = << >> THEN popped ELSE StartRequest(popped, skips)
RequestDone_NoNext(s, skips) ==
    LET popped == PopRequest(DoneResumes(s))
    IN  IF popped.queue = << >> /\ kind.pause = "queue"
        THEN [popped EXCEPT !.paused = OnResume(@)] ELSE popped

RequestDone(s, skips) ==
    LET popped == PopRequest(DoneResumes(s))
    IN  CASE popped.queue # << >>    -> StartRequest(popped, skips)
          [] popped.queue = << >> /\ kind.pause = "queue" ->
                 [popped EXCEPT !.paused = OnResume(@)]
          [] OTHER                   -> popped

-----------------------------------------------------------------------------
(* The handlers of the main thread and the work of the other threads.      *)

GestureInit ==
    /\ queue = << >>
    /\ stage = [r \in Requests |-> "none"]
    /\ voices = "awaited"
    /\ asked = 0
    /\ history = [aborted |-> FALSE, failed |-> FALSE, behind |-> FALSE]

Failed(failure) == history' = [history EXCEPT !.failed = @ \/ failure]

MainThreadFree == mainThread = "free" /\ kind \in QueuedKinds

\* Mutants: a request is started although another is active; Execute does
\* not pause the microphone.
Execute_StartsAll ==
    /\ MainThreadFree
    /\ asked < MaxRequests
    /\ \E skips \in Skips :
           LET pushed == PushRequest(Now, asked + 1)
           IN  /\ Become(IF VoicesKnown /\ skips = 0
                         THEN [pushed EXCEPT !.stage[asked + 1] = kind.first,
                                  !.paused = IF kind.pause = "queue" /\ queue = << >>
                                             THEN OnPause(@) ELSE @]
                         ELSE StartRequest(pushed, skips))
               /\ Failed(skips > 0)
    /\ asked' = asked + 1
    /\ UNCHANGED <<kind, voices, micVars>>

Execute ==
    /\ MainThreadFree
    /\ asked < MaxRequests
    /\ \E skips \in Skips :
           LET pushed == PushRequest(Now, asked + 1)
               muted  == [pushed EXCEPT !.paused =
                             IF kind.pause = "queue" THEN OnPause(@) ELSE @]
           IN  /\ Become(IF queue = << >> THEN StartRequest(muted, skips) ELSE pushed)
               /\ Failed(skips > 0)
    /\ asked' = asked + 1
    /\ UNCHANGED <<kind, voices, micVars>>

\* The text to speech service names its voices once, or fails to.
OnVoices ==
    /\ MainThreadFree
    /\ voices = "awaited"
    /\ kind.first = "tts"
    /\ voices' \in {"named", "missing"}
    /\ \E skips \in Skips :
           /\ Become(IF kind.waits /\ voices' = "named" /\ queue # << >>
                     THEN StartFront(SkipFront(Now, skips)) ELSE Now)
           /\ Failed(skips > 0)
    /\ UNCHANGED <<kind, asked, micVars>>

Ended(s, r) == [s EXCEPT !.stage[r] = "none"]

\* Mutant: the sound is played without pausing the microphone.
OnSpeechSound_NoPause(r) ==
    /\ MainThreadFree
    /\ stage[r] = "tts"
    /\ \E skips \in Skips :
           /\ Become(IF kind.play = "gone" THEN RequestDone(Ended(Now, r), skips)
                     ELSE [Now EXCEPT !.stage[r] = "thread"])
           /\ Failed(skips > 0)
    /\ mainThread' = IF kind.play = "main" THEN "playing" ELSE mainThread
    /\ UNCHANGED <<kind, voices, asked, mic>>

\* The service answers with a sound, or with NULL.
OnSpeechSound(r) ==
    /\ MainThreadFree
    /\ stage[r] = "tts"
    /\ \E skips \in Skips :
           /\ Become(IF kind.play = "gone" THEN RequestDone(Ended(Now, r), skips)
                     ELSE [Now EXCEPT !.stage[r] = "thread", !.paused = OnPause(@)])
           /\ Failed(skips > 0)
    /\ mainThread' = IF kind.play = "main" THEN "playing" ELSE mainThread
    /\ UNCHANGED <<kind, voices, asked, mic>>

OnSpeechNull(r) ==
    /\ MainThreadFree
    /\ stage[r] = "tts"
    /\ \E skips \in Skips :
           Become(IF kind.unable = "next" THEN RequestDone(Ended(Now, r), skips)
                  ELSE Ended(Now, r))
    /\ Failed(TRUE)
    /\ UNCHANGED <<kind, voices, asked, micVars>>

OnSpeechData(r) == OnSpeechSound(r) \/ OnSpeechNull(r)

\* The sound is played, the robot has moved or thrown: done is posted to the
\* main thread, unless the exception loses it.
ThreadEnds(r) ==
    /\ kind \in QueuedKinds
    /\ stage[r] = "thread" /\ kind.play # "goal"
    /\ \E thrown \in {FALSE, kind.throws} :
           /\ stage' = [stage EXCEPT ![r] = IF thrown THEN "none" ELSE "posted"]
           /\ Failed(thrown)
    /\ mainThread' = IF mainThread = "playing" THEN "free" ELSE mainThread
    /\ UNCHANGED <<kind, queue, voices, asked, paused, mic>>

OnDone(r) ==
    /\ MainThreadFree
    /\ kind.pops = "main"
    /\ stage[r] = "posted"
    /\ \E skips \in Skips :
           Become(RequestDone(Ended(Now, r), skips)) /\ Failed(skips > 0)
    /\ UNCHANGED <<kind, voices, asked, micVars>>

\* PlayDone of NaoSound, on a thread of the pool: PopRequest, and Play for the
\* request that is then active.
DonePops(r) ==
    /\ kind \in QueuedKinds /\ kind.pops = "thread"
    /\ stage[r] = "posted"
    /\ LET popped == PopRequest(Ended(Now, r))
       IN  Become(IF popped.queue = << >> THEN popped
                  ELSE [popped EXCEPT !.stage[Head(popped.queue)] = "next"])
    /\ UNCHANGED <<kind, voices, asked, history, micVars>>

DonePlays(r) ==
    /\ kind \in QueuedKinds /\ kind.pops = "thread"
    /\ stage[r] = "next"
    /\ Become(StartFront(Ended(Now, r)))
    /\ UNCHANGED <<kind, voices, asked, history, micVars>>

\* Abort forgets the requests, not the sound or the movement under way.
Abort ==
    /\ MainThreadFree
    /\ kind.aborts
    /\ queue # << >>
    /\ Become(DoneResumes([Now EXCEPT !.queue = << >>]))
    /\ history' = [history EXCEPT !.aborted = TRUE]
    /\ UNCHANGED <<kind, voices, asked, micVars>>

=============================================================================
