# A TLA+ verification of the Self plugins

The repository holds the plugins of a robot run-time ("Self"): clients of the
Watson services, of a robot gateway and of a telephone gateway, and the
gestures and sensors of several robot and desktop platforms.  The run-time
itself (the SDK: web sockets, REST requests, the timer pool, the thread pool,
the gesture and sensor managers, the blackboard) is not part of the
repository.  These modules model the plugins' own control: what each handler
does, in which order handlers of the main thread, worker threads, network
threads and timers can run, and what can fail.

## The system

Everything except explicit worker threads runs on one main thread, which takes
callbacks from a queue: notifications and frames of web sockets, answers of
requests, timers, and delegates posted by threads.  A delegate whose object has
been destroyed is dropped.  So the interleavings that matter are those of
queued callbacks, of the network thread that changes a socket's state before
its notification is run, and of the threads that gestures and sensors start.

| Component | State it keeps | Operations and callbacks | What is hard | What makes it correct |
|---|---|---|---|---|
| SpeechToText, connections (`watson/services/SpeechToText`) | per model: socket, reconnect timer, `m_bReconnecting`, `m_Connected`, `m_ListenActive`, `m_AudioSent`, last start time | StartListening, StopListening, RefreshConnections, SetLearningOptOut, OnListen, OnListenState, OnListenMessage, OnReconnect, the LISTEN_TIMEOUT watchdog | drops, refused sends, frames of a socket already replaced, a timer that outlives the socket it was started for | a closed socket is always dialled again; audio goes only to a listening server; a timer never ends a healthy recognition |
| SpeechToText, results | `m_ResultList`, `m_spResultTimer`, the receiver | OnReconizeResult, OnFinalizeResult, SetRecognizeModels | results, timer and model changes race | each result is handed over or freed once; none waits for ever; the best is chosen |
| RobotGateway (`rg/services`) | tokens, `m_ConfigsFetched`, `m_ParentFetched`, timers, kept log records | Start (a loop that runs the main thread), Stop, one handler per answer, UpdateConfig, Process, OnPersistLogs | answers in any order, also after Stop; restart; uninitialised times | Start returns, and only on answers; requests carry the current token; no record is lost, duplicated or outside the declared time span |
| Telephony (`nexmo/services`) | socket, reconnect timer, `m_bConnected`, `m_bInCall`, send timer, queued clips | Connect, Disconnect, Dial, Answer, HangUp, Text, SendAudioIn, OnSendAudioData, OnListenState, OnListenMessage, OnReconnect | as for recognition, and packing clips of any length into frames | reachable again after a drop; one handshake per session; frames carry all audio in order |
| Queued gestures (`platform/*/gestures`, `remote/gestures`) | the SDK's request queue, voices, abort flags, stream queue | Execute, Abort, OnVoices, OnSpeechData, the worker thread, the done handler | a thread still playing when the queue changes; failures on one of several paths | one request at a time; each request ends; the robot does not hear itself and hears again afterwards |
| Sensors with a thread: the microphones of Linux, Raspberry Pi, Sota, Nao, macOS and Windows, the cameras of the Nao, PointGreyCamera, RemoteCamera, NaoHealthSensor | `m_StopThread`, `m_ThreadStopped`, `m_Paused`, for Linux and its kin the recorder | OnStart, OnStop (a busy wait on the main thread), the thread's loop, OnPause, OnResume, OnGetImage | a start while the old thread ends; flags that one side forgets to reset; errors that leave the thread; pauses from several gestures | stop returns; one thread captures at a time, and again after a restart; little is heard under a pause |
| Cameras on timers (`kinect`, `opencv`) | timer, device, `m_Paused`, the Kinect shared by two of them and its count | OnStart, OnStop, OnPause, OnResume, GrabKinect, FreeKinect | pauses of a camera that was stopped, failed starts, two owners | the Kinect lives as long as one holds it; a camera runs when it is wanted |
| NaoHealthSensor and NaoPlatform's postures | the last posture, its time, `m_RobotFallenCount` | the check, SetPosture (a wait on the sensor's thread), OnPostureChanged on other threads | a posture announced before the robot moves; counts left from an earlier fall | a fall is answered or reported |
| RosPlatform, RosMoveJointGesture (`platform/ros`) | `m_bActive`, the client, the recurring timer; `m_GoalId`, `m_GoalDone` | ConnectToRobot, OnClientState, OnGoalStatus, the timeout | the late callback of a client that was replaced; frames of the network thread that race the timer | the robot is never given up; each goal ends |
| Conversation, ConversationProxy | response cache, merged context, requests in flight | Message, OnResponse, ClassifyText, OnTextClassified | several requests in flight, cached answers delivered inside the constructor | one answer per request, given to the same text at the same place of the dialog; the cache keeps what is fresh |
| NaturalLanguageClassifier, NLCProxy | pending counter and list of a lookup, the classifier in use, the timer | FindRequest, CheckClassifiers, OnGetClassifiers, RetrainClassifier | lookups, uploads and deletes that overlap, times in two zones | one callback per lookup; a purge leaves a newer classifier; the newest, trained from the current file, is used |
| DeepQA, RetrieveAndRank, Interact proxies | a request object per question | AskQuestion, OnResponse | no service | one answer per question |
| TextToSpeech, streams | `m_Connections`, one per text | ToSound, OnListenMessage, OnListenState | a notification run so late that it reads a later state | one NULL ends a stream |
| IVA | session ids, the retry timer | Start, Login, OnLoginSession | half a session, answers of two starts | it logs in in the end |
| NaoBrowser | the list of pages, `m_bTabletConnected`, `m_Tablet`, thread flags | Start, Stop (a busy wait), ShowURL, the thread | a tablet that appears, goes and throws | every page reaches the tablet |
| Other REST services, event sensors, samples, browsers of desktops | none between requests | one request or event per operation | - | - |

`PROJECT.json` lists every component with its files and the hazards of the
code, each at its line.

## The modules

| Module | Models | Variables and code |
|---|---|---|
| `SpeechToText` | one connection per model | `conn[m]` is the Connection object as a record, `isListening` is `m_IsListening`; the socket's state, the server's session (`srv`) and the posted callbacks (`inbox`) are part of the record, numbered by the socket they belong to |
| `SpeechResults` | `m_ResultList` and its timer | results are records with their stream and confidence |
| `GatewayLogs` | operators for the kept records and their span | used by `RobotGateway` |
| `RobotGateway` | the gateway service | one boolean per flag and timer, `asked` counts the requests in flight of each kind |
| `TelephonyFrames` | OnSendAudioData's packing as a recursive function over the queued sequences of bytes | used by `Telephony` |
| `Telephony` | the telephone connection and its calls | `link` is the connection as a record like that of `SpeechToText` |
| `Microphone` | the recorder of Linux and its kin and its thread, with the count of pauses the gestures share | `mic`, `paused`, `mainThread` (busy while OnStop waits or a sound is played on it) |
| `Gestures` | nineteen gestures on the SDK's queue | each source file is a record of how it differs (thread or not, looks up voices, pauses when, what a failure does, what Abort does); the handlers are written once over these records.  NaoSound's done handler runs on a thread of the pool and is two actions (`DonePops`, `DonePlays`), between which Execute may run on the main thread; `skips` is how many requests at the front cannot start, each of which the done handler pops before it tries the next |
| `WinSpeech` | WinSpeechGesture, whose stream is played while it is still synthesised | `win` |
| `RosMove` | RosMoveJointGesture's wait for its goal | `ros` |
| `RosPlatform` | the client of the ROS robot | `platform` |
| `RobotGestures` | one gesture composed with the platform's microphone and, for ROS, its connection | conjunctions of the components' actions |
| `CaptureSensors` | the sensors with a thread | `device` is a record of how a sensor differs from the others (which flags OnStart resets, where the thread looks at `m_Paused`, what an error does), `cap` its flags, `thread[t]` the place of the thread of the t-th start |
| `TimedCameras` | the three cameras on timers | `kinect` is the shared sensor, `camera[c]` the members of each |
| `NaoHealth` | the recovery of a fallen Nao | `health` is the sensor's and NaoPlatform's view of the posture; methods are functions of it |
| `Sensors` | one sensor at a time, with the checks of NaoHealth as turns of its thread | conjunctions again |
| `Classifiers` | FindRequest and NLCProxy's choice, training and purge | `finds` are the FindRequest objects with what the server has yet to answer them; `server` is what the server holds; the loops are recursive functions over the list |
| `Conversation` | MessageReq and the response cache | `cache[hash]` is an entry with its items, `message` the objects, `now` the clock in hours |
| `Dialog` | extends it with the request objects of five proxies | `request[r]` is the object (`classified` is `m_bTextClassified`), `stack` the dialog stack of `m_MergedContext`, `proxy` which one is asked |
| `SpeechStreams` | TextToSpeech's connections | `sound[s]` is a Connection with what was posted for it |
| `FaceLogin` | IVA's login | `iva` |
| `TabletBrowser` | NaoBrowser | `browser` is the service and its thread, `tablet` the tablet; what the thread's calls may leave is a set of states |
| `Services` | the last three and `SpeechResults`, one of them in each behaviour | `service` says which |
| `ReconnectingLink` | the abstract specification of a connection that is kept up | `link` is "closed", "open", "lost" or "waiting" |
| `*_proofs` | the theorems about a module (`Services_proofs` also about `Dialog`) and their lemmas | |
| `Loops_proofs` | lemmas about loops, recursive functions and sequences that several of them use | |
| `MC*` | the instances TLC checks | |

A handler is one action, with everything it calls.  Two exceptions follow the
code: RobotGateway's Start and the OnStop of sensors and NaoBrowser contain
loops, so they are two actions each (the call, and the return when the condition
holds), and between them only what can run in the meantime does.  Threads are
cut where they share something: a loop is a place where it looks at the flags, a
place where it captures, and a place where it posts.

### The abstract link

`ReconnectingLink` says what SpeechToText, Telephony and RosPlatform have in
common: from connecting to disconnecting the link is open, or lost with the
service about to notice, or waiting for the next try; nothing else, so a
connection that is down is never forgotten, and a lost one is noticed.  Each of
the three modules has a mapping (`LinkState`, `LinkState`, `PlatformState`) from its
sockets, timers and posted callbacks to the abstract state, with "dead" for
whatever is none of the four, and implements it (`KeepsItsPromise`, twice, and
`RobotIsFoundAgain`).

### The environment

The SDK, the servers and the network are modelled from how the code uses them
(marked external in the map):

- `IWebClient::GetState()` reads what the network thread writes, so it may be
  ahead of the notification that announces the change.  Notifications and
  frames of all sockets reach the main thread in the order they were posted.
- Frames sent on a connecting socket are kept, frames sent on a closed one are
  lost.  `Send()` may refuse when the environment is `flaky`.
- Each web client of ROS posts a callback when it is connected and when it is
  closed, and reads its own state when that is run.
- A timer posts its delegate to the same queue: `ahead` counts the callbacks
  that were posted before it.
- Requests are answered once, in any order, possibly with NULL, and also after
  Stop.
- The gesture queue is the SDK's: `PushRequest` tells whether the request is
  alone, `PopRequest` whether another is waiting.  The sensor manager calls
  OnPause and OnResume of each sensor, in pairs and in any state of it.  Text to
  speech answers every request; exactly one NULL ends a Windows stream, which
  `StreamsEnd` checks of TextToSpeech.
- The Nao falls, gets up or is lifted; its postures are reported some time later
  and on threads of their own.  goToPosture ends, whatever the robot did.
- The tablet's service may be absent, its wifi off, and each call may throw while
  the tablet is `flaky`.  IVA's server may answer with one cookie of two.
- The classifier server lists classifiers without their status, answers each
  request once, with nothing while it is `flaky`, and trains what is uploaded.
  The data cache of Conversation outlives the program and may drop an entry.
- Pausing a Sota or Raspberry microphone is the same code as Linux's.

## What is checked

| Run | Question | Result |
|---|---|---|
| `speech_connection` | In single-utterance mode, with refreshes, drops and refused sends: can a recognition connection be forgotten, or its flag stay wrong? | No (`KeepsItsPromise`, `ConnectedIsCurrent`) |
| `speech_liveness` | In continuous mode without refreshes: is the server's session protocol kept, does a timer only dial, is the server heard again, and a silent one left? | Yes (`SessionRespected`, `TimerKeepsListening`, `HearsAgain`, `SilentServerIsLeft`) |
| `speech_refresh_timer` | The same with RefreshConnections: does the reconnect timer end only what it should? | No: finding |
| `speech_results_streams` | Are the results of all streams waited for, as the header says? | No: finding |
| `services` | Is each recognition result handed over or freed once, and does none wait without a timer; does each stream of speech end once; does IVA log in; does every page reach the tablet? | Yes (`EachResultOnce`, `WaitingMeansTimed`, `StreamsEnd`, `LogsIn`, `PagesAreShown`) |
| `gateway` | Does Start return, and only on answers; are log records posted once and inside the declared span, and requests signed with the current token? | Yes (`RunsOnAnswers`, `StartComesBack`, `NoLogLost`, `NoLogStranded`, `SpanCoversLogs`, `SignedWithCurrentToken`) |
| `telephony` | Does the connection come back, with one handshake first; do frames carry all audio? | Yes (`KeepsItsPromise`, `ComesBack`, `HandshakeFirst`, `FramesCarryAll`) |
| `telephony_stale_timer` | Does the reconnect timer only dial? | No: finding |
| `robot_gestures` | Requests one at a time, each ends; the microphone is paused while the robot talks, given back, and its recorder never opened twice; a ROS robot is found again | Yes, with the exceptions below |
| `sensors` | Does one thread capture at a time, hear little under a pause, stop, and capture again; does the shared Kinect live; is a fall attended to? | Yes, with the exceptions below (`OneCapture`, `OneClipAfterPause`, `SensorStops`, `CapturesAgain`, `SharedSensorLives`, `FallsAreAttended`) |
| `classifiers` | With overlapping lookups, uploads and deletes: does each lookup end once, does a purge spare the newest, is the newest used and made from the current file? | Yes, with the exceptions below |
| `dialog` | Is each request answered once and freed, with an answer that belongs to its text and place, whatever the cache and the order of answers? | Yes, with the exception below |

What the properties except, because the code does otherwise:

- `OneAtATime` is stated until a request is aborted: Abort empties the queue
  although the sound goes on, and the done handler of the old sound then pops
  a new request.  `PausedWhileTalking` also excepts a failed synthesis, after
  which the speech gestures resume a microphone they had not paused.
- `RequestsEnd` names what keeps a request for ever (`Stuck`): missing voices
  on the platforms that wait for them, a NULL synthesis on the Raspberry Pi, an
  exception of Nao's motion service.
- `NoLogStranded` is stated for a log level that keeps the status line of Start
  (`StatusPasses`), which is what starts the timer again for records left by Stop.
- `StartComesBack` excepts the organisation whose parent is the empty string,
  for which nothing sets `m_ParentFetched`.
- `FileIsTrained` excepts a classifier that failed in training (it counts as the
  newest, so nothing is trained again until the file changes), and a robot west
  of UTC: `mktime` reads the server's UTC as local time, so that an old
  classifier looks newer than the file for some hours.  East of UTC files are
  trained again and again for as long, which breaks no property.
- `AnsweredOnce` excepts DeepQAProxy without its service, which answers nothing.
- The recognition properties other than `KeepsItsPromise` and
  `ConnectedIsCurrent` are stated while nothing is refreshed (`MaxRefresh = 0`):
  the finding shows what a refresh does to the timer, and a late "listening"
  frame of the old socket makes the new one send audio too early.
- `OneCapture` is about the sensors whose OnStart resets both flags (`Careful`).
  It says nothing of PointGreyCamera and RemoteCamera, nor of the cameras of the
  Nao, which never reset `m_ThreadStopped`, so that a second stop does not wait
  for the thread and the next start may revive it beside its own.
- `CapturesAgain` asks for the thread of the latest start.  It excepts a start
  that found nothing to capture from and a thread that failed itself (a failure
  of an earlier start excuses nothing), and two defects of the code, by name.
  `NeverReset`: PointGreyCamera and RemoteCamera never reset `m_StopThread`, which
  OnStop sets and, in RemoteCamera, an empty image; without this exception TLC
  stops and starts either camera, and the new thread leaves at once.  `SetLate`: a
  thread of AQMicrophone that fails sets `m_ThreadStopped` before `m_StopThread`;
  without this exception TLC finds the failure, a stop and a start between the
  two assignments, and then the second of them, which ends the new thread.
- `SensorStops` names what makes OnStop wait for ever (`Hangs`): a thread that
  WinMicrophone's exception ended, and flags that are not volatile, which an
  empty loop need not read again.
- `FallsAreAttended` is about the last posture announced.  SetPosture announces
  "Stand" before the robot moves and OnStart assumes it, so a robot that does
  not move at all is taken for standing; and a count left over from SetPosture's
  wait makes the sensor report the next fall instead of answering it, which the
  property allows.
- `PagesAreShown` counts a page whose TabletShowURL throws as taken: it is
  dropped, and its callback never called.
- `StreamsEnd` is about the end of a stream.  A notification run late finds the
  socket closed already and ends the stream before the pieces posted after it,
  which are dropped; how often depends on the network thread.

### Bounds, and why they are enough

- Recognition: one model for the connection runs.  Connections share only
  `isListening`; `StopListening`, called by one connection, resets all of them
  in one step, and the proofs hold for every set of models.  Two or three
  callbacks in the inbox and two refreshes cover a frame and a notification of
  an old and a new socket together; the timer's place in the queue is kept by
  `ahead`.
- Results (in `services`): three models, confidence 0 or 1, so that ties, better and worse
  results meet a change of the models.
- Gateway: two starts, three records with two times, times left uninitialised
  at 0 and at 9 (above every record), one request in flight of each kind, which
  the guards of the recurring requests enforce.
- Telephony: frames of two bytes, clips of one and of three bytes, so that a
  frame takes part of a clip or the end of one and the start of the next, two
  connects.
- Classifiers: two classifiers, two lookups or uploads at a time and a zone on
  each side of UTC, so that a lookup meets another one's training and deletes;
  times are in check intervals, so that ages below, at and above the purge's
  limit occur.  `FirstTime` keeps times positive as they are in practice.
- Dialog: one text at two places, three requests, entries of up to three
  items of which any may have expired.
- Gestures: three requests, so that one ends, one runs and one waits, of which
  any number may turn out unable to start; the
  microphone is started twice, so that a restart meets the old thread; three
  clients of the ROS robot, so that the callback of a replaced client meets the
  one that replaced it.
- Sensors: three starts, because the third meets flags that the second left
  wrong; two pauses at a time; two images asked for; cameras with two pauses
  each, and a count of users up to four; three changes of the Nao's posture, so
  that a fall, a recovery and another fall happen within one wait.
- Services: two streams with three callbacks each; two starts of IVA; two pages,
  two starts of NaoBrowser and a tablet that changes twice, so that it can
  appear, go and come back.

What a loop does in these bounds is proved for every length and every bound:
see below.

### Fairness

Handlers posted to the main thread run, timers fire, threads go on, and every
request is answered: weak fairness on those actions, never on what a user, a
client or a faulty network does.  Sensors' and NaoBrowser's threads go on; the
main thread leaves a busy wait once it may; goToPosture ends and time passes; the
server of a text to speech stream closes it in the end; OnClientState runs.
Nobody has to start, stop, pause or ask anything.  Two steps have strong fairness: NaoBrowser's
check, because its interval passes however many turns the thread makes, and a
recognition server: one that is
not `flaky` answers "listening", though other frames may fill the bounded inbox
first.  The properties that connections come back are conditional (`Calm`): the
environment is not flaky from some time on, and users stop restarting the
recognition or closing the connection.  Without that the code promises nothing,
since drops could follow each other for ever.  In the gesture run fairness is
per action, not per request: a request that starves would be a counterexample.
The classifier server is taken to answer and to train in the end, and its
properties are stated for when it is no longer `flaky`; the dialog run has no
liveness property.  Where the machine really may stop (nothing asked of the gestures,
all starts used) the configuration switches the deadlock check off.

## What is proved

For every value of the constants under the named assumptions of the modules, by
an inductive invariant in each case.
The type invariants (`TypeOK`, `ResultTypeOK`, `GatewayTypeOK`, `GesturesTypeOK`,
`SensorsTypeOK`, `ClassifiersTypeOK`, `TelephonyTypeOK`) are proved, and therefore
in no run.

`SpeechToText_proofs`, for every set of models:

- `TypeCorrect`; `NoConnectionGoesDeaf`: while listening, a closed socket has a
  timer or a notification pending; `ReconnectingMeansTimer`: `m_bReconnecting`
  holds exactly while the timer is pending; `ConnectedIsTrustworthy`;
  `TimerOnlyDials`: without refreshes the timer never ends recognition.
- `ImplementsReconnectingLink`: the safety part of the refinement.

  `NeverDeaf` is not inductive: that OnReconnect starts a timer rests on
  `m_bReconnecting` being set only while one is pending, otherwise the handler
  returns early and the socket stays closed.  `IInv` says of each connection that
  it is `Good` (the flag and the timer agree; a closed socket has one of the two;
  without refreshes a pending timer means a closed socket) while listening, and
  fresh otherwise.  A lemma for each method of Connection says that it maps a
  good connection to a good one; one step per action lifts them to the service.

- `ServerIsRespected` (`SessionRespected` in continuous mode without refreshes).
  The invariant `Kept` says what the flags of a connection, the frames still
  posted for it and the server's session say of each other over an open socket,
  and what is left of them over a closed one.

`RobotGateway_proofs`: `GatewayTyped`; `EveryLogPosted`, `SpansAreExact` and
`NoLogWaitsForever` from `LogsKept` (what the list, its span, the timer and the
counts say of each other; the span only once something was posted, since its
first values are not initialised); `TokensAgree`; `NothingAssumed` from `Causes`
(each flag and each request under way is there because of an earlier answer).

`Telephony_proofs`: `Reachable`, `OneHandshake` and `ImplementsReconnectingLink`,
the argument of `IInv` for one connection that can also be closed on purpose;
`TelephonyTyped`; and `FramesCarry` (`FramesCarryAll`) for clips and frames of any
length.  The loop that packs a frame keeps "what is in the frame, followed by what
is still queued, is what was queued", and this is where it is shown.

`RobotGestures_proofs`: `RecorderAlwaysFresh` (`MicInv`: at most one thread is
alive, and the recorder is its own); `OneAtATimeAlways` (`QueueInv`, `WinInv`:
before the first abort what is under way is the front of the queue, and a posted
done handler belongs to it); `MicrophonePaused` and `PausesComeBack`
(`PausesInv`: the count is at most what the gesture under way will give back);
`RobotIsNeverForgotten`, the safety part of the third refinement
(`PlatformInv`: an active platform over a closed socket has its callback posted);
`GesturesTyped`.

`Sensors_proofs`: `NeverTwoCaptures` (`LiveIsNewest`: a live thread is the newest
one, unless OnStop waits for it), `AtMostOneClipHeard` (`AtMostOneClip`),
`KinectOutlivesHolders` and `CamerasRunWhenWanted` (`Counted`: the count is at
least the number of holders; `CameraFits` of each camera); `SensorsTyped`; and
`FailuresAreReal` (`FallsCounted`: the count is 0 or 1, and 0 while the robot is
being raised).  `RunsWhenWanted` of `TimedCameras` and `FailureIsReal` of `NaoHealth`
are proved and not in a run.

`Services_proofs`, about `Services` and about `Dialog`:

- `NoResultIsForgotten`, `ResultsTyped`, and `ResultsAccountedFor`
  (`EachResultOnce`): each collected result is handed over or deleted, exactly
  once, whatever the loop over them chooses.
- The safety on which the liveness of the other three rests; these properties are
  not in a run.  `NoStreamIsLeft` (`StreamFits`: a connection is kept exactly while
  its user waits, and one whose socket is closed has a notification on its way);
  `LoginIsNotGivenUp`; `NoPageIsLost` and `OneThreadHasTheTablet` (`ThreadFits`: a
  thread that has not ended is a started one, or Stop waits for it).
- `EachAskedOnce` (`AllOwned`: a request not yet answered owns a message that will
  call it back, or is untouched); `CacheIsFresh` (`EntriesAreFresh`): the loop over
  an entry, which puts the last item in the place of one it removes, passes over
  none; `AnswersAlwaysFit` (`AnswersFit`), from what the keys of messages under way
  and the cached items say of the dialog's history.

`Classifiers_proofs`:

- `LookupsEndOnce` (`LookupEndsOnce`).  `Counted` adds to it that a lookup does not
  list and ask at once.
- `PurgesSpareTheNewest` (`NewestSurvives`).  This is not inductive: the list a
  purge rests on may be old in any way, since each answer in it comes from
  another moment and other lookups delete meanwhile.  `Survivors` says what is
  still true of such a list: an id never changes its name or time and is not
  used again, and for each classifier the list shows as available the server has
  one as new, available, that nobody deletes.  `PurgeSpares` is the core: the
  newest the purge sees has such a survivor, which is at least as new and so is
  spared itself, and everything purged is older.
- `ClassifiersTyped`, whose last part, that a lookup only touches classifiers of
  its name, needs the loop (`KeptAreOwn`) and `Survivors`.

`Loops_proofs`: what the provers need for loops.  The library's induction
theorems take an operator as a parameter, which the installed provers cannot
instantiate; here a set of turns takes its place.  `LeastOne` (a set of numbers has
a least element, from well-foundedness), `EveryTurn` (induction over the turns of a
loop), `TurnsExist` (a recursive function over the turns exists and has values of
its type) carry `Best`, `Pack`, `Unexpired`, `Kept`, `Choose` and the library's
`FlattenSeq`; the rest say what appending, removing, flattening and cutting do.

The encoding of the prover's SMT backend takes `Len` to be a natural number for
everything, which contradicts what it says elsewhere of some functions that are no
sequences, such as one over `0 .. n`.  Every obligation in which this occurs has
therefore been checked without it as well.

Only model-checked:

- liveness, with the `Noticed` half of the refinements: fairness and ENABLED are
  out of the prover's reach.  Every safety property a run checks is stated by a
  theorem.

## What is not modelled

- Contents: audio, images, JSON fields beyond those that decide control, log
  text, service configurations, joint values.
- Listener errors such as a frame that does not parse: they log and return.
- Windows' and macOS' recorder callbacks, DirectSound's buffers, the callbacks of
  the cameras' timers, which read a frame.
- NaoGraspGesture and NaoStatusGesture, which do not use the request queue.
- The readings of NaoHealthSensor and its bookkeeping of failed joints, which
  end in reports; NaoBrowser's logo; the advertisements of RosPlatform.
- The services that keep nothing between a request and its answer: the REST
  clients, AddFace's three requests in a row, text to speech without streams
  (whose cache is the SDK's), the event sensors of the Nao, ABBPlatform, the
  browsers of desktops and the SmartThings and WEX samples.
- The SDK, which is not in the repository: web sockets, timers, the managers.
- Vendored code, by far the most of the tree: DirectX's headers (over a hundred
  thousand lines), libqi, googletest, the Kinect and PointGrey SDKs.  They keep no
  state of the plugins, and their control is not the plugins'; the share of all
  lines in the tree that the map covers is therefore small, although nearly all
  of the plugins' files with control of their own are in it.

## Plan

1. Done: recognition, gateway, telephony, gestures with the microphone.
2. Done: the dialog services, `Classifiers`, `Conversation`, `Dialog`.
3. Done: `ReconnectingLink` and its three implementations; the ROS gesture and
   platform; the sensors; NaoHealth; the streams, IVA's login and NaoBrowser.
4. Done: the proofs above.
5. Left: AddFace as a chain of requests, the bookkeeping of NaoHealthSensor, the
   callbacks of the timed cameras (OpenCVCamera deletes its capture while the
   timer's thread may read from it), and an abstract specification of a request
   ("answered once, then freed") that `Dialog` and `Classifiers` implement.
