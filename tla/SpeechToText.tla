---------------------------- MODULE SpeechToText ----------------------------
(***************************************************************************)
(* The streaming half of the SpeechToText service: one web socket per      *)
(* recognition model, opened by StartListening, kept open by OnReconnect,  *)
(* fed by OnListen.  All handlers run on the main thread, one at a time,   *)
(* and each is one action.  The web client (IWebClient) and the            *)
(* recognition server are not part of the repository; they are modelled    *)
(* from the calls the service makes to them and marked external:           *)
(*   - the client's state is written by the network thread, so GetState()  *)
(*     may be ahead of the notification that announces the change;         *)
(*   - notifications and frames reach the main thread in FIFO order;       *)
(*   - frames sent while connecting are kept, frames sent on a closing or  *)
(*     closed socket are lost.                                             *)
(***************************************************************************)
EXTENDS Naturals, Sequences

CONSTANTS
    Models,        \* recognition models, one connection for each
    Continous,     \* m_Continous: one "start" covers many utterances
    MaxRefresh,    \* bound: RefreshConnections calls while listening
    MaxInbox       \* bound: callbacks of one socket not yet run

ASSUME ModelsAssumption == Models # {}
ASSUME ContinousAssumption == Continous \in BOOLEAN
ASSUME BoundsAssumption == MaxRefresh \in Nat /\ MaxInbox \in Nat \ {0}

VARIABLES
    isListening,   \* m_IsListening
    conn,          \* the Connection object of each model; Fresh when stopped
    flaky          \* whether the network and the server may misbehave now

vars == <<isListening, conn, flaky>>

(***************************************************************************)
(* One connection.  "gen" numbers the sockets a connection has created, so *)
(* that a callback remembers which socket it came from; "srv" is the       *)
(* server's view of the current session; "hz" is m_RecordingHZ >= 0;       *)
(* "late" is: more than LISTEN_TIMEOUT since m_LastStartSent; "timer" is:  *)
(* m_spReconnectTimer holds a timer that has not fired, and "ahead" counts *)
(* the callbacks posted before it was started, which the main thread runs  *)
(* before it.                                                              *)
(***************************************************************************)
SocketState == {"CLOSED", "CONNECTING", "CONNECTED", "CLOSING"}
ServerState == {"idle", "started", "listening", "stopping", "protocolError"}
Callback == [gen : Nat, kind : {"state", "listening", "final", "error"}]

Connection ==
    [sock : SocketState, srv : ServerState, gen : Nat, inbox : Seq(Callback),
     listenActive : BOOLEAN, audioSent : BOOLEAN, connected : BOOLEAN,
     hz : BOOLEAN, late : BOOLEAN, reconnecting : BOOLEAN, timer : BOOLEAN,
     ahead : Nat]

Fresh ==
    [sock |-> "CLOSED", srv |-> "idle", gen |-> 0, inbox |-> << >>,
     listenActive |-> FALSE, audioSent |-> FALSE, connected |-> FALSE,
     hz |-> FALSE, late |-> FALSE, reconnecting |-> FALSE, timer |-> FALSE,
     ahead |-> 0]

Init ==
    /\ isListening = FALSE
    /\ conn = [m \in Models |-> Fresh]
    /\ flaky \in BOOLEAN

-----------------------------------------------------------------------------
(* External: the web client and the server's session protocol.             *)

Live(c) == c.sock \in {"CONNECTING", "CONNECTED"}

\* What IWebClient::Send() may answer.
Answers == IF flaky THEN BOOLEAN ELSE {TRUE}

Dial(c) == [c EXCEPT !.sock = "CONNECTING", !.srv = "idle"]

Close(c) == IF Live(c) THEN [c EXCEPT !.sock = "CLOSING"] ELSE c

\* The session protocol: start, then "listening", then audio, then stop,
\* which the server answers with "listening" again.
AfterFrame(srv, frame) ==
    CASE frame = "start" /\ srv = "idle"      -> "started"
      [] frame = "audio" /\ srv = "listening" -> "listening"
      [] frame = "stop"  /\ srv = "listening" -> "stopping"
      [] OTHER                                -> "protocolError"

SendFrame(c, frame) ==
    IF Live(c) THEN [c EXCEPT !.srv = AfterFrame(c.srv, frame)] ELSE c

Post(c, kind) ==
    [c EXCEPT !.inbox = Append(c.inbox, [gen |-> c.gen, kind |-> kind])]

-----------------------------------------------------------------------------
(* The methods of Connection, as functions of the connection.              *)

SendStart(c) == [SendFrame(c, "start") EXCEPT !.late = FALSE]

\* Mutant: audio goes on while the server finishes the utterance.
SendStop_StillActive(c) ==
    IF c.listenActive THEN [SendFrame(c, "stop") EXCEPT !.late = FALSE] ELSE c

SendStop(c) ==
    IF c.listenActive
    THEN [SendFrame(c, "stop") EXCEPT !.late = FALSE, !.listenActive = FALSE]
    ELSE c

StartReconnectTimer(c) ==
    [c EXCEPT !.timer = TRUE, !.ahead = Len(c.inbox), !.reconnecting = TRUE,
              !.connected = FALSE, !.listenActive = FALSE]

\* Mutants: a retry keeps the flag and the timer, or the rate of the last
\* recognition; a refused retry is not tried again.
Retry_KeepsTimer(c, ok) ==
    LET r == [c EXCEPT !.hz = FALSE, !.late = FALSE]
    IN  IF ok THEN Dial(r) ELSE StartReconnectTimer(r)
Retry_KeepsRate(c, ok) ==
    LET r == [c EXCEPT !.late = FALSE, !.reconnecting = FALSE, !.timer = FALSE]
    IN  IF ok THEN Dial(r) ELSE StartReconnectTimer(r)
Retry_Once(c, ok) ==
    LET r == [c EXCEPT !.hz = FALSE, !.late = FALSE,
                       !.reconnecting = FALSE, !.timer = FALSE]
    IN  IF ok THEN Dial(r) ELSE r

\* The second branch of OnReconnect: the socket is down, dial it again.
Retry(c, ok) ==
    LET r == [c EXCEPT !.hz = FALSE, !.late = FALSE,
                       !.reconnecting = FALSE, !.timer = FALSE]
    IN  IF ok THEN Dial(r) ELSE StartReconnectTimer(r)

OnReconnect(c, ok) ==
    IF c.reconnecting THEN Retry(c, ok) ELSE StartReconnectTimer(c)

\* Connection::Start and the tail of Refresh: a new socket, and if its first
\* Send fails, OnReconnect at once.
Start(c, ok, again) ==
    IF ok THEN [Dial(c) EXCEPT !.hz = FALSE, !.late = FALSE]
          ELSE OnReconnect([c EXCEPT !.connected = FALSE], again)

Refresh(c, ok, again) ==
    Start([c EXCEPT !.connected = FALSE, !.listenActive = FALSE,
                    !.gen = c.gen + 1, !.sock = "CLOSED", !.srv = "idle"],
          ok, again)

\* One clip of audio: the opening "start", then audio or the closing "stop",
\* then the watchdog on a server that never says "listening".
SendClip(c, loud) ==
    CASE loud /\ c.listenActive    -> [SendFrame(c, "audio") EXCEPT !.audioSent = TRUE]
      [] ~loud /\ c.audioSent      -> [SendStop(c) EXCEPT !.audioSent = FALSE]
      [] OTHER                     -> c

\* Mutant: the watchdog is left out.
SendAudio_NoWatchdog(c, loud) ==
    SendClip(IF c.hz THEN c ELSE SendStart([c EXCEPT !.hz = TRUE]), loud)

SendAudio(c, loud) ==
    LET s == SendClip(IF c.hz THEN c ELSE SendStart([c EXCEPT !.hz = TRUE]), loud)
    IN  IF ~s.listenActive /\ s.late THEN Close([s EXCEPT !.late = FALSE]) ELSE s

\* Mutant: a closed socket is ignored because a reconnect is already planned.
OnListenState_TrustsTimer(c, ok) ==
    CASE c.sock = "CLOSED" /\ ~c.reconnecting -> StartReconnectTimer(c)
      [] c.sock = "CONNECTED" -> [c EXCEPT !.connected = TRUE]
      [] OTHER -> c

OnListenState(c, ok) ==
    CASE c.sock = "CLOSED" ->
            OnReconnect([c EXCEPT !.connected = FALSE, !.listenActive = FALSE], ok)
      [] c.sock = "CONNECTED" -> [c EXCEPT !.connected = TRUE]
      [] OTHER -> c

\* Frames are not checked against the current socket; notifications are.
OnCallback(c, cb, ok) ==
    CASE cb.kind = "state" -> IF cb.gen = c.gen THEN OnListenState(c, ok) ELSE c
      [] cb.kind = "listening" -> [c EXCEPT !.listenActive = TRUE]
      [] cb.kind = "final" -> IF Continous THEN c ELSE SendStart(c)
      [] cb.kind = "error" -> Close(c)

-----------------------------------------------------------------------------
(* Calls of the service's users.                                           *)

Opened(ok) == [m \in Models |-> Start(Fresh, ok[m], TRUE)]

StartListening ==
    /\ ~isListening
    /\ isListening' = TRUE
    /\ \E ok \in [Models -> Answers] : conn' = Opened(ok)
    /\ UNCHANGED flaky

\* Destroying the connections drops their timers and undelivered callbacks.
\* Stop() and a result whose receiver is gone come here too.
StopListening ==
    /\ isListening
    /\ isListening' = FALSE
    /\ conn' = [m \in Models |-> Fresh]
    /\ UNCHANGED flaky

\* Changing the opt-out restarts recognition with the saved callback (the
\* callback of a receiver that is gone does not start anything).
SetLearningOptOut ==
    /\ isListening
    /\ \/ StopListening
       \/ /\ \E ok \in [Models -> Answers] : conn' = Opened(ok)
          /\ UNCHANGED <<isListening, flaky>>

RefreshConnections ==
    /\ isListening
    /\ \A m \in Models : conn[m].gen < MaxRefresh
    /\ \E ok, again \in [Models -> Answers] :
          conn' = [m \in Models |-> Refresh(conn[m], ok[m], again[m])]
    /\ UNCHANGED <<isListening, flaky>>

OnListen(loud) ==
    /\ isListening
    /\ conn' = [m \in Models |-> SendAudio(conn[m], loud)]
    /\ UNCHANGED <<isListening, flaky>>

\* The client reports that the network is gone.
Disconnected ==
    /\ isListening
    /\ flaky
    /\ conn' = [m \in Models |-> Close([conn[m] EXCEPT !.connected = FALSE])]
    /\ UNCHANGED <<isListening, flaky>>

-----------------------------------------------------------------------------
(* Callbacks and timers of one connection.                                 *)

Deliver(m) ==
    /\ isListening
    /\ conn[m].inbox # << >>
    /\ \E ok \in Answers :
          LET c == [conn[m] EXCEPT !.inbox = Tail(conn[m].inbox),
                                   !.ahead = IF @ > 0 THEN @ - 1 ELSE 0]
          IN  conn' = [conn EXCEPT ![m] = OnCallback(c, Head(conn[m].inbox), ok)]
    /\ UNCHANGED <<isListening, flaky>>

\* OnReconnect called by its timer.  Its third branch gives up on every
\* model when this socket is neither closed nor disconnected.
TimerFires(m) ==
    /\ isListening
    /\ conn[m].timer /\ conn[m].ahead = 0
    /\ LET c == [conn[m] EXCEPT !.timer = FALSE]
       IN  \/ /\ c.reconnecting => c.sock = "CLOSED"
              /\ \E ok \in Answers : conn' = [conn EXCEPT ![m] = OnReconnect(c, ok)]
              /\ UNCHANGED <<isListening, flaky>>
           \/ /\ c.reconnecting /\ c.sock # "CLOSED"
              /\ StopListening

\* LISTEN_TIMEOUT passes since m_LastStartSent.  A healthy server answers a
\* "start" or a "stop" within that time.
ListenTimeout(m) ==
    /\ isListening
    /\ ~conn[m].late
    /\ flaky \/ conn[m].listenActive \/ ~conn[m].hz
    /\ conn' = [conn EXCEPT ![m].late = TRUE]
    /\ UNCHANGED <<isListening, flaky>>

-----------------------------------------------------------------------------
(* External: the network thread and the server.                            *)

Room(m) == isListening /\ Len(conn[m].inbox) < MaxInbox

SocketBecomes(m, state) ==
    conn' = [conn EXCEPT ![m] = Post([conn[m] EXCEPT !.sock = state], "state")]

NetOpen(m) ==
    /\ Room(m)
    /\ conn[m].sock = "CONNECTING"
    /\ SocketBecomes(m, "CONNECTED")
    /\ UNCHANGED <<isListening, flaky>>

NetClosed(m) ==
    /\ Room(m)
    /\ conn[m].sock = "CLOSING"
    /\ SocketBecomes(m, "CLOSED")
    /\ UNCHANGED <<isListening, flaky>>

NetDrop(m) ==
    /\ Room(m)
    /\ flaky
    /\ Live(conn[m])
    /\ SocketBecomes(m, "CLOSED")
    /\ UNCHANGED <<isListening, flaky>>

ServerSays(m, kind, srv) ==
    /\ Room(m)
    /\ conn[m].sock = "CONNECTED"
    /\ conn' = [conn EXCEPT ![m] = Post([conn[m] EXCEPT !.srv = srv], kind)]
    /\ UNCHANGED <<isListening, flaky>>

ServerListening(m) ==
    /\ conn[m].srv \in {"started", "stopping"}
    /\ ServerSays(m, "listening", "listening")

ServerFinalResult(m) ==
    /\ conn[m].srv \in {"listening", "stopping"}
    /\ ServerSays(m, "final", IF Continous THEN conn[m].srv ELSE "idle")

ServerError(m) ==
    /\ flaky
    /\ ServerSays(m, "error", conn[m].srv)

Weather ==
    /\ flaky' = ~flaky
    /\ UNCHANGED <<isListening, conn>>

-----------------------------------------------------------------------------
Next ==
    \/ StartListening \/ StopListening \/ SetLearningOptOut
    \/ RefreshConnections \/ Disconnected \/ Weather
    \/ \E loud \in BOOLEAN : OnListen(loud)
    \/ \E m \in Models :
          \/ Deliver(m) \/ TimerFires(m) \/ ListenTimeout(m)
          \/ NetOpen(m) \/ NetClosed(m) \/ NetDrop(m)
          \/ ServerListening(m) \/ ServerFinalResult(m) \/ ServerError(m)

\* The main thread runs what is posted to it, timers expire, the network
\* answers, and so does a server that is not flaky; the microphone keeps
\* delivering clips.
Fairness ==
    /\ WF_vars(OnListen(TRUE))
    /\ \A m \in Models :
          /\ WF_vars(Deliver(m)) /\ WF_vars(TimerFires(m))
          /\ WF_vars(ListenTimeout(m))
          /\ WF_vars(NetOpen(m)) /\ WF_vars(NetClosed(m))
          /\ SF_vars(~flaky /\ ServerListening(m))  \* results may fill the inbox first

Spec == Init /\ [][Next]_vars
FairSpec == Spec /\ Fairness

-----------------------------------------------------------------------------
TypeOK ==
    /\ isListening \in BOOLEAN
    /\ conn \in [Models -> Connection]
    /\ flaky \in BOOLEAN

\* A notification of the current socket that the main thread has yet to run.
StatePending(c) ==
    \E i \in DOMAIN c.inbox : c.inbox[i] = [gen |-> c.gen, kind |-> "state"]

\* While listening, a connection whose socket is down has either a timer that
\* will dial again or a notification under way that will start one: no
\* interleaving of drops, failed sends, refreshes and timers leaves it deaf.
NeverDeaf ==
    isListening =>
        \A m \in Models : conn[m].sock = "CLOSED" => conn[m].timer \/ StatePending(conn[m])

\* What the users see of one connection; "dead" is no state of ReconnectingLink.
LinkState(c) ==
    CASE ~isListening                          -> "closed"
      [] isListening /\ c.sock # "CLOSED"      -> "open"
      [] isListening /\ c.sock = "CLOSED" /\ c.timer -> "waiting"
      [] isListening /\ c.sock = "CLOSED" /\ ~c.timer /\ StatePending(c) -> "lost"
      [] OTHER                                 -> "dead"

Promise(m) == INSTANCE ReconnectingLink WITH link <- LinkState(conn[m])

\* Every connection is a ReconnectingLink from StartListening to StopListening:
\* through drops, refused sends, refreshes, opt-outs and timers, each step of
\* the service is one of that link or none, so that no order of them leaves a
\* connection down with nothing that will dial it again.
\* (It is \A m \in Models : Promise(m)!Safety, in a form TLC takes.)
KeepsItsPromise ==
    /\ \A m \in Models : Promise(m)!Init
    /\ [][\A m \in Models : [Promise(m)!Next]_(LinkState(conn[m]))]_vars

\* m_bReconnecting is set exactly while the reconnect timer is pending, so a
\* connection never waits for a timer it has lost nor starts a second one.
FlagMatchesTimer ==
    \A m \in Models : conn[m].reconnecting <=> conn[m].timer

\* IsConnected() is wrong only until the pending notification is delivered.
ConnectedIsCurrent ==
    \A m \in Models : conn[m].connected /\ conn[m].sock = "CLOSED" => StatePending(conn[m])

\* Audio and "stop" reach the server only while it listens, and "start" only
\* when no recognition is open (SendAudio, SendStop and m_ListenActive).
SessionRespected ==
    \A m \in Models : conn[m].srv # "protocolError"

\* The reconnect timer of one connection dials its socket again; it never
\* ends the recognition of all models (the third branch of OnReconnect).
TimerKeepsListening ==
    [][\A m \in Models : TimerFires(m) => isListening']_vars

\* The network behaves from some time on, and users stop restarting: no step is
\* any more one SetLearningOptOut could have taken.
Calm == <>[]~flaky /\ <>[][~SetLearningOptOut]_vars

\* Once the network behaves, a connection that is down is connected again: the
\* server is listening again and again, unless recognition has been stopped.
HearsAgain ==
    Calm => \A m \in Models : []<>(conn[m].listenActive \/ ~isListening)

\* A server that stays silent after "start" does not hold the connection: the
\* LISTEN_TIMEOUT check of SendAudio closes it.
SilentServerIsLeft ==
    <>[]flaky => \A m \in Models :
        (isListening /\ conn[m].sock = "CONNECTED" /\ ~conn[m].listenActive)
            ~> (conn[m].listenActive \/ conn[m].sock # "CONNECTED" \/ ~isListening)
=============================================================================
