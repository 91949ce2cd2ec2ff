------------------------ MODULE SpeechToText_proofs ------------------------
(***************************************************************************)
(* What SpeechToText guarantees for every set of models, every number of   *)
(* refreshes and every bound on the callbacks in flight.                   *)
(*                                                                         *)
(* NeverDeaf is not inductive alone: that OnReconnect starts a timer rests *)
(* on m_bReconnecting being set only while one is pending, and IsConnected *)
(* on the same notification.  Good collects what one connection keeps      *)
(* between two callbacks; IInv says that every connection is Good while    *)
(* listening and is a fresh object otherwise.  The session protocol        *)
(* follows in a section of its own.                                        *)
(***************************************************************************)
EXTENDS SpeechToText, Loops_proofs

\* What the handlers may rely on in the middle of their work.
Sound(c) ==
    /\ c \in Connection
    /\ c.reconnecting <=> c.timer

Good(c) ==
    /\ Sound(c)
    /\ c.sock = "CLOSED" => c.timer \/ StatePending(c)
    /\ c.connected /\ c.sock = "CLOSED" => StatePending(c)
    /\ MaxRefresh = 0 /\ c.timer => c.sock = "CLOSED"

IInv ==
    /\ isListening \in BOOLEAN
    /\ flaky \in BOOLEAN
    /\ conn \in [Models -> Connection]
    /\ \A m \in Models : IF isListening THEN Good(conn[m]) ELSE conn[m] = Fresh

-----------------------------------------------------------------------------
(* Lemmas about one connection.                                            *)

\* A new Connection object has the type of one and no timer.
LEMMA FreshSound == Sound(Fresh)
  BY DEF Sound, Fresh, Connection, SocketState, ServerState, Callback

\* Good looks at six fields only.
LEMMA GoodFields ==
  ASSUME NEW d, Good(d), NEW e \in Connection,
         e.sock = d.sock, e.gen = d.gen, e.inbox = d.inbox, e.timer = d.timer,
         e.reconnecting = d.reconnecting, e.connected = d.connected
  PROVE  Good(e)
  BY DEF Good, Sound, StatePending

\* So the other fields can be written one at a time.
LEMMA SessionGood ==
  ASSUME NEW d, Good(d), NEW s \in ServerState
  PROVE  Good([d EXCEPT !.srv = s])
<1>1. d \in Connection
  BY DEF Good, Sound
<1>2. QED
  BY <1>1, GoodFields DEF Connection

LEMMA OtherFieldsGood ==
  ASSUME NEW d, Good(d), NEW b \in BOOLEAN
  PROVE  /\ Good([d EXCEPT !.late = b])
         /\ Good([d EXCEPT !.listenActive = b])
         /\ Good([d EXCEPT !.audioSent = b])
         /\ Good([d EXCEPT !.hz = b])
<1>1. d \in Connection
  BY DEF Good, Sound
<1>2. Good([d EXCEPT !.late = b])
  BY <1>1, GoodFields DEF Connection
<1>3. Good([d EXCEPT !.listenActive = b])
  BY <1>1, GoodFields DEF Connection
<1>4. Good([d EXCEPT !.audioSent = b])
  BY <1>1, GoodFields DEF Connection
<1>5. Good([d EXCEPT !.hz = b])
  BY <1>1, GoodFields DEF Connection
<1>6. QED
  BY <1>2, <1>3, <1>4, <1>5

\* Writing a frame to the socket moves only the server's session.
LEMMA SendFrameKeeps ==
  ASSUME NEW c \in Connection, NEW f \in {"start", "audio", "stop"}
  PROVE  /\ SendFrame(c, f) \in Connection
         /\ SendFrame(c, f) = [c EXCEPT !.srv = SendFrame(c, f).srv]
<1>1. AfterFrame(c.srv, f) \in ServerState
  BY DEF AfterFrame, ServerState
<1>2. QED
  BY <1>1 DEF SendFrame, Connection

\* SendStart touches nothing the invariant speaks of.
LEMMA SendStartGood ==
  ASSUME NEW c, Good(c)
  PROVE  Good(SendStart(c))
<1>1. c \in Connection
  BY DEF Good, Sound
<1>2. PICK s \in ServerState : SendStart(c) = [c EXCEPT !.srv = s, !.late = FALSE]
  <2>1. SendFrame(c, "start") \in Connection
    BY <1>1, SendFrameKeeps
  <2>2. QED
    BY <1>1, <2>1, SendFrameKeeps DEF SendStart, Connection
<1>3. QED
  BY <1>2, SessionGood, OtherFieldsGood

\* Close never makes a socket CLOSED: that is the network thread's doing.
LEMMA CloseGood ==
  ASSUME NEW c, Good(c)
  PROVE  Good(Close(c))
  BY DEF Good, Sound, Close, Live, StatePending, Connection, SocketState

\* Starting the timer on a closed socket restores everything at once.
LEMMA StartReconnectTimerGood ==
  ASSUME NEW d \in Connection, d.sock = "CLOSED"
  PROVE  Good(StartReconnectTimer(d))
<1>1. Len(d.inbox) \in Nat
  BY DEF Connection
<1>2. QED
  BY <1>1 DEF Good, Sound, StartReconnectTimer, StatePending, Connection

\* A refused or accepted retry leaves a timer or a socket being opened.
LEMMA RetryGood ==
  ASSUME NEW c \in Connection, c.sock = "CLOSED", NEW ok \in BOOLEAN
  PROVE  Good(Retry(c, ok))
<1>1. ASSUME NEW d \in Connection, ~d.timer, ~d.reconnecting
      PROVE  Good(Dial(d))
  BY <1>1 DEF Good, Sound, Dial, StatePending, Connection, SocketState, ServerState
<1> DEFINE r == [c EXCEPT !.hz = FALSE, !.late = FALSE,
                          !.reconnecting = FALSE, !.timer = FALSE]
<1>2. r \in Connection /\ r.sock = "CLOSED" /\ ~r.timer /\ ~r.reconnecting
  BY DEF Connection
<1>3. Retry(c, ok) = IF ok THEN Dial(r) ELSE StartReconnectTimer(r)
  BY DEF Retry
<1> HIDE DEF r
<1>4. QED
  BY <1>1, <1>2, <1>3, StartReconnectTimerGood

\* OnReconnect on a closed socket, whoever calls it.
LEMMA OnReconnectGood ==
  ASSUME NEW c, Sound(c), c.sock = "CLOSED", NEW ok \in BOOLEAN
  PROVE  Good(OnReconnect(c, ok))
  BY RetryGood, StartReconnectTimerGood DEF Sound, OnReconnect

\* A clip, loud or quiet, keeps a connection sound, whatever the server thinks
\* of the frames it causes.
LEMMA SendAudioGood ==
  ASSUME NEW c, Good(c), NEW loud \in BOOLEAN
  PROVE  Good(SendAudio(c, loud))
<1>1. ASSUME NEW d, Good(d) PROVE Good(SendClip(d, loud))
  <2>1. d \in Connection
    BY <1>1 DEF Good, Sound
  <2>2. CASE loud /\ d.listenActive
    <3>1. PICK s \in ServerState : SendFrame(d, "audio") = [d EXCEPT !.srv = s]
      BY <2>1, SendFrameKeeps DEF Connection
    <3>2. SendClip(d, loud) = [d EXCEPT !.srv = s, !.audioSent = TRUE]
      BY <2>1, <2>2, <3>1 DEF SendClip, Connection
    <3>3. Good([d EXCEPT !.srv = s])
      BY <1>1, SessionGood
    <3>4. Good([[d EXCEPT !.srv = s] EXCEPT !.audioSent = TRUE])
      BY <3>3, OtherFieldsGood
    <3>5. QED
      BY <3>2, <3>4
  <2>3. CASE ~loud /\ d.audioSent
    <3>1. CASE d.listenActive
      <4>1. PICK s \in ServerState : SendFrame(d, "stop") = [d EXCEPT !.srv = s]
        BY <2>1, SendFrameKeeps DEF Connection
      <4>2. SendClip(d, loud) = [d EXCEPT !.srv = s, !.late = FALSE,
                                          !.listenActive = FALSE, !.audioSent = FALSE]
        BY <2>1, <2>3, <3>1, <4>1 DEF SendClip, SendStop, Connection
      <4> DEFINE e == [[d EXCEPT !.srv = s] EXCEPT !.late = FALSE]
                 f == [e EXCEPT !.listenActive = FALSE]
      <4>3. Good([d EXCEPT !.srv = s])
        BY <1>1, SessionGood
      <4>4. Good(e)
        BY <4>3, OtherFieldsGood
      <4>5. Good(f)
        BY <4>4, OtherFieldsGood
      <4>6. Good([f EXCEPT !.audioSent = FALSE])
        BY <4>5, OtherFieldsGood
      <4>7. QED
        BY <4>2, <4>6
    <3>2. CASE ~d.listenActive
      <4>1. SendClip(d, loud) = [d EXCEPT !.audioSent = FALSE]
        BY <2>3, <3>2 DEF SendClip, SendStop
      <4>2. QED
        BY <1>1, <4>1, OtherFieldsGood
    <3>3. QED
      BY <3>1, <3>2
  <2>4. CASE ~(loud /\ d.listenActive) /\ ~(~loud /\ d.audioSent)
    BY <1>1, <2>4 DEF SendClip
  <2>5. QED
    BY <2>2, <2>3, <2>4
<1>2. ASSUME NEW d, Good(d) PROVE Good([d EXCEPT !.hz = TRUE]) /\ Good([d EXCEPT !.late = FALSE])
  BY <1>2, OtherFieldsGood
<1> DEFINE o == IF c.hz THEN c ELSE SendStart([c EXCEPT !.hz = TRUE])
           s == SendClip(o, loud)
<1>3. Good(o)
  BY <1>2, SendStartGood
<1>4. Good(s)
  BY <1>1, <1>3
<1>5. SendAudio(c, loud) = IF ~s.listenActive /\ s.late THEN Close([s EXCEPT !.late = FALSE]) ELSE s
  BY DEF SendAudio
<1> HIDE DEF s
<1>6. Good(Close([s EXCEPT !.late = FALSE]))
  BY <1>2, <1>4, CloseGood
<1>7. QED
  BY <1>4, <1>5, <1>6

\* Running one posted callback.  The case that matters is the notification of
\* a closed socket: it is taken off the queue, so a timer must replace it.
LEMMA OnCallbackGood ==
  ASSUME NEW d, Good(d), d.inbox # << >>, NEW n \in Nat, NEW ok \in BOOLEAN
  PROVE  Good(OnCallback([d EXCEPT !.inbox = Tail(d.inbox), !.ahead = n], Head(d.inbox), ok))
<1> DEFINE c == [d EXCEPT !.inbox = Tail(d.inbox), !.ahead = n]
           cb == Head(d.inbox)
<1>1. d \in Connection /\ d.inbox \in Seq(Callback) /\ (d.reconnecting <=> d.timer)
  BY DEF Good, Sound, Connection
<1>2. cb \in Callback /\ Tail(d.inbox) \in Seq(Callback)
  BY <1>1
<1>3. c \in Connection /\ Sound(c)
  BY <1>1, <1>2 DEF Connection, Sound
<1>4. c.sock = d.sock /\ c.gen = d.gen /\ c.timer = d.timer /\ c.connected = d.connected
      /\ c.inbox = Tail(d.inbox) /\ c.reconnecting = d.reconnecting
  BY <1>1 DEF Connection
<1> SUFFICES Good(OnCallback(c, cb, ok))
  OBVIOUS
<1>h. cb = Head(d.inbox)
  OBVIOUS
<1> HIDE DEF c, cb
<1>5. CASE cb.kind = "state" /\ cb.gen = c.gen
  <2>1. OnCallback(c, cb, ok) = OnListenState(c, ok)
    BY <1>5 DEF OnCallback
  <2>2. CASE c.sock = "CLOSED"
    <3> DEFINE e == [c EXCEPT !.connected = FALSE, !.listenActive = FALSE]
    <3>1. Sound(e) /\ e.sock = "CLOSED" /\ ~e.connected
      BY <1>3, <2>2 DEF Sound, Connection
    <3>2. OnListenState(c, ok) = OnReconnect(e, ok)
      BY <2>2 DEF OnListenState
    <3> HIDE DEF e
    <3>3. QED
      BY <2>1, <3>1, <3>2, OnReconnectGood
  <2>3. CASE c.sock = "CONNECTED"
    <3>1. OnListenState(c, ok) = [c EXCEPT !.connected = TRUE]
      BY <2>3 DEF OnListenState
    <3>2. [c EXCEPT !.connected = TRUE] \in Connection
      BY <1>3 DEF Connection
    <3>3. MaxRefresh = 0 => ~c.timer
      BY <1>4, <2>3 DEF Good
    <3>4. QED
      BY <1>3, <2>1, <2>3, <3>1, <3>2, <3>3 DEF Good, Sound, Connection
  <2>4. CASE c.sock # "CLOSED" /\ c.sock # "CONNECTED"
    <3>1. OnListenState(c, ok) = c
      BY <2>4 DEF OnListenState
    <3>2. QED
      BY <1>3, <1>4, <2>1, <2>4, <3>1 DEF Good, Sound, Connection
  <2>5. QED
    BY <2>2, <2>3, <2>4
<1>6. CASE ~(cb.kind = "state" /\ cb.gen = c.gen)
  <2>1. StatePending(d) => StatePending(c)
    <3>1. SUFFICES ASSUME NEW i \in DOMAIN d.inbox,
                          d.inbox[i] = [gen |-> d.gen, kind |-> "state"]
                   PROVE  StatePending(c)
      BY DEF StatePending
    <3>2. i # 1
      BY <1>h, <1>4, <1>6, <3>1
    <3>3. i - 1 \in DOMAIN c.inbox /\ c.inbox[i - 1] = d.inbox[i]
      BY <1>1, <1>4, <3>2
    <3>4. QED
      BY <1>4, <3>1, <3>3 DEF StatePending
  <2>2. Good(c)
    BY <1>3, <1>4, <2>1 DEF Good
  <2>3. c = OnCallback(c, cb, ok) \/ Good(OnCallback(c, cb, ok))
    <3>1. CASE cb.kind = "state"
      BY <1>6, <3>1 DEF OnCallback
    <3>2. CASE cb.kind = "listening"
      <4>1. OnCallback(c, cb, ok) = [c EXCEPT !.listenActive = TRUE]
        BY <3>2 DEF OnCallback
      <4>2. QED
        BY <2>2, <4>1, OtherFieldsGood
    <3>3. CASE cb.kind = "final"
      <4>1. OnCallback(c, cb, ok) = IF Continous THEN c ELSE SendStart(c)
        BY <3>3 DEF OnCallback
      <4>2. QED
        BY <2>2, <4>1, SendStartGood
    <3>4. CASE cb.kind = "error"
      <4>1. OnCallback(c, cb, ok) = Close(c)
        BY <3>4 DEF OnCallback
      <4>2. QED
        BY <2>2, <4>1, CloseGood DEF Good
    <3>5. QED
      BY <1>2, <3>1, <3>2, <3>3, <3>4 DEF Callback
  <2>4. QED
    BY <2>2, <2>3
<1>7. QED
  BY <1>5, <1>6

\* A connection that has just been started, and one that has been refreshed.
LEMMA StartGood ==
  ASSUME NEW c, Sound(c), c.sock = "CLOSED", ~c.connected,
         c.timer => MaxRefresh # 0,
         NEW ok \in BOOLEAN, NEW again \in BOOLEAN
  PROVE  Good(Start(c, ok, again))
<1>1. c \in Connection
  BY DEF Sound
<1>2. CASE ok
  <2> DEFINE d == [Dial(c) EXCEPT !.hz = FALSE, !.late = FALSE]
  <2>1. /\ d \in Connection /\ d.sock = "CONNECTING"
        /\ d.timer = c.timer /\ d.reconnecting = c.reconnecting
    BY <1>1 DEF Dial, Connection, SocketState, ServerState
  <2>2. Start(c, ok, again) = d
    BY <1>2 DEF Start
  <2> HIDE DEF d
  <2>3. Sound(d) /\ (MaxRefresh = 0 => ~d.timer)
    BY <2>1 DEF Sound
  <2>4. QED
    BY <2>1, <2>2, <2>3 DEF Good
<1>3. CASE ~ok
  <2> DEFINE d == [c EXCEPT !.connected = FALSE]
  <2>1. Sound(d) /\ d.sock = "CLOSED" /\ ~d.connected
    BY <1>1 DEF Sound, Connection
  <2>2. Start(c, ok, again) = OnReconnect(d, again)
    BY <1>3 DEF Start
  <2> HIDE DEF d
  <2>3. QED
    BY <2>1, <2>2, OnReconnectGood
<1>4. QED
  BY <1>2, <1>3

LEMMA RefreshGood ==
  ASSUME NEW c, Good(c), MaxRefresh # 0, NEW ok \in BOOLEAN, NEW again \in BOOLEAN
  PROVE  Good(Refresh(c, ok, again))
<1> DEFINE d == [c EXCEPT !.connected = FALSE, !.listenActive = FALSE,
                          !.gen = c.gen + 1, !.sock = "CLOSED", !.srv = "idle"]
<1>0. c \in Connection /\ (c.reconnecting <=> c.timer) /\ c.gen + 1 \in Nat
  BY DEF Good, Sound, Connection
<1>1. Sound(d) /\ d.sock = "CLOSED" /\ ~d.connected
  <2>1. d \in Connection
    BY <1>0 DEF Connection, SocketState, ServerState
  <2>2. QED
    BY <1>0, <2>1 DEF Sound, Connection
<1>2. Refresh(c, ok, again) = Start(d, ok, again)
  BY DEF Refresh
<1> HIDE DEF d
<1>3. Good(Start(d, ok, again))
  BY <1>1, StartGood
<1>4. QED
  BY <1>2, <1>3

\* The network thread leaves a notification behind whenever it closes a socket,
\* and the server's frames do not disturb the connection's own state.
LEMMA PostGood ==
  ASSUME NEW c, Good(c), NEW k \in {"state", "listening", "final", "error"},
         NEW s \in SocketState, NEW v \in ServerState,
         k # "state" => s = c.sock,
         MaxRefresh = 0 => ~c.timer
  PROVE  Good(Post([c EXCEPT !.sock = s, !.srv = v], k))
<1> DEFINE n == [gen |-> c.gen, kind |-> k]
           d == [c EXCEPT !.sock = s, !.srv = v, !.inbox = Append(c.inbox, n)]
<1>1. c \in Connection /\ c.inbox \in Seq(Callback) /\ (c.reconnecting <=> c.timer)
  BY DEF Good, Sound, Connection
<1>2. n \in Callback
  BY <1>1 DEF Callback, Connection
<1>3. d \in Connection
  <2> HIDE DEF n
  <2>1. Append(c.inbox, n) \in Seq(Callback)
    BY <1>1, <1>2
  <2>2. QED
    BY <1>1, <2>1 DEF Connection
<1>4. d.sock = s /\ d.gen = c.gen /\ d.timer = c.timer /\ d.connected = c.connected
      /\ d.reconnecting = c.reconnecting /\ d.inbox = Append(c.inbox, n)
  BY <1>1 DEF Connection
<1>5. Post([c EXCEPT !.sock = s, !.srv = v], k) = d
  BY <1>1 DEF Post, Connection
<1> HIDE DEF d
<1>6. k = "state" => StatePending(d)
  <2>1. Len(c.inbox) + 1 \in DOMAIN d.inbox /\ d.inbox[Len(c.inbox) + 1] = n
    BY <1>1, <1>2, <1>4
  <2>2. QED
    BY <2>1, <1>4 DEF StatePending
<1>7. StatePending(c) => StatePending(d)
  <2>1. \A i \in DOMAIN c.inbox : i \in DOMAIN d.inbox /\ d.inbox[i] = c.inbox[i]
    BY <1>1, <1>2, <1>4
  <2>2. QED
    BY <2>1, <1>4 DEF StatePending
<1>8. Good(d)
  BY <1>1, <1>3, <1>4, <1>6, <1>7 DEF Good, Sound
<1>9. QED
  BY <1>5, <1>8

-----------------------------------------------------------------------------
(* The invariant.                                                          *)

LEMMA InitIInv == Init => IInv
  BY FreshSound DEF Init, IInv, Sound

\* Every user call, callback, timer and network event keeps IInv.
LEMMA NextIInv == IInv /\ [Next]_vars => IInv'
<1> SUFFICES ASSUME IInv, [Next]_vars PROVE IInv'
  OBVIOUS
<1> USE DEF IInv
<1>1. Answers \subseteq BOOLEAN /\ TRUE \in BOOLEAN
  BY DEF Answers
<1>2. Fresh \in Connection
  BY FreshSound DEF Sound
<1>3. \A m \in Models : conn[m] \in Connection
  OBVIOUS
<1>4. \A c : Good(c) => c \in Connection
  BY DEF Good, Sound
<1>5. ASSUME NEW ok \in [Models -> Answers], conn' = Opened(ok), isListening' = TRUE,
             flaky' = flaky
      PROVE  IInv'
  <2>1. Fresh.sock = "CLOSED" /\ ~Fresh.connected /\ ~Fresh.timer
    BY DEF Fresh
  <2>2. \A m \in Models : Good(Start(Fresh, ok[m], TRUE))
    BY <1>1, <2>1, FreshSound, StartGood
  <2>3. QED
    BY <1>4, <1>5, <2>2 DEF Opened
<1>6. CASE StartListening
  BY <1>5, <1>6 DEF StartListening
<1>7. CASE StopListening
  BY <1>2, <1>7 DEF StopListening
<1>8. CASE SetLearningOptOut
  BY <1>5, <1>7, <1>8 DEF SetLearningOptOut
<1>9. CASE RefreshConnections
  <2>1. PICK ok \in [Models -> Answers], again \in [Models -> Answers] :
          conn' = [m \in Models |-> Refresh(conn[m], ok[m], again[m])]
    BY <1>9 DEF RefreshConnections
  <2>2. MaxRefresh # 0
    <3>1. PICK m \in Models : TRUE
      BY ModelsAssumption
    <3>2. conn[m].gen \in Nat /\ conn[m].gen < MaxRefresh
      BY <1>9, <1>3, <3>1 DEF RefreshConnections, Connection
    <3>3. QED
      BY <3>2
  <2>3. \A m \in Models : Good(Refresh(conn[m], ok[m], again[m]))
    BY <1>1, <1>9, <2>2, RefreshGood DEF RefreshConnections
  <2>4. QED
    BY <1>4, <1>9, <2>1, <2>3 DEF RefreshConnections
<1>10. CASE Disconnected
  <2>1. ASSUME NEW m \in Models
        PROVE  Good(Close([conn[m] EXCEPT !.connected = FALSE]))
    <3>1. Good(conn[m]) /\ conn[m] \in Connection
      BY <1>10 DEF Disconnected
    <3>2. Good([conn[m] EXCEPT !.connected = FALSE])
      <4>1. [conn[m] EXCEPT !.connected = FALSE] \in Connection
        BY <3>1 DEF Connection
      <4>2. QED
        BY <3>1, <4>1 DEF Good, Sound, StatePending, Connection
    <3>3. QED
      BY <3>2, CloseGood
  <2>2. QED
    BY <1>4, <1>10, <2>1 DEF Disconnected
<1>11. CASE Weather
  BY <1>11 DEF Weather
<1>12. ASSUME NEW loud \in BOOLEAN, OnListen(loud)
       PROVE  IInv'
  <2>1. \A m \in Models : Good(SendAudio(conn[m], loud))
    BY <1>12, SendAudioGood DEF OnListen
  <2>2. QED
    BY <1>4, <1>12, <2>1 DEF OnListen
<1>13. ASSUME NEW m \in Models, NEW c, Good(c), isListening, isListening' = TRUE,
              flaky' = flaky, conn' = [conn EXCEPT ![m] = c]
       PROVE  IInv'
  BY <1>4, <1>13
<1>14. ASSUME NEW m \in Models, Deliver(m)
       PROVE  IInv'
  <2>1. PICK ok \in Answers : conn' = [conn EXCEPT ![m] =
            OnCallback([conn[m] EXCEPT !.inbox = Tail(conn[m].inbox),
                           !.ahead = IF conn[m].ahead > 0 THEN conn[m].ahead - 1 ELSE 0],
                       Head(conn[m].inbox), ok)]
    BY <1>3, <1>14 DEF Deliver, Connection
  <2>2. (IF conn[m].ahead > 0 THEN conn[m].ahead - 1 ELSE 0) \in Nat
    BY <1>3 DEF Connection
  <2>3. Good(conn[m]) /\ conn[m].inbox # << >>
    BY <1>14 DEF Deliver
  <2>4. Good(OnCallback([conn[m] EXCEPT !.inbox = Tail(conn[m].inbox),
                           !.ahead = IF conn[m].ahead > 0 THEN conn[m].ahead - 1 ELSE 0],
                       Head(conn[m].inbox), ok))
    BY <1>1, <2>2, <2>3, OnCallbackGood
  <2>5. QED
    BY <1>13, <1>14, <2>1, <2>4 DEF Deliver
<1>15. ASSUME NEW m \in Models, TimerFires(m)
       PROVE  IInv'
  <2> DEFINE c == [conn[m] EXCEPT !.timer = FALSE]
  <2>1. Good(conn[m]) /\ conn[m].timer /\ conn[m].reconnecting
    BY <1>15 DEF TimerFires, Good, Sound
  <2>2. CASE StopListening
    BY <1>7, <2>2
  <2>3. CASE /\ c.reconnecting => c.sock = "CLOSED"
             /\ \E ok \in Answers : conn' = [conn EXCEPT ![m] = OnReconnect(c, ok)]
             /\ UNCHANGED <<isListening, flaky>>
    <3>1. PICK ok \in Answers : conn' = [conn EXCEPT ![m] = OnReconnect(c, ok)]
      BY <2>3
    <3>2. c.sock = "CLOSED" /\ c.reconnecting /\ c \in Connection
      BY <1>3, <2>1, <2>3, ZenonT(40) DEF Connection
    <3>3. OnReconnect(c, ok) = Retry(c, ok)
      BY <3>2 DEF OnReconnect
    <3>4. Good(Retry(c, ok))
      BY <1>1, <3>2, RetryGood
    <3>5. QED
      BY <1>13, <1>15, <2>3, <3>1, <3>3, <3>4 DEF TimerFires
  <2>4. QED
    BY <1>15, <2>2, <2>3 DEF TimerFires
<1>16. ASSUME NEW m \in Models, ListenTimeout(m)
       PROVE  IInv'
  <2>1. Good(conn[m])
    BY <1>16 DEF ListenTimeout
  <2>2. conn' = [conn EXCEPT ![m] = [conn[m] EXCEPT !.late = TRUE]]
    BY <1>16 DEF ListenTimeout
  <2>3. Good([conn[m] EXCEPT !.late = TRUE])
    BY <2>1, OtherFieldsGood
  <2>4. QED
    BY <1>13, <1>16, <2>2, <2>3 DEF ListenTimeout
<1>17. ASSUME NEW m \in Models, NEW s \in {"CONNECTED", "CLOSED"},
              isListening, conn[m].sock # "CLOSED",
              SocketBecomes(m, s), UNCHANGED <<isListening, flaky>>
       PROVE  IInv'
  <2>1. Good(conn[m]) /\ (MaxRefresh = 0 => ~conn[m].timer)
    BY <1>17 DEF Good
  <2>2. [conn[m] EXCEPT !.sock = s] = [conn[m] EXCEPT !.sock = s, !.srv = conn[m].srv]
    BY <1>3 DEF Connection
  <2>3. conn[m].srv \in ServerState /\ s \in SocketState
    BY <1>3 DEF Connection, SocketState
  <2>4. Good(Post([conn[m] EXCEPT !.sock = s, !.srv = conn[m].srv], "state"))
    BY <2>1, <2>3, PostGood
  <2>5. QED
    BY <1>13, <1>17, <2>2, <2>4 DEF SocketBecomes
<1>18. ASSUME NEW m \in Models, NEW k \in {"listening", "final", "error"},
              NEW v \in ServerState, ServerSays(m, k, v)
       PROVE  IInv'
  <2>1. Good(conn[m]) /\ conn[m].sock = "CONNECTED" /\ isListening
    BY <1>18 DEF ServerSays, Room
  <2>2. conn[m].sock \in SocketState /\ (MaxRefresh = 0 => ~conn[m].timer)
    BY <1>3, <2>1 DEF Good, Connection
  <2>3. [conn[m] EXCEPT !.srv = v] = [conn[m] EXCEPT !.sock = conn[m].sock, !.srv = v]
    BY <1>3 DEF Connection
  <2>4. Good(Post([conn[m] EXCEPT !.sock = conn[m].sock, !.srv = v], k))
    BY <2>1, <2>2, PostGood
  <2>5. QED
    BY <1>13, <1>18, <2>1, <2>3, <2>4 DEF ServerSays
<1>19. ASSUME NEW m \in Models, NetOpen(m) \/ NetClosed(m) \/ NetDrop(m)
       PROVE  IInv'
  BY <1>17, <1>19 DEF NetOpen, NetClosed, NetDrop, Room, Live
<1>20. ASSUME NEW m \in Models,
              ServerListening(m) \/ ServerFinalResult(m) \/ ServerError(m)
       PROVE  IInv'
  <2>1. conn[m].srv \in ServerState /\ "idle" \in ServerState /\ "listening" \in ServerState
    BY <1>3 DEF Connection, ServerState
  <2>2. QED
    BY <1>18, <1>20, <2>1 DEF ServerListening, ServerFinalResult, ServerError
<1>21. CASE UNCHANGED vars
  BY <1>21 DEF vars
<1>22. QED
  BY <1>6, <1>7, <1>8, <1>9, <1>10, <1>11, <1>12, <1>14, <1>15, <1>16,
     <1>19, <1>20, <1>21 DEF Next

THEOREM Invariance == Spec => []IInv
<1>1. IInv /\ [Next]_vars => IInv'
  BY NextIInv
<1>2. QED
  BY InitIInv, <1>1, PTL DEF Spec

-----------------------------------------------------------------------------
(* The theorems.                                                           *)

\* The connections keep their type.
THEOREM TypeCorrect == Spec => []TypeOK
<1>1. IInv => TypeOK
  BY DEF IInv, TypeOK
<1>2. QED
  BY Invariance, <1>1, PTL

\* However many models are listened to and however often they are refreshed,
\* no connection is left without a timer or a notification to revive it.
THEOREM NoConnectionGoesDeaf == Spec => []NeverDeaf
<1>1. IInv => NeverDeaf
  BY DEF IInv, Good, NeverDeaf
<1>2. QED
  BY Invariance, <1>1, PTL

\* m_bReconnecting means a pending timer, in every reachable state.
THEOREM ReconnectingMeansTimer == Spec => []FlagMatchesTimer
<1>1. IInv => \A m \in Models : Sound(conn[m])
  BY FreshSound DEF IInv, Good
<1>2. IInv => FlagMatchesTimer
  BY <1>1 DEF Sound, FlagMatchesTimer
<1>3. QED
  BY Invariance, <1>2, PTL

\* IsConnected() is wrong only until a notification is delivered.
THEOREM ConnectedIsTrustworthy == Spec => []ConnectedIsCurrent
<1>1. IInv => ConnectedIsCurrent
  BY DEF IInv, Good, ConnectedIsCurrent, Fresh
<1>2. QED
  BY Invariance, <1>1, PTL

\* Without refreshes the third branch of OnReconnect is dead code: a timer
\* that fires finds its socket closed, and recognition goes on.
THEOREM TimerOnlyDials ==
  ASSUME MaxRefresh = 0
  PROVE  Spec => TimerKeepsListening
<1>1. IInv => [\A m \in Models : TimerFires(m) => isListening']_vars
  <2> SUFFICES ASSUME IInv, NEW m \in Models, TimerFires(m) PROVE isListening'
    OBVIOUS
  <2>1. isListening /\ Good(conn[m]) /\ conn[m].timer /\ conn[m] \in Connection
    BY DEF TimerFires, IInv
  <2>2. conn[m].sock = "CLOSED"
    BY <2>1 DEF Good
  <2>3. [conn[m] EXCEPT !.timer = FALSE].sock = "CLOSED"
    BY <2>1, <2>2 DEF Connection
  <2>4. QED
    BY <2>1, <2>3 DEF TimerFires
<1>2. QED
  BY Invariance, <1>1, PTL DEF TimerKeepsListening

-----------------------------------------------------------------------------
(* Every connection is a ReconnectingLink.  In a Good connection only one  *)
(* change of state is none of the link's: from "waiting" to "lost", when a *)
(* timer is lost while its socket is down.  Armed says that it is not.     *)

Armed(c) == c.sock = "CLOSED" => c.timer

\* A started, refreshed or retried connection is dialed or has a timer.
LEMMA ReconnectArmed ==
  ASSUME NEW c \in Connection, NEW ok \in BOOLEAN
  PROVE  Armed(OnReconnect(c, ok))
  BY DEF Armed, OnReconnect, Retry, StartReconnectTimer, Dial, Connection, SocketState

LEMMA StartArmed ==
  ASSUME NEW c \in Connection, NEW ok \in BOOLEAN, NEW again \in BOOLEAN
  PROVE  Armed(Start(c, ok, again))
<1>1. CASE ok
  BY <1>1 DEF Armed, Start, Dial, Connection
<1>2. CASE ~ok
  <2> DEFINE d == [c EXCEPT !.connected = FALSE]
  <2>1. d \in Connection
    BY DEF Connection
  <2>2. Start(c, ok, again) = OnReconnect(d, again)
    BY <1>2 DEF Start
  <2> HIDE DEF d
  <2>3. QED
    BY <2>1, <2>2, ReconnectArmed
<1>3. QED
  BY <1>1, <1>2

LEMMA RefreshArmed ==
  ASSUME NEW c \in Connection, NEW ok \in BOOLEAN, NEW again \in BOOLEAN
  PROVE  Armed(Refresh(c, ok, again))
<1> DEFINE d == [c EXCEPT !.connected = FALSE, !.listenActive = FALSE,
                          !.gen = c.gen + 1, !.sock = "CLOSED", !.srv = "idle"]
<1>0. c.gen + 1 \in Nat
  BY DEF Connection
<1>1. d \in Connection
  BY <1>0 DEF Connection, SocketState, ServerState
<1>2. Refresh(c, ok, again) = Start(d, ok, again)
  BY DEF Refresh
<1> HIDE DEF d
<1>3. QED
  BY <1>1, <1>2, StartArmed

\* A callback disarms no connection.
LEMMA CallbackArmed ==
  ASSUME NEW c \in Connection, Armed(c), NEW cb \in Callback, NEW ok \in BOOLEAN
  PROVE  Armed(OnCallback(c, cb, ok))
<1>1. CASE cb.kind = "state"
  <2> DEFINE d == [c EXCEPT !.connected = FALSE, !.listenActive = FALSE]
  <2>1. d \in Connection
    BY DEF Connection
  <2>2. OnCallback(c, cb, ok) \in {c, OnListenState(c, ok)}
    BY <1>1 DEF OnCallback
  <2>3. OnListenState(c, ok) \in {c, OnReconnect(d, ok), [c EXCEPT !.connected = TRUE]}
    BY DEF OnListenState
  <2>4. Armed([c EXCEPT !.connected = TRUE])
    BY DEF Armed, Connection
  <2> HIDE DEF d
  <2>5. QED
    BY <2>1, <2>2, <2>3, <2>4, ReconnectArmed
<1>2. CASE cb.kind = "listening"
  BY <1>2 DEF OnCallback, Armed, Connection
<1>3. CASE cb.kind = "final"
  BY <1>3 DEF OnCallback, SendStart, SendFrame, Armed, Connection
<1>4. CASE cb.kind = "error"
  BY <1>4 DEF OnCallback, Close, Live, Armed, Connection
<1>5. QED
  BY <1>1, <1>2, <1>3, <1>4 DEF Callback

\* Neither does a clip.
LEMMA AudioArmed ==
  ASSUME NEW c \in Connection, Armed(c), c.sock = "CLOSED", NEW loud \in BOOLEAN
  PROVE  Armed(SendAudio(c, loud))
<1> DEFINE Down(d) == d \in Connection /\ d.sock = "CLOSED" /\ d.timer
<1>1. ASSUME NEW d, Down(d)
      PROVE  /\ Down([d EXCEPT !.hz = TRUE]) /\ Down([d EXCEPT !.late = FALSE])
             /\ Down(SendStart(d)) /\ Down(SendClip(d, loud)) /\ Close(d) = d
  BY <1>1 DEF SendStart, SendClip, SendStop, SendFrame, Close, Live, Connection
<1> DEFINE o == IF c.hz THEN c ELSE SendStart([c EXCEPT !.hz = TRUE])
           s == SendClip(o, loud)
<1>2. Down(c)
  BY DEF Armed
<1>3. Down(o)
  BY <1>1, <1>2
<1>4. Down(s)
  BY <1>1, <1>3
<1>5. SendAudio(c, loud) = IF ~s.listenActive /\ s.late THEN Close([s EXCEPT !.late = FALSE]) ELSE s
  BY DEF SendAudio
<1> HIDE DEF s
<1>6. Down([s EXCEPT !.late = FALSE]) /\ Close([s EXCEPT !.late = FALSE]) = [s EXCEPT !.late = FALSE]
  BY <1>1, <1>4
<1>7. QED
  BY <1>4, <1>5, <1>6 DEF Armed

\* No step disarms a connection that goes on, nor starts one unarmed.
LEMMA StaysArmed ==
  ASSUME IInv, [Next]_vars, isListening', NEW m \in Models,
         isListening => conn[m].sock = "CLOSED" /\ conn[m].timer
  PROVE  Armed(conn'[m])
<1>1. Answers \subseteq BOOLEAN /\ TRUE \in BOOLEAN
  BY DEF Answers
<1>2. Fresh \in Connection
  BY FreshSound DEF Sound
<1>3. conn[m] \in Connection
  BY DEF IInv
<1>4. isListening => Armed(conn[m])
  BY DEF Armed
<1>5. ASSUME NEW ok \in [Models -> Answers], conn' = Opened(ok) PROVE Armed(conn'[m])
  <2>1. conn'[m] = Start(Fresh, ok[m], TRUE)
    BY <1>5 DEF Opened
  <2>2. QED
    BY <1>1, <1>2, <2>1, StartArmed
<1>6. CASE StartListening
  BY <1>5, <1>6 DEF StartListening
<1>7. CASE SetLearningOptOut
  BY <1>5, <1>7 DEF SetLearningOptOut, StopListening
<1>8. CASE RefreshConnections
  <2>1. PICK ok \in [Models -> Answers], again \in [Models -> Answers] :
          conn' = [n \in Models |-> Refresh(conn[n], ok[n], again[n])]
    BY <1>8 DEF RefreshConnections
  <2>2. QED
    BY <1>1, <1>3, <2>1, RefreshArmed
<1>9. CASE Disconnected
  <2>1. conn'[m] = Close([conn[m] EXCEPT !.connected = FALSE]) /\ conn[m].sock = "CLOSED"
        /\ conn[m].timer
    BY <1>9 DEF Disconnected
  <2>2. QED
    BY <1>3, <2>1 DEF Close, Live, Armed, Connection
<1>10. CASE \E loud \in BOOLEAN : OnListen(loud)
  BY <1>3, <1>4, <1>10, AudioArmed DEF OnListen
<1>11. ASSUME NEW n \in Models, Deliver(n) PROVE Armed(conn'[m])
  <2>1. CASE n # m
    BY <1>4, <1>11, <2>1 DEF Deliver, IInv
  <2>2. CASE n = m
    <3> DEFINE c == [conn[m] EXCEPT !.inbox = Tail(conn[m].inbox),
                           !.ahead = IF @ > 0 THEN @ - 1 ELSE 0]
    <3>1. PICK ok \in Answers : conn' = [conn EXCEPT ![m] = OnCallback(c, Head(conn[m].inbox), ok)]
      BY <1>11, <2>2 DEF Deliver
    <3>2. /\ conn[m].ahead \in Nat /\ conn[m].inbox \in Seq(Callback)
          /\ conn[m].inbox # << >> /\ isListening
      BY <1>3, <1>11, <2>2 DEF Deliver, Connection
    <3>3. /\ (IF conn[m].ahead > 0 THEN conn[m].ahead - 1 ELSE 0) \in Nat
          /\ Tail(conn[m].inbox) \in Seq(Callback) /\ Head(conn[m].inbox) \in Callback
      BY <3>2
    <3>4. c \in Connection /\ Armed(c)
      BY <1>3, <1>4, <3>2, <3>3 DEF Connection, Armed
    <3>5. conn'[m] = OnCallback(c, Head(conn[m].inbox), ok)
      BY <3>1 DEF IInv
    <3> HIDE DEF c
    <3>6. QED
      BY <1>1, <3>3, <3>4, <3>5, CallbackArmed
  <2>3. QED
    BY <2>1, <2>2
<1>12. ASSUME NEW n \in Models, TimerFires(n) PROVE Armed(conn'[m])
  <2>1. CASE n # m
    BY <1>4, <1>12, <2>1 DEF TimerFires, StopListening, IInv
  <2>2. CASE n = m
    <3>1. PICK ok \in Answers :
            conn' = [conn EXCEPT ![m] = OnReconnect([conn[m] EXCEPT !.timer = FALSE], ok)]
      BY <1>12, <2>2 DEF TimerFires, StopListening
    <3>2. [conn[m] EXCEPT !.timer = FALSE] \in Connection
      BY <1>3 DEF Connection
    <3>3. conn'[m] = OnReconnect([conn[m] EXCEPT !.timer = FALSE], ok)
      BY <3>1 DEF IInv
    <3>4. QED
      BY <1>1, <3>2, <3>3, ReconnectArmed
  <2>3. QED
    BY <2>1, <2>2
<1>13. ASSUME NEW n \in Models,
              ListenTimeout(n) \/ NetOpen(n) \/ NetClosed(n) \/ NetDrop(n)
       PROVE  Armed(conn'[m])
  <2>1. CASE n # m
    BY <1>4, <1>13, <2>1
       DEF ListenTimeout, NetOpen, NetClosed, NetDrop, SocketBecomes, Room, IInv
  <2>2. CASE n = m
    BY <1>3, <1>4, <1>13, <2>2
       DEF ListenTimeout, NetOpen, NetClosed, NetDrop, Room, Live, IInv, Armed, Connection
  <2>3. QED
    BY <2>1, <2>2
<1>14. ASSUME NEW n \in Models, ServerListening(n) \/ ServerFinalResult(n) \/ ServerError(n)
       PROVE  Armed(conn'[m])
  <2>1. /\ isListening /\ conn[n].sock = "CONNECTED"
        /\ \E c : conn' = [conn EXCEPT ![n] = c]
    BY <1>14 DEF ServerListening, ServerFinalResult, ServerError, ServerSays, Room
  <2>2. QED
    BY <1>4, <2>1 DEF IInv
<1>15. CASE StopListening
  BY <1>15 DEF StopListening
<1>16. CASE Weather \/ UNCHANGED vars
  BY <1>4, <1>16 DEF Weather, vars, IInv, Armed, Fresh
<1>17. QED
  BY <1>6, <1>7, <1>8, <1>9, <1>10, <1>11, <1>12, <1>13, <1>14, <1>15, <1>16 DEF Next

\* While it is listened to, a connection is open, lost or waiting.
LEMMA LinkStates ==
  ASSUME IInv, NEW m \in Models
  PROVE  /\ ~isListening <=> LinkState(conn[m]) = "closed"
         /\ LinkState(conn[m]) \in {"closed", "open", "lost", "waiting"}
         /\ LinkState(conn[m]) = "waiting" =>
              isListening /\ conn[m].sock = "CLOSED" /\ conn[m].timer
         /\ LinkState(conn[m]) = "lost" => ~Armed(conn[m])
  BY DEF IInv, Good, LinkState, Armed

LEMMA LinkStep ==
  ASSUME IInv, IInv', [Next]_vars, NEW m \in Models
  PROVE  [Promise(m)!Next]_(LinkState(conn[m]))
<1> DEFINE now  == LinkState(conn[m])
           then == LinkState(conn[m])'
<1>1. /\ ~isListening <=> now = "closed"
      /\ now \in {"closed", "open", "lost", "waiting"}
      /\ now = "waiting" => isListening /\ conn[m].sock = "CLOSED" /\ conn[m].timer
  BY LinkStates
<1>2. /\ ~isListening' <=> then = "closed"
      /\ then \in {"closed", "open", "lost", "waiting"}
      /\ then = "lost" => ~Armed(conn'[m])
  BY DEF IInv, Good, LinkState, Armed
<1>3. now \in {"closed", "waiting"} => then # "lost"
  BY <1>1, <1>2, StaysArmed
<1>4. \/ Promise(m)!Connect \/ Promise(m)!Disconnect \/ Promise(m)!Lose
      \/ Promise(m)!Notice \/ Promise(m)!Retry \/ then = now
  BY <1>1, <1>2, <1>3 DEF Promise!Connect, Promise!Disconnect, Promise!Lose,
     Promise!Notice, Promise!Retry
<1>5. QED
  BY <1>4 DEF Promise!Next

\* SpeechToText implements ReconnectingLink, for every set of models: no order
\* of drops, refused sends, refreshes, opt-outs, callbacks and timers makes a
\* connection do what a link that is always revived would not.
THEOREM ImplementsReconnectingLink == Spec => KeepsItsPromise
<1>1. Init => \A m \in Models : Promise(m)!Init
  BY DEF Init, LinkState, Promise!Init
<1>2. IInv /\ IInv' /\ [Next]_vars
        => [\A m \in Models : [Promise(m)!Next]_(LinkState(conn[m]))]_vars
  BY LinkStep
<1>3. QED
  BY Invariance, <1>1, <1>2, PTL DEF Spec, KeepsItsPromise

-----------------------------------------------------------------------------
(***************************************************************************)
(* The session protocol: without refreshes and with m_Continous, the       *)
(* service never breaks it, for every set of models and every bound on the *)
(* callbacks in flight.                                                    *)
(***************************************************************************)

\* Shapes of an inbox: no callback of kind k, at most one; notifications only at
\* its end, at its end and at most once before.
NoneOf(q, k) == \A i \in DOMAIN q : q[i].kind # k
Once(q, k) == \A i, j \in DOMAIN q : q[i].kind = k /\ q[j].kind = k => i = j
OnlyLast(q) == \A i \in DOMAIN q : i < Len(q) => q[i].kind # "state"
OnceBefore(q) ==
    \A i, j \in DOMAIN q :
        (i < Len(q) /\ j < Len(q) /\ q[i].kind = "state" /\ q[j].kind = "state") => i = j
EndsClosed(q) == q # << >> => q[Len(q)].kind = "state"
OfFirst(q) == \A i \in DOMAIN q : q[i].gen = 0

\* Over an open socket: "start" has been sent once, m_ListenActive follows the
\* server's "listening", and one that is still in the inbox is the only one.
InSession(c) ==
    /\ c.hz \/ c.srv = "idle"
    /\ c.listenActive => c.srv = "listening" /\ NoneOf(c.inbox, "listening")
    /\ c.srv = "listening" \/ NoneOf(c.inbox, "listening")
    /\ Once(c.inbox, "listening")

\* A closed socket's own notification is the last thing in its inbox, perhaps
\* after that of its opening, which finds it closed already and starts a timer;
\* whatever is dialled next starts with an empty inbox and not listening.
Ended(c) ==
    /\ c.inbox = << >> => ~c.listenActive
    /\ EndsClosed(c.inbox) /\ OnceBefore(c.inbox)
    /\ c.timer => OnlyLast(c.inbox) /\ c.ahead = Len(c.inbox)

Kept(c) ==
    /\ c.srv # "protocolError"
    /\ c.gen = 0 /\ OfFirst(c.inbox)
    /\ Live(c) => InSession(c)
    /\ c.sock # "CLOSED" => Once(c.inbox, "state")
    /\ c.sock = "CONNECTING" => NoneOf(c.inbox, "state")
    /\ c.sock = "CLOSED" => Ended(c)

-----------------------------------------------------------------------------
(* Lemmas about inboxes.                                                   *)

LEMMA TailShape ==
  ASSUME NEW q \in Seq(Callback), q # << >>
  PROVE  /\ Tail(q) \in Seq(Callback) /\ Head(q) = q[1] /\ Head(q) \in Callback
         /\ Len(q) \in Nat /\ Len(q) > 0 /\ Len(Tail(q)) = Len(q) - 1
         /\ \A i \in DOMAIN Tail(q) : i + 1 \in DOMAIN q /\ Tail(q)[i] = q[i + 1]
                                      /\ i \in Nat /\ i # 0
  OBVIOUS

LEMMA TailNone ==
  ASSUME NEW q \in Seq(Callback), q # << >>, NEW k, Once(q, k)
  PROVE  /\ Once(Tail(q), k)
         /\ NoneOf(q, k) => NoneOf(Tail(q), k)
         /\ Head(q).kind = k => NoneOf(Tail(q), k)
<1> DEFINE t == Tail(q)
<1>1. /\ Head(q) = q[1] /\ 1 \in DOMAIN q
      /\ \A i \in DOMAIN t : i + 1 \in DOMAIN q /\ t[i] = q[i + 1] /\ i \in Nat /\ i # 0
  BY TailShape
<1> HIDE DEF t
<1>2. Once(t, k)
  BY <1>1 DEF Once
<1>3. NoneOf(q, k) => NoneOf(t, k)
  BY <1>1 DEF NoneOf
<1>4. Head(q).kind = k => NoneOf(t, k)
  <2> SUFFICES ASSUME Head(q).kind = k, NEW i \in DOMAIN t, t[i].kind = k
               PROVE  FALSE
    BY DEF NoneOf
  <2>1. i + 1 = 1 /\ i \in Nat /\ i # 0
    BY <1>1 DEF Once
  <2> QED
    BY <2>1
<1> QED
  BY <1>2, <1>3, <1>4 DEF t

\* Taking a callback off the inbox of a closed socket.
LEMMA TailEnds ==
  ASSUME NEW q \in Seq(Callback), q # << >>, EndsClosed(q), OnceBefore(q)
  PROVE  /\ EndsClosed(Tail(q)) /\ OnceBefore(Tail(q))
         /\ OnlyLast(q) => OnlyLast(Tail(q))
         /\ Head(q).kind = "state" => OnlyLast(Tail(q))
         /\ Head(q).kind = "state" /\ OnlyLast(q) => Tail(q) = << >>
         /\ Head(q).kind # "state" => Tail(q) # << >>
<1> DEFINE t == Tail(q)
<1>1. /\ Head(q) = q[1] /\ 1 \in DOMAIN q /\ Len(q) \in Nat /\ Len(q) > 0
      /\ Len(t) = Len(q) - 1 /\ t \in Seq(Callback)
      /\ \A i \in DOMAIN t : i + 1 \in DOMAIN q /\ t[i] = q[i + 1] /\ i \in Nat /\ i # 0
  BY TailShape
<1> HIDE DEF t
<1>2. t = << >> <=> Len(q) = 1
  BY <1>1
<1>3. EndsClosed(t)
  <2> SUFFICES ASSUME t # << >> PROVE t[Len(t)].kind = "state"
    BY DEF EndsClosed
  <2>1. Len(t) \in DOMAIN t /\ t[Len(t)] = q[Len(q)]
    BY <1>1
  <2> QED
    BY <2>1 DEF EndsClosed
<1>4. OnceBefore(t)
  <2> SUFFICES ASSUME NEW i \in DOMAIN t, NEW j \in DOMAIN t, i < Len(t), j < Len(t),
                      t[i].kind = "state", t[j].kind = "state"
               PROVE  i = j
    BY DEF OnceBefore
  <2>1. i + 1 < Len(q) /\ j + 1 < Len(q)
    BY <1>1
  <2>2. i + 1 = j + 1
    BY <1>1, <2>1 DEF OnceBefore
  <2> QED
    BY <1>1, <2>2
<1>5. OnlyLast(q) => OnlyLast(t)
  <2> SUFFICES ASSUME OnlyLast(q), NEW i \in DOMAIN t, i < Len(t)
               PROVE  t[i].kind # "state"
    BY DEF OnlyLast
  <2>1. i + 1 < Len(q)
    BY <1>1
  <2> QED
    BY <1>1, <2>1 DEF OnlyLast
<1>6. Head(q).kind = "state" => OnlyLast(t)
  <2> SUFFICES ASSUME Head(q).kind = "state", NEW i \in DOMAIN t, i < Len(t),
                      t[i].kind = "state"
               PROVE  FALSE
    BY DEF OnlyLast
  <2>1. i + 1 < Len(q) /\ 1 < Len(q)
    BY <1>1
  <2>2. i + 1 = 1
    BY <1>1, <2>1 DEF OnceBefore
  <2> QED
    BY <1>1, <2>2
<1>7. Head(q).kind = "state" /\ OnlyLast(q) => t = << >>
  BY <1>1, <1>2 DEF OnlyLast
<1>8. Head(q).kind # "state" => t # << >>
  BY <1>1, <1>2 DEF EndsClosed
<1> QED
  BY <1>3, <1>4, <1>5, <1>6, <1>7, <1>8 DEF t

\* Posting one.
LEMMA AppendShape ==
  ASSUME NEW q \in Seq(Callback), NEW cb \in Callback, NEW k
  PROVE  LET p == Append(q, cb)
         IN  /\ p \in Seq(Callback) /\ p # << >> /\ p[Len(p)] = cb
             /\ NoneOf(q, k) /\ cb.kind # k => NoneOf(p, k)
             /\ Once(q, k) /\ (cb.kind # k \/ NoneOf(q, k)) => Once(p, k)
             /\ Once(q, "state") => OnceBefore(p)
             /\ OfFirst(q) /\ cb.gen = 0 => OfFirst(p)
<1> DEFINE p == Append(q, cb)
<1>1. /\ p \in Seq(Callback) /\ p # << >> /\ Len(p) = Len(q) + 1 /\ Len(q) \in Nat
      /\ p[Len(p)] = cb
      /\ \A i \in DOMAIN p : \/ i = Len(p) /\ p[i] = cb
                             \/ i \in DOMAIN q /\ i < Len(p) /\ p[i] = q[i]
      /\ \A i \in DOMAIN p : i < Len(p) => i \in DOMAIN q /\ p[i] = q[i]
  <2>1. /\ p \in Seq(Callback) /\ p # << >> /\ Len(p) = Len(q) + 1 /\ Len(q) \in Nat
        /\ p[Len(q) + 1] = cb /\ DOMAIN p = 1 .. Len(p) /\ DOMAIN q = 1 .. Len(q)
    OBVIOUS
  <2>2. \A i \in 1 .. Len(q) : p[i] = q[i]
    OBVIOUS
  <2> HIDE DEF p
  <2>3. \A i \in DOMAIN p : i = Len(p) \/ (i \in DOMAIN q /\ i < Len(p))
    BY <2>1
  <2> QED
    BY <2>1, <2>2, <2>3
<1> HIDE DEF p
<1>2. NoneOf(q, k) /\ cb.kind # k => NoneOf(p, k)
  BY <1>1 DEF NoneOf
<1>3. Once(q, k) /\ (cb.kind # k \/ NoneOf(q, k)) => Once(p, k)
  BY <1>1 DEF NoneOf, Once
<1>4. Once(q, "state") => OnceBefore(p)
  <2> SUFFICES ASSUME Once(q, "state"), NEW i \in DOMAIN p, NEW j \in DOMAIN p,
                      i < Len(p), j < Len(p), p[i].kind = "state", p[j].kind = "state"
               PROVE  i = j
    BY DEF OnceBefore
  <2>1. /\ i \in DOMAIN q /\ p[i] = q[i]
        /\ j \in DOMAIN q /\ p[j] = q[j]
    BY <1>1
  <2> HIDE <1>1
  <2> QED
    BY <2>1 DEF Once
<1>5. OfFirst(q) /\ cb.gen = 0 => OfFirst(p)
  BY <1>1 DEF OfFirst
<1> QED
  BY <1>1, <1>2, <1>3, <1>4, <1>5 DEF p

-----------------------------------------------------------------------------
(* Lemmas about the methods of Connection.                                 *)

\* Kept looks at the fields below; a method that only ends m_ListenActive or
\* moves the session keeps it if it keeps the session.
LEMMA KeptFields ==
  ASSUME NEW d, Kept(d), NEW e,
         e.sock = d.sock, e.gen = d.gen, e.inbox = d.inbox, e.timer = d.timer,
         e.ahead = d.ahead, e.listenActive => d.listenActive,
         e.srv # "protocolError", Live(d) => InSession(e)
  PROVE  Kept(e)
  BY DEF Kept, Ended, Live

\* A socket that is dialled starts a new session.
LEMMA DialKept ==
  ASSUME NEW d \in Connection, d.gen = 0, d.inbox = << >>, ~d.listenActive
  PROVE  Kept(Dial(d))
<1>1. /\ Dial(d).sock = "CONNECTING" /\ Dial(d).srv = "idle" /\ Dial(d).gen = 0
      /\ Dial(d).inbox = << >> /\ ~Dial(d).listenActive
  BY DEF Dial, Connection
<1> DEFINE e == Dial(d)
<1>2. \A k : NoneOf(e.inbox, k) /\ Once(e.inbox, k)
  BY <1>1 DEF NoneOf, Once
<1>3. OfFirst(e.inbox)
  BY <1>1 DEF OfFirst
<1> HIDE DEF e
<1>4. e = Dial(d)
  BY DEF e
<1> QED
  BY <1>1, <1>2, <1>3, <1>4 DEF Kept, InSession

LEMMA StartReconnectTimerKept ==
  ASSUME NEW d \in Connection, d.sock = "CLOSED", d.gen = 0, OfFirst(d.inbox),
         d.srv # "protocolError", EndsClosed(d.inbox), OnlyLast(d.inbox)
  PROVE  Kept(StartReconnectTimer(d))
<1> DEFINE e == StartReconnectTimer(d)
<1>1. Len(d.inbox) \in Nat
  BY DEF Connection
<1>2. /\ e.sock = "CLOSED" /\ e.gen = 0 /\ e.inbox = d.inbox /\ e.srv = d.srv
      /\ ~e.listenActive /\ e.ahead = Len(d.inbox)
  BY <1>1 DEF StartReconnectTimer, Connection
<1>3. OnceBefore(d.inbox)
  BY DEF OnlyLast, OnceBefore
<1> HIDE DEF e
<1>4. Kept(e)
  BY <1>2, <1>3 DEF Kept, Ended, Live
<1> QED
  BY <1>4 DEF e

LEMMA RetryKept ==
  ASSUME NEW c \in Connection, c.sock = "CLOSED", c.gen = 0, c.inbox = << >>,
         ~c.listenActive, c.srv # "protocolError", NEW ok \in BOOLEAN
  PROVE  Kept(Retry(c, ok))
<1> DEFINE r == [c EXCEPT !.hz = FALSE, !.late = FALSE,
                          !.reconnecting = FALSE, !.timer = FALSE]
<1>1. /\ r \in Connection /\ r.sock = "CLOSED" /\ r.gen = 0 /\ r.inbox = << >>
      /\ ~r.listenActive /\ r.srv # "protocolError"
  BY DEF Connection
<1>2. Retry(c, ok) = IF ok THEN Dial(r) ELSE StartReconnectTimer(r)
  BY DEF Retry
<1> HIDE DEF r
<1>3. OfFirst(r.inbox) /\ EndsClosed(r.inbox) /\ OnlyLast(r.inbox)
  BY <1>1 DEF OfFirst, EndsClosed, OnlyLast
<1> QED
  BY <1>1, <1>2, <1>3, DialKept, StartReconnectTimerKept

\* A new connection of StartListening.
LEMMA StartKept ==
  ASSUME NEW ok \in BOOLEAN
  PROVE  Kept(Start(Fresh, ok, TRUE))
<1>1. Fresh \in Connection
  BY FreshSound DEF Sound
<1>2. CASE ok
  <2> DEFINE d == Dial(Fresh)
             e == [d EXCEPT !.hz = FALSE, !.late = FALSE]
  <2>1. Kept(d)
    BY <1>1, DialKept DEF Fresh
  <2>2. d \in Connection /\ d.srv = "idle" /\ ~d.listenActive /\ d.inbox = << >>
    BY <1>1 DEF Dial, Fresh, Connection, SocketState, ServerState
  <2> HIDE DEF d
  <2>3. /\ e.sock = d.sock /\ e.gen = d.gen /\ e.inbox = d.inbox /\ e.timer = d.timer
        /\ e.ahead = d.ahead /\ e.listenActive = d.listenActive /\ e.srv = d.srv
    BY <2>2 DEF Connection
  <2>4. InSession(e)
    BY <2>2, <2>3 DEF InSession, NoneOf, Once
  <2>5. Kept(e)
    BY <2>1, <2>2, <2>3, <2>4, KeptFields
  <2> QED
    BY <1>2, <2>5 DEF Start, d
<1>3. CASE ~ok
  <2> DEFINE d == [Fresh EXCEPT !.connected = FALSE]
  <2>1. /\ d \in Connection /\ d.sock = "CLOSED" /\ d.gen = 0 /\ d.inbox = << >>
        /\ d.srv # "protocolError" /\ ~d.reconnecting
    BY <1>1 DEF Fresh, Connection
  <2>2. Start(Fresh, ok, TRUE) = OnReconnect(d, TRUE)
    BY <1>3 DEF Start
  <2> HIDE DEF d
  <2>3. OfFirst(d.inbox) /\ EndsClosed(d.inbox) /\ OnlyLast(d.inbox)
    BY <2>1 DEF OfFirst, EndsClosed, OnlyLast
  <2> QED
    BY <2>1, <2>2, <2>3, StartReconnectTimerKept DEF OnReconnect
<1> QED
  BY <1>2, <1>3

LEMMA CloseKept ==
  ASSUME NEW c \in Connection, Kept(c)
  PROVE  Kept(Close(c))
<1>1. CASE Live(c)
  <2> DEFINE e == Close(c)
  <2>1. e.sock = "CLOSING" /\ e.gen = c.gen /\ e.inbox = c.inbox /\ e.srv = c.srv
    BY <1>1 DEF Close, Connection
  <2>2. Once(c.inbox, "state")
    BY <1>1 DEF Kept, Live
  <2> HIDE DEF e
  <2>3. Kept(e)
    BY <2>1, <2>2 DEF Kept, Live
  <2> QED
    BY <2>3 DEF e
<1>2. CASE ~Live(c)
  BY <1>2 DEF Close
<1> QED
  BY <1>1, <1>2

\* The opening "start" of a connection that has just been dialled.
LEMMA OpenedKept ==
  ASSUME NEW c \in Connection, Kept(c)
  PROVE  LET o == IF c.hz THEN c ELSE SendStart([c EXCEPT !.hz = TRUE])
         IN  o \in Connection /\ Kept(o) /\ o.hz
<1>1. CASE c.hz
  BY <1>1
<1>2. CASE ~c.hz
  <2> DEFINE b == [c EXCEPT !.hz = TRUE]
             o == SendStart(b)
  <2>1. /\ b \in Connection /\ b.hz /\ b.sock = c.sock /\ b.gen = c.gen /\ b.inbox = c.inbox
        /\ b.timer = c.timer /\ b.ahead = c.ahead /\ b.listenActive = c.listenActive
        /\ b.srv = c.srv
    BY DEF Connection
  <2> HIDE DEF b
  <2>2. AfterFrame(b.srv, "start") \in ServerState
    BY DEF AfterFrame, ServerState
  <2>3. /\ o \in Connection /\ o.hz /\ o.sock = b.sock /\ o.gen = b.gen /\ o.inbox = b.inbox
        /\ o.timer = b.timer /\ o.ahead = b.ahead /\ o.listenActive = b.listenActive
        /\ o.srv = IF Live(b) THEN AfterFrame(b.srv, "start") ELSE b.srv
    BY <2>1, <2>2 DEF SendStart, SendFrame, Connection
  <2> HIDE DEF o
  <2>4. Live(c) => b.srv = "idle" /\ o.srv = "started" /\ ~c.listenActive
                   /\ NoneOf(c.inbox, "listening")
    BY <1>2, <2>1, <2>3 DEF Kept, InSession, Live, AfterFrame
  <2>5. o.srv # "protocolError"
    BY <2>1, <2>3, <2>4 DEF Kept, Live
  <2>6. Live(c) => InSession(o)
    BY <2>1, <2>3, <2>4 DEF InSession, NoneOf, Once
  <2>7. Kept(o)
    BY <2>1, <2>3, <2>5, <2>6, KeptFields
  <2> QED
    BY <1>2, <2>3, <2>7 DEF b, o
<1> QED
  BY <1>1, <1>2

\* Audio and "stop" are sent only while m_ListenActive, when the server listens.
LEMMA SendClipKept ==
  ASSUME NEW c \in Connection, Kept(c), c.hz, NEW loud \in BOOLEAN
  PROVE  SendClip(c, loud) \in Connection /\ Kept(SendClip(c, loud))
<1> DEFINE e == SendClip(c, loud)
<1>0. AfterFrame(c.srv, "audio") \in ServerState /\ AfterFrame(c.srv, "stop") \in ServerState
  BY DEF AfterFrame, ServerState
<1>1. CASE loud /\ c.listenActive
  <2>1. /\ e \in Connection /\ e.hz /\ e.sock = c.sock /\ e.gen = c.gen /\ e.inbox = c.inbox
        /\ e.timer = c.timer /\ e.ahead = c.ahead /\ e.listenActive = c.listenActive
        /\ e.srv = IF Live(c) THEN AfterFrame(c.srv, "audio") ELSE c.srv
    BY <1>0, <1>1 DEF SendClip, SendFrame, Connection
  <2> HIDE DEF e
  <2>2. e.srv = c.srv
    BY <1>1, <2>1 DEF Kept, InSession, AfterFrame
  <2>3. Live(c) => InSession(e)
    BY <2>1, <2>2 DEF Kept, InSession
  <2>4. e.srv # "protocolError"
    BY <2>2 DEF Kept
  <2>5. Kept(e)
    BY <2>1, <2>3, <2>4, KeptFields
  <2> QED
    BY <2>1, <2>5 DEF e
<1>2. CASE ~loud /\ c.audioSent /\ c.listenActive
  <2>1. /\ e \in Connection /\ e.hz /\ e.sock = c.sock /\ e.gen = c.gen /\ e.inbox = c.inbox
        /\ e.timer = c.timer /\ e.ahead = c.ahead /\ ~e.listenActive
        /\ e.srv = IF Live(c) THEN AfterFrame(c.srv, "stop") ELSE c.srv
    BY <1>0, <1>2 DEF SendClip, SendStop, SendFrame, Connection
  <2> HIDE DEF e
  <2>2. Live(c) => e.srv = "stopping" /\ NoneOf(c.inbox, "listening")
    BY <1>2, <2>1 DEF Kept, InSession, AfterFrame
  <2>3. Live(c) => InSession(e)
    BY <2>1, <2>2 DEF Kept, InSession
  <2>4. e.srv # "protocolError"
    BY <2>1, <2>2 DEF Kept
  <2>5. Kept(e)
    BY <2>1, <2>3, <2>4, KeptFields
  <2> QED
    BY <2>1, <2>5 DEF e
<1>3. CASE ~loud /\ c.audioSent /\ ~c.listenActive
  <2>1. /\ e \in Connection /\ e.hz /\ e.sock = c.sock /\ e.gen = c.gen /\ e.inbox = c.inbox
        /\ e.timer = c.timer /\ e.ahead = c.ahead /\ e.listenActive = c.listenActive
        /\ e.srv = c.srv
    BY <1>3 DEF SendClip, SendStop, Connection
  <2> HIDE DEF e
  <2>2. Live(c) => InSession(e)
    BY <2>1 DEF Kept, InSession
  <2>3. Kept(e)
    BY <2>1, <2>2, KeptFields DEF Kept
  <2> QED
    BY <2>1, <2>3 DEF e
<1>4. CASE ~(loud /\ c.listenActive) /\ ~(~loud /\ c.audioSent)
  BY <1>4 DEF SendClip
<1> QED
  BY <1>1, <1>2, <1>3, <1>4

LEMMA SendAudioKept ==
  ASSUME NEW c \in Connection, Kept(c), NEW loud \in BOOLEAN
  PROVE  Kept(SendAudio(c, loud))
<1> DEFINE o == IF c.hz THEN c ELSE SendStart([c EXCEPT !.hz = TRUE])
           s == SendClip(o, loud)
           b == [s EXCEPT !.late = FALSE]
<1>1. o \in Connection /\ Kept(o) /\ o.hz
  BY OpenedKept
<1>2. s \in Connection /\ Kept(s)
  BY <1>1, SendClipKept
<1>3. SendAudio(c, loud) = IF ~s.listenActive /\ s.late THEN Close(b) ELSE s
  BY DEF SendAudio
<1> HIDE DEF s
<1>4. /\ b \in Connection /\ b.hz = s.hz /\ b.sock = s.sock /\ b.gen = s.gen
      /\ b.inbox = s.inbox /\ b.timer = s.timer /\ b.ahead = s.ahead
      /\ b.listenActive = s.listenActive /\ b.srv = s.srv
  BY <1>2 DEF Connection
<1> HIDE DEF b
<1>5. Live(s) => InSession(b)
  BY <1>2, <1>4 DEF Kept, InSession
<1>6. Kept(b)
  BY <1>2, <1>4, <1>5, KeptFields DEF Kept
<1> QED
  BY <1>2, <1>3, <1>4, <1>6, CloseKept

-----------------------------------------------------------------------------
(* Callbacks, timers and the network.                                      *)

\* What is left of a connection whose next callback is being run.
Popped(d) ==
    [d EXCEPT !.inbox = Tail(d.inbox), !.ahead = IF d.ahead > 0 THEN d.ahead - 1 ELSE 0]

LEMMA PoppedFields ==
  ASSUME NEW d \in Connection, d.inbox # << >>
  PROVE  LET c == Popped(d)
         IN  /\ c \in Connection /\ c.sock = d.sock /\ c.gen = d.gen /\ c.hz = d.hz
             /\ c.srv = d.srv /\ c.timer = d.timer /\ c.reconnecting = d.reconnecting
             /\ c.listenActive = d.listenActive /\ c.inbox = Tail(d.inbox)
             /\ c.ahead = IF d.ahead > 0 THEN d.ahead - 1 ELSE 0
<1>1. /\ Tail(d.inbox) \in Seq(Callback) /\ d.ahead \in Nat
      /\ (IF d.ahead > 0 THEN d.ahead - 1 ELSE 0) \in Nat
  BY TailShape DEF Connection
<1> QED
  BY <1>1 DEF Popped, Connection

\* A callback of a closed socket.  Its own notification is the last one and dials
\* again; an earlier one starts the timer.  A late "listening" is heard, but then
\* the notification is still to come.
LEMMA ClosedCallbackKept ==
  ASSUME NEW d \in Connection, Kept(d), d.reconnecting = d.timer, d.inbox # << >>,
         d.sock = "CLOSED", Continous, NEW ok \in BOOLEAN
  PROVE  Kept(OnCallback(Popped(d), Head(d.inbox), ok))
<1> DEFINE c  == Popped(d)
           cb == Head(d.inbox)
           t  == Tail(d.inbox)
<1>1. /\ c \in Connection /\ c.sock = "CLOSED" /\ c.gen = 0 /\ c.srv = d.srv
      /\ c.timer = d.timer /\ c.reconnecting = d.timer /\ c.inbox = t
      /\ c.ahead = IF d.ahead > 0 THEN d.ahead - 1 ELSE 0
  BY PoppedFields DEF Kept
<1>2. d.inbox \in Seq(Callback) /\ Ended(d) /\ d.srv # "protocolError" /\ OfFirst(d.inbox)
  BY DEF Kept, Connection
<1>3. /\ EndsClosed(t) /\ OnceBefore(t) /\ (OnlyLast(d.inbox) => OnlyLast(t))
      /\ cb.kind = "state" => OnlyLast(t)
      /\ cb.kind = "state" /\ OnlyLast(d.inbox) => t = << >>
      /\ cb.kind # "state" => t # << >>
  BY <1>2, TailEnds DEF Ended
<1>4. cb \in Callback /\ cb.gen = 0 /\ OfFirst(t) /\ Len(t) = Len(d.inbox) - 1
      /\ Len(d.inbox) \in Nat /\ Len(d.inbox) > 0
  <2>1. /\ t \in Seq(Callback) /\ cb = d.inbox[1] /\ cb \in Callback /\ 1 \in DOMAIN d.inbox
        /\ Len(d.inbox) \in Nat /\ Len(d.inbox) > 0 /\ Len(t) = Len(d.inbox) - 1
        /\ \A i \in DOMAIN t : i + 1 \in DOMAIN d.inbox /\ t[i] = d.inbox[i + 1]
    BY <1>2, TailShape
  <2> HIDE DEF t, cb
  <2> QED
    BY <1>2, <2>1 DEF OfFirst
<1> HIDE DEF c, cb, t
<1>5. CASE cb.kind = "state"
  <2> DEFINE e == [c EXCEPT !.connected = FALSE, !.listenActive = FALSE]
  <2>1. /\ e \in Connection /\ e.sock = "CLOSED" /\ e.gen = 0 /\ e.inbox = t
        /\ ~e.listenActive /\ e.srv # "protocolError" /\ e.reconnecting = d.timer
    BY <1>1, <1>2 DEF Connection
  <2>2. OnCallback(c, cb, ok) = OnReconnect(e, ok)
    BY <1>1, <1>4, <1>5 DEF OnCallback, OnListenState
  <2> HIDE DEF e
  <2>3. CASE d.timer
    <3>1. t = << >>
      BY <1>2, <1>3, <1>5, <2>3 DEF Ended
    <3>2. Kept(Retry(e, ok))
      BY <2>1, <3>1, RetryKept
    <3> QED
      BY <2>1, <2>2, <2>3, <3>2 DEF OnReconnect, c, cb
  <2>4. CASE ~d.timer
    <3>1. Kept(StartReconnectTimer(e))
      BY <1>3, <1>4, <1>5, <2>1, StartReconnectTimerKept
    <3> QED
      BY <2>1, <2>2, <2>4, <3>1 DEF OnReconnect, c, cb
  <2> QED
    BY <2>3, <2>4 DEF Connection
<1>6. CASE cb.kind # "state"
  <2>1. ASSUME NEW e, e.sock = "CLOSED", e.gen = 0, e.inbox = t, e.srv = d.srv,
               e.timer = d.timer, e.ahead = c.ahead
        PROVE  Kept(e)
    <3>1. d.timer => e.ahead = Len(t)
      BY <1>1, <1>2, <1>4, <2>1 DEF Ended
    <3> QED
      BY <1>2, <1>3, <1>4, <1>6, <2>1, <3>1 DEF Kept, Ended, Live
  <2>2. OnCallback(c, cb, ok) \in {c, [c EXCEPT !.listenActive = TRUE]}
    BY <1>1, <1>4, <1>6 DEF OnCallback, Callback, Close, Live
  <2>3. Kept(c)
    BY <1>1, <2>1
  <2>4. Kept([c EXCEPT !.listenActive = TRUE])
    <3> DEFINE e == [c EXCEPT !.listenActive = TRUE]
    <3>1. /\ e.sock = "CLOSED" /\ e.gen = 0 /\ e.inbox = t /\ e.srv = d.srv
          /\ e.timer = d.timer /\ e.ahead = c.ahead
      BY <1>1 DEF Connection
    <3> HIDE DEF e
    <3>2. Kept(e)
      BY <2>1, <3>1
    <3> QED
      BY <3>2 DEF e
  <2> QED
    BY <2>2, <2>3, <2>4 DEF c, cb
<1> QED
  BY <1>5, <1>6

\* A callback of a socket that is not closed.  A "listening" that is delivered
\* over an open socket is the only one, and the server is listening.
LEMMA OpenCallbackKept ==
  ASSUME NEW d \in Connection, Kept(d), d.inbox # << >>, d.sock # "CLOSED",
         Continous, NEW ok \in BOOLEAN
  PROVE  Kept(OnCallback(Popped(d), Head(d.inbox), ok))
<1> DEFINE c  == Popped(d)
           cb == Head(d.inbox)
           t  == Tail(d.inbox)
<1>1. /\ c \in Connection /\ c.sock = d.sock /\ c.gen = 0 /\ c.srv = d.srv /\ c.hz = d.hz
      /\ c.listenActive = d.listenActive /\ c.inbox = t
  BY PoppedFields DEF Kept
<1>2. /\ d.inbox \in Seq(Callback) /\ d.srv # "protocolError" /\ OfFirst(d.inbox)
      /\ Once(d.inbox, "state") /\ (d.sock = "CONNECTING" => NoneOf(d.inbox, "state"))
      /\ Live(d) => InSession(d)
  BY DEF Kept, Connection
<1>3. /\ Once(t, "state") /\ (d.sock = "CONNECTING" => NoneOf(t, "state"))
  BY <1>2, TailNone
<1>4. Once(d.inbox, "listening") =>
         /\ Once(t, "listening")
         /\ NoneOf(d.inbox, "listening") => NoneOf(t, "listening")
         /\ cb.kind = "listening" => NoneOf(t, "listening")
  BY <1>2, TailNone
<1>5. /\ cb \in Callback /\ cb.gen = 0 /\ OfFirst(t)
      /\ NoneOf(d.inbox, "listening") => cb.kind # "listening"
  <2>1. /\ t \in Seq(Callback) /\ cb = d.inbox[1] /\ cb \in Callback /\ 1 \in DOMAIN d.inbox
        /\ \A i \in DOMAIN t : i + 1 \in DOMAIN d.inbox /\ t[i] = d.inbox[i + 1]
    BY <1>2, TailShape
  <2> HIDE DEF t, cb
  <2> QED
    BY <1>2, <2>1 DEF OfFirst, NoneOf
<1> HIDE DEF c, cb, t
<1>6. ASSUME NEW e, e.sock = d.sock, e.gen = 0, e.inbox = t, e.srv = d.srv, e.hz = d.hz,
             \/ e.listenActive = d.listenActive
             \/ e.listenActive /\ cb.kind = "listening"
      PROVE  Kept(e)
  <2>1. Live(d) => InSession(e)
    BY <1>2, <1>4, <1>5, <1>6 DEF InSession
  <2> QED
    BY <1>2, <1>3, <1>5, <1>6, <2>1 DEF Kept, Live
<1>7. Kept(c)
  BY <1>1, <1>6
<1>8. CASE cb.kind = "state"
  <2>1. OnCallback(c, cb, ok) \in {c, [c EXCEPT !.connected = TRUE]}
    BY <1>1, <1>5, <1>8 DEF OnCallback, OnListenState
  <2> DEFINE e == [c EXCEPT !.connected = TRUE]
  <2>2. /\ e.sock = d.sock /\ e.gen = 0 /\ e.inbox = t /\ e.srv = d.srv /\ e.hz = d.hz
        /\ e.listenActive = d.listenActive
    BY <1>1 DEF Connection
  <2> HIDE DEF e
  <2>3. Kept(e)
    BY <1>6, <2>2
  <2> QED
    BY <1>7, <2>1, <2>3 DEF c, cb, e
<1>9. CASE cb.kind = "listening"
  <2> DEFINE e == [c EXCEPT !.listenActive = TRUE]
  <2>1. OnCallback(c, cb, ok) = e
    BY <1>9 DEF OnCallback
  <2>2. /\ e.sock = d.sock /\ e.gen = 0 /\ e.inbox = t /\ e.srv = d.srv /\ e.hz = d.hz
        /\ e.listenActive
    BY <1>1 DEF Connection
  <2> HIDE DEF e
  <2>3. Kept(e)
    BY <1>6, <1>9, <2>2
  <2> QED
    BY <2>1, <2>3 DEF c, cb
<1>10. CASE cb.kind = "final"
  <2>1. OnCallback(c, cb, ok) = c
    BY <1>10 DEF OnCallback
  <2> QED
    BY <1>7, <2>1 DEF c, cb
<1>11. CASE cb.kind = "error"
  <2>1. OnCallback(c, cb, ok) = Close(c)
    BY <1>11 DEF OnCallback
  <2> QED
    BY <1>1, <1>7, <2>1, CloseKept DEF c, cb
<1> QED
  BY <1>5, <1>8, <1>9, <1>10, <1>11 DEF Callback

\* The network thread opens or closes a socket and posts the notification.
LEMMA SocketKept ==
  ASSUME NEW c \in Connection, Kept(c), ~c.timer, NEW s \in {"CONNECTED", "CLOSED"},
         s = "CONNECTED" => c.sock = "CONNECTING", c.sock # "CLOSED"
  PROVE  Kept(Post([c EXCEPT !.sock = s], "state"))
<1> DEFINE cb == [gen |-> c.gen, kind |-> "state"]
           e  == Post([c EXCEPT !.sock = s], "state")
           p  == Append(c.inbox, cb)
<1>1. c.inbox \in Seq(Callback) /\ cb \in Callback /\ cb.kind = "state" /\ cb.gen = 0
  BY DEF Connection, Callback, Kept
<1>2. /\ e.sock = s /\ e.gen = 0 /\ e.srv = c.srv /\ e.hz = c.hz /\ e.timer = c.timer
      /\ e.listenActive = c.listenActive /\ e.inbox = p
  BY DEF Post, Connection, Kept
<1> HIDE DEF cb, e
<1>3. /\ p # << >> /\ p[Len(p)] = cb
      /\ NoneOf(c.inbox, "state") /\ Once(c.inbox, "state") => Once(p, "state")
      /\ Once(c.inbox, "state") => OnceBefore(p)
      /\ OfFirst(c.inbox) => OfFirst(p)
  BY <1>1, AppendShape
<1>4. /\ Once(c.inbox, "listening") => Once(p, "listening")
      /\ NoneOf(c.inbox, "listening") => NoneOf(p, "listening")
  BY <1>1, AppendShape
<1> HIDE DEF p
<1>5. CASE s = "CONNECTED"
  <2>1. InSession(c) /\ NoneOf(c.inbox, "state") /\ Once(c.inbox, "state")
    BY <1>5 DEF Kept, Live
  <2>2. InSession(e)
    BY <1>2, <1>4, <2>1 DEF InSession
  <2>3. Kept(e)
    BY <1>2, <1>3, <1>5, <2>1, <2>2 DEF Kept
  <2> QED
    BY <2>3 DEF e
<1>6. CASE s = "CLOSED"
  <2>1. Once(c.inbox, "state")
    BY DEF Kept
  <2>2. Ended(e)
    BY <1>1, <1>2, <1>3, <2>1 DEF Ended, EndsClosed
  <2>3. Kept(e)
    BY <1>2, <1>3, <1>6, <2>2 DEF Kept, Live
  <2> QED
    BY <2>3 DEF e
<1> QED
  BY <1>5, <1>6

\* The server posts a frame over an open socket: "listening" after "start" or
\* "stop", when none is on its way, or a frame that leaves the session alone.
LEMMA ServerKept ==
  ASSUME NEW c \in Connection, Kept(c), c.sock = "CONNECTED",
         NEW k \in {"listening", "final", "error"}, NEW v \in ServerState,
         IF k = "listening" THEN c.srv \in {"started", "stopping"} /\ v = "listening"
                            ELSE v = c.srv
  PROVE  Kept(Post([c EXCEPT !.srv = v], k))
<1> DEFINE cb == [gen |-> c.gen, kind |-> k]
           e  == Post([c EXCEPT !.srv = v], k)
           p  == Append(c.inbox, cb)
<1>1. c.inbox \in Seq(Callback) /\ cb \in Callback /\ cb.kind = k /\ cb.gen = 0
  BY DEF Connection, Callback, Kept
<1>2. /\ e.sock = "CONNECTED" /\ e.gen = 0 /\ e.srv = v /\ e.hz = c.hz
      /\ e.listenActive = c.listenActive /\ e.inbox = p
  BY DEF Post, Connection, Kept
<1>3. InSession(c) /\ Once(c.inbox, "state") /\ OfFirst(c.inbox) /\ c.srv # "protocolError"
  BY DEF Kept, Live
<1> HIDE DEF cb, e
<1>4. Once(p, "state") /\ OfFirst(p)
  BY <1>1, <1>3, AppendShape
<1>5. /\ Once(c.inbox, "listening") /\ (k # "listening" \/ NoneOf(c.inbox, "listening"))
           => Once(p, "listening")
      /\ NoneOf(c.inbox, "listening") /\ k # "listening" => NoneOf(p, "listening")
  BY <1>1, AppendShape
<1> HIDE DEF p
<1>6. InSession(e)
  <2>1. CASE k = "listening"
    <3>1. NoneOf(c.inbox, "listening") /\ ~c.listenActive /\ c.hz
      BY <1>3, <2>1 DEF InSession, Connection
    <3> QED
      BY <1>2, <1>3, <1>5, <2>1, <3>1 DEF InSession
  <2>2. CASE k # "listening"
    BY <1>2, <1>3, <1>5, <2>2 DEF InSession
  <2> QED
    BY <2>1, <2>2
<1>7. Kept(e)
  BY <1>2, <1>3, <1>4, <1>6 DEF Kept
<1> QED
  BY <1>7 DEF e

-----------------------------------------------------------------------------
AllKept == isListening => \A m \in Models : Kept(conn[m])

LEMMA InitAllKept == Init => AllKept
  BY DEF Init, AllKept

LEMMA NextAllKept ==
  ASSUME MaxRefresh = 0, Continous, IInv, AllKept, [Next]_vars
  PROVE  AllKept'
<1>1. Answers \subseteq BOOLEAN
  BY DEF Answers
<1>2. \A m \in Models : conn[m] \in Connection /\ DOMAIN conn = Models
  BY DEF IInv
<1>3. isListening => \A m \in Models : Good(conn[m]) /\ Kept(conn[m])
  BY DEF IInv, AllKept
<1>4. ASSUME NEW m \in Models, NEW c, Kept(c), isListening, conn' = [conn EXCEPT ![m] = c]
      PROVE  AllKept'
  BY <1>2, <1>3, <1>4 DEF AllKept
<1>5. ASSUME NEW ok \in [Models -> Answers], conn' = Opened(ok)
      PROVE  AllKept'
  BY <1>1, <1>5, StartKept DEF Opened, AllKept
<1>6. CASE StartListening
  BY <1>5, <1>6 DEF StartListening
<1>7. CASE StopListening
  BY <1>7 DEF StopListening, AllKept
<1>8. CASE SetLearningOptOut
  BY <1>5, <1>7, <1>8 DEF SetLearningOptOut
<1>9. CASE RefreshConnections
  <2>1. PICK m \in Models : TRUE
    BY ModelsAssumption
  <2>2. conn[m].gen \in Nat /\ conn[m].gen < MaxRefresh
    BY <1>2, <1>9, <2>1 DEF RefreshConnections, Connection
  <2> QED
    BY <2>2
<1>10. CASE Disconnected
  <2>1. ASSUME NEW m \in Models
        PROVE  Kept(Close([conn[m] EXCEPT !.connected = FALSE]))
    <3> DEFINE d == conn[m]
               e == [d EXCEPT !.connected = FALSE]
    <3>1. d \in Connection /\ Kept(d)
      BY <1>2, <1>3, <1>10 DEF Disconnected
    <3> HIDE DEF d
    <3>2. /\ e \in Connection /\ e.sock = d.sock /\ e.gen = d.gen /\ e.inbox = d.inbox
          /\ e.timer = d.timer /\ e.ahead = d.ahead /\ e.listenActive = d.listenActive
          /\ e.srv = d.srv /\ e.hz = d.hz
      BY <3>1 DEF Connection
    <3> HIDE DEF e
    <3>3. Kept(e)
      BY <3>1, <3>2, KeptFields DEF Kept, InSession
    <3>4. Kept(Close(e))
      BY <3>2, <3>3, CloseKept
    <3> QED
      BY <3>4 DEF d, e
  <2> QED
    BY <1>10, <2>1 DEF Disconnected, AllKept
<1>11. CASE Weather
  BY <1>11 DEF Weather, AllKept
<1>12. ASSUME NEW loud \in BOOLEAN, OnListen(loud)
       PROVE  AllKept'
  BY <1>2, <1>3, <1>12, SendAudioKept DEF OnListen, AllKept
<1>13. ASSUME NEW m \in Models, Deliver(m)
       PROVE  AllKept'
  <2>1. PICK ok \in Answers :
           conn' = [conn EXCEPT ![m] = OnCallback(Popped(conn[m]), Head(conn[m].inbox), ok)]
    BY <1>2, <1>13 DEF Deliver, Popped, Connection
  <2>2. /\ isListening /\ conn[m].inbox # << >> /\ Kept(conn[m])
        /\ conn[m] \in Connection /\ conn[m].reconnecting = conn[m].timer
    BY <1>2, <1>3, <1>13 DEF Deliver, Good, Sound, Connection
  <2>3. Kept(OnCallback(Popped(conn[m]), Head(conn[m].inbox), ok))
    BY <1>1, <2>2, ClosedCallbackKept, OpenCallbackKept
  <2> QED
    BY <1>4, <2>1, <2>2, <2>3
<1>14. ASSUME NEW m \in Models, TimerFires(m)
       PROVE  AllKept'
  <2> DEFINE d == conn[m]
             c == [d EXCEPT !.timer = FALSE]
  <2>1. /\ isListening /\ d.timer /\ d.ahead = 0 /\ Good(d) /\ Kept(d) /\ d \in Connection
    BY <1>2, <1>3, <1>14 DEF TimerFires
  <2>2. CASE \E ok \in Answers : conn' = [conn EXCEPT ![m] = OnReconnect(c, ok)]
    <3>1. PICK ok \in Answers : conn' = [conn EXCEPT ![m] = OnReconnect(c, ok)]
      BY <2>2
    <3> HIDE DEF d
    <3>2. d.sock = "CLOSED" /\ d.reconnecting
      BY <2>1 DEF Good, Sound
    <3>3. d.inbox = << >> /\ ~d.listenActive /\ d.gen = 0 /\ d.srv # "protocolError"
      <4>1. Ended(d) /\ d.inbox \in Seq(Callback) /\ d.gen = 0 /\ d.srv # "protocolError"
        BY <2>1, <3>2 DEF Kept, Connection
      <4>2. Len(d.inbox) = 0
        BY <2>1, <4>1 DEF Ended
      <4> QED
        BY <4>1, <4>2 DEF Ended
    <3>4. /\ c \in Connection /\ c.sock = "CLOSED" /\ c.gen = 0 /\ c.inbox = << >>
          /\ ~c.listenActive /\ c.srv # "protocolError" /\ c.reconnecting
      BY <2>1, <3>2, <3>3 DEF Connection
    <3> HIDE DEF c
    <3>5. Kept(Retry(c, ok))
      BY <1>1, <3>4, RetryKept
    <3> QED
      BY <1>4, <2>1, <3>1, <3>4, <3>5 DEF OnReconnect
  <2>3. CASE StopListening
    BY <1>7, <2>3
  <2> QED
    BY <1>14, <2>2, <2>3 DEF TimerFires
<1>15. ASSUME NEW m \in Models, ListenTimeout(m)
       PROVE  AllKept'
  <2> DEFINE d == conn[m]
             e == [d EXCEPT !.late = TRUE]
  <2>1. isListening /\ d \in Connection /\ Kept(d) /\ conn' = [conn EXCEPT ![m] = e]
    BY <1>2, <1>3, <1>15 DEF ListenTimeout
  <2> HIDE DEF d
  <2>2. /\ e.sock = d.sock /\ e.gen = d.gen /\ e.inbox = d.inbox /\ e.timer = d.timer
        /\ e.ahead = d.ahead /\ e.listenActive = d.listenActive /\ e.srv = d.srv /\ e.hz = d.hz
    BY <2>1 DEF Connection
  <2> HIDE DEF e
  <2>3. Kept(e)
    BY <2>1, <2>2, KeptFields DEF Kept, InSession
  <2> QED
    BY <1>4, <2>1, <2>3
<1>16. ASSUME NEW m \in Models, NEW s \in {"CONNECTED", "CLOSED"}, isListening,
              conn[m].sock # "CLOSED", s = "CONNECTED" => conn[m].sock = "CONNECTING",
              SocketBecomes(m, s)
       PROVE  AllKept'
  <2>1. conn[m] \in Connection /\ Kept(conn[m]) /\ ~conn[m].timer
    BY <1>2, <1>3, <1>16 DEF Good
  <2>2. Kept(Post([conn[m] EXCEPT !.sock = s], "state"))
    BY <1>16, <2>1, SocketKept
  <2> QED
    BY <1>4, <1>16, <2>2 DEF SocketBecomes
<1>17. ASSUME NEW m \in Models, NetOpen(m) \/ NetClosed(m) \/ NetDrop(m)
       PROVE  AllKept'
  BY <1>16, <1>17 DEF NetOpen, NetClosed, NetDrop, Room, Live
<1>18. ASSUME NEW m \in Models, NEW k \in {"listening", "final", "error"},
              NEW v \in ServerState, ServerSays(m, k, v),
              IF k = "listening"
              THEN conn[m].srv \in {"started", "stopping"} /\ v = "listening"
              ELSE v = conn[m].srv
       PROVE  AllKept'
  <2>1. isListening /\ conn[m] \in Connection /\ Kept(conn[m]) /\ conn[m].sock = "CONNECTED"
    BY <1>2, <1>3, <1>18 DEF ServerSays, Room
  <2>2. Kept(Post([conn[m] EXCEPT !.srv = v], k))
    BY <1>18, <2>1, ServerKept
  <2> QED
    BY <1>4, <1>18, <2>1, <2>2 DEF ServerSays
<1>19. ASSUME NEW m \in Models,
              ServerListening(m) \/ ServerFinalResult(m) \/ ServerError(m)
       PROVE  AllKept'
  <2>1. conn[m].srv \in ServerState /\ "listening" \in ServerState
    BY <1>2 DEF Connection, ServerState
  <2>2. CASE ServerListening(m)
    BY <1>18, <2>1, <2>2 DEF ServerListening
  <2>3. CASE ServerFinalResult(m)
    BY <1>18, <2>1, <2>3 DEF ServerFinalResult
  <2>4. CASE ServerError(m)
    BY <1>18, <2>1, <2>4 DEF ServerError
  <2> QED
    BY <1>19, <2>2, <2>3, <2>4
<1>20. CASE UNCHANGED vars
  BY <1>20 DEF vars, AllKept
<1> QED
  BY <1>6, <1>7, <1>8, <1>9, <1>10, <1>11, <1>12, <1>13, <1>14, <1>15, <1>17, <1>19, <1>20
     DEF Next

\* Audio and "stop" reach the server only while it listens and "start" only at
\* the opening, for every set of models, through drops, refused sends, opt-outs
\* and late callbacks, as long as nothing is refreshed and one "start" covers
\* many utterances.
THEOREM ServerIsRespected ==
  ASSUME MaxRefresh = 0, Continous
  PROVE  Spec => []SessionRespected
<1>1. IInv /\ AllKept => SessionRespected
  <2>1. Fresh.srv # "protocolError"
    BY DEF Fresh
  <2> QED
    BY <2>1 DEF IInv, AllKept, Kept, SessionRespected
<1>2. IInv /\ AllKept /\ [Next]_vars => AllKept'
  BY NextAllKept
<1>3. Spec => []IInv
  BY Invariance
<1> QED
  BY <1>1, <1>2, <1>3, InitAllKept, PTL DEF Spec
=============================================================================
