-------------------------- MODULE Telephony_proofs --------------------------
(***************************************************************************)
(* What Telephony guarantees of its connection for every bound on sockets, *)
(* clips and callbacks, whatever is sent over it.                          *)
(*                                                                         *)
(* That the service is a ReconnectingLink rests on StaysReachable, which   *)
(* is inductive only together with what a socket that is not open looks    *)
(* like: Good collects what the handlers keep of the link, and an open     *)
(* socket has had exactly one handshake.                                   *)
(***************************************************************************)
EXTENDS Telephony, Loops_proofs

\* The type of the link, and that a session in use has had its handshake.
Sound(l) ==
    /\ l \in Link
    /\ l.sock # "CLOSED" => l.srv # "new"
    /\ l.srv # "protocolError"

Pending(l) ==
    \E i \in DOMAIN l.inbox : l.inbox[i] = [gen |-> l.gen, kind |-> "state"]

Good(l) ==
    /\ Sound(l)
    /\ l.exists /\ l.sock = "CLOSED" => l.reconnect = "pending" \/ Pending(l)
    /\ ~l.exists => l.sock = "CLOSED"

IInv == Good(link)

Callback == [gen : Nat, kind : {"state", "hang_up", "other"}]

-----------------------------------------------------------------------------
(* Lemmas about one link.                                                  *)

\* A command does not disturb a session that has had its handshake, and only
\* the session changes.
LEMMA CommandSound ==
  ASSUME NEW l, Sound(l), NEW c \in {"dial", "sms_outgoing", "answer", "hang_up"}
  PROVE  \E s \in {"new", "ready", "inCall"} :
           /\ SendCommand(l, c) = [l EXCEPT !.srv = s]
           /\ l.sock # "CLOSED" => s # "new"
<1>1. l = [l EXCEPT !.srv = l.srv] /\ l.srv \in {"new", "ready", "inCall"}
  BY DEF Sound, Link
<1>2. CASE Live(l)
  <2>1. l.srv \in {"ready", "inCall"}
    BY <1>1, <1>2 DEF Sound, Live
  <2>2. AfterCommand(l.srv, c) \in {"ready", "inCall"}
    BY <2>1 DEF AfterCommand
  <2>3. SendCommand(l, c) = [l EXCEPT !.srv = AfterCommand(l.srv, c)]
    BY <1>2 DEF SendCommand
  <2>4. QED
    BY <2>2, <2>3
<1>3. CASE ~Live(l)
  BY <1>1, <1>3 DEF SendCommand, Sound
<1>4. QED
  BY <1>2, <1>3

LEMMA CommandGood ==
  ASSUME NEW l, Good(l), NEW c \in {"dial", "sms_outgoing", "answer", "hang_up"}
  PROVE  /\ Good(SendCommand(l, c))
         /\ \E s : SendCommand(l, c) = [l EXCEPT !.srv = s]
<1>1. Sound(l)
  BY DEF Good
<1>2. PICK s \in {"new", "ready", "inCall"} :
        /\ SendCommand(l, c) = [l EXCEPT !.srv = s]
        /\ l.sock # "CLOSED" => s # "new"
  BY <1>1, CommandSound
<1> DEFINE d == [l EXCEPT !.srv = s]
<1>3. /\ d \in Link /\ d.srv = s /\ d.sock = l.sock /\ d.exists = l.exists
      /\ d.reconnect = l.reconnect /\ d.inbox = l.inbox /\ d.gen = l.gen
  BY <1>1 DEF Sound, Link
<1> HIDE DEF d
<1>4. Good(d)
  BY <1>2, <1>3 DEF Good, Sound, Pending
<1>5. QED
  BY <1>2, <1>4 DEF d

\* Dialing always ends in a session that has had its handshake.
LEMMA DialGood ==
  ASSUME NEW l \in Link, l.exists
  PROVE  /\ Good(SendCommand(Redial(l), "handshake"))
         /\ SendCommand(Redial(l), "handshake").sock = "CONNECTING"
         /\ SendCommand(Redial(l), "handshake").exists
<1> DEFINE r == Redial(l)
           d == [r EXCEPT !.srv = "ready"]
<1>1. r \in Link /\ r.sock = "CONNECTING" /\ r.srv = "new" /\ r.exists
  <2>1. r \in Link
    BY DEF Redial, Link
  <2>2. r.sock = "CONNECTING" /\ r.srv = "new" /\ r.exists = l.exists
    BY DEF Redial, Link
  <2>3. QED
    BY <2>1, <2>2
<1> HIDE DEF r
<1>2. AfterCommand(r.srv, "handshake") = "ready"
  BY <1>1 DEF AfterCommand
<1>3. SendCommand(r, "handshake") = d
  BY <1>1, <1>2 DEF SendCommand, Live
<1>4. d \in Link /\ d.sock = "CONNECTING" /\ d.srv = "ready" /\ d.exists
  BY <1>1 DEF Link
<1> HIDE DEF d
<1>5. QED
  BY <1>3, <1>4 DEF Good, Sound, r

LEMMA TimerGood ==
  ASSUME NEW l, Sound(l), l.exists, l.sock = "CLOSED"
  PROVE  /\ Good(StartReconnectTimer(l))
         /\ StartReconnectTimer(l).reconnect = "pending"
         /\ StartReconnectTimer(l).exists
<1> DEFINE d == StartReconnectTimer(l)
<1>1. Len(l.inbox) \in Nat
  BY DEF Sound, Link
<1>2. /\ d \in Link /\ d.sock = l.sock /\ d.srv = l.srv /\ d.exists = l.exists
      /\ d.reconnect = "pending"
  BY <1>1 DEF Sound, Link, StartReconnectTimer
<1> HIDE DEF d
<1>3. Good(d)
  BY <1>2 DEF Good, Sound
<1>4. QED
  BY <1>2, <1>3 DEF d

\* A reconnect on a closed socket, whoever asks for it, dials or starts the timer.
Armed(l) == l.exists /\ (l.sock = "CLOSED" => l.reconnect = "pending")

LEMMA ReconnectGood ==
  ASSUME NEW l, Sound(l), l.exists, l.sock = "CLOSED", NEW ok \in BOOLEAN
  PROVE  Good(OnReconnect(l, ok)) /\ Armed(OnReconnect(l, ok))
<1> DEFINE r == [l EXCEPT !.reconnect = "none"]
<1>1. Sound(r) /\ r.exists /\ r.sock = "CLOSED" /\ r \in Link
  BY DEF Sound, Link
<1>2. CASE l.reconnect = "none"
  BY <1>2, TimerGood DEF OnReconnect, Armed
<1>3. CASE l.reconnect # "none"
  <2>1. OnReconnect(l, ok) = IF ok THEN SendCommand(Redial(r), "handshake")
                                   ELSE StartReconnectTimer(r)
    BY <1>3 DEF OnReconnect, Retry
  <2> HIDE DEF r
  <2>2. QED
    BY <1>1, <2>1, DialGood, TimerGood DEF Armed
<1>4. QED
  BY <1>2, <1>3

\* Close never makes a socket CLOSED: that is the network thread's doing.
LEMMA CloseGood ==
  ASSUME NEW l, Good(l)
  PROVE  Good(Close(l)) /\ (Close(l).sock = "CLOSED" => Close(l) = l)
  BY DEF Good, Sound, Link, Close, Live, Pending

\* The network thread leaves a notification when it changes a socket.
LEMMA PostGood ==
  ASSUME NEW l, Good(l), l.exists, NEW k \in {"state", "hang_up", "other"},
         NEW s \in {"CONNECTED", "CLOSED"}, NEW v \in {"ready", "inCall"},
         k # "state" => s = l.sock
  PROVE  Good(Post([l EXCEPT !.sock = s, !.srv = v], k))
<1> DEFINE n == [gen |-> l.gen, kind |-> k]
           d == [l EXCEPT !.sock = s, !.srv = v, !.inbox = Append(l.inbox, n)]
<1>1. l \in Link /\ l.inbox \in Seq(Callback)
  BY DEF Good, Sound, Link, Callback
<1>2. n \in Callback
  BY <1>1 DEF Callback, Link
<1>3. d \in Link
  <2> HIDE DEF n
  <2>1. Append(l.inbox, n) \in Seq(Callback)
    BY <1>1, <1>2
  <2>2. QED
    BY <1>1, <2>1 DEF Link, Callback
<1>4. /\ d.sock = s /\ d.srv = v /\ d.gen = l.gen /\ d.exists = l.exists
      /\ d.reconnect = l.reconnect /\ d.inbox = Append(l.inbox, n)
  BY <1>1 DEF Link
<1>5. Post([l EXCEPT !.sock = s, !.srv = v], k) = d
  BY <1>1 DEF Post, Link
<1> HIDE DEF d
<1>6. k = "state" => Pending(d)
  <2>1. Len(l.inbox) + 1 \in DOMAIN d.inbox /\ d.inbox[Len(l.inbox) + 1] = n
    BY <1>1, <1>2, <1>4
  <2>2. QED
    BY <2>1, <1>4 DEF Pending
<1>7. Pending(l) => Pending(d)
  <2>1. \A i \in DOMAIN l.inbox : i \in DOMAIN d.inbox /\ d.inbox[i] = l.inbox[i]
    BY <1>1, <1>2, <1>4
  <2>2. QED
    BY <2>1, <1>4 DEF Pending
<1>8. Good(d)
  BY <1>3, <1>4, <1>6, <1>7 DEF Good, Sound
<1>9. QED
  BY <1>5, <1>8

-----------------------------------------------------------------------------
(* The invariant.  Every action is a call, a timer or a callback on one    *)
(* link, or a step of the network.                                         *)

LEMMA InitGood == Init => IInv
  BY DEF Init, IInv, Good, Sound, Link, Pending

\* What OnListenState leaves: the link, or one that was armed.
LEMMA ListenGood ==
  ASSUME NEW l, Sound(l), l.exists, NEW ok \in BOOLEAN
  PROVE  Good(OnListenState(l, ok)) /\ Armed(OnListenState(l, ok))
<1>1. CASE l.sock = "CLOSED"
  <2> DEFINE d == [l EXCEPT !.connected = FALSE]
  <2>1. Sound(d) /\ d.exists /\ d.sock = "CLOSED"
    BY <1>1 DEF Sound, Link
  <2>2. OnListenState(l, ok) = OnReconnect(d, ok)
    BY <1>1 DEF OnListenState
  <2> HIDE DEF d
  <2>3. QED
    BY <2>1, <2>2, ReconnectGood
<1>2. CASE l.sock # "CLOSED"
  <2>1. OnListenState(l, ok) \in {l, [l EXCEPT !.connected = TRUE]}
    BY <1>2 DEF OnListenState
  <2>2. Good(l) /\ Armed(l)
    BY <1>2 DEF Good, Armed
  <2>3. Good([l EXCEPT !.connected = TRUE]) /\ Armed([l EXCEPT !.connected = TRUE])
    BY <1>2 DEF Good, Armed, Sound, Link
  <2>4. QED
    BY <2>1, <2>2, <2>3
<1>3. QED
  BY <1>1, <1>2

\* A callback is taken off the queue: unless it is the notification of the
\* current socket, that one is still there.
LEMMA TakeGood ==
  ASSUME NEW l, Good(l), l.inbox # << >>, NEW n \in Nat
  PROVE  LET d == [l EXCEPT !.inbox = Tail(l.inbox), !.ahead = n]
         IN  /\ Sound(d) /\ d.exists = l.exists /\ d.sock = l.sock
             /\ d.reconnect = l.reconnect /\ d.gen = l.gen
             /\ Head(l.inbox).kind # "state" \/ Head(l.inbox).gen # l.gen \/ ~l.exists => Good(d)
<1> DEFINE d == [l EXCEPT !.inbox = Tail(l.inbox), !.ahead = n]
           cb == Head(l.inbox)
<1>1. l \in Link /\ l.inbox \in Seq(Callback)
  BY DEF Good, Sound, Link, Callback
<1>2. Tail(l.inbox) \in Seq(Callback)
  BY <1>1
<1>3. d \in Link
  BY <1>1, <1>2 DEF Link, Callback
<1>4. /\ d.exists = l.exists /\ d.sock = l.sock /\ d.reconnect = l.reconnect
      /\ d.gen = l.gen /\ d.srv = l.srv /\ d.inbox = Tail(l.inbox)
  BY <1>1 DEF Link
<1>5. Sound(d)
  BY <1>3, <1>4 DEF Good, Sound
<1> HIDE DEF d
<1>6. ASSUME cb.kind # "state" \/ cb.gen # l.gen, Pending(l) PROVE Pending(d)
  <2>1. PICK i \in DOMAIN l.inbox : l.inbox[i] = [gen |-> l.gen, kind |-> "state"]
    BY <1>6 DEF Pending
  <2>2. i # 1
    BY <1>6, <2>1
  <2>3. i - 1 \in DOMAIN d.inbox /\ d.inbox[i - 1] = l.inbox[i]
    BY <1>1, <1>4, <2>1, <2>2
  <2>4. QED
    BY <1>4, <2>1, <2>3 DEF Pending
<1>7. cb.kind # "state" \/ cb.gen # l.gen \/ ~l.exists => Good(d)
  BY <1>4, <1>5, <1>6 DEF Good
<1>8. QED
  BY <1>4, <1>5, <1>7 DEF d
\* Every action keeps the invariant, and leaves a link that is closed or waits
\* for its timer closed, armed or open: never lost without a notification.
Held(l) == ~l.exists \/ (l.sock = "CLOSED" /\ l.reconnect = "pending")

Kept(l, m) == Good(m) /\ (Held(l) => ~m.exists \/ Armed(m))

LEMMA SameKept ==
  ASSUME NEW l, Good(l)
  PROVE  Kept(l, l)
  BY DEF Kept, Held, Armed

LEMMA CommandKept ==
  ASSUME NEW l, Good(l), NEW c \in {"dial", "sms_outgoing", "answer", "hang_up"}
  PROVE  Kept(l, SendCommand(l, c))
<1>1. PICK s : SendCommand(l, c) = [l EXCEPT !.srv = s]
  BY CommandGood
<1>2. Good(SendCommand(l, c))
  BY CommandGood
<1>3. QED
  BY <1>1, <1>2 DEF Kept, Held, Armed, Good, Sound, Link

LEMMA ConnectKept ==
  ASSUME IInv, Connect
  PROVE  Kept(link, link')
<1> DEFINE new == [link EXCEPT !.exists = TRUE, !.gen = link.gen + 1,
                               !.sock = "CLOSED", !.srv = "new"]
<1>1. new \in Link /\ new.exists /\ new.sock = "CLOSED" /\ new.srv = "new"
  <2>1. link \in Link
    BY DEF IInv, Good, Sound
  <2>2. link.gen + 1 \in Nat
    BY <2>1 DEF Link
  <2>3. new \in Link
    BY <2>1, <2>2 DEF Link
  <2>4. new.exists /\ new.sock = "CLOSED" /\ new.srv = "new"
    BY <2>1 DEF Link
  <2>5. QED
    BY <2>3, <2>4
<1>2. \/ link' = SendCommand(Redial(new), "handshake")
      \/ \E again \in BOOLEAN : link' = OnReconnect(new, again)
  BY DEF Connect
<1> HIDE DEF new
<1>3. Sound(new)
  BY <1>1 DEF Sound
<1>4. CASE link' = SendCommand(Redial(new), "handshake")
  BY <1>1, <1>4, DialGood DEF Kept, Armed
<1>5. CASE \E again \in BOOLEAN : link' = OnReconnect(new, again)
  BY <1>1, <1>3, <1>5, ReconnectGood DEF Kept
<1>6. QED
  BY <1>2, <1>4, <1>5

LEMMA TimerKept ==
  ASSUME IInv, ReconnectTimerFires
  PROVE  Kept(link, link')
<1> DEFINE d == [link EXCEPT !.reconnect = "expired"]
<1>1. PICK ok \in BOOLEAN : link' = OnReconnect(d, ok)
  BY DEF ReconnectTimerFires, Answers
<1>2. /\ d \in Link /\ d.exists = link.exists /\ d.sock = link.sock
      /\ d.srv = link.srv /\ d.reconnect = "expired" /\ d.inbox = link.inbox
  BY DEF IInv, Good, Sound, Link
<1>3. Sound(d) /\ Good(link)
  BY <1>2 DEF IInv, Good, Sound
<1> HIDE DEF d
<1>4. CASE ~d.exists
  BY <1>1, <1>2, <1>3, <1>4 DEF OnReconnect, Kept, Good
<1>5. CASE d.exists /\ d.sock = "CLOSED"
  BY <1>1, <1>3, <1>5, ReconnectGood DEF Kept
<1>6. CASE d.exists /\ d.sock # "CLOSED"
  <2>1. link' = Close(d)
    BY <1>1, <1>2, <1>6 DEF OnReconnect
  <2>2. Good(d)
    BY <1>3, <1>6 DEF Good
  <2>3. Good(Close(d)) /\ (Close(d).sock = "CLOSED" => Close(d) = d)
    BY <2>2, CloseGood
  <2>4. QED
    BY <1>2, <1>6, <2>1, <2>3 DEF Kept, Held
<1>7. QED
  BY <1>4, <1>5, <1>6

LEMMA DeliverKept ==
  ASSUME IInv, Deliver
  PROVE  Kept(link, link')
<1> DEFINE cb == Head(link.inbox)
           n == IF link.ahead > 0 THEN link.ahead - 1 ELSE 0
           d == [link EXCEPT !.inbox = Tail(link.inbox), !.ahead = n]
<1>1. link \in Link /\ Good(link) /\ link.inbox # << >>
  BY DEF IInv, Good, Sound, Deliver
<1>2. n \in Nat
  BY <1>1 DEF Link
<1>3. d = [link EXCEPT !.inbox = Tail(@), !.ahead = IF @ > 0 THEN @ - 1 ELSE 0]
  BY <1>1 DEF Link
<1>4. /\ Sound(d) /\ d.exists = link.exists /\ d.sock = link.sock
      /\ d.reconnect = link.reconnect /\ d.gen = link.gen
      /\ cb.kind # "state" \/ cb.gen # link.gen \/ ~link.exists => Good(d)
  <2> HIDE DEF n
  <2>1. QED
    BY <1>1, <1>2, TakeGood
<1>5. IF cb.kind = "state" /\ link.exists /\ cb.gen = link.gen
      THEN \E ok \in Answers : link' = OnListenState(d, ok)
      ELSE link' = d
  <2> HIDE DEF d
  <2>1. QED
    BY <1>3 DEF Deliver
<1> HIDE DEF d
<1>6. CASE cb.kind = "state" /\ link.exists /\ cb.gen = link.gen
  <2>1. PICK ok \in BOOLEAN : link' = OnListenState(d, ok)
    BY <1>5, <1>6 DEF Answers
  <2>2. QED
    BY <1>4, <1>6, <2>1, ListenGood DEF Kept
<1>7. CASE ~(cb.kind = "state" /\ link.exists /\ cb.gen = link.gen)
  <2>1. link' = d /\ Good(d)
    BY <1>4, <1>5, <1>7
  <2>2. QED
    BY <1>4, <2>1 DEF Kept, Held, Armed
<1>8. QED
  BY <1>6, <1>7

LEMMA NetKept ==
  ASSUME IInv, NetOpen \/ NetClosed \/ NetDrop \/ ServerHangUp \/ ServerOther
  PROVE  Kept(link, link')
<1>1. link \in Link /\ Good(link) /\ link.exists /\ link.sock # "CLOSED"
  BY DEF IInv, Good, Sound, NetOpen, NetClosed, NetDrop, ServerHangUp, ServerOther, NetStep, Live
<1>2. link.srv \in {"ready", "inCall"}
  BY <1>1 DEF Good, Sound, Link
<1>3. PICK k \in {"state", "hang_up", "other"}, s \in {"CONNECTED", "CLOSED"},
           v \in {"ready", "inCall"} :
        /\ k # "state" => s = link.sock
        /\ link' = Post([link EXCEPT !.sock = s, !.srv = v], k)
  <2>1. CASE NetOpen
    <3>1. [link EXCEPT !.sock = "CONNECTED"] = [link EXCEPT !.sock = "CONNECTED", !.srv = link.srv]
      BY <1>1 DEF Link
    <3>2. QED
      BY <1>2, <2>1, <3>1 DEF NetOpen, NetStep
  <2>2. CASE NetClosed \/ NetDrop
    <3>1. [link EXCEPT !.sock = "CLOSED"] = [link EXCEPT !.sock = "CLOSED", !.srv = link.srv]
      BY <1>1 DEF Link
    <3>2. QED
      BY <1>2, <2>2, <3>1 DEF NetClosed, NetDrop, NetStep
  <2>3. CASE ServerHangUp
    <3>1. [link EXCEPT !.srv = "ready"] = [link EXCEPT !.sock = link.sock, !.srv = "ready"]
      BY <1>1 DEF Link
    <3>2. link.sock = "CONNECTED" /\ link' = Post([link EXCEPT !.srv = "ready"], "hang_up")
      BY <2>3 DEF ServerHangUp, NetStep
    <3>3. QED
      BY <3>1, <3>2
  <2>4. CASE ServerOther
    <3>1. link = [link EXCEPT !.sock = link.sock, !.srv = link.srv]
      BY <1>1 DEF Link
    <3>2. link.sock = "CONNECTED" /\ link' = Post(link, "other")
      BY <2>4 DEF ServerOther, NetStep
    <3>3. QED
      BY <1>2, <3>1, <3>2
  <2>5. QED
    BY <2>1, <2>2, <2>3, <2>4
<1>4. Good(link')
  BY <1>1, <1>3, PostGood
<1>5. QED
  BY <1>1, <1>4 DEF Kept, Held

LEMMA NextKept ==
  ASSUME IInv, [Next]_vars
  PROVE  Kept(link, link')
<1>1. Good(link)
  BY DEF IInv
<1>2. CASE Connect
  BY <1>2, ConnectKept
<1>3. CASE Dial \/ Text \/ Answer \/ HangUp
  BY <1>1, <1>3, CommandKept DEF Dial, Text, Answer, HangUp
<1>4. CASE Disconnect
  <2>1. link' = [link EXCEPT !.exists = FALSE, !.sock = "CLOSED", !.connected = FALSE]
    BY <1>4 DEF Disconnect
  <2>2. link' \in Link /\ ~link'.exists /\ link'.sock = "CLOSED" /\ link'.srv = link.srv
    BY <1>1, <2>1 DEF Good, Sound, Link
  <2>3. QED
    BY <1>1, <2>2 DEF Good, Sound, Kept
<1>5. CASE ReconnectTimerFires
  BY <1>5, TimerKept
<1>6. CASE Deliver
  BY <1>6, DeliverKept
<1>7. CASE NetOpen \/ NetClosed \/ NetDrop \/ ServerHangUp \/ ServerOther
  BY <1>7, NetKept
<1>8. CASE (\E clip \in Clips : SendAudioIn(clip)) \/ OnSendAudioData \/ Weather \/ UNCHANGED vars
  <2>1. link' = link
    BY <1>8 DEF SendAudioIn, OnSendAudioData, Weather, vars
  <2>2. QED
    BY <1>1, <2>1, SameKept
<1>9. QED
  BY <1>2, <1>3, <1>4, <1>5, <1>6, <1>7, <1>8 DEF Next

LEMMA Invariance == Spec => []IInv
<1>1. IInv /\ [Next]_vars => IInv'
  BY NextKept DEF Kept, IInv, Good, Sound, Pending
<1>2. QED
  BY InitGood, <1>1, PTL DEF Spec

-----------------------------------------------------------------------------
(* The theorems.                                                           *)

\* A connection whose socket is down has a pending timer or a notification
\* under way, for every bound.
THEOREM Reachable == Spec => []StaysReachable
<1>1. IInv => StaysReachable
  BY DEF IInv, Good, StaysReachable, StatePending, Pending
<1>2. QED
  BY <1>1, Invariance, PTL

\* Each session starts with one handshake, for every bound.
THEOREM OneHandshake == Spec => []HandshakeFirst
<1>1. IInv => HandshakeFirst
  BY DEF IInv, Good, Sound, HandshakeFirst
<1>2. QED
  BY <1>1, Invariance, PTL

LEMMA LinkStates ==
  ASSUME IInv
  PROVE  /\ ~link.exists <=> LinkState = "closed"
         /\ LinkState \in {"closed", "open", "lost", "waiting"}
         /\ LinkState = "waiting" => Held(link)
         /\ LinkState = "lost" => link.exists /\ ~Armed(link)
  BY DEF IInv, Good, LinkState, Armed, Held, Pending, StatePending

LEMMA LinkStep ==
  ASSUME IInv, IInv', [Next]_vars
  PROVE  [Promise!Next]_LinkState
<1>1. /\ ~link.exists <=> LinkState = "closed"
      /\ LinkState \in {"closed", "open", "lost", "waiting"}
      /\ LinkState = "waiting" => Held(link)
  BY LinkStates
<1>2. /\ ~link'.exists <=> LinkState' = "closed"
      /\ LinkState' \in {"closed", "open", "lost", "waiting"}
      /\ LinkState' = "lost" => link'.exists /\ ~Armed(link')
  BY DEF IInv, Good, LinkState, Armed, Pending, StatePending
<1>3. LinkState \in {"closed", "waiting"} => LinkState' # "lost"
  BY <1>1, <1>2, NextKept DEF Kept, Held
<1>4. \/ Promise!Connect \/ Promise!Disconnect \/ Promise!Lose
      \/ Promise!Notice \/ Promise!Retry \/ LinkState' = LinkState
  BY <1>1, <1>2, <1>3 DEF Promise!Connect, Promise!Disconnect, Promise!Lose,
     Promise!Notice, Promise!Retry
<1>5. QED
  BY <1>4 DEF Promise!Next

\* Telephony implements the safety part of ReconnectingLink for every bound:
\* a connection that was lost is never forgotten, and none that waits for its
\* timer is lost again without it.
THEOREM ImplementsReconnectingLink == Spec => Promise!Safety
<1>1. Init => Promise!Init
  BY DEF Init, LinkState, Promise!Init
<1>2. QED
  BY Invariance, LinkStep, <1>1, PTL DEF Promise!Safety, Spec

-----------------------------------------------------------------------------
(* The packing of frames, for queues of any length and clips of any bytes. *)

Bytes == Strings(Nat)
Clip == Bytes \ {<< >>}

LEMMA BytesFlatten ==
    ASSUME NEW q \in Seq(Bytes)
    PROVE  /\ FlattenSeq(q) \in Bytes
           /\ q # << >> => FlattenSeq(q) = Head(q) \o FlattenSeq(Tail(q))
  BY FlattenCons, FlattenType DEF Bytes

LEMMA BytesCut ==
    ASSUME NEW d \in Bytes, NEW k \in 0 .. Len(d)
    PROVE  /\ SubSeq(d, 1, k) \in Bytes /\ SubSeq(d, k + 1, Len(d)) \in Bytes
           /\ Len(SubSeq(d, 1, k)) = k /\ Len(SubSeq(d, k + 1, Len(d))) = Len(d) - k
           /\ SubSeq(d, 1, k) \o SubSeq(d, k + 1, Len(d)) = d
  BY CutsInTwo DEF Bytes

\* One turn of the packing moves bytes from the queue's front to the frame's
\* end, and fills the frame, or takes a string off the queue.
LEMMA FillKeeps ==
    ASSUME NEW n \in Nat, NEW f \in Bytes, NEW q \in Seq(Clip), Len(f) <= n
    PROVE  \E f1 \in Bytes, q1 \in Seq(Clip) :
              /\ Fill([frame |-> f, queue |-> q], n) = [frame |-> f1, queue |-> q1]
              /\ Len(f1) <= n
              /\ f1 \o FlattenSeq(q1) = f \o FlattenSeq(q)
              /\ Len(f1) = n \/ q1 = << >> \/ Len(q1) < Len(q)
<1> DEFINE s == [frame |-> f, queue |-> q]
<1>1. CASE q = << >> \/ Len(f) >= n
  <2>1. Fill(s, n) = s
    BY <1>1 DEF Fill
  <2>2. Len(f) = n \/ q = << >>
    BY <1>1 DEF Bytes, Strings
  <2> QED
    BY <2>1, <2>2
<1>2. CASE q # << >> /\ Len(f) < n
  <2> DEFINE d == Head(q)
             t == Tail(q)
             room == n - Len(f)
             bytes == IF Len(d) > room THEN room ELSE Len(d)
             a == SubSeq(d, 1, bytes)
             b == SubSeq(d, bytes + 1, Len(d))
             rest == IF bytes = Len(d) THEN t ELSE <<b>> \o t
  <2>1. d \in Clip /\ t \in Seq(Clip) /\ Len(t) < Len(q) /\ Len(t) \in Nat
    BY <1>2
  <2>2. Fill(s, n) = [frame |-> f \o a, queue |-> rest]
    BY <1>2 DEF Fill
  <2>3. \A x, y \in Bytes : x \o y \in Bytes /\ Len(x \o y) = Len(x) + Len(y)
    BY DEF Bytes, Strings
  <2>4. \A x, y, z \in Bytes : (x \o y) \o z = x \o (y \o z)
    <3> TAKE x, y, z \in Bytes
    <3>1. x \in Seq(Nat) /\ y \in Seq(Nat) /\ z \in Seq(Nat)
      BY DEF Bytes, Strings
    <3> QED
      BY <3>1, ConcatAssociative
  <2>5. Seq(Clip) \subseteq Seq(Bytes) /\ Clip \subseteq Bytes
    BY DEF Clip
  <2>6. FlattenSeq(t) \in Bytes /\ FlattenSeq(q) = d \o FlattenSeq(t)
    BY <1>2, <2>1, <2>5, BytesFlatten
  <2>7. d \in Bytes /\ Len(d) \in Nat /\ Len(f) \in Nat /\ bytes \in 0 .. Len(d) /\ room \in Nat
        /\ bytes <= room
    <3>1. d \in Bytes /\ Len(d) \in Nat /\ Len(f) \in Nat
      BY <2>1 DEF Clip, Bytes, Strings
    <3> HIDE DEF d
    <3> QED
      BY <1>2, <3>1
  <2>8. a \in Bytes /\ b \in Bytes /\ Len(a) = bytes /\ Len(b) = Len(d) - bytes /\ a \o b = d
    <3> HIDE DEF d, bytes
    <3> QED
      BY <2>7, BytesCut
  <2> HIDE DEF d, t, a, b
  <2>9. f \o a \in Bytes /\ Len(f \o a) = Len(f) + bytes
    BY <2>3, <2>8
  <2>10. CASE bytes = Len(d)
    <3>1. a = d
      <4>1. b = << >>
        BY <2>7, <2>8, <2>10 DEF Bytes, Strings
      <4>2. a \o << >> = a
        BY <2>8 DEF Bytes, Strings
      <4> QED
        BY <2>8, <4>1, <4>2
    <3>2. (f \o a) \o FlattenSeq(t) = f \o FlattenSeq(q)
      BY <2>4, <2>6, <2>8, <3>1
    <3>3. Len(f \o a) <= n
      BY <2>7, <2>9
    <3>4. Fill(s, n) = [frame |-> f \o a, queue |-> t]
      BY <2>2, <2>10
    <3> QED
      BY <2>1, <2>9, <3>2, <3>3, <3>4
  <2>11. CASE bytes # Len(d)
    <3>1. bytes = room /\ Len(f \o a) = n
      BY <2>7, <2>9, <2>11
    <3>2. b \in Clip
      <4>1. Len(b) # 0
        BY <2>7, <2>8, <2>11
      <4>2. Len(<< >>) = 0
        OBVIOUS
      <4> QED
        BY <2>8, <4>1, <4>2 DEF Clip
    <3>3. <<b>> \o t \in Seq(Clip) /\ <<b>> \o t # << >>
          /\ Head(<<b>> \o t) = b /\ Tail(<<b>> \o t) = t
      BY <2>1, <3>2, HeadTailOfCons
    <3>4. FlattenSeq(<<b>> \o t) = b \o FlattenSeq(t)
      BY <2>5, <3>3, BytesFlatten
    <3>5. (f \o a) \o (b \o FlattenSeq(t)) = f \o FlattenSeq(q)
      <4>1. b \o FlattenSeq(t) \in Bytes /\ a \o (b \o FlattenSeq(t)) = d \o FlattenSeq(t)
        <5>1. b \o FlattenSeq(t) \in Bytes
          BY <2>3, <2>6, <2>8
        <5>2. (a \o b) \o FlattenSeq(t) = a \o (b \o FlattenSeq(t))
          BY <2>4, <2>6, <2>8
        <5> QED
          BY <2>8, <5>1, <5>2
      <4>2. (f \o a) \o (b \o FlattenSeq(t)) = f \o (a \o (b \o FlattenSeq(t)))
        BY <2>4, <2>8, <4>1
      <4> QED
        BY <2>4, <2>6, <2>7, <4>1, <4>2, Zenon
    <3>6. Fill(s, n) = [frame |-> f \o a, queue |-> <<b>> \o t]
      BY <2>2, <2>11
    <3>7. Len(f \o a) <= n
      BY <3>1
    <3> QED
      BY <2>9, <3>1, <3>3, <3>4, <3>5, <3>6, <3>7
  <2> QED
    BY <2>10, <2>11
<1>3. Len(f) >= n \/ Len(f) < n
  BY DEF Bytes, Strings
<1> QED
  BY <1>1, <1>2, <1>3

\* What the packing has done after i turns: nothing lost, nothing moved, and
\* the frame full, the queue empty, or i strings taken.
Packed(s, queue, i, n) ==
    /\ s \in [frame : Bytes, queue : Seq(Clip)]
    /\ Len(s.frame) <= n
    /\ s.frame \o FlattenSeq(s.queue) = FlattenSeq(queue)
    /\ Len(s.frame) = n \/ s.queue = << >> \/ Len(s.queue) + i <= Len(queue)

LEMMA FillPacks ==
    ASSUME NEW n \in Nat, NEW queue, NEW N \in Nat, N = Len(queue),
           NEW i \in 1 .. N, NEW s, Packed(s, queue, i - 1, n)
    PROVE  Packed(Fill(s, n), queue, i, n)
<1> DEFINE f == s.frame
           q == s.queue
<1>1. f \in Bytes /\ q \in Seq(Clip) /\ s = [frame |-> f, queue |-> q] /\ Len(f) <= n
  BY DEF Packed
<1>2. PICK f1 \in Bytes, q1 \in Seq(Clip) :
         /\ Fill([frame |-> f, queue |-> q], n) = [frame |-> f1, queue |-> q1]
         /\ Len(f1) <= n
         /\ f1 \o FlattenSeq(q1) = f \o FlattenSeq(q)
         /\ Len(f1) = n \/ q1 = << >> \/ Len(q1) < Len(q)
  <2> HIDE DEF f, q
  <2> QED
    BY <1>1, FillKeeps
<1>3. Fill(s, n) = [frame |-> f1, queue |-> q1]
  BY <1>1, <1>2
<1>4. Len(f1) \in Nat /\ Len(q1) \in Nat /\ Len(f) \in Nat /\ Len(q) \in Nat
  BY <1>1 DEF Bytes, Strings
<1>5. f1 \o FlattenSeq(q1) = FlattenSeq(queue)
  BY <1>2 DEF Packed
<1>6. Len(f1) = n \/ q1 = << >> \/ Len(q1) + i <= N
  <2>1. CASE Len(f) = n
    <3>1. n - Len(f) = 0 /\ Len(f) >= n
      BY <1>4, <2>1
    <3>2. Fill(s, n) = s
      BY <3>1 DEF Fill
    <3> QED
      BY <1>3, <2>1, <3>2
  <2>2. CASE q = << >>
    <3>1. Fill(s, n) = s
      BY <2>2 DEF Fill
    <3> QED
      BY <1>3, <2>2, <3>1
  <2>3. CASE Len(q) + (i - 1) <= N
    BY <1>2, <1>4, <2>3
  <2> QED
    BY <2>1, <2>2, <2>3 DEF Packed
<1> QED
  BY <1>2, <1>3, <1>5, <1>6 DEF Packed

\* The whole loop, before the frame is filled up.
LEMMA PackFills ==
    ASSUME NEW n \in Nat, NEW queue \in Seq(Clip)
    PROVE  \E s : /\ Packed(s, queue, Len(queue), n)
                  /\ Pack(queue, n) =
                       [s EXCEPT !.frame = @ \o [i \in 1 .. (n - Len(@)) |-> Silence]]
<1> DEFINE N == Len(queue)
           State == {s \in [frame : Bytes, queue : Seq(Clip)] : Len(s.frame) <= n}
           start == [frame |-> << >>, queue |-> queue]
           turn == [a \in State \X (1 .. N) |-> Fill(a[1], n)]
           Loop(f) == f = [i \in 0 .. N |-> IF i = 0 THEN start ELSE Fill(f[i - 1], n)]
           fill == CHOOSE f : Loop(f)
           Done == {i \in 0 .. N : Packed(fill[i], queue, i, n)}
<1>1. N \in Nat /\ N = Len(queue)
  OBVIOUS
<1>2. Packed(start, queue, 0, n) /\ start \in State
  <2>1. FlattenSeq(queue) \in Seq(Nat)
    <3>1. queue \in Seq(Bytes)
      BY DEF Clip
    <3> QED
      BY <3>1, BytesFlatten DEF Bytes, Strings
  <2>2. << >> \o FlattenSeq(queue) = FlattenSeq(queue) /\ Len(<< >>) = 0 /\ << >> \in Seq(Nat)
    BY <2>1
  <2> QED
    BY <1>1, <2>2 DEF Packed, Bytes, Strings
<1>3. ASSUME NEW s \in State
      PROVE  Fill(s, n) \in State
  <2>1. s = [frame |-> s.frame, queue |-> s.queue] /\ s.frame \in Bytes /\ s.queue \in Seq(Clip)
        /\ Len(s.frame) <= n
    OBVIOUS
  <2>2. PICK f1 \in Bytes, q1 \in Seq(Clip) :
           /\ Fill([frame |-> s.frame, queue |-> s.queue], n) = [frame |-> f1, queue |-> q1]
           /\ Len(f1) <= n
    BY <2>1, FillKeeps
  <2> QED
    BY <2>1, <2>2
<1>4. ASSUME NEW i \in 1 .. N, NEW s, Packed(s, queue, i - 1, n)
      PROVE  Packed(Fill(s, n), queue, i, n)
  <2> HIDE DEF N
  <2> QED
    BY <1>1, <1>4, FillPacks
<1>5. Pack(queue, n) = [fill[N] EXCEPT !.frame = @ \o [i \in 1 .. (n - Len(@)) |-> Silence]]
  BY DEF Pack
<1> HIDE DEF N, State, start
<1>6. turn \in [State \X (1 .. N) -> State]
  BY <1>3
<1>7. PICK f \in [0 .. N -> State] : Turns(f, N, start, turn)
  <2> HIDE DEF turn
  <2> QED
    BY <1>1, <1>2, <1>6, TurnsExist
<1>8. \A i \in 1 .. N : turn[<<f[i - 1], i>>] = Fill(f[i - 1], n)
  <2> SUFFICES ASSUME NEW i \in 1 .. N
               PROVE  turn[<<f[i - 1], i>>] = Fill(f[i - 1], n)
    OBVIOUS
  <2>1. <<f[i - 1], i>> \in State \X (1 .. N)
    BY <1>1
  <2> QED
    BY <2>1
<1>9. Loop(fill)
  <2> HIDE DEF turn
  <2>1. Loop(f)
    BY <1>7, <1>8 DEF Turns
  <2> QED
    BY <2>1
<1> HIDE DEF fill
<1>10. fill[0] = start /\ \A i \in 1 .. N : fill[i] = Fill(fill[i - 1], n)
  BY <1>1, <1>9
<1>11. 0 \in Done
  BY <1>1, <1>2, <1>10
<1>12. ASSUME NEW i \in 1 .. N, i - 1 \in Done
       PROVE  i \in Done
  BY <1>1, <1>4, <1>10, <1>12
<1>13. N \in Done
  <2> HIDE DEF Done
  <2>1. N \in Nat
    BY <1>1
  <2>2. \A i \in 0 .. N : i \in Done
    BY <1>11, <1>12, <2>1, EveryTurn
  <2> QED
    BY <2>1, <2>2
<1> QED
  BY <1>5, <1>13 DEF N

\* What one tick does with the queue.
LEMMA PackCarriesAll ==
    ASSUME NEW n \in Nat, NEW queue \in Seq(Clip)
    PROVE  LET frame == Pack(queue, n).frame
               rest == Pack(queue, n).queue
               left == FlattenSeq(rest)
           IN  /\ rest \in Seq(Clip)
               /\ Len(frame) = n
               /\ left # << >> => frame \o left = FlattenSeq(queue)
               /\ left = << >> => /\ IsPrefix(FlattenSeq(queue), frame)
                                  /\ \A i \in DOMAIN frame :
                                       i > Len(FlattenSeq(queue)) => frame[i] = Silence
<1>1. PICK s : /\ Packed(s, queue, Len(queue), n)
               /\ Pack(queue, n) =
                    [s EXCEPT !.frame = @ \o [i \in 1 .. (n - Len(@)) |-> Silence]]
  BY PackFills
<1> DEFINE f == s.frame
           q == s.queue
           pad == [i \in 1 .. (n - Len(f)) |-> Silence]
           left == FlattenSeq(q)
           all == FlattenSeq(queue)
<1>2. /\ f \in Bytes /\ q \in Seq(Clip) /\ Len(f) <= n /\ f \o left = all
      /\ Len(f) = n \/ q = << >> \/ Len(q) + Len(queue) <= Len(queue)
      /\ s = [frame |-> f, queue |-> q]
  BY <1>1 DEF Packed
<1>3. Pack(queue, n).frame = f \o pad /\ Pack(queue, n).queue = q
  BY <1>1, <1>2
<1>4. f \in Seq(Nat) /\ Len(f) \in Nat /\ left \in Seq(Nat)
  <2>1. q \in Seq(Bytes)
    BY <1>2 DEF Clip
  <2> HIDE DEF f, q
  <2> QED
    BY <1>2, <2>1, BytesFlatten DEF Bytes, Strings
<1>5. /\ pad \in Seq(Nat) /\ Len(pad) = n - Len(f)
      /\ \A i \in 1 .. (n - Len(f)) : pad[i] = Silence
  <2>1. n - Len(f) \in Nat /\ Silence \in Nat
    BY <1>2, <1>4 DEF Silence
  <2> HIDE DEF f
  <2> QED
    BY <2>1
<1>6. Len(f) = n \/ q = << >>
  <2>1. Len(q) \in Nat /\ Len(queue) \in Nat /\ (Len(q) = 0 => q = << >>)
    BY <1>2
  <2> QED
    BY <1>2, <2>1
<1> HIDE DEF f, q, pad, left, all
<1>7. /\ f \o pad \in Seq(Nat) /\ Len(f \o pad) = n
      /\ \A i \in 1 .. Len(f) : (f \o pad)[i] = f[i]
      /\ \A i \in 1 .. n : i > Len(f) => (f \o pad)[i] = Silence
  <2>1. f \o pad \in Seq(Nat) /\ Len(f \o pad) = n
    BY <1>4, <1>5
  <2>2. \A i \in 1 .. Len(f) : (f \o pad)[i] = f[i]
    BY <1>2, <1>4, <1>5
  <2>3. ASSUME NEW i \in 1 .. n, i > Len(f)
        PROVE  (f \o pad)[i] = Silence
    <3>1. i - Len(f) \in 1 .. (n - Len(f)) /\ i \in 1 .. (Len(f) + Len(pad))
      BY <1>4, <1>5, <2>3
    <3>2. (f \o pad)[i] = pad[i - Len(f)]
      BY <1>4, <1>5, <2>3, <3>1
    <3> QED
      BY <1>5, <3>1, <3>2
  <2> QED
    BY <2>1, <2>2, <2>3
<1>8. ASSUME left # << >>
      PROVE  (f \o pad) \o left = all
  <2>1. q # << >>
    BY <1>8, FlattenEmpty DEF left
  <2>2. Len(pad) = 0
    BY <1>5, <1>6, <2>1
  <2>3. f \o pad = f
    BY <1>4, <1>5, <2>2
  <2> QED
    BY <1>2, <2>3
<1>9. ASSUME left = << >>
      PROVE  /\ IsPrefix(all, f \o pad)
             /\ \A i \in DOMAIN (f \o pad) : i > Len(all) => (f \o pad)[i] = Silence
  <2>1. all = f
    BY <1>2, <1>4, <1>9
  <2>2. SubSeq(f, 1, Len(f)) = SubSeq(f \o pad, 1, Len(f))
    <3>1. SubSeq(f, 1, Len(f)) = f
      BY <1>4, SubSeqFull
    <3> DEFINE p == f \o pad
    <3> HIDE DEF p
    <3>2. p \in Seq(Nat) /\ Len(p) = n /\ \A i \in 1 .. Len(f) : p[i] = f[i]
      BY <1>7 DEF p
    <3>3. SubSeq(p, 1, Len(f)) = f
      BY <1>2, <1>4, <3>2
    <3> QED
      BY <3>1, <3>3 DEF p
  <2>3. DOMAIN (f \o pad) = 1 .. n
    BY <1>7
  <2> QED
    BY <1>2, <1>7, <2>1, <2>2, <2>3 DEF IsPrefix
<1> QED
  BY <1>2, <1>3, <1>7, <1>8, <1>9 DEF left, all

-----------------------------------------------------------------------------
(* The packing as a step of the service: the queue holds clips with bytes  *)
(* left, and a call in progress has a connection.                          *)

CallInv ==
    /\ outgoing \in Seq(Clip)
    /\ inCall \in BOOLEAN /\ sendTimer \in BOOLEAN /\ flaky \in BOOLEAN
    /\ inCall => link.exists

\* No command, timer or callback makes a connection come or go.
LEMMA SameExists ==
    ASSUME NEW l \in Link, NEW ok \in BOOLEAN
    PROVE  /\ OnReconnect(l, ok).exists = l.exists
           /\ OnListenState(l, ok).exists = l.exists
<1>1. ASSUME NEW m \in Link, NEW c
      PROVE  SendCommand(m, c).exists = m.exists
  BY DEF SendCommand, Link
<1>2. ASSUME NEW m \in Link
      PROVE  OnReconnect(m, ok).exists = m.exists
  <2>1. StartReconnectTimer(m).exists = m.exists /\ Close(m).exists = m.exists
    BY DEF StartReconnectTimer, Close, Link
  <2>2. Retry(m, ok).exists = m.exists
    <3> DEFINE r == [m EXCEPT !.reconnect = "none"]
    <3>1. r \in Link /\ r.exists = m.exists
      BY DEF Link
    <3>2. Redial(r) \in Link /\ Redial(r).exists = r.exists /\ StartReconnectTimer(r).exists = r.exists
      BY <3>1 DEF Redial, StartReconnectTimer, Link
    <3>3. SendCommand(Redial(r), "handshake").exists = m.exists
      BY <1>1, <3>1, <3>2
    <3> QED
      BY <3>1, <3>2, <3>3 DEF Retry
  <2> QED
    BY <2>1, <2>2 DEF OnReconnect
<1>3. OnListenState(l, ok).exists = l.exists
  <2> DEFINE d == [l EXCEPT !.connected = FALSE]
  <2>1. d \in Link /\ d.exists = l.exists /\ [l EXCEPT !.connected = TRUE].exists = l.exists
    BY DEF Link
  <2>2. OnReconnect(d, ok).exists = l.exists
    BY <1>2, <2>1
  <2> QED
    BY <2>1, <2>2 DEF OnListenState
<1> QED
  BY <1>2, <1>3

LEMMA InitCall == Init => CallInv
<1>1. << >> \in Seq(Clip)
  OBVIOUS
<1> QED
  BY <1>1 DEF Init, CallInv

LEMMA NextCall ==
    ASSUME IInv, CallInv, [Next]_vars
    PROVE  CallInv'
<1> USE DEF CallInv
<1>1. link \in Link
  BY DEF IInv, Good, Sound
<1>2. CASE Connect
  <2>1. PICK l \in Link : l.exists /\ (\/ link' = SendCommand(Redial(l), "handshake")
                                     \/ \E again \in BOOLEAN : link' = OnReconnect(l, again))
    <3> DEFINE l == [link EXCEPT !.exists = TRUE, !.gen = link.gen + 1,
                                 !.sock = "CLOSED", !.srv = "new"]
    <3>1. link.gen + 1 \in Nat
      BY <1>1 DEF Link
    <3>2. l \in Link
      BY <1>1, <3>1 DEF Link
    <3>3. l.exists
      BY <1>1 DEF Link
    <3> QED
      BY <1>2, <3>2, <3>3 DEF Connect
  <2>2. link'.exists
    BY <2>1, SameExists, DialGood
  <2> QED
    BY <1>2, <2>2 DEF Connect, call
<1>3. CASE Dial \/ Text \/ Answer \/ HangUp
  <2>1. link'.exists = link.exists
    BY <1>1, <1>3 DEF Dial, Text, Answer, HangUp, SendCommand, Link
  <2> QED
    BY <1>3, <2>1 DEF Dial, Text, Answer, HangUp, call
<1>4. CASE Disconnect
  BY <1>4 DEF Disconnect
<1>5. ASSUME NEW clip \in Clips, SendAudioIn(clip)
      PROVE  CallInv'
  <2>1. clip \in Clip
    BY SizesAssumption DEF Clip, Bytes, Strings
  <2> QED
    BY <1>5, <2>1 DEF SendAudioIn
<1>6. CASE OnSendAudioData
  <2>1. Pack(outgoing, SendBytes).queue \in Seq(Clip)
    BY SizesAssumption, PackCarriesAll
  <2> QED
    BY <1>6, <2>1 DEF OnSendAudioData
<1>7. CASE ReconnectTimerFires
  <2>1. [link EXCEPT !.reconnect = "expired"] \in Link
        /\ [link EXCEPT !.reconnect = "expired"].exists = link.exists
    BY <1>1 DEF Link
  <2>2. PICK ok \in BOOLEAN : link' = OnReconnect([link EXCEPT !.reconnect = "expired"], ok)
    BY <1>7 DEF ReconnectTimerFires, Answers
  <2>3. link'.exists = link.exists
    BY <2>1, <2>2, SameExists
  <2> QED
    BY <1>7, <2>3 DEF ReconnectTimerFires, call
<1>8. CASE Deliver
  <2> DEFINE l == [link EXCEPT !.inbox = Tail(@), !.ahead = IF @ > 0 THEN @ - 1 ELSE 0]
  <2>1. l \in Link /\ l.exists = link.exists
    <3>1. link.ahead \in Nat /\ link.inbox # << >>
      BY <1>1, <1>8 DEF Link, Deliver
    <3>2. l = [link EXCEPT !.inbox = Tail(link.inbox),
                           !.ahead = IF link.ahead > 0 THEN link.ahead - 1 ELSE 0]
      BY <1>1 DEF Link
    <3>3. (IF link.ahead > 0 THEN link.ahead - 1 ELSE 0) \in Nat
      BY <3>1
    <3> QED
      BY <3>1, <3>2, <3>3, TakeGood DEF IInv, Sound
  <2>2. link' = l \/ \E ok \in BOOLEAN : link' = OnListenState(l, ok)
    BY <1>8 DEF Deliver, Answers
  <2> HIDE DEF l
  <2>3. link'.exists = link.exists
    BY <2>1, <2>2, SameExists
  <2> QED
    BY <1>8, <2>3 DEF Deliver
<1>9. CASE NetOpen \/ NetClosed \/ NetDrop \/ ServerHangUp \/ ServerOther
  <2>1. link'.exists = link.exists
    BY <1>1, <1>9 DEF NetOpen, NetClosed, NetDrop, ServerHangUp, ServerOther, NetStep, Post, Link
  <2> QED
    BY <1>9, <2>1 DEF NetOpen, NetClosed, NetDrop, ServerHangUp, ServerOther, NetStep, call
<1>10. CASE Weather
  BY <1>10, Zenon DEF Weather, call
<1>11. CASE UNCHANGED vars
  BY <1>11 DEF vars, call
<1> QED
  BY <1>2, <1>3, <1>4, <1>5, <1>6, <1>7, <1>8, <1>9, <1>10, <1>11 DEF Next

LEMMA CallInvariance == Spec => [](IInv /\ CallInv)
<1>1. IInv /\ CallInv /\ [Next]_vars => (IInv /\ CallInv)'
  BY NextKept, NextCall DEF Kept, IInv, Good, Sound, Pending
<1> QED
  BY InitGood, InitCall, <1>1, PTL DEF Spec

\* Every variable keeps its type, for all clips and bounds.
THEOREM TelephonyTyped == Spec => []TelephonyTypeOK
<1>1. IInv /\ CallInv => TelephonyTypeOK
  BY DEF IInv, Good, Sound, CallInv, TelephonyTypeOK, Clip, Bytes, Strings
<1> QED
  BY <1>1, CallInvariance, PTL

\* No byte of a call's audio is lost, doubled or moved, for clips and frames
\* of any length.
THEOREM FramesCarry == Spec => FramesCarryAll
<1>1. CallInv /\ [Next]_vars =>
        [OnSendAudioData /\ inCall =>
           LET frame == Pack(outgoing, SendBytes).frame
               left == FlattenSeq(outgoing')
           IN  /\ Len(frame) = SendBytes
               /\ left # << >> => frame \o left = FlattenSeq(outgoing)
               /\ left = << >> => /\ IsPrefix(FlattenSeq(outgoing), frame)
                                  /\ \A i \in DOMAIN frame :
                                       i > Len(FlattenSeq(outgoing)) => frame[i] = Silence]_vars
  <2> SUFFICES ASSUME CallInv, OnSendAudioData, inCall
               PROVE  LET frame == Pack(outgoing, SendBytes).frame
                          left == FlattenSeq(outgoing')
                      IN  /\ Len(frame) = SendBytes
                          /\ left # << >> => frame \o left = FlattenSeq(outgoing)
                          /\ left = << >> => /\ IsPrefix(FlattenSeq(outgoing), frame)
                                             /\ \A i \in DOMAIN frame :
                                                  i > Len(FlattenSeq(outgoing)) => frame[i] = Silence
    OBVIOUS
  <2>1. outgoing' = Pack(outgoing, SendBytes).queue
    BY DEF OnSendAudioData, CallInv
  <2>2. outgoing \in Seq(Clip) /\ SendBytes \in Nat
    BY SizesAssumption DEF CallInv
  <2> QED
    BY <2>1, <2>2, PackCarriesAll
<1> QED
  BY <1>1, CallInvariance, PTL DEF Spec, FramesCarryAll
=============================================================================
