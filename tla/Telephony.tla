------------------------------ MODULE Telephony ------------------------------
(***************************************************************************)
(* The Telephony service: one web socket to the telephone gateway, kept    *)
(* open by OnReconnect, with a handshake at the start of every session,    *)
(* and a timer that sends the queued audio of the current call frame by    *)
(* frame.  All handlers run on the main thread, one at a time.  The web    *)
(* client and the gateway are external, modelled as in SpeechToText: the   *)
(* socket's state may be ahead of its notification, callbacks reach the    *)
(* main thread in FIFO order, and frames sent while connecting are kept.   *)
(* A reconnect timer that fires leaves m_spReconnectTimer set, which the   *)
(* code tells apart from an empty one: it is then "expired".               *)
(***************************************************************************)
EXTENDS TelephonyFrames

CONSTANTS
    Clips,         \* the strings given to SendAudioIn, each its bytes
    SendBytes,     \* m_nSendBytes, the size of a frame
    MaxConnects,   \* bound: sockets created by Connect
    MaxClips,      \* bound: strings queued in m_Outgoing
    MaxInbox       \* bound: callbacks not yet run

ASSUME SizesAssumption == Clips \subseteq Seq(Nat) \ {<< >>} /\ SendBytes \in Nat \ {0}
ASSUME BoundsAssumption ==
    MaxConnects \in Nat /\ MaxClips \in Nat /\ MaxInbox \in Nat

VARIABLES
    link,          \* m_spConnection, its socket and its reconnect timer
    inCall,        \* m_bInCall
    sendTimer,     \* m_spSendTimer is running
    outgoing,      \* m_Outgoing
    flaky          \* whether the network may misbehave now

call == <<inCall, sendTimer, outgoing>>
vars == <<link, inCall, sendTimer, outgoing, flaky>>

(***************************************************************************)
(* "srv" is the gateway's view of the session; "gen" numbers the sockets   *)
(* created, so that a callback remembers which one it came from; "ahead"   *)
(* counts the callbacks posted before the reconnect timer was started,     *)
(* which the main thread runs before it.                                   *)
(***************************************************************************)
Link ==
    [exists : BOOLEAN, sock : {"CLOSED", "CONNECTING", "CONNECTED", "CLOSING"},
     srv : {"new", "ready", "inCall", "protocolError"}, gen : Nat,
     connected : BOOLEAN, reconnect : {"none", "pending", "expired"},
     ahead : Nat, inbox : Seq([gen : Nat, kind : {"state", "hang_up", "other"}])]

Init ==
    /\ link = [exists |-> FALSE, sock |-> "CLOSED", srv |-> "new", gen |-> 0,
               connected |-> FALSE, reconnect |-> "none", ahead |-> 0,
               inbox |-> << >>]
    /\ inCall = FALSE
    /\ sendTimer = FALSE
    /\ outgoing = << >>
    /\ flaky \in BOOLEAN

-----------------------------------------------------------------------------
(* External: the web client and the gateway's session protocol.            *)

Live(l) == l.sock \in {"CONNECTING", "CONNECTED"}

Answers == IF flaky THEN BOOLEAN ELSE {TRUE}

Redial(l) == [l EXCEPT !.sock = "CONNECTING", !.srv = "new"]

Close(l) == IF Live(l) THEN [l EXCEPT !.sock = "CLOSING"] ELSE l

\* A session starts with one handshake; every other command follows it.
AfterCommand(srv, command) ==
    IF (command = "handshake") # (srv = "new") \/ srv = "protocolError"
    THEN "protocolError"
    ELSE CASE command \in {"handshake", "hang_up"}        -> "ready"
           [] command = "answer"                          -> "inCall"
           [] command \in {"dial", "sms_outgoing"}        -> srv

SendCommand(l, command) ==
    IF Live(l) THEN [l EXCEPT !.srv = AfterCommand(l.srv, command)] ELSE l

-----------------------------------------------------------------------------
(* The connection and its timer, as functions of the link.                 *)

StartReconnectTimer(l) ==
    [l EXCEPT !.reconnect = "pending", !.ahead = Len(l.inbox), !.connected = FALSE]

\* Mutants: the handshake is sent by Connect only; a refused retry is not
\* tried again.
Retry_NoHandshake(l, ok) ==
    LET r == [l EXCEPT !.reconnect = "none"]
    IN  IF ok THEN Redial(r) ELSE StartReconnectTimer(r)
Retry_Once(l, ok) ==
    LET r == [l EXCEPT !.reconnect = "none"]
    IN  IF ok THEN SendCommand(Redial(r), "handshake") ELSE r

\* The second branch of OnReconnect.
Retry(l, ok) ==
    LET r == [l EXCEPT !.reconnect = "none"]
    IN  IF ok THEN SendCommand(Redial(r), "handshake") ELSE StartReconnectTimer(r)

OnReconnect(l, ok) ==
    CASE ~l.exists              -> l
      [] l.exists /\ l.reconnect = "none" -> StartReconnectTimer(l)
      [] l.exists /\ l.reconnect # "none" /\ l.sock = "CLOSED" -> Retry(l, ok)
      [] OTHER                  -> Close(l)

\* Mutant: a closed socket is ignored while a timer is set.
OnListenState_TrustsTimer(l, ok) ==
    CASE l.sock = "CLOSED" /\ l.reconnect = "none" -> StartReconnectTimer(l)
      [] l.sock = "CLOSED" /\ l.reconnect # "none" -> [l EXCEPT !.connected = FALSE]
      [] l.sock = "CONNECTED" -> [l EXCEPT !.connected = TRUE]
      [] OTHER -> l

OnListenState(l, ok) ==
    CASE l.sock = "CLOSED"    -> OnReconnect([l EXCEPT !.connected = FALSE], ok)
      [] l.sock = "CONNECTED" -> [l EXCEPT !.connected = TRUE]
      [] OTHER -> l

-----------------------------------------------------------------------------
(* Calls of the service's users; each returns at once without a connection.*)

\* Connect: a new socket, and if its first Send fails, OnReconnect at once
\* (which dials again when an old timer is still set).
Connect ==
    /\ ~link.exists
    /\ link.gen < MaxConnects
    /\ LET new == [link EXCEPT !.exists = TRUE, !.gen = link.gen + 1,
                               !.sock = "CLOSED", !.srv = "new"]
       IN  \/ link' = SendCommand(Redial(new), "handshake")
           \/ /\ flaky
              /\ \E again \in BOOLEAN : link' = OnReconnect(new, again)
    /\ UNCHANGED <<call, flaky>>

Dial ==
    /\ link.exists
    /\ link' = SendCommand(link, "dial")
    /\ UNCHANGED <<call, flaky>>

Text ==
    /\ link.exists
    /\ link' = SendCommand(link, "sms_outgoing")
    /\ UNCHANGED <<call, flaky>>

Answer ==
    /\ link.exists
    /\ link' = SendCommand(link, "answer")
    /\ inCall' = TRUE
    /\ sendTimer' = TRUE
    /\ UNCHANGED <<outgoing, flaky>>

HangUp ==
    /\ link.exists
    /\ link' = SendCommand(link, "hang_up")
    /\ inCall' = FALSE
    /\ UNCHANGED <<sendTimer, outgoing, flaky>>

\* Disconnect leaves the reconnect timer and the queued audio as they are.
Disconnect ==
    /\ link.exists
    /\ link' = [link EXCEPT !.exists = FALSE, !.sock = "CLOSED", !.connected = FALSE]
    /\ inCall' = FALSE
    /\ UNCHANGED <<sendTimer, outgoing, flaky>>

SendAudioIn(clip) ==
    /\ link.exists /\ inCall
    /\ Len(outgoing) < MaxClips
    /\ outgoing' = Append(outgoing, clip)
    /\ UNCHANGED <<link, inCall, sendTimer, flaky>>

-----------------------------------------------------------------------------
(* Timers and callbacks on the main thread.                                *)

\* One tick of the send timer: a frame during a call, the timer's own end
\* otherwise.
OnSendAudioData ==
    /\ sendTimer
    /\ IF link.exists /\ inCall
       THEN outgoing' = Pack(outgoing, SendBytes).queue /\ UNCHANGED sendTimer
       ELSE sendTimer' = FALSE /\ UNCHANGED outgoing
    /\ UNCHANGED <<link, inCall, flaky>>

\* OnReconnect called by its timer.
ReconnectTimerFires ==
    /\ link.reconnect = "pending" /\ link.ahead = 0
    /\ \E ok \in Answers : link' = OnReconnect([link EXCEPT !.reconnect = "expired"], ok)
    /\ UNCHANGED <<call, flaky>>

\* Notifications are checked against the current socket, frames are not.
Deliver ==
    /\ link.inbox # << >>
    /\ LET cb == Head(link.inbox)
           l == [link EXCEPT !.inbox = Tail(@), !.ahead = IF @ > 0 THEN @ - 1 ELSE 0]
       IN  /\ IF cb.kind = "state" /\ link.exists /\ cb.gen = link.gen
              THEN \E ok \in Answers : link' = OnListenState(l, ok)
              ELSE link' = l
           /\ inCall' = (inCall /\ cb.kind # "hang_up")
    /\ UNCHANGED <<sendTimer, outgoing, flaky>>

-----------------------------------------------------------------------------
(* External: the network thread and the gateway.                           *)

Post(l, kind) == [l EXCEPT !.inbox = Append(@, [gen |-> l.gen, kind |-> kind])]

NetStep(l, kind) ==
    /\ link.exists
    /\ Len(link.inbox) < MaxInbox
    /\ link' = Post(l, kind)
    /\ UNCHANGED <<call, flaky>>

NetOpen ==
    /\ link.sock = "CONNECTING"
    /\ NetStep([link EXCEPT !.sock = "CONNECTED"], "state")

NetClosed ==
    /\ link.sock = "CLOSING"
    /\ NetStep([link EXCEPT !.sock = "CLOSED"], "state")

NetDrop ==
    /\ flaky
    /\ Live(link)
    /\ NetStep([link EXCEPT !.sock = "CLOSED"], "state")

\* The other side hangs up.
ServerHangUp ==
    /\ link.sock = "CONNECTED" /\ link.srv = "inCall"
    /\ NetStep([link EXCEPT !.srv = "ready"], "hang_up")

\* Any other command ("ack", an incoming call) and audio.
ServerOther ==
    /\ link.sock = "CONNECTED" /\ link.srv \in {"ready", "inCall"}
    /\ NetStep(link, "other")

Weather ==
    /\ flaky' = ~flaky
    /\ UNCHANGED <<link, call>>

-----------------------------------------------------------------------------
Next ==
    \/ Connect \/ Dial \/ Text \/ Answer \/ HangUp \/ Disconnect
    \/ \E clip \in Clips : SendAudioIn(clip)
    \/ OnSendAudioData \/ ReconnectTimerFires \/ Deliver
    \/ NetOpen \/ NetClosed \/ NetDrop \/ ServerHangUp \/ ServerOther \/ Weather

\* The main thread runs what is posted to it, timers fire, the network answers.
Fairness ==
    /\ WF_vars(Deliver) /\ WF_vars(OnSendAudioData) /\ WF_vars(ReconnectTimerFires)
    /\ WF_vars(NetOpen) /\ WF_vars(NetClosed)

Spec == Init /\ [][Next]_vars
FairSpec == Spec /\ Fairness

-----------------------------------------------------------------------------
\* The types; a string in the queue always has bytes left to send.
TelephonyTypeOK ==
    /\ link \in Link
    /\ inCall \in BOOLEAN
    /\ sendTimer \in BOOLEAN
    /\ outgoing \in Seq(Seq(Nat) \ {<< >>})
    /\ flaky \in BOOLEAN

StatePending ==
    \E i \in DOMAIN link.inbox : link.inbox[i] = [gen |-> link.gen, kind |-> "state"]

\* A connection whose socket is down has a pending reconnect timer, or a
\* notification under way that will start one or dial at once: whatever the
\* order of drops, refused sends, Disconnect, Connect and an old timer, the
\* robot never stays unreachable (OnReconnect, OnListenState).
StaysReachable ==
    link.exists /\ link.sock = "CLOSED" => link.reconnect = "pending" \/ StatePending

\* What the users see of the link; "dead" is no state of ReconnectingLink.
LinkState ==
    CASE ~link.exists                                -> "closed"
      [] link.exists /\ link.sock # "CLOSED"         -> "open"
      [] link.exists /\ link.sock = "CLOSED" /\ link.reconnect = "pending" -> "waiting"
      [] link.exists /\ link.sock = "CLOSED" /\ link.reconnect # "pending"
           /\ StatePending                           -> "lost"
      [] OTHER                                       -> "dead"

Promise == INSTANCE ReconnectingLink WITH link <- LinkState

\* The service is a ReconnectingLink: whatever the order of drops, refused
\* sends, notifications, Disconnect, Connect and an old timer, each step of it
\* is one of that link or none, so that a link that is down always waits for a
\* try or for a notification, and every loss is noticed.
KeepsItsPromise == Promise!Spec

\* Every session the gateway sees starts with exactly one handshake, on the
\* first connection and on every reconnect (Connect, OnReconnect).
HandshakeFirst == link.srv # "protocolError"

\* A frame is exactly m_nSendBytes long: the first bytes queued, filled up with
\* silence only when there are no more.  No byte is lost, doubled or moved when
\* a frame takes part of a string or several strings (OnSendAudioData).
FramesCarryAll ==
    [][OnSendAudioData /\ inCall =>
         LET frame == Pack(outgoing, SendBytes).frame
             left == FlattenSeq(outgoing')
         IN  /\ Len(frame) = SendBytes
             /\ left # << >> => frame \o left = FlattenSeq(outgoing)
             /\ left = << >> => /\ IsPrefix(FlattenSeq(outgoing), frame)
                                /\ \A i \in DOMAIN frame :
                                     i > Len(FlattenSeq(outgoing)) => frame[i] = Silence]_vars

\* A reconnect timer dials a socket that is down; it never closes one that is
\* up (the third branch of OnReconnect).
TimerOnlyDials ==
    [][ReconnectTimerFires => ~(Live(link) /\ link'.sock = "CLOSING")]_vars

\* Once the network behaves and users leave the connection alone, a connection
\* that is down comes back.
Calm == <>[]~flaky /\ <>[][~Disconnect]_vars
ComesBack ==
    Calm => (link.exists /\ link.sock = "CLOSED" ~> link.connected \/ ~link.exists)
==============================================================================
