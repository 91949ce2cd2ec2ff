---------------------------- MODULE RosPlatform ----------------------------
(***************************************************************************)
(* RosPlatform: the web socket to a robot that runs ROS.  A recurring timer*)
(* calls ConnectToRobot, which makes a client unless m_bActive is set;     *)
(* OnClientState resets m_bActive.  The callback of a client that has been *)
(* replaced is not told apart from that of the current one: it looks at    *)
(* the state its own client has by then.  Subscriptions and advertisements *)
(* are left out.                                                           *)
(*                                                                         *)
(* External: the clients, which post a callback to the main thread when    *)
(* they are connected and when they are closed, and keep the frames sent   *)
(* while they connect.                                                     *)
(***************************************************************************)
EXTENDS Naturals, Sequences

CONSTANTS
    MaxClients     \* bound: clients created

ASSUME ClientsAssumption == MaxClients \in Nat \ {0}

VARIABLE
    platform       \* m_bActive, the current client, and the callbacks posted

platformVars == <<platform>>

\* "client" numbers the clients; zero is a platform not yet instantiated.
Platform ==
    [client : 0 .. MaxClients, active : BOOLEAN,
     sock : {"none", "connecting", "connected", "closed"},
     posted : Seq(1 .. MaxClients)]

PlatformInit ==
    platform = [client |-> 0, active |-> FALSE, sock |-> "none", posted |-> << >>]

\* Mutant: a refused connection counts as an active one.
ConnectToRobot_Refused(p, ok) ==
    IF p.active THEN p
    ELSE [p EXCEPT !.client = @ + 1, !.active = TRUE,
                   !.sock = IF ok THEN "connecting" ELSE "closed"]

ConnectToRobot(p, ok) ==
    IF p.active THEN p
    ELSE [p EXCEPT !.client = @ + 1, !.active = ok,
                   !.sock = IF ok THEN "connecting" ELSE "closed"]

\* The timer's call, and the first call of Instance.
Connects ==
    /\ platform.client < MaxClients
    /\ \E ok \in BOOLEAN : platform' = ConnectToRobot(platform, ok)

Instance == platform.client = 0 /\ Connects

ReconnectTimer == platform.client > 0 /\ Connects

\* The state of a client replaced by another one is closed, or it would not
\* have been replaced.
OnClientState ==
    /\ platform.posted # << >>
    /\ LET closed == Head(platform.posted) # platform.client \/ platform.sock = "closed"
       IN  platform' = [platform EXCEPT !.posted = Tail(@), !.active = @ /\ ~closed]

\* External: the socket is connected, lost, or closed by the robot.
SocketChanges(from, to) ==
    /\ platform.sock \in from
    /\ platform' = [platform EXCEPT !.sock = to, !.posted = Append(@, platform.client)]

ClientOpens == SocketChanges({"connecting"}, "connected")
ClientLost  == SocketChanges({"connecting", "connected"}, "closed")

-----------------------------------------------------------------------------
\* What the gestures see of the connection.
PlatformState ==
    CASE platform.sock = "none"                                -> "closed"
      [] platform.sock \in {"connecting", "connected"}         -> "open"
      [] platform.sock = "closed" /\ ~platform.active          -> "waiting"
      [] platform.sock = "closed" /\ platform.active
           /\ platform.client \in {platform.posted[i] : i \in DOMAIN platform.posted} -> "lost"
      [] OTHER                                                 -> "dead"

PlatformPromise == INSTANCE ReconnectingLink WITH link <- PlatformState

\* The robot is never given up: whatever clients are refused, lost or closed,
\* and whatever callbacks of earlier clients arrive late, a connection that is
\* down waits for the timer, or for a callback that will make it wait.
RobotIsFoundAgain == PlatformPromise!Spec
=============================================================================
