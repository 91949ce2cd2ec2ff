---------------------------- MODULE SpeechStreams ----------------------------
(***************************************************************************)
(* TextToSpeech::ToSound with a stream: a Connection per text, whose       *)
(* socket brings the sound in pieces.  Its user is told the end by a NULL. *)
(* The service keeps the connection in m_Connections until then; what is   *)
(* posted for a connection that is no longer kept is dropped.              *)
(*                                                                         *)
(* External: the network thread changes the socket's state before it posts *)
(* the notification, so that OnListenState may read a later state than the *)
(* one it is told of.  Frames of words change nothing and are left out.    *)
(***************************************************************************)
EXTENDS Naturals, Sequences

CONSTANTS
    Sounds,       \* texts to be spoken, a connection each
    MaxPosted     \* bound: callbacks of a connection not yet run

ASSUME MaxPostedAssumption == MaxPosted \in Nat

VARIABLE
    sound         \* the connections

streamVars == <<sound>>

(***************************************************************************)
(* "socket" is "none", "connecting", "open", "closed" or "disconnected";   *)
(* "posted" are the "state" notifications and "piece"s on their way to the *)
(* main thread, "kept" that the connection is in m_Connections; "nulls"    *)
(* counts the NULLs its user was called with, "late" the calls after one.  *)
(***************************************************************************)
StreamsInit ==
    sound = [s \in Sounds |-> [socket |-> "none", posted |-> << >>, kept |-> FALSE,
                               nulls |-> 0, late |-> 0]]

\* m_Callback, with a piece of the sound or with NULL.
Heard(c) == IF c.nulls > 0 THEN [c EXCEPT !.late = @ + 1] ELSE c
Ended(c) == [Heard(c) EXCEPT !.nulls = @ + 1]

Lost(c) == c.socket \in {"closed", "disconnected"}

-----------------------------------------------------------------------------
\* A socket that refuses to connect ends the stream before ToSound returns.
ToSound(s) ==
    /\ sound[s].socket = "none"
    /\ \/ sound' = [sound EXCEPT ![s].socket = "connecting", ![s].kept = TRUE]
       \/ sound' = [sound EXCEPT ![s] = [Ended(@) EXCEPT !.socket = "disconnected"]]

OnListenMessage(s) ==
    LET c == sound[s]
    IN  /\ c.posted # << >> /\ Head(c.posted) = "piece"
        /\ sound' = [sound EXCEPT ![s] =
               [(IF c.kept THEN Heard(c) ELSE c) EXCEPT !.posted = Tail(@)]]

\* Mutant: the connection is kept after its end.
OnListenState_Keeps(s) ==
    LET c == sound[s]
    IN  /\ c.posted # << >> /\ Head(c.posted) = "state"
        /\ sound' = [sound EXCEPT ![s] =
               [(IF c.kept /\ Lost(c) THEN Ended(c) ELSE c) EXCEPT !.posted = Tail(@)]]

OnListenState(s) ==
    LET c == sound[s]
        told == IF c.kept /\ Lost(c) THEN [Ended(c) EXCEPT !.kept = FALSE] ELSE c
    IN  /\ c.posted # << >> /\ Head(c.posted) = "state"
        /\ sound' = [sound EXCEPT ![s] = [told EXCEPT !.posted = Tail(@)]]

-----------------------------------------------------------------------------
\* External: the network and the server, which closes the socket in the end.
Post(c, event) == [c EXCEPT !.posted = Append(@, event)]

Opens(s) ==
    /\ sound[s].socket = "connecting" /\ sound[s].kept
    /\ sound' = [sound EXCEPT ![s] = Post([@ EXCEPT !.socket = "open"], "state")]

Brings(s) ==
    /\ sound[s].socket = "open" /\ Len(sound[s].posted) < MaxPosted
    /\ sound' = [sound EXCEPT ![s] = Post(@, "piece")]

Closes(s) ==
    /\ sound[s].socket \in {"connecting", "open"}
    /\ \E how \in {"closed", "disconnected"} :
          sound' = [sound EXCEPT ![s] = Post([@ EXCEPT !.socket = how], "state")]

Posted(s) == OnListenMessage(s) \/ OnListenState(s)

StreamsNext ==
    \E s \in Sounds : ToSound(s) \/ Posted(s) \/ Opens(s) \/ Brings(s) \/ Closes(s)

-----------------------------------------------------------------------------
\* Each stream ends, with one NULL, after which its user hears no more of it:
\* also when Send() is refused, and when a notification is run so late that it
\* finds the socket closed already and another notification follows.
StreamsEnd ==
    \A s \in Sounds :
        (sound[s].socket # "none") ~> [](sound[s].nulls = 1 /\ sound[s].late = 0)

\* Who has not been told the end of a stream has a socket that is still up, or a
\* notification on its way that finds the stream kept and its socket closed; and
\* nobody is told twice, or anything after the end.
Untold(c) == c.socket # "none" /\ c.nulls = 0

StreamsAreHeld ==
    \A s \in Sounds :
        LET c == sound[s]
        IN  /\ c.nulls <= 1 /\ c.late = 0
            /\ Untold(c) => c.kept
            /\ Untold(c) /\ Lost(c) => \E i \in DOMAIN c.posted : c.posted[i] = "state"
=============================================================================
