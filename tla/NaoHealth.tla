------------------------------ MODULE NaoHealth ------------------------------
(***************************************************************************)
(* How NaoHealthSensor recovers a robot that fell.  Its thread (module     *)
(* CaptureSensors) checks the last posture now and then: a posture that is *)
(* not stable, and not just a transition, is answered by one SetPosture,   *)
(* and if it lasts by a report at each check.  The postures come from      *)
(* NaoPlatform, whose notifications run on threads of their own.           *)
(* SetPosture announces the posture it asks for before the robot moves.    *)
(*                                                                         *)
(* External: the robot, which falls, gets up or is lifted, and reports its *)
(* posture some time later.  m_bEnableFallRecovery is taken as set.  The   *)
(* bookkeeping of failed joints and the other readings are left out.       *)
(***************************************************************************)
EXTENDS Naturals, Sequences

CONSTANT
    MaxMoves      \* bound: changes of the robot's posture

ASSUME MovesAssumption == MaxMoves \in Nat

VARIABLE
    health        \* see HealthState

Postures == {"Stand", "Sit", "Lying"}

IsStablePosture(posture) == posture = "Stand"

(***************************************************************************)
(* "news" are the postures the robot has yet to report, and "moves" counts *)
(* them; "posture" is NaoPlatform's m_Posture and "listed" that the sensor *)
(* is among its notifiers.  Of the sensor, "last" is m_LastPosture, "old"  *)
(* that it has lasted longer than m_fTimeForPostureTransition, "count"     *)
(* m_RobotFallenCount, "at" where a check is, and "told" that it reported  *)
(* the last posture as a failure.                                          *)
(***************************************************************************)
HealthState ==
    [news : Seq(Postures), moves : Nat, posture : Postures,
     listed : BOOLEAN, last : Postures, old : BOOLEAN, count : Nat,
     at : {"check", "raising", "raised"}, told : BOOLEAN]

HealthInit ==
    health = [news |-> << >>, moves |-> 0, posture |-> "Stand",
              listed |-> FALSE, last |-> "Stand", old |-> FALSE, count |-> 0,
              at |-> "check", told |-> FALSE]

-----------------------------------------------------------------------------
(* The methods, as functions of the state.                                 *)

OnPostureChanged(h, posture) ==
    [h EXCEPT !.last = posture, !.old = FALSE, !.told = FALSE,
              !.count = IF IsStablePosture(posture) THEN 0 ELSE @]

SetPostureId(h, posture) ==
    IF h.posture = posture THEN h
    ELSE IF h.listed THEN OnPostureChanged([h EXCEPT !.posture = posture], posture)
    ELSE [h EXCEPT !.posture = posture]

\* OnStart registers the sensor and assumes that the robot stands; OnStop takes
\* it off the list before it waits for the thread.
Watched(h)   == OnPostureChanged([h EXCEPT !.listed = TRUE, !.at = "check"], "Stand")
Unwatched(h) == [h EXCEPT !.listed = FALSE]

Fallen(h) == ~IsStablePosture(h.last)

\* Mutant: a count of one is not a failure yet.
Checked_ToleratesOne(h) ==
    CASE h.at = "raised"                            -> [h EXCEPT !.at = "check"]
      [] h.at = "check" /\ Fallen(h) /\ h.count > 1 -> [h EXCEPT !.told = TRUE]
      [] h.at = "check" /\ Fallen(h) /\ h.count < 2 -> h
      [] h.at = "check" /\ ~Fallen(h)               -> [h EXCEPT !.count = 0]

\* A check that does not raise the robot, or has done so.
Checked(h) ==
    CASE h.at = "raised"                            -> [h EXCEPT !.at = "check"]
      [] h.at = "check" /\ Fallen(h) /\ h.count > 0 -> [h EXCEPT !.told = TRUE]
      [] h.at = "check" /\ Fallen(h) /\ h.count = 0 -> h
      [] h.at = "check" /\ ~Fallen(h)               -> [h EXCEPT !.count = 0]

Raises(h) == h.at = "check" /\ Fallen(h) /\ h.count = 0 /\ h.old

-----------------------------------------------------------------------------
\* SetPosture: goToPosture is under way, and "Stand" is announced.
RaiseBegins ==
    /\ Raises(health)
    /\ health' = [SetPostureId(health, "Stand") EXCEPT !.at = "raising"]

\* The wait for it ends, whatever became of it.
RaiseEnds ==
    /\ health.at = "raising"
    /\ health' = [health EXCEPT !.at = "raised", !.count = @ + 1]

\* NaoPlatform::OnPostureChanged.
PostureReported ==
    /\ health.news # << >>
    /\ health' = SetPostureId([health EXCEPT !.news = Tail(@)], Head(health.news))

\* External: the robot moves, m_fTimeForPostureTransition passes.
Moves(posture) ==
    /\ health.moves < MaxMoves
    /\ health' = [health EXCEPT !.moves = @ + 1, !.news = Append(@, posture)]

Settles ==
    /\ ~health.old
    /\ health' = [health EXCEPT !.old = TRUE]

-----------------------------------------------------------------------------
\* A failure is reported only of a robot that does not stand, by the last posture
\* announced, and one call of SetPosture has returned since it was last announced,
\* or found, to stand: never two, although the posture and the count change while
\* the thread waits.  (The reads of one check are one step.)
FailureIsReal ==
    /\ health.count <= 1
    /\ health.told => Fallen(health) /\ health.count = 1
=============================================================================
