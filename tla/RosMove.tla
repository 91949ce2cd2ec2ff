------------------------------ MODULE RosMove ------------------------------
(***************************************************************************)
(* RosMoveJointGesture: a thread publishes a goal and waits for m_GoalDone,*)
(* which the status frames of that goal set on the network thread and a    *)
(* timer on the main thread.  m_GoalId and m_GoalDone are shared by all    *)
(* requests, and a frame is compared with the one before it sets the other.*)
(* The robot is external: frames may come many times, late, or never.      *)
(***************************************************************************)
EXTENDS WinSpeech

VARIABLE ros      \* m_GoalId, m_GoalDone, the timer, and a frame found to match

rosVars == <<ros>>

NoGoal == 0

Ros == [goal : {NoGoal} \cup Requests, done : BOOLEAN, timer : BOOLEAN, matched : BOOLEAN]

RosInit == ros = [goal |-> NoGoal, done |-> FALSE, timer |-> FALSE, matched |-> FALSE]

IsRos == kind = RosMoveJoint

\* DoMoveThread up to its wait: a new goal, published, and the timer.
\* Mutant: the goal is waited for without a timer.
PublishGoal_NoTimer(r) ==
    /\ IsRos /\ stage[r] = "thread" /\ ros.goal # r
    /\ ros' = [ros EXCEPT !.goal = r, !.done = FALSE]
    /\ UNCHANGED <<gestureVars, paused, micVars>>

PublishGoal(r) ==
    /\ IsRos /\ stage[r] = "thread" /\ ros.goal # r
    /\ ros' = [ros EXCEPT !.goal = r, !.done = FALSE, !.timer = TRUE]
    /\ UNCHANGED <<gestureVars, paused, micVars>>

\* OnGoalStatus: a frame of the current goal has ended; then it says so.
OnGoalStatusMatches ==
    /\ IsRos /\ ros.goal # NoGoal /\ ~ros.matched
    /\ ros' = [ros EXCEPT !.matched = TRUE]
    /\ UNCHANGED <<gestureVars, paused, micVars>>

OnGoalStatusSets ==
    /\ ros.matched
    /\ ros' = [ros EXCEPT !.matched = FALSE, !.done = TRUE]
    /\ UNCHANGED <<gestureVars, paused, micVars>>

OnTimeout ==
    /\ ros.timer
    /\ ros' = [ros EXCEPT !.timer = FALSE, !.done = TRUE]
    /\ UNCHANGED <<gestureVars, paused, micVars>>

\* The wait ends and the timer is reset, or an exception came before it;
\* MoveDone is posted in either case.
MoveThreadEnds(r) ==
    /\ IsRos /\ stage[r] = "thread"
    /\ ros.goal = r => ros.done
    /\ ros' = [ros EXCEPT !.timer = FALSE]
    /\ stage' = [stage EXCEPT ![r] = "posted"]
    /\ UNCHANGED <<kind, queue, voices, asked, history, paused, micVars>>
=============================================================================
