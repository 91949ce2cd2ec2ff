----------------------------- MODULE GatewayLogs -----------------------------
(***************************************************************************)
(* The log persistence of the RobotGateway service, as functions of the    *)
(* state it keeps: the records not yet posted (each stands for its epoch   *)
(* time, which need not grow from one record to the next), the span of     *)
(* their times, and whether the one-shot persist timer is set.  The        *)
(* component that calls them is module RobotGateway.                       *)
(***************************************************************************)
EXTENDS Integers, Sequences

Time == Nat \ {0}

LogState == [list : Seq(Time), oldest : Nat, newest : Nat, timer : BOOLEAN]

\* Mutant: the timer is started for a first record only.
Keep_TimerOnFirst(log, t) ==
    [list |-> Append(log.list, t),
     oldest |-> IF t < log.oldest \/ log.oldest = 0 THEN t ELSE log.oldest,
     newest |-> IF t > log.newest \/ log.newest = 0 THEN t ELSE log.newest,
     timer |-> log.timer \/ log.list = << >>]

\* A record that passes m_PersistLogLevel and m_PersistLogFilter.
Keep(log, t) ==
    [list |-> Append(log.list, t),
     oldest |-> IF t < log.oldest \/ log.oldest = 0 THEN t ELSE log.oldest,
     newest |-> IF t > log.newest \/ log.newest = 0 THEN t ELSE log.newest,
     timer |-> TRUE]

\* Mutant: the times of the last request are kept.
Persist_KeepsSpan(log) ==
    [log EXCEPT !.list = << >>, !.timer = FALSE]

\* What OnPersistLogs leaves behind.
Persist(log) == [list |-> << >>, oldest |-> 0, newest |-> 0, timer |-> FALSE]

\* The span posted with the records is exactly theirs.
SpanIsExact(log) ==
    log.list # << >> =>
        /\ \A i \in DOMAIN log.list : log.oldest <= log.list[i] /\ log.list[i] <= log.newest
        /\ \E i \in DOMAIN log.list : log.list[i] = log.oldest
        /\ \E i \in DOMAIN log.list : log.list[i] = log.newest
==============================================================================
