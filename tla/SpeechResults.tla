---------------------------- MODULE SpeechResults ----------------------------
(***************************************************************************)
(* How the SpeechToText service turns the results of several streams into  *)
(* one call of its user's callback: OnReconizeResult collects them until   *)
(* there is one per model or m_fResultDelay has passed, OnFinalizeResult   *)
(* keeps the most confident one and hands it over.  The streams themselves *)
(* are the connections of module SpeechToText; here a stream may produce a *)
(* result whenever recognition is on.                                      *)
(***************************************************************************)
EXTENDS Naturals, Sequences, SequencesExt

CONSTANTS
    MaxModels,       \* bound: length of m_Models
    MaxConfidence    \* bound: confidences are 0 .. MaxConfidence

ASSUME MaxModelsAssumption == MaxModels \in Nat \ {0}
ASSUME ResultBoundsAssumption == MaxConfidence \in Nat

VARIABLES
    models,       \* m_Models.size()
    streams,      \* number of m_Connections; 0 when not listening
    callback,     \* m_ListenCallback: "none", "alive", or "gone" (owner destroyed)
    resultList,   \* m_ResultList
    resultTimer,  \* m_spResultTimer is pending
    last          \* what OnFinalizeResult did in the step just taken, if it ran

resultVars == <<models, streams, callback, resultList, resultTimer, last>>

Result == [stream : 1..MaxModels, confidence : 0..MaxConfidence]

Nothing == [list |-> << >>, handed |-> 0, deleted |-> << >>, streams |-> 0, timed |-> FALSE]

ResultInit ==
    /\ models \in 1..MaxModels
    /\ streams = 0
    /\ callback = "none"
    /\ resultList = << >>
    /\ resultTimer = FALSE
    /\ last = Nothing

-----------------------------------------------------------------------------
(* The loop of OnFinalizeResult: positions in the list stand for pointers. *)

\* Mutant: the earlier best is not deleted.
Better_Leaks(list, acc, i) ==
    IF acc.best = 0 \/ list[i].confidence > list[acc.best].confidence
    THEN [acc EXCEPT !.best = i]
    ELSE [acc EXCEPT !.deleted = Append(@, i)]

Better(list, acc, i) ==
    IF acc.best = 0 \/ list[i].confidence > list[acc.best].confidence
    THEN [best |-> i, deleted |-> IF acc.best = 0 THEN acc.deleted
                                  ELSE Append(acc.deleted, acc.best)]
    ELSE [acc EXCEPT !.deleted = Append(@, i)]

\* What the loop has after each of its turns.
Best(list) ==
    LET best[n \in 0 .. Len(list)] ==
            IF n = 0 THEN [best |-> 0, deleted |-> << >>] ELSE Better(list, best[n - 1], n)
    IN  best[Len(list)]

\* Mutant: the timer of the collected results stays armed.
FinalizeResult_KeepsTimer(list, timed) ==
    LET b == Best(list)
        valid == callback = "alive"
    IN  /\ resultList' = << >>
        /\ last' = [list |-> list, streams |-> streams, timed |-> timed,
                    handed |-> IF valid THEN b.best ELSE 0,
                    deleted |-> IF valid \/ b.best = 0 THEN b.deleted
                                ELSE Append(b.deleted, b.best)]
        /\ IF valid THEN UNCHANGED <<streams, callback>>
                    ELSE streams' = 0 /\ callback' = "none"
        /\ UNCHANGED resultTimer

\* A receiver that is gone stops recognition (StopListening).
FinalizeResult(list, timed) ==
    LET b == Best(list)
        valid == callback = "alive"
    IN  /\ resultTimer' = FALSE
        /\ resultList' = << >>
        /\ last' = [list |-> list, streams |-> streams, timed |-> timed,
                    handed |-> IF valid THEN b.best ELSE 0,
                    deleted |-> IF valid \/ b.best = 0 THEN b.deleted
                                ELSE Append(b.deleted, b.best)]
        /\ IF valid THEN UNCHANGED <<streams, callback>>
                    ELSE streams' = 0 /\ callback' = "none"

ReconizeResult(result) ==
    LET list == Append(resultList, result)
    IN  IF Len(list) >= models
        THEN FinalizeResult(list, FALSE)
        ELSE /\ resultList' = list
             /\ resultTimer' = TRUE      \* a timer already pending is replaced
             /\ last' = Nothing
             /\ UNCHANGED <<streams, callback>>

-----------------------------------------------------------------------------
StartSession ==
    /\ streams = 0
    /\ streams' = models
    /\ callback' = "alive"
    /\ last' = Nothing
    /\ UNCHANGED <<models, resultList, resultTimer>>

\* Neither the collected results nor their timer are dropped.
StopSession ==
    /\ streams # 0
    /\ streams' = 0
    /\ callback' = "none"
    /\ last' = Nothing
    /\ UNCHANGED <<models, resultList, resultTimer>>

OwnerGone ==
    /\ callback = "alive"
    /\ callback' = "gone"
    /\ last' = Nothing
    /\ UNCHANGED <<models, streams, resultList, resultTimer>>

SetRecognizeModels(n) ==
    /\ n # models
    /\ models' = n
    /\ last' = Nothing
    /\ UNCHANGED <<streams, callback, resultList, resultTimer>>

OnReconizeResult(s, c) ==
    /\ s <= streams
    /\ ReconizeResult([stream |-> s, confidence |-> c])
    /\ UNCHANGED models

OnFinalizeResult ==
    /\ resultTimer
    /\ FinalizeResult(resultList, TRUE)
    /\ UNCHANGED models

ResultNext ==
    \/ StartSession \/ StopSession \/ OwnerGone \/ OnFinalizeResult
    \/ \E n \in 1..MaxModels : SetRecognizeModels(n)
    \/ \E s \in 1..MaxModels, c \in 0..MaxConfidence : OnReconizeResult(s, c)

ResultSpec == ResultInit /\ [][ResultNext]_resultVars

-----------------------------------------------------------------------------
ResultTypeOK ==
    /\ models \in 1..MaxModels
    /\ streams \in 0..MaxModels
    /\ callback \in {"none", "alive", "gone"}
    /\ resultList \in Seq(Result) /\ Len(resultList) < MaxModels
    /\ resultTimer \in BOOLEAN

\* Results wait if and only if a timer will release them, so the callback is
\* never called with no result and no result is kept for ever, not even across
\* StopListening and a new recognition.
WaitingMeansTimed == resultTimer <=> resultList # << >>

\* Every collected result is deleted once, except the one handed to the
\* callback, which now belongs to it.
EachResultOnce ==
    LET kept == IF last.handed = 0 THEN {} ELSE {last.handed}
    IN  /\ Len(last.deleted) + (IF last.handed = 0 THEN 0 ELSE 1) = Len(last.list)
        /\ ToSet(last.deleted) \cup kept = DOMAIN last.list

\* What SpeechToText.h says of m_fResultDelay: unless the delay has passed, the
\* final result is chosen from the results of all streams.
WaitsForAllStreams ==
    (~last.timed /\ Len(last.list) = last.streams) =>
        {last.list[i].stream : i \in DOMAIN last.list} = 1..last.streams
==============================================================================
