----------------------------- MODULE Microphone -----------------------------
(***************************************************************************)
(* The microphones that read a recorder process on a thread of their own   *)
(* (LinuxMicrophone; Sota, Raspi and Nao carry the same code).  OnStart    *)
(* and OnStop run on the main thread; OnStop waits there, blocking every   *)
(* other handler, until the capture thread says it has stopped.  m_Paused  *)
(* is a count that the sensor manager raises and lowers (external: it      *)
(* calls OnPause and OnResume of each audio sensor), and that the capture  *)
(* thread only reads.  The recorded audio itself is left out.              *)
(***************************************************************************)
EXTENDS Integers, Sequences, FiniteSets

CONSTANT MaxStarts        \* bound: how often the microphone is started

ASSUME StartsAssumption == MaxStarts \in Nat

VARIABLES
    mic,       \* the thread flags, the recorder, and each capture thread's place
    paused,    \* m_Paused
    mainThread \* "free", or what a handler blocks it with

micVars == <<mic, mainThread>>

Captures == 1 .. MaxStarts

Mic ==
    [starts : 0 .. MaxStarts, started : BOOLEAN, stop : BOOLEAN, stopped : BOOLEAN,
     stream : BOOLEAN,
     thread : [Captures -> {"none", "posted", "looping", "reading", "leaving",
                            "ended", "threw"}]]

MicInit ==
    /\ mic = [starts |-> 0, started |-> FALSE, stop |-> FALSE, stopped |-> FALSE,
              stream |-> FALSE, thread |-> [t \in Captures |-> "none"]]
    /\ paused = 0
    /\ mainThread = "free"

OnPause(count)  == count + 1
OnResume(count) == count - 1

\* External: the sensor base starts a stopped microphone and stops a started one.
OnStart ==
    /\ mainThread = "free"
    /\ ~mic.started
    /\ mic.starts < MaxStarts
    /\ mic' = [mic EXCEPT !.starts = @ + 1, !.started = TRUE, !.stop = FALSE,
                          !.stopped = FALSE, !.thread[mic.starts + 1] = "posted"]
    /\ UNCHANGED <<paused, mainThread>>

\* Mutant: OnStop does not wait for the thread.
OnStop_NoWait ==
    /\ mainThread = "free"
    /\ mic.started
    /\ mic' = [mic EXCEPT !.stop = TRUE, !.started = FALSE]
    /\ UNCHANGED <<paused, mainThread>>

OnStop ==
    /\ mainThread = "free"
    /\ mic.started
    /\ mic' = [mic EXCEPT !.stop = TRUE]
    /\ mainThread' = "stopping"
    /\ UNCHANGED paused

\* The busy wait of OnStop ends.
OnStopReturns ==
    /\ mainThread = "stopping"
    /\ mic.stopped
    /\ mic' = [mic EXCEPT !.started = FALSE]
    /\ mainThread' = "free"
    /\ UNCHANGED paused

-----------------------------------------------------------------------------
(* ReceiveData, step by step.                                              *)

ReceiveDataBegins(t) ==
    /\ mic.thread[t] = "posted"
    /\ mic' = [mic EXCEPT !.thread[t] = IF mic.stream THEN "threw" ELSE "looping"]
    /\ UNCHANGED <<paused, mainThread>>

\* The head of the loop: leave it, read a buffer, or close the recorder and
\* sleep while paused.
ReceiveDataChecks(t) ==
    /\ mic.thread[t] = "looping"
    /\ mic' = CASE mic.stop -> [mic EXCEPT !.stream = FALSE, !.thread[t] = "leaving"]
                [] ~mic.stop /\ paused > 0 -> [mic EXCEPT !.stream = FALSE]
                [] OTHER -> [mic EXCEPT !.stream = TRUE, !.thread[t] = "reading"]
    /\ UNCHANGED <<paused, mainThread>>

\* fread returns a buffer, which is posted, or nothing.
ReceiveDataReads(t) ==
    /\ mic.thread[t] = "reading"
    /\ mic' = [mic EXCEPT !.thread[t] = "looping"]
    /\ UNCHANGED <<paused, mainThread>>

ReceiveDataEnds(t) ==
    /\ mic.thread[t] = "leaving"
    /\ mic' = [mic EXCEPT !.stopped = TRUE, !.thread[t] = "ended"]
    /\ UNCHANGED <<paused, mainThread>>

ReceiveData(t) ==
    \/ ReceiveDataBegins(t)
    \/ ReceiveDataChecks(t)
    \/ ReceiveDataReads(t)
    \/ ReceiveDataEnds(t)

=============================================================================
