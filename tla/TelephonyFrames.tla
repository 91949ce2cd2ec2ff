--------------------------- MODULE TelephonyFrames ---------------------------
(***************************************************************************)
(* The packing of outgoing audio into frames (OnSendAudioData of the       *)
(* Telephony service): the queue holds the strings given to SendAudioIn,   *)
(* of any length, and every tick takes one frame of exactly m_nSendBytes   *)
(* bytes from its front, filled up with zeros when the queue runs dry.     *)
(***************************************************************************)
EXTENDS Naturals, Sequences, SequencesExt

\* Mutant: what is left of a string that does not fit is dropped.
Fill_DropsRest(s, n) ==
    LET data == Head(s.queue)
        room == n - Len(s.frame)
        bytes == IF Len(data) > room THEN room ELSE Len(data)
    IN  IF s.queue = << >> \/ Len(s.frame) >= n THEN s
        ELSE [frame |-> s.frame \o SubSeq(data, 1, bytes), queue |-> Tail(s.queue)]

\* One turn of the loop; no turn when the queue is empty or the frame is full.
Fill(s, n) ==
    LET data == Head(s.queue)
        room == n - Len(s.frame)
        bytes == IF Len(data) > room THEN room ELSE Len(data)
    IN  IF s.queue = << >> \/ Len(s.frame) >= n THEN s
        ELSE [frame |-> s.frame \o SubSeq(data, 1, bytes),
              queue |-> IF bytes = Len(data) THEN Tail(s.queue)
                        ELSE <<SubSeq(data, bytes + 1, Len(data))>> \o Tail(s.queue)]

Silence == 0

\* Every turn takes a string off the queue or fills the frame, so there are at
\* most as many turns as strings.
Pack(queue, n) ==
    LET fill[i \in 0 .. Len(queue)] ==
            IF i = 0 THEN [frame |-> << >>, queue |-> queue] ELSE Fill(fill[i - 1], n)
        s == fill[Len(queue)]
    IN  [s EXCEPT !.frame = @ \o [i \in 1..(n - Len(@)) |-> Silence]]
==============================================================================
