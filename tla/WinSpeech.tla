----------------------------- MODULE WinSpeech -----------------------------
(***************************************************************************)
(* WinSpeechGesture: the sound streams in while a thread already plays it. *)
(* The stream, its flags and the count of waiting OnSpeechDone calls do    *)
(* not say which request they belong to.  Stage "tts" is a stream still    *)
(* open.  Each handler of the main thread, and each locked part of the     *)
(* playing thread, is one step.                                            *)
(***************************************************************************)
EXTENDS Gestures

VARIABLE win      \* the flags, the playing threads and the OnSpeechDone calls posted

winVars == <<win>>

Win == [playing : BOOLEAN, done : BOOLEAN, abort : BOOLEAN, threads : Nat, posts : Nat]

WinSpeechGesture ==
    [name |-> "WinSpeech", first |-> "tts", play |-> "thread", waits |-> TRUE,
     pause |-> "sound", unable |-> "next", aborts |-> TRUE, throws |-> FALSE,
     pops |-> "main", mic |-> FALSE]

WinInit ==
    win = [playing |-> FALSE, done |-> TRUE, abort |-> FALSE, threads |-> 0, posts |-> 0]

IsWin == kind = WinSpeechGesture

WinFree == IsWin /\ mainThread = "free"

WinNow == [queue |-> queue, stage |-> stage, paused |-> paused, win |-> win]

WinBecome(s) ==
    /\ queue' = s.queue
    /\ stage' = s.stage
    /\ paused' = s.paused
    /\ win' = s.win

\* Mutant: the microphone is resumed whether or not a stream played.
StreamEnded_Always(s) ==
    [s EXCEPT !.paused = OnResume(@), !.win.playing = FALSE]

StreamEnded(s) ==
    IF s.win.playing THEN [s EXCEPT !.paused = OnResume(@), !.win.playing = FALSE] ELSE s

\* "skips" requests at the front have no text to speak, or find no service:
\* each is finished by a nested call of OnSpeechDone.
WinStartSpeech(s, skips) ==
    LET rest    == SubSeq(s.queue, skips + 1, Len(s.queue))
        skipped == IF skips = 0 THEN s ELSE StreamEnded([s EXCEPT !.queue = rest])
    IN  IF rest = << >> THEN skipped
        ELSE [skipped EXCEPT !.stage[Head(rest)] = "tts",
                             !.win.done = FALSE, !.win.abort = FALSE]

WinExecute ==
    /\ WinFree
    /\ asked < MaxRequests
    /\ \E skips \in 0 .. MaxRequests :
           LET pushed == PushRequest(WinNow, asked + 1)
           IN  /\ WinBecome(IF queue = << >> /\ voices # "awaited"
                            THEN WinStartSpeech(pushed, skips) ELSE pushed)
               /\ Failed(skips > 0)
    /\ asked' = asked + 1
    /\ UNCHANGED <<kind, voices, micVars>>

\* m_bVoiceReady is set whatever the answer.
WinOnVoices ==
    /\ WinFree
    /\ voices = "awaited"
    /\ voices' \in {"named", "missing"}
    /\ \E skips \in 0 .. MaxRequests :
           /\ WinBecome(IF queue # << >> THEN WinStartSpeech(WinNow, skips) ELSE WinNow)
           /\ Failed(skips > 0)
    /\ UNCHANGED <<kind, asked, micVars>>

WinAbort ==
    /\ WinFree
    /\ win' = [win EXCEPT !.abort = TRUE]
    /\ history' = [history EXCEPT !.aborted = TRUE]
    /\ UNCHANGED <<kind, queue, stage, voices, asked, paused, micVars>>

\* A piece of the stream arrives: the first one starts the playing thread.
WinOnSpeechPiece(r) ==
    /\ WinFree
    /\ stage[r] = "tts"
    /\ ~win.playing
    /\ win' = [win EXCEPT !.playing = TRUE, !.threads = @ + 1]
    /\ paused' = OnPause(paused)
    /\ UNCHANGED <<kind, queue, stage, voices, asked, history, micVars>>

\* NULL ends the stream; without a thread to do it, OnSpeechDone is posted.
WinOnSpeechNull(r) ==
    /\ WinFree
    /\ stage[r] = "tts"
    /\ stage' = [stage EXCEPT ![r] = "none"]
    /\ win' = [win EXCEPT !.done = TRUE, !.posts = IF win.playing THEN @ ELSE @ + 1]
    /\ Failed(~win.playing)
    /\ UNCHANGED <<kind, queue, voices, asked, paused, micVars>>

\* PlayStreamedSound ends: the stream is played, aborted, or ran dry, which
\* it does when the next piece is late.
WinPlayEnds ==
    /\ IsWin
    /\ win.threads > 0
    /\ win' = [win EXCEPT !.threads = @ - 1, !.posts = @ + 1]
    /\ history' = [history EXCEPT !.behind = @ \/ ~(win.done \/ win.abort)]
    /\ UNCHANGED <<kind, queue, stage, voices, asked, paused, micVars>>

WinOnSpeechDone ==
    /\ WinFree
    /\ win.posts > 0
    /\ \E skips \in 0 .. MaxRequests :
           LET ended  == StreamEnded([WinNow EXCEPT !.win.posts = @ - 1])
               popped == PopRequest(ended)
           IN  /\ WinBecome(IF popped.queue = << >> THEN popped
                            ELSE WinStartSpeech(popped, skips))
               /\ Failed(skips > 0)
    /\ UNCHANGED <<kind, voices, asked, micVars>>

=============================================================================
