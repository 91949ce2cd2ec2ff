------------------------------ MODULE Services ------------------------------
(***************************************************************************)
(* Services that share nothing but the main thread, which none of them     *)
(* blocks while another is in a step: the results of SpeechToText, the     *)
(* streams of TextToSpeech, the login of IVA, and NaoBrowser.  A behaviour *)
(* uses one of them, chosen at first.                                      *)
(***************************************************************************)
EXTENDS SpeechResults, SpeechStreams, FaceLogin, TabletBrowser

VARIABLE service

vars == <<service, resultVars, streamVars, loginVars, tabletVars>>

Init ==
    /\ service \in {"SpeechToText", "TextToSpeech", "IVA", "NaoBrowser"}
    /\ ResultInit /\ StreamsInit /\ LoginInit /\ TabletInit

Results == service = "SpeechToText" /\ UNCHANGED <<service, streamVars, loginVars, tabletVars>>
Streams == service = "TextToSpeech" /\ UNCHANGED <<service, resultVars, loginVars, tabletVars>>
Logins  == service = "IVA"          /\ UNCHANGED <<service, resultVars, streamVars, tabletVars>>
Browser == service = "NaoBrowser"   /\ UNCHANGED <<service, resultVars, streamVars, loginVars>>

Next ==
    \/ ResultNext /\ Results
    \/ StreamsNext /\ Streams
    \/ LoginNext /\ Logins
    \/ TabletNext /\ Browser

\* What is posted runs, sockets are closed in the end, requests are answered,
\* timers fire and the thread of NaoBrowser goes on.  Its check comes again
\* and again, because the interval passes, but not at each turn.
Fairness ==
    /\ \A s \in Sounds : WF_vars(Posted(s) /\ Streams) /\ WF_vars(Closes(s) /\ Streams)
    /\ WF_vars(LoginAnswered /\ Logins)
    /\ WF_vars(Retry /\ Logins)
    /\ WF_vars(TabletThread /\ Browser)
    /\ SF_vars(CheckConnection /\ Browser)
    /\ WF_vars(NotYet /\ Browser)
    /\ WF_vars(TabletShowURL /\ Browser)
    /\ WF_vars(ThreadEnds /\ Browser)
    /\ WF_vars(BrowserStopReturns /\ Browser)

Spec == Init /\ [][Next]_vars
FairSpec == Spec /\ Fairness
=============================================================================
