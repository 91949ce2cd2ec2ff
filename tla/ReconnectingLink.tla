-------------------------- MODULE ReconnectingLink --------------------------
(***************************************************************************)
(* What a service that keeps one web socket open promises to its users.    *)
(* From the moment they connect until they disconnect, the link is open,   *)
(* or it was lost and the service has yet to notice, or it waits for its   *)
(* next try.  There is nothing else: a link that is down is never given up *)
(* and never forgotten.                                                    *)
(***************************************************************************)
VARIABLE link

States == {"closed", "open", "lost", "waiting"}

Init == link = "closed"

\* The users' calls: the first try may be refused at once.
Connect    == link = "closed" /\ link' \in {"open", "waiting"}
Disconnect == link # "closed" /\ link' = "closed"

\* The network breaks an open link, for which an old try may still be due.
Lose == link = "open" /\ link' \in {"lost", "waiting"}

\* The service notices, and tries at once or later; a try may be refused, and
\* is then followed by another one.
Notice == link = "lost" /\ link' \in {"open", "waiting"}
Retry  == link = "waiting" /\ link' \in {"open", "waiting"}

Next == Connect \/ Disconnect \/ Lose \/ Notice \/ Retry

Safety == Init /\ [][Next]_link

\* A lost link is noticed, or disconnected.
Noticed == link = "lost" ~> link # "lost"

Spec == Safety /\ Noticed
=============================================================================
