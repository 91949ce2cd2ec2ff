------------------------------ MODULE FaceLogin ------------------------------
(***************************************************************************)
(* How the IVA service logs in: Start asks for a session, and every answer *)
(* that leaves one of the two session ids unknown starts a timer for the   *)
(* next try.  The ids are kept when a later answer brings none.            *)
(*                                                                         *)
(* External: the server answers each login once, with any of the cookies   *)
(* or none while it is "flaky", and with both afterwards.                  *)
(***************************************************************************)
EXTENDS Naturals

CONSTANT
    MaxLogins     \* bound: calls of Start

ASSUME MaxLoginsAssumption == MaxLogins \in Nat

VARIABLE
    iva           \* the service and what it has asked

loginVars == <<iva>>

Cookies == {"IVASESSIONID", "JSESSIONID"}

\* "ids" are the members m_SessionId and m_JSessionId that are set, "asked" the
\* logins not yet answered, "timer" that m_spRetryTimer is pending.
LoginInit ==
    iva = [starts |-> 0, asked |-> 0, ids |-> {}, timer |-> FALSE, flaky |-> TRUE]

LoggedIn(i) == i.ids = Cookies

Login(i) == [i EXCEPT !.asked = @ + 1]

-----------------------------------------------------------------------------
IvaStart ==
    /\ iva.starts < MaxLogins
    /\ iva' = Login([iva EXCEPT !.starts = @ + 1])

\* Mutant: half a session is enough.
OnLoginSession_AnyId(cookies) ==
    /\ iva.asked > 0
    /\ LET known == iva.ids \cup cookies
       IN  iva' = [iva EXCEPT !.asked = @ - 1, !.ids = known, !.timer = (known = {})]

\* The timer of an earlier answer is dropped whatever this one says.
OnLoginSession(cookies) ==
    /\ iva.asked > 0
    /\ LET known == iva.ids \cup cookies
       IN  iva' = [iva EXCEPT !.asked = @ - 1, !.ids = known,
                              !.timer = (known # Cookies)]

Retry ==
    /\ iva.timer
    /\ iva' = Login([iva EXCEPT !.timer = FALSE])

LoginAnswered ==
    \E cookies \in IF iva.flaky THEN SUBSET Cookies ELSE {Cookies} : OnLoginSession(cookies)

ServerCalms == iva.flaky /\ iva' = [iva EXCEPT !.flaky = FALSE]

LoginNext == IvaStart \/ LoginAnswered \/ Retry \/ ServerCalms

-----------------------------------------------------------------------------
\* Once the server answers as it should, the service logs in, whatever halves
\* of a session it was given before and however the answers of several starts
\* overtook each other.
LogsIn == (iva.starts > 0 /\ ~iva.flaky) ~> LoggedIn(iva)

\* A service that was started and has no session has asked for one or will, when
\* its timer fires; one that has its session no longer tries, whichever answer
\* came last.
LoginGoesOn ==
    /\ iva.starts > 0 /\ ~LoggedIn(iva) => iva.asked > 0 \/ iva.timer
    /\ iva.timer => ~LoggedIn(iva)
=============================================================================
