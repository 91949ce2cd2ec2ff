---------------------------- MODULE TabletBrowser ----------------------------
(***************************************************************************)
(* NaoBrowser: ShowURL queues a page, and a thread shows one page a turn   *)
(* while the tablet is connected.  Every m_TabletCheckInterval it checks   *)
(* the connection and, when it is down, configures the tablet anew.  Stop  *)
(* waits on the main thread until the thread has ended.  The logo, shown   *)
(* when nothing else is, is left out.                                      *)
(*                                                                         *)
(* External: the tablet's service may be absent, the tablet's wifi off or  *)
(* on, and its calls may throw while it is "flaky".                        *)
(***************************************************************************)
EXTENDS Naturals, Sequences, SequencesExt

CONSTANTS
    Pages,        \* pages to be shown, each once
    MaxTurns      \* bound: starts, and changes of the tablet

ASSUME MaxTurnsAssumption == MaxTurns \in Nat

VARIABLES
    browser,      \* the service and its thread
    tablet        \* the tablet

tabletVars == <<browser, tablet>>

(***************************************************************************)
(* "active" is m_bServiceActive, "stopped" m_bThreadStopped, "held" that   *)
(* m_Tablet is set, "connected" m_bTabletConnected, "list" m_RequestList;  *)
(* "at" is where the thread is, "stopping" that the main thread waits in   *)
(* Stop; "asked", "shown" and "dropped" are the pages asked for, shown and *)
(* dropped by an exception, "starts" counts the calls of Start.            *)
(***************************************************************************)
TabletInit ==
    /\ browser = [active |-> FALSE, stopped |-> TRUE, at |-> "ended", stopping |-> FALSE,
                  held |-> FALSE, connected |-> FALSE, list |-> << >>,
                  asked |-> {}, shown |-> {}, dropped |-> {}, starts |-> 0]
    /\ tablet \in [wifi : {"absent", "off", "on"}, flaky : BOOLEAN, changes : {0}]

(* The thread's calls to the tablet, as sets of what they may leave.       *)

\* ConfigureTablet: an exception comes before m_Tablet is set, or before the
\* status is read, or after all that matters here.
Configured(b) ==
    LET down == [b EXCEPT !.connected = FALSE]
        held == IF tablet.wifi = "absent" THEN down ELSE [down EXCEPT !.held = TRUE]
    IN  {[held EXCEPT !.connected = tablet.wifi = "on"]}
        \cup (IF tablet.flaky THEN {down, held} ELSE {})

\* Mutant: a tablet that was not there at first is not looked for again.
Checked_Held(b) == {[b EXCEPT !.connected = b.held /\ tablet.wifi = "on"]}

\* CheckConnection.
Checked(b) ==
    IF b.held /\ tablet.wifi = "on"
    THEN {[b EXCEPT !.connected = TRUE]} \cup (IF tablet.flaky THEN Configured(b) ELSE {})
    ELSE Configured(b)

\* TabletShowURL, and the page leaves the list; an exception drops it without a
\* call of its callback.
Shown(b) ==
    LET page == Head(b.list)
        rest == [b EXCEPT !.list = Tail(@)]
    IN  (IF tablet.wifi = "on" THEN {[rest EXCEPT !.shown = @ \cup {page}]} ELSE {})
        \cup (IF tablet.wifi = "on" /\ ~tablet.flaky THEN {}
              ELSE {[rest EXCEPT !.dropped = @ \cup {page}]})

-----------------------------------------------------------------------------
BrowserStart ==
    /\ ~browser.active /\ ~browser.stopping
    /\ browser.starts < MaxTurns
    /\ browser' = [browser EXCEPT !.active = TRUE, !.stopped = FALSE,
                                  !.at = "posted", !.starts = @ + 1]
    /\ UNCHANGED tablet

BrowserStop ==
    /\ browser.active
    /\ browser' = [browser EXCEPT !.active = FALSE, !.stopping = TRUE]
    /\ UNCHANGED tablet

BrowserStopReturns ==
    /\ browser.stopping /\ browser.stopped
    /\ browser' = [browser EXCEPT !.stopping = FALSE]
    /\ UNCHANGED tablet

ShowURL(page) ==
    /\ ~browser.stopping
    /\ page \notin browser.asked
    /\ browser' = [browser EXCEPT !.list = Append(@, page), !.asked = @ \cup {page}]
    /\ UNCHANGED tablet

-----------------------------------------------------------------------------
(* The thread.                                                             *)

TabletThread ==
    /\ browser.at = "posted"
    /\ \E b \in Configured(browser) : browser' = [b EXCEPT !.at = "turn"]
    /\ UNCHANGED tablet

\* A turn begins, with or without the check.
CheckConnection ==
    /\ browser.at = "turn" /\ browser.active
    /\ \E b \in Checked(browser) : browser' = [b EXCEPT !.at = "show"]
    /\ UNCHANGED tablet

NotYet ==
    /\ browser.at = "turn" /\ browser.active
    /\ browser' = [browser EXCEPT !.at = "show"]
    /\ UNCHANGED tablet

\* ... and ends with the front of the list, which stays locked meanwhile.
TabletShowURL ==
    /\ browser.at = "show"
    /\ \E b \in IF browser.connected /\ browser.list # << >> THEN Shown(browser)
                ELSE {browser} : browser' = [b EXCEPT !.at = "turn"]
    /\ UNCHANGED tablet

ThreadEnds ==
    /\ browser.at = "turn" /\ ~browser.active
    /\ browser' = [browser EXCEPT !.at = "ended", !.stopped = TRUE]
    /\ UNCHANGED tablet

\* External: the tablet's service and its wifi come and go, and it calms down.
TabletChanges ==
    /\ tablet.changes < MaxTurns
    /\ tablet' \in [wifi : {"absent", "off", "on"}, flaky : {FALSE, tablet.flaky},
                    changes : {tablet.changes + 1}]
    /\ UNCHANGED browser

TabletNext ==
    \/ BrowserStart \/ BrowserStop \/ BrowserStopReturns
    \/ \E page \in Pages : ShowURL(page)
    \/ TabletThread \/ CheckConnection \/ NotYet \/ TabletShowURL \/ ThreadEnds
    \/ TabletChanges

-----------------------------------------------------------------------------
\* If the service stays and the tablet is there in the end, every page is taken
\* from the list, whenever the tablet first appeared or came back; so is a page
\* asked for before Start or between Stop and Start.  What the tablet throws at
\* before that is dropped, and nobody called.
PagesAreShown ==
    <>[](browser.active /\ tablet.wifi = "on" /\ ~tablet.flaky)
        => \A page \in Pages :
              (page \in browser.asked) ~> (page \in browser.shown \cup browser.dropped)

\* Each page asked for is waiting, shown or dropped: one of them, and once.
PagesAreKept ==
    /\ browser.asked = ToSet(browser.list) \cup browser.shown \cup browser.dropped
    /\ browser.shown \cap browser.dropped = {}
    /\ ToSet(browser.list) \cap (browser.shown \cup browser.dropped) = {}
    /\ \A i, j \in DOMAIN browser.list : browser.list[i] = browser.list[j] => i = j

\* The thread of an earlier start has ended before Start makes another one, and
\* a page is only shown on a tablet that is held.
OneThreadAndTablet ==
    /\ ~browser.active /\ ~browser.stopping => browser.at = "ended"
    /\ browser.connected => browser.held
=============================================================================
