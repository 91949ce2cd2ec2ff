---------------------------- MODULE RobotGateway ----------------------------
(***************************************************************************)
(* The RobotGateway service.  Start registers the embodiment and then runs *)
(* the main thread itself until both the configuration and the parent have *)
(* been fetched (or given up); the answers to its requests set the two     *)
(* flags.  From Start on the service is a reactor of the logger and posts  *)
(* the records it keeps (module GatewayLogs).  Neither the flags, nor the  *)
(* heartbeat timer, nor the kept records are reset by Stop.  The requests  *)
(* (RequestJson, RequestObj), the logger and the timer pool are external:  *)
(* every request is answered once, in any order, possibly with nothing,    *)
(* and also after Stop.                                                    *)
(***************************************************************************)
EXTENDS GatewayLogs

CONSTANTS
    ApplyParentHost,   \* m_bApplyParentHost
    Parents,           \* what "parent" may be in the organization's answer:
                       \* "none" (not a string), "empty" (""), "id"
    Times,             \* epoch times a log record may carry
    Garbage,           \* what m_OldestLogTime and m_NewestLogTime may hold before
                       \* they are first written: the constructor does not set them
    StatusPasses,      \* whether Start's own status record is one that is kept
    MaxStarts,         \* bound: calls of Start
    MaxLogs,           \* bound: records kept
    MaxRequests        \* bound: requests of one kind not yet answered

ASSUME ApplyParentHostAssumption == ApplyParentHost \in BOOLEAN
ASSUME ParentsAssumption == Parents \subseteq {"none", "empty", "id"} /\ Parents # {}
ASSUME TimesAssumption == Times \subseteq Time /\ Times # {}
ASSUME GarbageAssumption == Garbage \subseteq Nat /\ Garbage # {}
ASSUME StatusPassesAssumption == StatusPasses \in BOOLEAN
ASSUME BoundsAssumption == MaxStarts \in Nat /\ MaxLogs \in Nat /\ MaxRequests \in Nat \ {0}

Requests == {"register", "organization", "admins", "services", "parent", "heartbeat"}

VARIABLES
    phase,           \* "stopped", "starting" (in the loop of Start), "running"
    localToken,      \* the token of the robot's own configuration, "" if none
    token,           \* m_EmbodimentToken
    header,          \* the bearer token in m_Headers["Authorization"]
    configsFetched,  \* m_ConfigsFetched
    parentFetched,   \* m_ParentFetched
    parentHost,      \* the topic manager's parent host
    configTimer,     \* m_spConfigTimer is set
    heartbeatTimer,  \* m_spHeartbeatTimer is set
    asked,           \* requests not yet answered, a number for each kind
    answered,        \* history: kinds of request answered at least once,
                     \* with "refused" for an empty registration and
                     \* "emptyParent" for an organization whose parent is ""
    starts,          \* history: calls of Start
    log,             \* the records kept and their timer
    kept, posted     \* history: number of records kept, and posted

tokens == <<localToken, token, header>>
logs == <<log, kept, posted>>
gatewayVars == <<phase, tokens, configsFetched, parentFetched, parentHost,
                 configTimer, heartbeatTimer, asked, answered, starts, logs>>

Tokens == {"local", "issued"}

GatewayInit ==
    /\ phase = "stopped"
    /\ localToken \in {"", "local"}
    /\ token = "" /\ header = ""
    /\ configsFetched = FALSE /\ parentFetched = FALSE
    /\ parentHost = "unset"
    /\ configTimer = FALSE /\ heartbeatTimer = FALSE
    /\ asked = [r \in Requests |-> 0]
    /\ answered = {}
    /\ starts = 0
    /\ log \in [list : {<< >>}, oldest : Garbage, newest : Garbage, timer : {FALSE}]
    /\ kept = 0 /\ posted = 0

Ask(kinds) == [r \in Requests |-> IF r \in kinds THEN asked[r] + 1 ELSE asked[r]]

\* The requests left after one of kind r is answered and those of kinds are made.
Exchange(r, kinds) ==
    [q \in Requests |-> (IF q \in kinds THEN asked[q] + 1 ELSE asked[q])
                        - (IF q = r THEN 1 ELSE 0)]

-----------------------------------------------------------------------------
Log(t) ==
    /\ kept < MaxLogs
    /\ log' = Keep(log, t)
    /\ kept' = kept + 1
    /\ UNCHANGED posted

\* The part of Start before its loop; without a token it refuses.
Start(t) ==
    /\ phase = "stopped"
    /\ starts < MaxStarts
    /\ asked["register"] < MaxRequests
    /\ starts' = starts + 1
    /\ token' = localToken
    /\ IF localToken = ""
       THEN UNCHANGED <<phase, header, asked, logs>>
       ELSE /\ header' = localToken
            /\ asked' = Ask({"register"})
            /\ phase' = "starting"
            /\ IF StatusPasses THEN Log(t) ELSE UNCHANGED logs
    /\ UNCHANGED <<localToken, configsFetched, parentFetched, parentHost,
                   configTimer, heartbeatTimer, answered>>

\* Mutant: either flag is enough to leave the loop.
StartReturns_EitherFlag ==
    /\ phase = "starting"
    /\ configsFetched \/ parentFetched
    /\ phase' = "running"
    /\ heartbeatTimer' = TRUE
    /\ UNCHANGED <<tokens, configsFetched, parentFetched,
                   parentHost, configTimer, asked, answered, starts, logs>>

\* The loop of Start ends and the heartbeat begins.
StartReturns ==
    /\ phase = "starting"
    /\ configsFetched /\ parentFetched
    /\ phase' = "running"
    /\ heartbeatTimer' = TRUE
    /\ UNCHANGED <<tokens, configsFetched, parentFetched,
                   parentHost, configTimer, asked, answered, starts, logs>>

\* Mutant: what is kept is dropped with its timer.
Stop_DropsLogs ==
    /\ phase = "running"
    /\ phase' = "stopped"
    /\ configTimer' = FALSE
    /\ log' = Persist(log)
    /\ UNCHANGED <<tokens, configsFetched, parentFetched, parentHost,
                   heartbeatTimer, asked, answered, starts, kept, posted>>

Stop ==
    /\ phase = "running"
    /\ phase' = "stopped"
    /\ configTimer' = FALSE
    /\ log' = [log EXCEPT !.timer = FALSE]
    /\ UNCHANGED <<tokens, configsFetched, parentFetched, parentHost,
                   heartbeatTimer, asked, answered, starts, kept, posted>>

-----------------------------------------------------------------------------
\* The logger hands a record over, while the service is one of its reactors.
Process(t) ==
    /\ phase # "stopped"
    /\ Log(t)
    /\ UNCHANGED <<phase, tokens, configsFetched, parentFetched, parentHost,
                   configTimer, heartbeatTimer, asked, answered, starts>>

OnPersistLogs ==
    /\ log.timer
    /\ log' = Persist(log)
    /\ posted' = posted + Len(log.list)
    /\ UNCHANGED <<phase, tokens, configsFetched, parentFetched, parentHost,
                   configTimer, heartbeatTimer, asked, answered, starts, kept>>

-----------------------------------------------------------------------------
\* Mutant: an embodiment token that differs from the local one is used, but the
\* header keeps the old one.
OnRegisteredEmbodiment_OldHeader(accepted, newToken) ==
    /\ asked["register"] > 0
    /\ IF accepted
       THEN /\ token' = newToken
            /\ localToken' = newToken
            /\ configTimer' = TRUE
            /\ asked' = Exchange("register", {"organization", "admins", "services"})
            /\ answered' = answered \cup {"register"}
            /\ UNCHANGED <<configsFetched, parentFetched>>
       ELSE /\ configsFetched' = TRUE /\ parentFetched' = TRUE
            /\ asked' = Exchange("register", {})
            /\ answered' = answered \cup {"refused"}
            /\ UNCHANGED <<token, localToken, configTimer>>
    /\ UNCHANGED <<phase, header, parentHost, heartbeatTimer, starts, logs>>

\* A registration is answered: the token is taken over, saved in the local
\* configuration, and three requests follow (UpdateConfig starts its timer).
OnRegisteredEmbodiment(accepted, newToken) ==
    /\ asked["register"] > 0
    /\ IF accepted
       THEN /\ IF newToken = "" THEN UNCHANGED <<token, header, localToken>>
               ELSE token' = newToken /\ header' = newToken /\ localToken' = newToken
            /\ configTimer' = TRUE
            /\ asked' = Exchange("register", {"organization", "admins", "services"})
            /\ answered' = answered \cup {"register"}
            /\ UNCHANGED <<configsFetched, parentFetched>>
       ELSE /\ configsFetched' = TRUE /\ parentFetched' = TRUE
            /\ asked' = Exchange("register", {})
            /\ answered' = answered \cup {"refused"}
            /\ UNCHANGED <<token, header, localToken, configTimer>>
    /\ UNCHANGED <<phase, parentHost, heartbeatTimer, starts, logs>>

\* UpdateConfig called by its recurring timer.
UpdateConfig ==
    /\ configTimer
    /\ asked["services"] < MaxRequests
    /\ asked' = Ask({"services"})
    /\ UNCHANGED <<phase, tokens, configsFetched, parentFetched, parentHost,
                   configTimer, heartbeatTimer, answered, starts, logs>>

Heartbeat ==
    /\ heartbeatTimer
    /\ asked["heartbeat"] < MaxRequests
    /\ asked' = Ask({"heartbeat"})
    /\ UNCHANGED <<phase, tokens, configsFetched, parentFetched, parentHost,
                   configTimer, heartbeatTimer, answered, starts, logs>>

\* OnOrganization: an empty parent id neither asks for the parent nor says
\* that there is none.
OnOrganization(given, parent) ==
    /\ asked["organization"] > 0
    /\ LET ask == given /\ ApplyParentHost /\ parent = "id"
           skip == given /\ ApplyParentHost /\ parent = "empty"
       IN  /\ asked' = Exchange("organization", IF ask THEN {"parent"} ELSE {})
           /\ parentFetched' = (parentFetched \/ ~(ask \/ skip))
           /\ answered' = answered \cup {"organization"}
                                  \cup (IF skip THEN {"emptyParent"} ELSE {})
    /\ UNCHANGED <<phase, tokens, configsFetched, parentHost,
                   configTimer, heartbeatTimer, starts, logs>>

\* Mutant: a parent that is not found is not given up.
OnParent_WaitsForHost(host) ==
    /\ asked["parent"] > 0
    /\ asked' = Exchange("parent", {})
    /\ parentHost' = IF host = "unknown" THEN parentHost ELSE host
    /\ parentFetched' = (host # "unknown")
    /\ answered' = answered \cup {"parent"}
    /\ UNCHANGED <<phase, tokens, configsFetched, configTimer,
                   heartbeatTimer, starts, logs>>

\* OnParent: no answer or an incomplete one ("unknown") leaves the host alone;
\* a robot that is its own parent has none ("").
OnParent(host) ==
    /\ asked["parent"] > 0
    /\ asked' = Exchange("parent", {})
    /\ parentHost' = IF host = "unknown" THEN parentHost ELSE host
    /\ parentFetched' = TRUE
    /\ answered' = answered \cup {"parent"}
    /\ UNCHANGED <<phase, tokens, configsFetched, configTimer,
                   heartbeatTimer, starts, logs>>

\* OnConfigured, with or without a list of services.
OnConfigured ==
    /\ asked["services"] > 0
    /\ asked' = Exchange("services", {})
    /\ configsFetched' = TRUE
    /\ answered' = answered \cup {"services"}
    /\ UNCHANGED <<phase, tokens, parentFetched, parentHost,
                   configTimer, heartbeatTimer, starts, logs>>

\* OnOrgAdminList and OnHeartbeat change nothing modelled here.
OnOther(kind) ==
    /\ asked[kind] > 0
    /\ asked' = Exchange(kind, {})
    /\ UNCHANGED <<phase, tokens, configsFetched, parentFetched, parentHost,
                   configTimer, heartbeatTimer, answered, starts, logs>>

Answer ==
    \/ \E ok \in BOOLEAN, t \in Tokens \cup {""} : OnRegisteredEmbodiment(ok, t)
    \/ \E ok \in BOOLEAN, p \in Parents : OnOrganization(ok, p)
    \/ \E h \in {"unknown", "", "host"} : OnParent(h)
    \/ OnConfigured
    \/ \E k \in {"admins", "heartbeat"} : OnOther(k)

GatewayNext ==
    \/ StartReturns \/ Stop \/ OnPersistLogs \/ UpdateConfig \/ Heartbeat \/ Answer
    \/ \E t \in Times : Start(t) \/ Process(t)

\* Every request is answered, and Start looks at its flags again and again.
GatewaySpec ==
    /\ GatewayInit /\ [][GatewayNext]_gatewayVars
    /\ WF_gatewayVars(StartReturns)
    /\ WF_gatewayVars(\E ok \in BOOLEAN, t \in Tokens \cup {""} : OnRegisteredEmbodiment(ok, t))
    /\ WF_gatewayVars(\E ok \in BOOLEAN, p \in Parents : OnOrganization(ok, p))
    /\ WF_gatewayVars(\E h \in {"unknown", "", "host"} : OnParent(h))
    /\ WF_gatewayVars(OnConfigured)

-----------------------------------------------------------------------------
\* The members keep their types.
GatewayTypeOK ==
    /\ phase \in {"stopped", "starting", "running"}
    /\ localToken \in Tokens \cup {""} /\ token \in Tokens \cup {""}
    /\ header \in Tokens \cup {""}
    /\ configsFetched \in BOOLEAN /\ parentFetched \in BOOLEAN
    /\ parentHost \in {"unset", "", "host"}
    /\ configTimer \in BOOLEAN /\ heartbeatTimer \in BOOLEAN
    /\ asked \in [Requests -> Nat]
    /\ answered \subseteq Requests \cup {"refused", "emptyParent"}
    /\ starts \in Nat
    /\ log \in LogState
    /\ kept \in Nat /\ posted \in Nat

\* The robot does not run on configuration nobody asked for: before Start
\* returns for the first time, either a registration was refused, or the
\* services and the organization have both been answered.
RunsOnAnswers ==
    phase = "running" =>
        "refused" \in answered \/ {"register", "services", "organization"} \subseteq answered

\* Requests are signed with the token the gateway issued last, and it is the
\* one a restart will use.
SignedWithCurrentToken ==
    phase # "stopped" => header = token /\ token = localToken

\* Start comes back: its loop on the main thread ends, whatever the gateway
\* answers and in whatever order, unless it answers with an empty parent id.
StartComesBack ==
    (phase = "starting") ~> (phase = "running" \/ "emptyParent" \in answered)

\* Across timers, stops and restarts every record kept is posted once or still
\* waits to be posted.
NoLogLost == posted + Len(log.list) = kept

\* The time span of a request is exactly that of its records.  The first
\* request is excepted: its times start from uninitialised memory.
SpanCoversLogs == posted > 0 => SpanIsExact(log)

\* While the service runs, whatever is kept has a timer to post it, also what
\* an earlier Stop left behind.
NoLogStranded == phase # "stopped" /\ log.list # << >> => log.timer
=============================================================================
