------------------------- MODULE RobotGateway_proofs -------------------------
(***************************************************************************)
(* Theorems about RobotGateway, for any tokens, times and bounds.  The     *)
(* invariant has three parts that do not need each other: what the flags   *)
(* and the requests under way say of the answers so far (Causes), the      *)
(* three copies of the token, and the records kept (LogsKept).             *)
(***************************************************************************)
EXTENDS RobotGateway, TLAPS

Assumed == /\ Times \subseteq Time /\ Garbage \subseteq Nat
           /\ Parents \subseteq {"none", "empty", "id"}

LEMMA AssumedHolds == Assumed
  BY TimesAssumption, GarbageAssumption, ParentsAssumption DEF Assumed

-----------------------------------------------------------------------------
(* The records.                                                            *)

\* A timer has records to post; after a post the span starts from nothing.
LogsKept ==
    /\ log \in LogState /\ kept \in Nat /\ posted \in Nat
    /\ NoLogLost
    /\ log.timer => log.list # << >>
    /\ posted > 0 => SpanIsExact(log)
    /\ posted > 0 /\ log.list = << >> => log.oldest = 0 /\ log.newest = 0

LEMMA KeepType ==
  ASSUME NEW l \in LogState, NEW t \in Time
  PROVE  /\ Keep(l, t) \in LogState
         /\ Len(Keep(l, t).list) = Len(l.list) + 1
         /\ Keep(l, t).list # << >>
         /\ Keep(l, t).timer
  BY DEF Keep, LogState, Time

\* Appending a record keeps an exact span exact, if an empty one is zero.
LEMMA KeepSpan ==
  ASSUME NEW l \in LogState, NEW t \in Time,
         SpanIsExact(l), l.list = << >> => l.oldest = 0 /\ l.newest = 0
  PROVE  SpanIsExact(Keep(l, t))
<1> DEFINE k == Keep(l, t)
           n == Len(l.list)
<1>1. /\ n \in Nat
      /\ DOMAIN l.list = 1 .. n
      /\ DOMAIN k.list = 1 .. (n + 1)
      /\ \A i \in 1 .. n : k.list[i] = l.list[i] /\ l.list[i] \in Time
      /\ k.list[n + 1] = t
  BY DEF Keep, LogState, Time
<1>2. /\ k.oldest = (IF t < l.oldest \/ l.oldest = 0 THEN t ELSE l.oldest)
      /\ k.newest = (IF t > l.newest \/ l.newest = 0 THEN t ELSE l.newest)
      /\ l.oldest \in Nat /\ l.newest \in Nat /\ t \in Nat /\ t # 0
  BY DEF Keep, LogState, Time
<1>3. CASE l.list = << >>
  <2>1. n = 0 /\ k.oldest = t /\ k.newest = t
    BY <1>2, <1>3
  <2>2. DOMAIN k.list = {1} /\ k.list[1] = t /\ t \in Nat
    BY <2>1, <1>1, <1>2
  <2>3. QED
    BY <2>1, <2>2 DEF SpanIsExact
<1>4. CASE l.list # << >>
  <2>1. /\ \A i \in 1 .. n : l.oldest <= l.list[i] /\ l.list[i] <= l.newest
        /\ \E i \in 1 .. n : l.list[i] = l.oldest
        /\ \E i \in 1 .. n : l.list[i] = l.newest
    BY <1>1, <1>4 DEF SpanIsExact
  <2>2. l.oldest # 0 /\ l.newest # 0
    BY <2>1, <1>1 DEF Time
  <2>3. k.oldest <= l.oldest /\ l.newest <= k.newest /\ k.oldest <= t /\ t <= k.newest
    BY <2>2, <1>2
  <2>4. ASSUME NEW i \in 1 .. (n + 1)
        PROVE  k.oldest <= k.list[i] /\ k.list[i] <= k.newest
    <3>1. CASE i = n + 1
      BY <3>1, <2>3, <1>1
    <3>2. CASE i \in 1 .. n
      <4>1. /\ k.list[i] = l.list[i] /\ l.list[i] \in Nat
            /\ l.oldest <= l.list[i] /\ l.list[i] <= l.newest
        BY <3>2, <2>1, <1>1 DEF Time
      <4>2. k.oldest \in Nat /\ k.newest \in Nat /\ k.oldest <= l.oldest /\ l.newest <= k.newest
        BY <2>3, <1>2
      <4>3. QED
        BY <4>1, <4>2, <1>2
    <3>3. QED
      BY <3>1, <3>2, <1>1
  <2>5. \E i \in 1 .. (n + 1) : k.list[i] = k.oldest
    <3>1. CASE k.oldest = t
      <4>1. n + 1 \in 1 .. (n + 1) /\ k.list[n + 1] = t
        BY <1>1
      <4>2. QED
        BY <4>1, <3>1
    <3>2. CASE k.oldest = l.oldest
      <4>1. PICK i \in 1 .. n : l.list[i] = l.oldest
        BY <2>1
      <4>2. i \in 1 .. (n + 1) /\ k.list[i] = l.list[i]
        BY <1>1
      <4>3. QED
        BY <4>1, <4>2, <3>2
    <3>3. QED
      BY <3>1, <3>2, <1>2
  <2>6. \E i \in 1 .. (n + 1) : k.list[i] = k.newest
    <3>1. CASE k.newest = t
      <4>1. n + 1 \in 1 .. (n + 1) /\ k.list[n + 1] = t
        BY <1>1
      <4>2. QED
        BY <4>1, <3>1
    <3>2. CASE k.newest = l.newest
      <4>1. PICK i \in 1 .. n : l.list[i] = l.newest
        BY <2>1
      <4>2. i \in 1 .. (n + 1) /\ k.list[i] = l.list[i]
        BY <1>1
      <4>3. QED
        BY <4>1, <4>2, <3>2
    <3>3. QED
      BY <3>1, <3>2, <1>2
  <2>7. QED
    BY <2>4, <2>5, <2>6, <1>1 DEF SpanIsExact
<1>5. QED
  BY <1>3, <1>4

LEMMA LogKeeps ==
  ASSUME LogsKept, NEW t \in Time, Log(t)
  PROVE  LogsKept'
<1>1. /\ log' = Keep(log, t) /\ kept' = kept + 1 /\ posted' = posted
      /\ log \in LogState /\ posted \in Nat /\ kept \in Nat
  BY DEF Log, LogsKept
<1>2. /\ log' \in LogState /\ Len(log'.list) = Len(log.list) + 1
      /\ log'.list # << >>
  BY <1>1, KeepType
<1>3. posted' > 0 => SpanIsExact(log')
  BY <1>1, KeepSpan DEF LogsKept
<1>4. posted + Len(log.list) = kept /\ Len(log.list) \in Nat
  BY <1>1 DEF LogsKept, NoLogLost, LogState
<1>5. NoLogLost'
  BY <1>1, <1>2, <1>4 DEF NoLogLost
<1>6. QED
  BY <1>1, <1>2, <1>3, <1>5 DEF LogsKept

LEMMA PersistKeeps ==
  ASSUME LogsKept, OnPersistLogs
  PROVE  LogsKept'
<1>1. /\ log' = [list |-> << >>, oldest |-> 0, newest |-> 0, timer |-> FALSE]
      /\ posted' = posted + Len(log.list) /\ kept' = kept
      /\ posted \in Nat /\ kept \in Nat /\ Len(log.list) \in Nat
      /\ posted + Len(log.list) = kept
  BY DEF OnPersistLogs, Persist, LogsKept, NoLogLost, LogState
<1>2. log' \in LogState /\ Len(log'.list) = 0
  BY <1>1 DEF LogState
<1>3. NoLogLost' /\ posted' \in Nat
  BY <1>1, <1>2 DEF NoLogLost
<1>4. SpanIsExact(log')
  BY <1>1 DEF SpanIsExact
<1>5. QED
  BY <1>1, <1>2, <1>3, <1>4 DEF LogsKept

LEMMA StopKeeps ==
  ASSUME LogsKept, Stop
  PROVE  LogsKept'
  BY DEF LogsKept, Stop, NoLogLost, LogState, SpanIsExact

\* No answer of the gateway touches the records.
LEMMA AnswerLeavesLogs ==
  ASSUME Answer
  PROVE  UNCHANGED <<logs, phase>>
  BY DEF Answer, OnRegisteredEmbodiment, OnOrganization, OnParent, OnConfigured,
     OnOther, logs

LEMMA LogsStep ==
  ASSUME LogsKept, [GatewayNext]_gatewayVars
  PROVE  LogsKept'
<1>1. CASE UNCHANGED logs
  BY <1>1 DEF LogsKept, NoLogLost, logs
<1>2. CASE Stop
  BY <1>2, StopKeeps
<1>3. CASE OnPersistLogs
  BY <1>3, PersistKeeps
<1>4. ASSUME NEW t \in Times, Log(t)
      PROVE  LogsKept'
  BY <1>4, LogKeeps, AssumedHolds DEF Assumed
<1>5. ASSUME NEW t \in Times, Start(t) \/ Process(t)
      PROVE  Log(t) \/ UNCHANGED logs
  BY <1>5 DEF Start, Process, logs
<1>6. ASSUME StartReturns \/ UpdateConfig \/ Heartbeat
      PROVE  UNCHANGED logs
  BY <1>6 DEF StartReturns, UpdateConfig, Heartbeat
<1>7. ASSUME UNCHANGED gatewayVars
      PROVE  UNCHANGED logs
  BY <1>7 DEF gatewayVars
<1>8. ASSUME Answer
      PROVE  UNCHANGED logs
  BY <1>8, AnswerLeavesLogs
<1>9. CASE \E t \in Times : Start(t) \/ Process(t)
  BY <1>9, <1>5, <1>4, <1>1
<1>10. CASE StartReturns \/ UpdateConfig \/ Heartbeat \/ Answer \/ UNCHANGED gatewayVars
  BY <1>10, <1>6, <1>7, <1>8, <1>1
<1>11. QED
  BY <1>2, <1>3, <1>9, <1>10 DEF GatewayNext

LEMMA LogStates ==
  ASSUME NEW list \in Seq(Time), NEW a \in Nat, NEW b \in Nat, NEW timer \in BOOLEAN
  PROVE  [list |-> list, oldest |-> a, newest |-> b, timer |-> timer] \in LogState
  BY DEF LogState

LEMMA LogsInit ==
  ASSUME GatewayInit
  PROVE  LogsKept
<1>1. log \in [list : {<< >>}, oldest : Garbage, newest : Garbage, timer : {FALSE}]
      /\ kept = 0 /\ posted = 0
  BY DEF GatewayInit
<1>2. /\ log = [list |-> << >>, oldest |-> log.oldest, newest |-> log.newest, timer |-> FALSE]
      /\ log.oldest \in Nat /\ log.newest \in Nat
  BY <1>1, AssumedHolds DEF Assumed
<1>3. << >> \in Seq(Time)
  OBVIOUS
<1>4. log \in LogState
  BY <1>2, <1>3, LogStates
<1>5. log.list = << >> /\ log.timer = FALSE /\ Len(log.list) = 0
  BY <1>2
<1>6. NoLogLost
  BY <1>1, <1>5 DEF NoLogLost
<1>7. QED
  BY <1>1, <1>4, <1>5, <1>6 DEF LogsKept

LEMMA LogsInvariant == GatewaySpec => []LogsKept
  BY LogsInit, LogsStep, PTL DEF GatewaySpec

\* Every record kept is posted once or waits to be posted, for any records.
THEOREM EveryLogPosted == GatewaySpec => []NoLogLost
<1>1. LogsKept => NoLogLost
  BY DEF LogsKept
<1>2. QED
  BY <1>1, LogsInvariant, PTL

\* Each request after the first declares exactly the span of its records.
THEOREM SpansAreExact == GatewaySpec => []SpanCoversLogs
<1>1. LogsKept => SpanCoversLogs
  BY DEF LogsKept, SpanCoversLogs
<1>2. QED
  BY <1>1, LogsInvariant, PTL

\* While the service runs, what is kept has a timer to post it, if the status
\* record that Start itself logs is one that is kept.
THEOREM NoLogWaitsForever ==
  ASSUME StatusPasses
  PROVE  GatewaySpec => []NoLogStranded
<1> DEFINE I == LogsKept /\ NoLogStranded
<1>1. GatewayInit => I
  BY LogsInit DEF GatewayInit, NoLogStranded
<1>2. ASSUME I, [GatewayNext]_gatewayVars
      PROVE  I'
  <2>1. LogsKept'
    BY <1>2, LogsStep
  <2> SUFFICES NoLogStranded'
    BY <2>1
  <2>2. ASSUME NEW t \in Times, Log(t)
        PROVE  NoLogStranded'
    <3>1. log' = Keep(log, t) /\ log \in LogState /\ t \in Time
      BY <1>2, <2>2, AssumedHolds DEF Log, LogsKept, Assumed
    <3>2. QED
      BY <3>1, KeepType DEF NoLogStranded
  <2>3. CASE \E t \in Times : Start(t) \/ Process(t)
    <3>1. ASSUME NEW t \in Times, Start(t) \/ Process(t)
          PROVE  Log(t) \/ phase' = "stopped"
      BY <3>1 DEF Start, Process
    <3>2. QED
      BY <2>3, <3>1, <2>2 DEF NoLogStranded
  <2>4. CASE OnPersistLogs
    BY <2>4 DEF OnPersistLogs, Persist, NoLogStranded
  <2>5. CASE Stop
    BY <2>5 DEF Stop, NoLogStranded
  <2>6. CASE StartReturns
    BY <2>6, <1>2 DEF StartReturns, logs, NoLogStranded
  <2>7. CASE UpdateConfig \/ Heartbeat \/ UNCHANGED gatewayVars
    BY <2>7, <1>2 DEF UpdateConfig, Heartbeat, gatewayVars, logs, NoLogStranded
  <2>8. CASE Answer
    BY <2>8, <1>2, AnswerLeavesLogs DEF logs, NoLogStranded
  <2>9. QED
    BY <1>2, <2>3, <2>4, <2>5, <2>6, <2>7, <2>8 DEF GatewayNext
<1>3. I => NoLogStranded
  OBVIOUS
<1>4. QED
  BY <1>1, <1>2, <1>3, PTL DEF GatewaySpec

-----------------------------------------------------------------------------
(* The tokens.                                                             *)

LEMMA TokensStep ==
  ASSUME SignedWithCurrentToken, [GatewayNext]_gatewayVars
  PROVE  SignedWithCurrentToken'
<1>1. ASSUME NEW t \in Times, Start(t)
      PROVE  SignedWithCurrentToken'
  BY <1>1 DEF Start, SignedWithCurrentToken
<1>2. ASSUME NEW ok \in BOOLEAN, NEW t \in Tokens \cup {""}, OnRegisteredEmbodiment(ok, t)
      PROVE  SignedWithCurrentToken'
  <2>1. /\ phase' = phase
        /\ \/ header' = t /\ token' = t /\ localToken' = t
           \/ UNCHANGED tokens
    BY <1>2 DEF OnRegisteredEmbodiment, tokens
  <2>2. QED
    BY <2>1 DEF SignedWithCurrentToken, tokens
<1>3. CASE UNCHANGED tokens /\ (phase' = phase \/ phase' = "stopped" \/ phase = "starting")
  BY <1>3 DEF SignedWithCurrentToken, tokens
<1>4. ASSUME \/ \E t \in Times : Process(t)
             \/ StartReturns \/ Stop \/ OnPersistLogs \/ UpdateConfig \/ Heartbeat
             \/ UNCHANGED gatewayVars
      PROVE  UNCHANGED tokens /\ (phase' = phase \/ phase' = "stopped" \/ phase = "starting")
  BY <1>4 DEF Process, StartReturns, Stop, OnPersistLogs, UpdateConfig, Heartbeat,
     gatewayVars, tokens
<1>5. ASSUME \/ \E ok \in BOOLEAN, p \in Parents : OnOrganization(ok, p)
             \/ \E h \in {"unknown", "", "host"} : OnParent(h)
             \/ OnConfigured
             \/ \E k \in {"admins", "heartbeat"} : OnOther(k)
      PROVE  UNCHANGED tokens /\ phase' = phase
  BY <1>5 DEF OnOrganization, OnParent, OnConfigured, OnOther, tokens
<1>6. CASE Answer
  BY <1>6, <1>2, <1>3, <1>5 DEF Answer
<1>7. QED
  BY <1>1, <1>3, <1>4, <1>6 DEF GatewayNext

\* The header, the token in use and the one a restart will use are the same
\* while the service runs, whatever the registrations answer and when.
THEOREM TokensAgree == GatewaySpec => []SignedWithCurrentToken
<1>1. GatewayInit => SignedWithCurrentToken
  BY DEF GatewayInit, SignedWithCurrentToken
<1>2. QED
  BY <1>1, TokensStep, PTL DEF GatewaySpec

-----------------------------------------------------------------------------
(* What the answers so far have caused.                                    *)

Registered == "register" \in answered
Organized  == Registered /\ "organization" \in answered
Configured == Registered /\ "services" \in answered

Causes ==
    /\ asked \in [Requests -> Nat]
    /\ configsFetched => "refused" \in answered \/ Configured
    /\ parentFetched => "refused" \in answered \/ Organized
    /\ phase = "running" => configsFetched /\ parentFetched
    /\ configTimer => Registered
    /\ asked["services"] > 0 => Registered
    /\ asked["organization"] > 0 => Registered
    /\ asked["parent"] > 0 => Organized

LEMMA CausesInit ==
  ASSUME GatewayInit
  PROVE  Causes
<1>1. asked \in [Requests -> Nat] /\ \A r \in Requests : asked[r] = 0
  BY DEF GatewayInit
<1>2. /\ phase # "running" /\ configsFetched = FALSE /\ parentFetched = FALSE
      /\ configTimer = FALSE
  BY DEF GatewayInit
<1>3. QED
  BY <1>1, <1>2 DEF Causes, Requests

\* What an answer of kind r and the requests of kinds it makes leave behind.
LEMMA Exchanged ==
  ASSUME asked \in [Requests -> Nat], NEW r \in Requests, asked[r] > 0,
         NEW kinds, asked' = Exchange(r, kinds)
  PROVE  /\ asked' \in [Requests -> Nat]
         /\ \A q \in Requests : asked'[q] > 0 => asked[q] > 0 \/ q \in kinds
  BY DEF Exchange

LEMMA ExchangedForNone ==
  ASSUME asked \in [Requests -> Nat], NEW r \in Requests, asked[r] > 0,
         asked' = Exchange(r, {})
  PROVE  /\ asked' \in [Requests -> Nat]
         /\ \A q \in Requests : asked'[q] > 0 => asked[q] > 0
  BY DEF Exchange

LEMMA Asked ==
  ASSUME asked \in [Requests -> Nat], NEW kinds, asked' = Ask(kinds)
  PROVE  /\ asked' \in [Requests -> Nat]
         /\ \A q \in Requests : asked'[q] > 0 => asked[q] > 0 \/ q \in kinds
  BY DEF Ask

LEMMA CausesStep ==
  ASSUME Causes, [GatewayNext]_gatewayVars
  PROVE  Causes'
<1>0. asked \in [Requests -> Nat]
  BY DEF Causes, Causes
<1> USE DEF Registered, Organized, Configured
<1>1. ASSUME NEW t \in Times, Start(t)
      PROVE  Causes'
  <2>1. asked' = asked \/ asked' = Ask({"register"})
    BY <1>1 DEF Start, Causes
  <2>2. /\ asked' \in [Requests -> Nat]
        /\ \A q \in Requests \ {"register"} : asked'[q] > 0 => asked[q] > 0
    BY <2>1, <1>0, Asked DEF Requests
  <2>3. /\ phase' # "running"
        /\ UNCHANGED <<configsFetched, parentFetched, configTimer, answered>>
    BY <1>1 DEF Start, Causes
  <2>4. QED
    BY <2>2, <2>3 DEF Requests, Causes
<1>2. CASE StartReturns \/ Stop \/ OnPersistLogs \/ UNCHANGED gatewayVars
  BY <1>2 DEF StartReturns, Stop, OnPersistLogs, gatewayVars, Causes
<1>3. ASSUME NEW t \in Times, Process(t)
      PROVE  Causes'
  BY <1>3 DEF Process, Causes
<1>4. CASE UpdateConfig
  <2>1. /\ asked' \in [Requests -> Nat]
        /\ \A q \in Requests : asked'[q] > 0 => asked[q] > 0 \/ q = "services"
    BY <1>4, <1>0, Asked DEF UpdateConfig, Requests
  <2>2. QED
    BY <1>4, <2>1 DEF UpdateConfig, Requests, Causes
<1>5. CASE Heartbeat
  <2>1. /\ asked' \in [Requests -> Nat]
        /\ \A q \in Requests : asked'[q] > 0 => asked[q] > 0 \/ q = "heartbeat"
    BY <1>5, <1>0, Asked DEF Heartbeat, Requests
  <2>2. QED
    BY <1>5, <2>1 DEF Heartbeat, Requests, Causes
<1>6. ASSUME NEW ok \in BOOLEAN, NEW t \in Tokens \cup {""}, OnRegisteredEmbodiment(ok, t)
      PROVE  Causes'
  <2> DEFINE kinds == IF ok THEN {"organization", "admins", "services"} ELSE {}
  <2>1. asked["register"] > 0 /\ asked' = Exchange("register", kinds)
    BY <1>6 DEF OnRegisteredEmbodiment, Causes
  <2> HIDE DEF kinds
  <2>2. /\ asked' \in [Requests -> Nat]
        /\ \A q \in Requests : asked'[q] > 0 => asked[q] > 0 \/ q \in kinds
    BY <2>1, <1>0, Exchanged DEF Requests
  <2>3. CASE ok
    <3>1. /\ answered' = answered \cup {"register"} /\ configTimer' = TRUE
          /\ UNCHANGED <<phase, configsFetched, parentFetched>>
          /\ "parent" \notin kinds
      BY <1>6, <2>3 DEF OnRegisteredEmbodiment, kinds, Causes
    <3>2. QED
      BY <3>1, <2>2 DEF Requests, Causes
  <2>4. CASE ~ok
    <3>1. /\ answered' = answered \cup {"refused"} /\ kinds = {}
          /\ configsFetched' = TRUE /\ parentFetched' = TRUE
          /\ UNCHANGED <<phase, configTimer>>
      BY <1>6, <2>4 DEF OnRegisteredEmbodiment, kinds, Causes
    <3>2. QED
      BY <3>1, <2>2 DEF Requests, Causes
  <2>5. QED
    BY <2>3, <2>4
<1>7. ASSUME NEW given \in BOOLEAN, NEW p \in Parents, OnOrganization(given, p)
      PROVE  Causes'
  <2> DEFINE kinds == IF given /\ ApplyParentHost /\ p = "id" THEN {"parent"} ELSE {}
  <2>1. /\ asked["organization"] > 0 /\ asked' = Exchange("organization", kinds)
        /\ answered \subseteq answered' /\ "organization" \in answered'
        /\ UNCHANGED <<phase, configsFetched, configTimer>>
        /\ parentFetched => parentFetched'
    BY <1>7 DEF OnOrganization, Causes
  <2>2. kinds \subseteq {"parent"}
    OBVIOUS
  <2> HIDE DEF kinds
  <2>3. /\ asked' \in [Requests -> Nat]
        /\ \A q \in Requests : asked'[q] > 0 => asked[q] > 0 \/ q \in kinds
    BY <2>1, <1>0, Exchanged DEF Requests
  <2>4. Registered /\ Organized'
    BY <2>1 DEF Causes, Requests
  <2>5. QED
    BY <2>1, <2>2, <2>3, <2>4 DEF Requests, Causes
<1>8. ASSUME NEW h \in {"unknown", "", "host"}, OnParent(h)
      PROVE  Causes'
  <2>1. asked["parent"] > 0 /\ asked' = Exchange("parent", {})
    BY <1>8 DEF OnParent, Causes
  <2>2. /\ asked' \in [Requests -> Nat]
        /\ \A q \in Requests : asked'[q] > 0 => asked[q] > 0
    BY <2>1, <1>0, ExchangedForNone DEF Requests
  <2>3. QED
    BY <1>8, <2>1, <2>2 DEF OnParent, Requests, Causes
<1>9. CASE OnConfigured
  <2>1. asked["services"] > 0 /\ asked' = Exchange("services", {})
    BY <1>9 DEF OnConfigured, Causes
  <2>2. /\ asked' \in [Requests -> Nat]
        /\ \A q \in Requests : asked'[q] > 0 => asked[q] > 0
    BY <2>1, <1>0, ExchangedForNone DEF Requests
  <2>3. QED
    BY <1>9, <2>1, <2>2 DEF OnConfigured, Requests, Causes
<1>10. ASSUME NEW k \in {"admins", "heartbeat"}, OnOther(k)
       PROVE  Causes'
  <2>1. asked[k] > 0 /\ asked' = Exchange(k, {}) /\ k \in Requests
    BY <1>10 DEF OnOther, Requests, Causes
  <2>2. /\ asked' \in [Requests -> Nat]
        /\ \A q \in Requests : asked'[q] > 0 => asked[q] > 0
    BY <2>1, <1>0, ExchangedForNone DEF Requests
  <2>3. QED
    BY <1>10, <2>2 DEF OnOther, Requests, Causes
<1>11. CASE Answer
  BY <1>11, <1>6, <1>7, <1>8, <1>9, <1>10 DEF Answer
<1>12. QED
  BY <1>1, <1>2, <1>3, <1>4, <1>5, <1>11 DEF GatewayNext

\* The robot runs only on what the gateway answered: a refusal, or all three of
\* the registration, its services and its organization.
THEOREM NothingAssumed == GatewaySpec => []RunsOnAnswers
<1>1. Causes => RunsOnAnswers
  BY DEF Causes, RunsOnAnswers, Registered, Organized, Configured
<1>2. QED
  BY <1>1, CausesInit, CausesStep, PTL DEF GatewaySpec

-----------------------------------------------------------------------------
(* The types.  Those of the requests and the records are parts of Causes   *)
(* and LogsKept; the others need no more than themselves.                  *)

OthersTyped ==
    /\ phase \in {"stopped", "starting", "running"}
    /\ localToken \in Tokens \cup {""} /\ token \in Tokens \cup {""}
    /\ header \in Tokens \cup {""}
    /\ configsFetched \in BOOLEAN /\ parentFetched \in BOOLEAN
    /\ parentHost \in {"unset", "", "host"}
    /\ configTimer \in BOOLEAN /\ heartbeatTimer \in BOOLEAN
    /\ answered \subseteq Requests \cup {"refused", "emptyParent"}
    /\ starts \in Nat

LEMMA OthersTypedStep ==
  ASSUME OthersTyped, [GatewayNext]_gatewayVars
  PROVE  OthersTyped'
<1> USE DEF OthersTyped, tokens
<1>1. ASSUME NEW t \in Times, Start(t)
      PROVE  OthersTyped'
  <2>1. /\ starts' = starts + 1 /\ token' = localToken
        /\ phase' \in {phase, "starting"} /\ header' \in {header, localToken}
    BY <1>1 DEF Start
  <2>2. UNCHANGED <<localToken, configsFetched, parentFetched, parentHost,
                    configTimer, heartbeatTimer, answered>>
    BY <1>1 DEF Start
  <2>3. starts \in Nat /\ starts' = starts + 1
    BY <2>1
  <2>4. starts' \in Nat
    BY ONLY <2>3
  <2>5. /\ phase' \in {"stopped", "starting", "running"}
        /\ localToken' \in Tokens \cup {""} /\ token' \in Tokens \cup {""}
        /\ header' \in Tokens \cup {""}
    BY <2>1, <2>2
  <2>6. QED
    BY <2>2, <2>4, <2>5
<1>2. CASE StartReturns \/ Stop \/ OnPersistLogs \/ UNCHANGED gatewayVars
  BY <1>2 DEF StartReturns, Stop, OnPersistLogs, gatewayVars
<1>3. ASSUME NEW t \in Times, Process(t)
      PROVE  OthersTyped'
  BY <1>3 DEF Process
<1>4. CASE UpdateConfig \/ Heartbeat
  BY <1>4 DEF UpdateConfig, Heartbeat
<1>5. ASSUME NEW ok \in BOOLEAN, NEW t \in Tokens \cup {""}, OnRegisteredEmbodiment(ok, t)
      PROVE  OthersTyped'
  BY <1>5 DEF OnRegisteredEmbodiment, Requests
<1>6. ASSUME NEW given \in BOOLEAN, NEW p \in Parents, OnOrganization(given, p)
      PROVE  OthersTyped'
  BY <1>6 DEF OnOrganization, Requests
<1>7. ASSUME NEW h \in {"unknown", "", "host"}, OnParent(h)
      PROVE  OthersTyped'
  BY <1>7 DEF OnParent, Requests
<1>8. CASE OnConfigured
  BY <1>8 DEF OnConfigured, Requests
<1>9. ASSUME NEW k \in {"admins", "heartbeat"}, OnOther(k)
      PROVE  OthersTyped'
  BY <1>9 DEF OnOther
<1> QED
  BY <1>1, <1>2, <1>3, <1>4, <1>5, <1>6, <1>7, <1>8, <1>9 DEF GatewayNext, Answer

\* The service's members keep their types, for any tokens, times and bounds.
THEOREM GatewayTyped == GatewaySpec => []GatewayTypeOK
<1>1. ASSUME GatewayInit
      PROVE  OthersTyped
  <2>1. /\ phase = "stopped" /\ localToken \in {"", "local"} /\ token = "" /\ header = ""
        /\ parentHost = "unset" /\ answered = {} /\ starts = 0
    BY <1>1 DEF GatewayInit
  <2>2. /\ configsFetched \in BOOLEAN /\ parentFetched \in BOOLEAN
        /\ configTimer \in BOOLEAN /\ heartbeatTimer \in BOOLEAN
    BY <1>1 DEF GatewayInit
  <2>3. QED
    BY <2>1, <2>2 DEF OthersTyped, Tokens
<1>2. LogsKept /\ Causes /\ OthersTyped => GatewayTypeOK
  BY DEF LogsKept, Causes, OthersTyped, GatewayTypeOK
<1> QED
  BY <1>1, <1>2, OthersTypedStep, LogsInvariant, CausesInit, CausesStep, PTL DEF GatewaySpec
=============================================================================
