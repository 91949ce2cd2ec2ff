----------------------------- MODULE Classifiers -----------------------------
(***************************************************************************)
(* How NLCProxy keeps a trained classifier at hand: it looks up the        *)
(* classifiers of its name again and again (a FindRequest of the service   *)
(* NaturalLanguageClassifier), chooses the newest that is available,       *)
(* trains a new one when its file has changed, and deletes old ones.       *)
(*                                                                         *)
(* External: the classifier server, which answers every request once, in   *)
(* any order, or with nothing while it is flaky.  It lists classifiers     *)
(* without their status.  Times are in units of                            *)
(* CHECK_CLASSIFIERS_INTERVAL; m_Created is UTC, and mktime reads it as    *)
(* local time, which is off by the zone.                                   *)
(***************************************************************************)
EXTENDS Integers, Sequences, FiniteSets, SequencesExt

CONSTANTS
    Zones,            \* offsets of local time from UTC, east positive
    FirstTime,        \* what the clock shows at first, far from the epoch
    MaxTime,          \* bound: the clock
    MaxClassifiers,   \* bound: classifiers ever on the server
    MaxLookups        \* bound: lookups and uploads under way together

ASSUME ZonesAssumption == Zones \subseteq Int /\ Zones # {}
ASSUME FirstTimeAssumption == FirstTime \in Nat /\ \A z \in Zones : FirstTime > z
ASSUME ClassifierBoundsAssumption ==
    /\ MaxTime \in Nat /\ FirstTime <= MaxTime
    /\ MaxClassifiers \in Nat /\ MaxClassifiers >= 2   \* the server may have two at first
    /\ MaxLookups \in Nat \ {0}

Ids == 1 .. MaxClassifiers
Slots == 1 .. MaxLookups
Interval == 1

Status == {"Training", "Available", "Failed", "unlisted"}
Classifier == [id : Ids, own : BOOLEAN, created : FirstTime .. MaxTime, status : Status]

VARIABLES
    now, zone,
    flaky,         \* whether the server may fail now
    configured,    \* m_pNLC->IsConfigured()
    fileTime,      \* modification time of m_ClassifierFile, 0 if it is missing
    server,        \* the server's classifiers, as it lists them
    created,       \* number of classifiers the server has ever had
    finds,         \* the FindRequest objects
    classifierId,  \* m_ClassifierId, 0 if empty
    timer,         \* m_spClassifiersTimer is set
    uploads,       \* training requests under way
    deletes        \* ids of the delete requests under way

environment == <<now, zone, flaky, configured>>
proxy == <<classifierId, timer>>
classifierVars == <<environment, fileTime, server, created, finds, proxy, uploads, deletes>>

\* "pending" is m_nPendingRequests; what the server has yet to answer is
\* "listing" and "asking".
FindRequest ==
    [live : BOOLEAN, pending : Nat, listing : BOOLEAN, asking : SUBSET Ids,
     list : Seq(Classifier)]

Freed == [live |-> FALSE, pending |-> 0, listing |-> FALSE, asking |-> {}, list |-> << >>]

Initially(own, n) == [id |-> n, own |-> own, created |-> FirstTime, status |-> "Available"]

ClassifiersInit ==
    /\ now = FirstTime /\ zone \in Zones
    /\ flaky \in BOOLEAN /\ configured \in BOOLEAN
    /\ fileTime \in {0, FirstTime}
    /\ server \in {<< >>, <<Initially(TRUE, 1)>>, <<Initially(FALSE, 1), Initially(TRUE, 2)>>}
    /\ created = Len(server)
    /\ finds = [f \in Slots |-> Freed]
    /\ classifierId \in 0 .. Len(server)
    /\ timer = FALSE
    /\ uploads = 0
    /\ deletes = {}

-----------------------------------------------------------------------------
(* The lookup of the service: FindRequest.                                 *)

Busy == Cardinality({f \in Slots : finds[f].live}) + uploads

\* Called by Start and by the timer.
CheckClassifiers ==
    /\ fileTime # 0
    /\ timer' = TRUE
    /\ IF configured
       THEN /\ Busy < MaxLookups
            /\ LET f == CHOOSE g \in Slots : ~finds[g].live
               IN  finds' = [finds EXCEPT ![f] = [Freed EXCEPT !.live = TRUE, !.pending = 1,
                                                              !.listing = TRUE]]
       ELSE UNCHANGED finds
    /\ UNCHANGED <<environment, fileTime, server, created, classifierId, uploads, deletes>>

\* One turn of the loop over the listed classifiers: ask for one of the right
\* name, or put the last one in the place of another.
KeepOrSwap(acc) ==
    IF acc.list[acc.i].own
    THEN [acc EXCEPT !.i = @ + 1, !.asking = @ \cup {acc.list[acc.i].id}]
    ELSE [acc EXCEPT !.list = Front([@ EXCEPT ![acc.i] = Last(acc.list)])]

\* Every turn moves on or shortens the list, so there are as many as classifiers.
Kept(list) ==
    LET loop[n \in 0 .. Len(list)] ==
            IF n = 0 THEN [i |-> 1, list |-> list, asking |-> {}] ELSE KeepOrSwap(loop[n - 1])
    IN  loop[Len(list)]

Unlisted(list) == [i \in DOMAIN list |-> [list[i] EXCEPT !.status = "unlisted"]]

Update(list, c) == [i \in DOMAIN list |-> IF list[i].id = c.id THEN c ELSE list[i]]

-----------------------------------------------------------------------------
(* The choice of the proxy: OnGetClassifiers.                              *)

ClassifierTime(c) == c.created - zone

\* Mutant: the first one that is available.
Newer_FirstListed(best, c) ==
    IF c.status = "Available" /\ best.id = 0
    THEN [id |-> c.id, time |-> ClassifierTime(c)] ELSE best

\* One turn of the loop over the listed classifiers.
Newer(best, c) ==
    IF c.status = "Available" /\ ClassifierTime(c) > best.time
    THEN [id |-> c.id, time |-> ClassifierTime(c)] ELSE best

\* The newest available classifier, the first listed of several; id 0 if none.
Choose(list) ==
    LET best[n \in 0 .. Len(list)] ==
            IF n = 0 THEN [id |-> 0, time |-> 0] ELSE Newer(best[n - 1], list[n])
    IN  best[Len(list)]

\* Mutant: trains only where there is none.
Outdated_OnlyWithout(list) == fileTime > 0 /\ list = << >>

Outdated(list) ==
    /\ fileTime > 0
    /\ \A i \in DOMAIN list : ClassifierTime(list[i]) >= 0 => ClassifierTime(list[i]) < fileTime

\* Mutant: a classifier in training is reason enough to delete older ones.
Purged_BeforeNewest(list) ==
    LET best == Choose(list)
    IN  {c.id : c \in {d \in ToSet(list) :
            /\ d.id # best.id /\ ClassifierTime(d) >= 0
            /\ \E e \in ToSet(list) : ClassifierTime(e) - ClassifierTime(d) > Interval}}

Purged(list) ==
    LET best == Choose(list)
    IN  {c.id : c \in {d \in ToSet(list) : /\ d.id # best.id
                                          /\ ClassifierTime(d) >= 0
                                          /\ best.time - ClassifierTime(d) > Interval}}

\* m_Callback(m_pClassifiers) and delete this.
Found(f, list) ==
    /\ finds' = [finds EXCEPT ![f] = Freed]
    /\ classifierId' = Choose(list).id
    /\ uploads' = IF Outdated(list) THEN uploads + 1 ELSE uploads
    /\ deletes' = deletes \cup Purged(list)

NotFound(f) ==
    /\ finds' = [finds EXCEPT ![f] = Freed]
    /\ UNCHANGED <<classifierId, uploads, deletes>>

Waits(f, find) ==
    /\ finds' = [finds EXCEPT ![f] = find]
    /\ UNCHANGED <<classifierId, uploads, deletes>>

OnClassifiers(f, ok) ==
    /\ finds[f].listing
    /\ ok \/ flaky
    /\ LET kept == Kept(server)
           list == Unlisted(kept.list)
           pending == finds[f].pending - 1 + Cardinality(kept.asking)
       IN  CASE ~ok -> NotFound(f)
             [] ok /\ pending = 0 -> Found(f, list)
             [] ok /\ pending # 0 -> Waits(f, [live |-> TRUE, pending |-> pending, listing |-> FALSE,
                                    asking |-> kept.asking, list |-> list])
    /\ UNCHANGED <<environment, fileTime, server, created, timer>>

\* Mutant: only a classifier counts as an answer.
OnClassifier_CountsFound(f, id, ok) ==
    /\ id \in finds[f].asking
    /\ ok \/ flaky \/ \A c \in ToSet(server) : c.id # id
    /\ ok => \E c \in ToSet(server) : c.id = id
    /\ LET find == finds[f]
           list == IF ok THEN Update(find.list, CHOOSE c \in ToSet(server) : c.id = id)
                         ELSE find.list
       IN  IF ok /\ find.pending = 1
           THEN Found(f, list)
           ELSE Waits(f, [find EXCEPT !.pending = IF ok THEN @ - 1 ELSE @,
                                      !.asking = @ \ {id}, !.list = list])
    /\ UNCHANGED <<environment, fileTime, server, created, timer>>

OnClassifier(f, id, ok) ==
    /\ id \in finds[f].asking
    /\ ok \/ flaky \/ \A c \in ToSet(server) : c.id # id
    /\ ok => \E c \in ToSet(server) : c.id = id
    /\ LET find == finds[f]
           list == IF ok THEN Update(find.list, CHOOSE c \in ToSet(server) : c.id = id)
                         ELSE find.list
       IN  IF find.pending = 1
           THEN Found(f, list)
           ELSE Waits(f, [find EXCEPT !.pending = @ - 1, !.asking = @ \ {id}, !.list = list])
    /\ UNCHANGED <<environment, fileTime, server, created, timer>>

-----------------------------------------------------------------------------
(* External: the server, the file and the clock.                           *)

UploadArrives(ok) ==
    /\ uploads > 0
    /\ ok \/ flaky \/ created = MaxClassifiers
    /\ ok => created < MaxClassifiers
    /\ uploads' = uploads - 1
    /\ IF ok
       THEN /\ server' = Append(server, [id |-> created + 1, own |-> TRUE,
                                         created |-> now, status |-> "Training"])
            /\ created' = created + 1
       ELSE UNCHANGED <<server, created>>
    /\ UNCHANGED <<environment, fileTime, finds, proxy, deletes>>

TrainingEnds(i, status) ==
    /\ server[i].status = "Training"
    /\ status = "Failed" => flaky
    /\ server' = [server EXCEPT ![i].status = status]
    /\ UNCHANGED <<environment, fileTime, created, finds, proxy, uploads, deletes>>

DeleteArrives(id, ok) ==
    /\ id \in deletes
    /\ ok \/ flaky
    /\ deletes' = deletes \ {id}
    /\ server' = IF ok THEN RemoveFirstMatch(server, LAMBDA c : c.id = id) ELSE server
    /\ UNCHANGED <<environment, fileTime, created, finds, proxy, uploads>>

\* A phrase is appended to the file, which must exist.
RetrainClassifier ==
    /\ fileTime # 0
    /\ fileTime' = now
    /\ UNCHANGED <<environment, server, created, finds, proxy, uploads, deletes>>

Tick ==
    /\ now < MaxTime
    /\ now' = now + 1
    /\ UNCHANGED <<zone, flaky, configured, fileTime, server, created, finds, proxy,
                   uploads, deletes>>

Weather ==
    /\ flaky' = ~flaky
    /\ UNCHANGED <<now, zone, configured, fileTime, server, created, finds, proxy,
                   uploads, deletes>>

-----------------------------------------------------------------------------
Lookup(f) ==
    \E ok \in BOOLEAN : OnClassifiers(f, ok) \/ \E id \in Ids : OnClassifier(f, id, ok)

ClassifiersNext ==
    \/ CheckClassifiers \/ RetrainClassifier \/ Tick \/ Weather
    \/ \E f \in Slots : Lookup(f)
    \/ \E ok \in BOOLEAN : UploadArrives(ok) \/ \E id \in Ids : DeleteArrives(id, ok)
    \/ \E i \in DOMAIN server, status \in {"Available", "Failed"} : TrainingEnds(i, status)

\* The timer fires again and again, the server answers, and trains.
ClassifiersSpec ==
    /\ ClassifiersInit /\ [][ClassifiersNext]_classifierVars
    /\ WF_classifierVars(timer /\ CheckClassifiers)
    /\ \A f \in Slots : WF_classifierVars(Lookup(f))
    /\ WF_classifierVars(\E ok \in BOOLEAN : UploadArrives(ok))
    /\ WF_classifierVars(\E i \in DOMAIN server, status \in {"Available", "Failed"} :
                            TrainingEnds(i, status))

-----------------------------------------------------------------------------
Own == {c \in ToSet(server) : c.own}
Available == {c \in Own : c.status = "Available"}

\* The variables keep the types of the code's members, and a lookup finds and
\* touches only classifiers of its name (the loop of FindRequest that swaps
\* the others out while it asks).
ClassifiersTypeOK ==
    /\ now \in FirstTime .. MaxTime /\ zone \in Zones
    /\ flaky \in BOOLEAN /\ configured \in BOOLEAN /\ timer \in BOOLEAN
    /\ fileTime \in 0 .. MaxTime
    /\ server \in Seq(Classifier) /\ created \in 0 .. MaxClassifiers
    /\ finds \in [Slots -> FindRequest]
    /\ \A f \in Slots : \A c \in ToSet(finds[f].list) : c.own
    /\ classifierId \in 0 .. MaxClassifiers
    /\ uploads \in Nat
    /\ deletes \subseteq Ids

\* A lookup is freed with its last answer, never before one that will still
\* come and never waiting for one that will not: m_nPendingRequests counts the
\* answers under way, however they interleave with other lookups and deletes.
LookupEndsOnce ==
    \A f \in Slots :
        LET find == finds[f]
            awaited == Cardinality(find.asking) + (IF find.listing THEN 1 ELSE 0)
        IN  find.pending = awaited /\ (find.live <=> awaited > 0)

\* Whatever stale or partial answers a purge is based on, a classifier is
\* deleted only while a newer one is available that nobody deletes: the robot
\* is never left with none, nor with an older one than it had.
NewestSurvives ==
    \A c \in Own : c.id \in deletes =>
        \E d \in Available : d.id \notin deletes /\ d.created > c.created

\* "We'll switch automatically to a new classifier when it becomes available":
\* once the server behaves, the proxy settles on the newest available one.
SettlesOnNewest ==
    <>[]~flaky => <>[](configured /\ timer /\ Available # {} =>
        \E c \in Available : c.id = classifierId /\ \A d \in Available : d.created <= c.created)

\* Once the server behaves, a classifier is chosen that was made after the
\* last change of the file, unless one made after it has failed, or the clock
\* of the robot is behind UTC, which makes old classifiers look newer.
FileIsTrained ==
    <>[]~flaky => <>[](configured /\ timer /\ zone >= 0 =>
        \/ created = MaxClassifiers
        \/ \E c \in Own : c.status = "Failed" /\ c.created >= fileTime
        \/ \E c \in Available : c.id = classifierId /\ c.created >= fileTime)
=============================================================================
