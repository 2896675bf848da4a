-------------------------- MODULE AppReleaseProofs --------------------------
(***************************************************************************)
(* Proofs about AppRelease for any Apps, limits, tier and bounds: types,   *)
(* that a Deployment never goes back to an earlier second, what a request  *)
(* derived from a limit is worth, and how much the node takes.             *)
(***************************************************************************)
EXTENDS AppRelease, Sums, SequenceTheorems

LEMMA Constants == /\ NoApp \notin Apps /\ Uids \subseteq Nat /\ Rels \subseteq Nat
                   /\ 0 \in Uids /\ 0 \in Rels
                   /\ Absent \in AppObjects /\ NoDep \in Deployments
    BY AppsAssumption, BoundsAssumption
    DEF Uids, Rels, Absent, AppObjects, NoDep, Deployments, Phases, Flags

LEMMA AbsentIsNone == Absent.uid = 0
    BY DEF Absent

\* Where a pass works.
LEMMA AtType == TypeOK /\ pc # "idle" => at \in Apps
    BY DEF TypeOK, PassType

LEMMA CreatedType == TypeOK => Created \subseteq Rels /\ \A r \in Created : r # 0
    BY BoundsAssumption DEF TypeOK, ApiType, Created, Rels

LEMMA LastIn ==
    ASSUME NEW S, NEW s \in Seq(S), s # <<>>
    PROVE  s[Len(s)] \in S
<1>1. Len(s) \in Nat \ {0}
    BY EmptySeq, Zenon
<1> QED BY <1>1

CacheType == /\ appSeen \in [Apps -> AppObjects] /\ relSeen \subseteq Created
             /\ depSeen \in [Apps -> Deployments]

-----------------------------------------------------------------------------
\* The end of a pass, whatever becomes of the rest.
LEMMA DoneTyped ==
    ASSUME TypeOK, Done, ApiType', CacheType', queued' \subseteq Apps,
           edits' \in 0 .. MaxEdits, faults' \in 0 .. MaxFaults
    PROVE  TypeOK'
    BY Constants, AbsentIsNone DEF TypeOK, PassType, CacheType, Done, Steps, Flags

\* A call that leaves the pass alone.
LEMMA OutsideTyped ==
    ASSUME TypeOK, UNCHANGED passVars, ApiType', CacheType', queued' \subseteq Apps,
           edits' \in 0 .. MaxEdits, faults' \in 0 .. MaxFaults
    PROVE  TypeOK'
    BY DEF TypeOK, PassType, CacheType, passVars

\* A call that goes on with the pass.
LEMMA GoToTyped ==
    ASSUME TypeOK, pc # "idle", NEW step \in Steps \ {"idle"}, GoTo(step), ApiType',
           newest' \in Rels, up' \in Flags, UNCHANGED rel, UNCHANGED cacheVars,
           UNCHANGED boundVars
    PROVE  TypeOK'
<1>1. CacheType'
    BY DEF TypeOK, PassType, CacheType, cacheVars, Created
<1>2. UNCHANGED <<edits, faults>>
    BY DEF boundVars
<1> QED BY <1>1, <1>2 DEF TypeOK, PassType, CacheType, GoTo

\* The failed end of a pass that has written nothing but the bounds.
LEMMA RetryTyped ==
    ASSUME TypeOK, pc # "idle", Retry, UNCHANGED <<apiVars, relVars, objVars, cacheVars>>,
           edits' \in 0 .. MaxEdits, faults' \in 0 .. MaxFaults
    PROVE  TypeOK'
<1>1. UNCHANGED <<uids, app, rel, gone, dep, svc, placed, appSeen, relSeen, depSeen>>
    BY DEF apiVars, relVars, objVars, cacheVars
<1>2. ApiType' /\ CacheType'
    BY <1>1 DEF TypeOK, ApiType, PassType, CacheType, Created
<1>3. queued' \subseteq Apps
    BY AtType DEF TypeOK, PassType, Retry
<1> QED BY <1>2, <1>3, DoneTyped DEF Retry

-----------------------------------------------------------------------------
\* A Release is added to the others.
LEMMA ReleaseAdded ==
    ASSUME ApiType, NEW a \in Apps \cup Others, NEW later \in {0, 1}, CreateRelease(a, later)
    PROVE  /\ rel' \in Seq([app : Apps \cup Others, at : Nat])
           /\ Created \subseteq Created' /\ Len(rel') <= MaxReleases
           /\ \A r \in Created : rel'[r] = rel[r]
<1> DEFINE second == IF rel = <<>> THEN 1 ELSE rel[Len(rel)].at + later
           e      == [app |-> a, at |-> second]
           S      == [app : Apps \cup Others, at : Nat]
<1>1. second \in Nat
    <2>1. rel # <<>> => rel[Len(rel)] \in S
        BY LastIn DEF ApiType
    <2> QED BY <2>1
<1>2. e \in S /\ rel \in Seq(S)
    BY <1>1 DEF ApiType
<1>3. rel' = Append(rel, e)
    BY DEF CreateRelease
<1> HIDE DEF second, e, S
<1>4. /\ rel' \in Seq(S) /\ Len(rel') = Len(rel) + 1
      /\ \A r \in 1 .. Len(rel) : rel'[r] = rel[r]
    BY <1>2, <1>3, AppendProperties
<1>5. Len(rel) \in Nat /\ Len(rel) < MaxReleases
    BY <1>2, LenProperties DEF CreateRelease
<1>6. Created \subseteq Created' /\ Len(rel') <= MaxReleases
    BY <1>4, <1>5, BoundsAssumption DEF Created
<1> QED BY <1>4, <1>6 DEF Created, S

\* Users and builds.
LEMMA UserTyped == TypeOK /\ User => TypeOK'
<1> SUFFICES ASSUME TypeOK, User PROVE TypeOK'
    OBVIOUS
<1> USE BoundsAssumption, Constants
<1>t. ApiType /\ PassType
    BY DEF TypeOK
<1>o. ASSUME ApiType', UNCHANGED <<rel, cacheVars, queued, passVars, faults>>,
             edits' \in 0 .. MaxEdits
      PROVE  TypeOK'
    <2>1. CacheType'
        BY <1>o, <1>t DEF PassType, CacheType, cacheVars, Created
    <2> QED BY <1>o, <1>t, <2>1, OutsideTyped DEF PassType
<1>1. ASSUME NEW a \in Apps, CreateApp(a) PROVE TypeOK'
    <2>1. uids + 1 \in Uids
        BY <1>1, <1>t DEF CreateApp, ApiType, Uids
    <2>2. [Absent EXCEPT !.uid = uids + 1] \in AppObjects
        BY <2>1 DEF Absent, AppObjects, Phases
    <2>3. ApiType'
        BY <1>1, <1>t, <2>1, <2>2 DEF CreateApp, ApiType, relVars, objVars, Created
    <2>4. UNCHANGED <<rel, cacheVars, queued, passVars, faults>> /\ edits' \in 0 .. MaxEdits
        BY <1>1, <1>t DEF CreateApp, relVars, boundVars, PassType
    <2> QED BY <1>o, <2>3, <2>4
<1>2. ASSUME NEW a \in Apps, DeleteApp(a) PROVE TypeOK'
    <2>1. ApiType'
        BY <1>2, <1>t DEF DeleteApp, ApiType, relVars, objVars, Created
    <2>2. UNCHANGED <<rel, cacheVars, queued, passVars, faults>>
        BY <1>2 DEF DeleteApp, relVars
    <2>3. edits' \in 0 .. MaxEdits
        BY <1>2, <1>t DEF DeleteApp, PassType
    <2> QED BY <1>o, <2>1, <2>2, <2>3
<1>3. ASSUME NEW a \in Apps \cup Others, NEW later \in {0, 1}, CreateRelease(a, later)
      PROVE  TypeOK'
    <2>4. /\ rel' \in Seq([app : Apps \cup Others, at : Nat])
          /\ Created \subseteq Created' /\ Len(rel') <= MaxReleases
        BY <1>3, <1>t, ReleaseAdded
    <2>5. UNCHANGED <<uids, app, gone, dep, svc, placed, appSeen, relSeen, depSeen,
                      queued, passVars, edits, faults>>
        BY <1>3 DEF CreateRelease, apiVars, objVars, cacheVars, boundVars
    <2>6. ApiType' /\ CacheType'
        BY <1>t, <2>4, <2>5 DEF ApiType, PassType, CacheType
    <2> QED BY <1>t, <2>5, <2>6, OutsideTyped DEF PassType
<1>4. ASSUME NEW r \in Created, DeleteRelease(r) PROVE TypeOK'
    <2>1. ApiType'
        BY <1>4, <1>t DEF DeleteRelease, ApiType, apiVars, objVars, Created
    <2>2. UNCHANGED <<rel, cacheVars, queued, passVars, faults>>
        BY <1>4 DEF DeleteRelease
    <2>3. edits' \in 0 .. MaxEdits
        BY <1>4, <1>t DEF DeleteRelease, PassType
    <2> QED BY <1>o, <2>1, <2>2, <2>3
<1> QED BY <1>1, <1>2, <1>3, <1>4 DEF User

-----------------------------------------------------------------------------
\* The cluster, the informers, failures.
LEMMA OthersTyped ==
    ASSUME TypeOK,
           \/ Informers \/ CallFails \/ Restart
           \/ \E a \in Apps : Cluster(a) \/ Fails(a)
    PROVE  TypeOK'
<1> USE BoundsAssumption, Constants
<1>t. ApiType /\ PassType
    BY DEF TypeOK
<1>1. ASSUME NEW a \in Apps, Cluster(a) PROVE TypeOK'
    <2>1. /\ UNCHANGED <<uids, app, rel, gone, appSeen, relSeen, depSeen, queued, passVars>>
          /\ UNCHANGED <<edits, faults>>
        BY <1>1 DEF Cluster, CollectDep, CollectService, Place, BecomesReady,
           apiVars, relVars, cacheVars, boundVars
    <2>2. [dep[a] EXCEPT !.ready = "yes"] \in Deployments
        BY <1>t DEF ApiType, Deployments, Flags
    <2>3. dep' \in [Apps -> Deployments] /\ svc' \in [Apps -> Uids]
        BY <1>1, <1>t, <2>2 DEF Cluster, CollectDep, CollectService, Place, BecomesReady, ApiType
    <2>4. placed' \in [Apps -> Nat]
        <3>1. CASE Place(a)
            <4>1. placed' = [placed EXCEPT ![a] = @ + 1]
                BY <3>1 DEF Place
            <4> QED BY <4>1, <1>t DEF ApiType
        <3>2. CASE CollectDep(a) \/ CollectService(a) \/ BecomesReady(a)
            BY <3>2, <1>t DEF CollectDep, CollectService, BecomesReady, ApiType
        <3> QED BY <1>1, <3>1, <3>2 DEF Cluster
    <2>5. ApiType' /\ CacheType'
        BY <1>t, <2>1, <2>3, <2>4 DEF ApiType, PassType, CacheType, Created
    <2> QED BY <1>t, <2>1, <2>5, OutsideTyped DEF PassType
<1>2. ASSUME NEW a \in Apps, Fails(a) PROVE TypeOK'
    <2>1. UNCHANGED <<uids, app, rel, gone, svc, placed, appSeen, relSeen, depSeen,
                      queued, passVars, edits>>
        BY <1>2 DEF Fails, apiVars, relVars, cacheVars
    <2>2. [dep[a] EXCEPT !.ready = "no"] \in Deployments
        BY <1>t DEF ApiType, Deployments, Flags
    <2>3. ApiType' /\ CacheType'
        BY <1>2, <1>t, <2>1, <2>2 DEF Fails, ApiType, PassType, CacheType, Created
    <2>4. faults' \in 0 .. MaxFaults
        BY <1>2, <1>t DEF Fails, PassType
    <2> QED BY <1>t, <2>1, <2>3, <2>4, OutsideTyped DEF PassType
<1>3. CASE Informers
    <2>1. UNCHANGED <<uids, app, rel, gone, dep, svc, placed, passVars, edits, faults>>
        BY <1>3 DEF Informers, DeliverApp, DeliverDep, DeliverRelease,
           apiVars, relVars, objVars, boundVars
    <2>2. ApiType'
        BY <1>t, <2>1 DEF ApiType, Created
    <2>3. CacheType' /\ queued' \subseteq Apps
        BY <1>3, <1>t, <2>1 DEF Informers, DeliverApp, DeliverDep, DeliverRelease,
           ApiType, PassType, CacheType, Created
    <2> QED BY <1>t, <2>1, <2>2, <2>3, OutsideTyped DEF PassType
<1>4. CASE CallFails
    <2>1. faults' \in 0 .. MaxFaults /\ edits' \in 0 .. MaxEdits
        BY <1>4, <1>t DEF CallFails, PassType
    <2> QED BY <1>4, <2>1, RetryTyped DEF CallFails
<1>5. CASE Restart
    <2>1. UNCHANGED <<uids, app, rel, gone, dep, svc, placed, edits>>
        BY <1>5 DEF Restart, apiVars, relVars, objVars
    <2>2. ApiType' /\ CacheType' /\ queued' \subseteq Apps
        BY <1>5, <1>t, <2>1 DEF Restart, ApiType, CacheType, Created
    <2>3. faults' \in 0 .. MaxFaults
        BY <1>5, <1>t DEF Restart, PassType
    <2> QED BY <1>5, <1>t, <2>1, <2>2, <2>3, DoneTyped DEF Restart, PassType
<1> QED BY <1>1, <1>2, <1>3, <1>4, <1>5

-----------------------------------------------------------------------------
\* The pass.
LEMMA WriteTyped ==
    ASSUME TypeOK, pc # "idle", NEW status \in AppObjects, WriteStatus(status),
           UNCHANGED <<uids, relVars, objVars, cacheVars, boundVars>>
    PROVE  TypeOK'
<1>1. /\ UNCHANGED <<uids, rel, gone, dep, svc, placed, appSeen, relSeen, depSeen>>
      /\ UNCHANGED <<edits, faults>>
    BY DEF relVars, objVars, cacheVars, boundVars
<1>2. app' \in [Apps -> AppObjects] /\ queued' \subseteq Apps /\ Done
    BY AtType DEF WriteStatus, Retry, TypeOK, ApiType, PassType
<1>3. ApiType' /\ CacheType'
    BY <1>1, <1>2 DEF TypeOK, ApiType, PassType, CacheType, Created
<1> QED BY <1>1, <1>2, <1>3, DoneTyped DEF TypeOK, PassType

LEMMA NewestIsSeen ==
    ASSUME NEW a, NEW releases, NEW r \in Newest(a, releases)
    PROVE  /\ r \in releases /\ rel[r].app = a
           /\ \A q \in releases : rel[q].app = a => rel[q].at <= rel[r].at
    BY DEF Newest, Of

LEMMA PassTyped ==
    ASSUME TypeOK, Step \/ \E a \in Apps : StartReconcile(a)
    PROVE  TypeOK'
<1> USE Constants
<1>t. ApiType /\ PassType
    BY DEF TypeOK
<1>c. ASSUME UNCHANGED cacheVars, UNCHANGED rel PROVE CacheType'
    BY <1>c, <1>t DEF cacheVars, CacheType, PassType, Created
<1>1. ASSUME NEW a \in Apps, StartReconcile(a) PROVE TypeOK'
    <2>1. /\ UNCHANGED <<uids, app, rel, gone, dep, svc, placed, newest, up, edits, faults>>
          /\ UNCHANGED cacheVars /\ queued' \subseteq Apps
        BY <1>1, <1>t DEF StartReconcile, PassType, apiVars, relVars, objVars, boundVars
    <2>2. ApiType' /\ CacheType'
        BY <1>t, <1>c, <2>1 DEF ApiType, Created
    <2>3. /\ at' \in Apps \cup {NoApp} /\ pc' \in Steps /\ (pc' = "idle" <=> at' = NoApp)
          /\ view' \in AppObjects /\ (pc' = "idle" <=> view'.uid = 0)
        BY <1>1, <1>t DEF StartReconcile, PassType, Steps
    <2> QED BY <1>t, <2>1, <2>2, <2>3 DEF TypeOK, PassType, CacheType
<1>2. CASE PickRelease
    <2>1. newest' \in relSeen
        BY <1>2, NewestIsSeen DEF PickRelease
    <2>2. newest' \in Rels
        BY <2>1, <1>t, CreatedType DEF PassType
    <2>3. UNCHANGED <<uids, app, rel, gone, dep, svc, placed>>
        BY <1>2 DEF PickRelease, apiVars, relVars, objVars
    <2>4. ApiType'
        BY <2>3, <1>t DEF ApiType, Created
    <2>5. pc # "idle" /\ GoTo("deploy") /\ UNCHANGED <<cacheVars, up, boundVars>>
        BY <1>2 DEF PickRelease
    <2> QED BY <1>t, <2>2, <2>3, <2>4, <2>5, GoToTyped DEF Steps, PassType
<1>3. CASE NoRelease
    <2>1. pc # "idle" /\ UNCHANGED <<uids, relVars, objVars, cacheVars, boundVars>>
        BY <1>3 DEF NoRelease
    <2>2. CASE WriteStatus([view EXCEPT !.phase = "NoRelease"])
        <3>1. [view EXCEPT !.phase = "NoRelease"] \in AppObjects
            BY <1>t DEF PassType, AppObjects, Phases
        <3> QED BY <2>1, <2>2, <3>1, WriteTyped
    <2>3. CASE Done /\ UNCHANGED <<app, queued>>
        <3>1. UNCHANGED <<uids, rel, gone, dep, svc, placed, edits, faults>>
            BY <2>1 DEF relVars, objVars, boundVars
        <3>2. ApiType' /\ CacheType'
            BY <1>t, <1>c, <2>1, <2>3, <3>1 DEF ApiType, Created
        <3> QED BY <1>t, <2>3, <3>1, <3>2, DoneTyped DEF PassType
    <2> QED BY <1>3, <2>2, <2>3 DEF NoRelease
<1>4. CASE ApplyDep
    <2>1. /\ pc # "idle" /\ at \in Apps
          /\ UNCHANGED <<apiVars, relVars, svc, placed, cacheVars, boundVars>>
        BY <1>4, AtType DEF ApplyDep
    <2>2. UNCHANGED <<uids, app, rel, gone, svc, placed, edits, faults>>
        BY <2>1 DEF apiVars, relVars, boundVars
    <2>3. CASE Retry /\ UNCHANGED dep
        BY <1>t, <2>1, <2>2, <2>3, RetryTyped DEF objVars, PassType
    <2>4. CASE ~Rejected(depSeen[at])
        <3> DEFINE obj == [dep[at] EXCEPT !.owner = view.uid, !.rel = newest]
        <3>1. dep' = [dep EXCEPT ![at] = obj] /\ up' = dep[at].ready /\ GoTo("service")
              /\ UNCHANGED newest
            BY <1>4, <2>4 DEF ApplyDep
        <3>2. obj \in Deployments /\ dep[at].ready \in Flags
            BY <1>t, <2>1 DEF ApiType, PassType, Deployments, AppObjects
        <3>3. ApiType'
            BY <1>t, <2>1, <2>2, <3>1, <3>2 DEF ApiType, Created
        <3> QED BY <1>t, <2>1, <2>2, <3>1, <3>2, <3>3, GoToTyped DEF Steps, PassType
    <2> QED BY <1>4, <2>3, <2>4 DEF ApplyDep
<1>5. CASE ApplyService
    <2>1. /\ pc # "idle" /\ at \in Apps
          /\ UNCHANGED <<apiVars, relVars, dep, placed, cacheVars, boundVars>>
        BY <1>5, AtType DEF ApplyService
    <2>2. UNCHANGED <<uids, app, rel, gone, dep, placed, edits, faults>>
        BY <2>1 DEF apiVars, relVars, boundVars
    <2>3. CASE Retry /\ UNCHANGED svc
        BY <1>t, <2>1, <2>2, <2>3, RetryTyped DEF objVars, PassType
    <2>4. CASE svc[at] \in {0, view.uid}
        <3>1. /\ svc' = [svc EXCEPT ![at] = view.uid] /\ GoTo("status")
              /\ UNCHANGED <<newest, up>>
            BY <1>5, <2>4 DEF ApplyService
        <3>2. ApiType'
            BY <1>t, <2>1, <2>2, <3>1 DEF ApiType, PassType, AppObjects, Created
        <3> QED BY <1>t, <2>1, <2>2, <3>1, <3>2, GoToTyped DEF Steps, PassType
    <2> QED BY <1>5, <2>3, <2>4 DEF ApplyService
<1>6. CASE UpdateStatus
    <2>1. [view EXCEPT !.phase = Phase, !.image = newest] \in AppObjects
        BY <1>t DEF PassType, AppObjects, Phase, Phases
    <2> QED BY <1>6, <2>1, WriteTyped DEF UpdateStatus
<1> QED BY <1>1, <1>2, <1>3, <1>4, <1>5, <1>6 DEF Step

\* The type invariant of the App controller and of what it works on.
THEOREM TypeCorrect == Spec => []TypeOK
<1>1. Init => TypeOK
    BY Constants, AbsentIsNone, BoundsAssumption
    DEF Init, TypeOK, ApiType, PassType, Created, Steps, Flags, Rels
<1>2. TypeOK /\ [Next]_vars => TypeOK'
    <2> SUFFICES ASSUME TypeOK, [Next]_vars PROVE TypeOK'
        OBVIOUS
    <2>1. CASE Next
        BY <2>1, UserTyped, OthersTyped, PassTyped DEF Next
    <2>2. CASE UNCHANGED vars
        BY <2>2 DEF vars, apiVars, relVars, objVars, cacheVars, passVars, boundVars,
           TypeOK, ApiType, PassType, Created
    <2> QED BY <2>1, <2>2
<1> QED BY <1>1, <1>2, PTL DEF Spec

-----------------------------------------------------------------------------
\* As long as no Release is deleted: what a Deployment runs is in the cache
\* of the operator, and a pass about to write it holds nothing earlier.
Ran(a)  == dep[a].rel # 0 => dep[a].rel \in relSeen /\ rel[dep[a].rel].app = a
Picked  == pc = "deploy" =>
              /\ newest \in relSeen /\ rel[newest].app = at
              /\ dep[at].rel # 0 => rel[dep[at].rel].at <= rel[newest].at
Forward == TypeOK /\ (gone = {} => Picked /\ \A a \in Apps : Ran(a))

\* Releases are never changed, and never uncreated.
LEMMA RelKept ==
    ASSUME TypeOK, Next
    PROVE  \A r \in Created : r \in Created' /\ rel'[r] = rel[r]
<1>1. CASE \E a \in Apps \cup Others, later \in {0, 1} : CreateRelease(a, later)
    <2>1. PICK a \in Apps \cup Others, later \in {0, 1} : CreateRelease(a, later)
        BY <1>1
    <2> QED BY <2>1, ReleaseAdded DEF TypeOK
<1>2. CASE ~\E a \in Apps \cup Others, later \in {0, 1} : CreateRelease(a, later)
    <2>1. UNCHANGED rel
        BY <1>2 DEF Next, User, CreateApp, DeleteApp, DeleteRelease, Informers, DeliverApp,
           DeliverDep, DeliverRelease, Cluster, CollectDep, CollectService, Place,
           BecomesReady, Fails, StartReconcile, Step, PickRelease, NoRelease, ApplyDep,
           ApplyService, UpdateStatus, CallFails, Restart, relVars
    <2> QED BY <2>1 DEF Created
<1> QED BY <1>1, <1>2

LEMMA DepBy ==
    ASSUME TypeOK, Next, NEW a \in Apps
    PROVE  \/ dep'[a].rel \in {0, dep[a].rel}
           \/ ApplyDep /\ a = at /\ dep'[a].rel = newest
<1>t. dep \in [Apps -> Deployments]
    BY DEF TypeOK, ApiType
<1>1. CASE ApplyDep
    <2>1. CASE UNCHANGED dep
        BY <2>1
    <2>2. CASE dep' = [dep EXCEPT ![at] = [@ EXCEPT !.owner = view.uid, !.rel = newest]]
        <3>1. [dep[at] EXCEPT !.owner = view.uid, !.rel = newest].rel = newest
            BY <1>t, <1>1, AtType DEF ApplyDep, Deployments
        <3> QED BY <1>t, <1>1, <2>2, <3>1, AtType DEF ApplyDep
    <2> QED BY <1>1, <2>1, <2>2 DEF ApplyDep
<1>2. ASSUME NEW b \in Apps, Cluster(b) \/ Fails(b) PROVE dep'[a].rel \in {0, dep[a].rel}
    <2>1. /\ [dep[b] EXCEPT !.ready = "yes"].rel = dep[b].rel
          /\ [dep[b] EXCEPT !.ready = "no"].rel = dep[b].rel /\ NoDep.rel = 0
        BY <1>t DEF Deployments, NoDep
    <2> QED BY <1>t, <1>2, <2>1 DEF Cluster, CollectDep, CollectService, Place, BecomesReady, Fails
<1>3. CASE \/ User \/ Informers \/ \E b \in Apps : StartReconcile(b)
           \/ PickRelease \/ NoRelease \/ ApplyService \/ UpdateStatus \/ CallFails \/ Restart
    BY <1>3 DEF User, CreateApp, DeleteApp, CreateRelease, DeleteRelease, Informers, DeliverApp,
       DeliverDep, DeliverRelease, StartReconcile, PickRelease, NoRelease, ApplyService,
       UpdateStatus, CallFails, Restart, objVars
<1> QED BY <1>1, <1>2, <1>3 DEF Next, Step

LEMMA PickBy ==
    ASSUME TypeOK, Next, pc' = "deploy"
    PROVE  \/ PickRelease /\ UNCHANGED dep
           \/ ~ApplyDep /\ pc = "deploy" /\ at' = at /\ newest' = newest
<1>1. CASE PickRelease
    BY <1>1 DEF PickRelease, objVars
<1>2. CASE NoRelease \/ ApplyDep \/ ApplyService \/ UpdateStatus \/ CallFails \/ Restart
    BY <1>2 DEF NoRelease, ApplyDep, ApplyService, UpdateStatus, CallFails, Restart,
       WriteStatus, Retry, Done, GoTo
<1>3. CASE \E a \in Apps : StartReconcile(a)
    BY <1>3 DEF StartReconcile
<1>4. CASE User \/ Informers \/ \E a \in Apps : Cluster(a) \/ Fails(a)
    <2>1. UNCHANGED <<pc, at, newest>>
        BY <1>4 DEF User, CreateApp, DeleteApp, CreateRelease, DeleteRelease, Informers,
           DeliverApp, DeliverDep, DeliverRelease, Cluster, CollectDep, CollectService, Place,
           BecomesReady, Fails, passVars
    <2>2. CASE ApplyDep
        BY <2>1, <2>2 DEF ApplyDep, Retry, Done, GoTo
    <2> QED BY <2>1, <2>2
<1> QED BY <1>1, <1>2, <1>3, <1>4 DEF Next, Step

LEMMA SeenGrows ==
    ASSUME TypeOK, Next, gone' = {}
    PROVE  gone = {} /\ relSeen \subseteq relSeen'
<1>1. CASE User
    BY <1>1 DEF User, CreateApp, DeleteApp, CreateRelease, DeleteRelease, relVars, cacheVars
<1>2. CASE Informers \/ Restart
    BY <1>2 DEF Informers, DeliverApp, DeliverDep, DeliverRelease, Restart, relVars, TypeOK, PassType
<1>3. CASE Step \/ CallFails \/ \E a \in Apps : Cluster(a) \/ Fails(a) \/ StartReconcile(a)
    BY <1>3 DEF Step, PickRelease, NoRelease, ApplyDep, ApplyService, UpdateStatus, CallFails,
       Cluster, CollectDep, CollectService, Place, BecomesReady, Fails, StartReconcile,
       relVars, cacheVars
<1> QED BY <1>1, <1>2, <1>3 DEF Next

LEMMA ForwardStep ==
    ASSUME Forward, Next, TypeOK'
    PROVE  Forward'
<1> SUFFICES ASSUME gone' = {} PROVE Picked' /\ \A a \in Apps : Ran(a)'
    BY DEF Forward
<1>1. /\ TypeOK /\ Picked /\ (\A a \in Apps : Ran(a)) /\ relSeen \subseteq relSeen'
      /\ relSeen \subseteq Created
    BY SeenGrows DEF Forward, TypeOK, PassType
<1>2. \A r \in relSeen : r \in relSeen' /\ rel'[r] = rel[r]
    BY <1>1, RelKept
<1>3. ASSUME NEW a \in Apps PROVE Ran(a)'
    <2>1. dep'[a].rel \in {0, dep[a].rel} \/ (ApplyDep /\ a = at /\ dep'[a].rel = newest)
        BY <1>1, DepBy
    <2>2. CASE dep'[a].rel \in {0, dep[a].rel}
        BY <1>1, <1>2, <2>2 DEF Ran
    <2>3. CASE ApplyDep /\ a = at /\ dep'[a].rel = newest
        BY <1>1, <1>2, <2>3 DEF Ran, Picked, ApplyDep
    <2> QED BY <2>1, <2>2, <2>3
<1>4. ASSUME pc' = "deploy"
      PROVE  /\ newest' \in relSeen' /\ rel'[newest'].app = at'
             /\ dep'[at'].rel # 0 => rel'[dep'[at'].rel].at <= rel'[newest'].at
    <2>1. CASE PickRelease /\ UNCHANGED dep
        <3>1. /\ newest' \in relSeen /\ rel[newest'].app = at /\ at' = at
              /\ \A q \in relSeen : rel[q].app = at => rel[q].at <= rel[newest'].at
            BY <2>1, NewestIsSeen DEF PickRelease, GoTo
        <3>2. at \in Apps
            BY <1>1, <2>1, AtType DEF PickRelease
        <3> QED BY <1>1, <1>2, <2>1, <3>1, <3>2 DEF Ran
    <2>2. CASE ~ApplyDep /\ pc = "deploy" /\ at' = at /\ newest' = newest
        <3>1. at \in Apps
            BY <1>1, <2>2, AtType
        <3>2. dep'[at].rel \in {0, dep[at].rel}
            BY <1>1, <2>2, <3>1, DepBy
        <3>3. dep[at].rel # 0 => dep[at].rel \in relSeen
            BY <1>1, <3>1 DEF Ran
        <3> QED BY <1>1, <1>2, <2>2, <3>2, <3>3 DEF Picked
    <2> QED BY <1>1, <1>4, <2>1, <2>2, PickBy
<1> QED BY <1>3, <1>4 DEF Picked

LEMMA StepIsForward ==
    ASSUME Forward, Next, gone = {}, NEW a \in Apps, dep[a].rel # 0, dep'[a].rel # 0
    PROVE  rel[dep[a].rel].at <= rel[dep'[a].rel].at
<1>1. /\ TypeOK /\ Picked /\ Ran(a) /\ relSeen \subseteq Created
    BY DEF Forward, TypeOK, PassType
<1>2. rel[dep[a].rel].at \in Nat
    <2>1. dep[a].rel \in 1 .. Len(rel)
        BY <1>1 DEF Ran, Created
    <2>a. rel \in Seq([app : Apps \cup Others, at : Nat])
        BY <1>1 DEF TypeOK, ApiType
    <2>2. rel[dep[a].rel] \in [app : Apps \cup Others, at : Nat]
        BY <2>a, <2>1, ElementOfSeq
    <2> QED BY <2>2
<1>3. CASE dep'[a].rel \in {0, dep[a].rel}
    BY <1>2, <1>3
<1>4. CASE ApplyDep /\ a = at /\ dep'[a].rel = newest
    BY <1>1, <1>4 DEF Picked, ApplyDep
<1> QED BY <1>1, <1>3, <1>4, DepBy

\* As long as no Release is deleted, no Deployment goes back to a Release of an
\* earlier second, for any number of Apps, Releases, restarts and failures.
THEOREM ForwardOnly == Spec => NeverBack
<1>1. Init => Forward
    BY Constants, AbsentIsNone, BoundsAssumption
    DEF Init, Forward, TypeOK, ApiType, PassType, Created, Steps, Flags, Rels, Picked, Ran, NoDep
<1>2. Forward /\ TypeOK' /\ [Next]_vars => Forward'
    <2> SUFFICES ASSUME Forward, TypeOK', [Next]_vars PROVE Forward'
        OBVIOUS
    <2>1. CASE UNCHANGED vars
        BY <2>1 DEF vars, apiVars, relVars, objVars, cacheVars, passVars, boundVars,
           Forward, Picked, Ran
    <2> QED BY <2>1, ForwardStep
<1>3. Forward /\ [Next]_vars =>
        [\A a \in Apps : dep[a].rel # 0 /\ dep'[a].rel # 0 /\ gone = {} =>
            rel[dep[a].rel].at <= rel[dep'[a].rel].at]_vars
    BY StepIsForward
<1> QED BY <1>1, <1>2, <1>3, TypeCorrect, PTL DEF Spec, NeverBack

-----------------------------------------------------------------------------
\* What overcommit.go makes of a limit. The ratios of every tier are positive.
LEMMA TierType == \A name : ResolveTier(name) \in [cpu : {1, 2, 7, 15}, mem : {1, 2}]
    BY DEF ResolveTier, Tiers

\* The request is not zero, and the limit exceeds the ratio times the request by
\* less than the ratio, whatever the tier is called (overcommit.go:62).
THEOREM LimitIsCovered ==
    ASSUME NEW limits \in Counts, NEW name, NEW k \in Kinds
    PROVE  LET ratio == ResolveTier(name)[k]
               request == Requests(limits, ResolveTier(name))[k]
           IN  request \in Nat \ {0} /\ limits[k] <= ratio * request + (ratio - 1)
<1>1. limits[k] \in Nat
    BY DEF Counts
<1>2. k = "cpu" \/ k = "mem"
    BY DEF Kinds
<1>3. ResolveTier(name)[k] \in {1, 2, 7, 15}
    BY <1>2, TierType
<1>4. Requests(limits, ResolveTier(name))[k]
        = AtLeast(limits[k] \div ResolveTier(name)[k], Floors[k])
    BY DEF Requests
<1>5. Floors[k] \in Nat \ {0}
    BY <1>2 DEF Floors
<1>6. ASSUME NEW n \in Nat, NEW ratio \in {1, 2, 7, 15}, NEW floor \in Nat \ {0}
      PROVE  /\ AtLeast(n \div ratio, floor) \in Nat \ {0}
             /\ n <= ratio * AtLeast(n \div ratio, floor) + (ratio - 1)
    BY DEF AtLeast
<1> QED BY <1>1, <1>3, <1>4, <1>5, <1>6

\* A container is accepted exactly when neither limit is below the floor: one
\* with less memory than 4Mi is refused on every pass (overcommit.go:70).
THEOREM FloorIsLowest ==
    ASSUME NEW limits \in Counts, NEW name
    PROVE  Valid(limits, ResolveTier(name)) <=> \A k \in Kinds : Floors[k] <= limits[k]
<1>1. ASSUME NEW k \in Kinds
      PROVE  Requests(limits, ResolveTier(name))[k] <= limits[k] <=> Floors[k] <= limits[k]
    <2>1. limits[k] \in Nat
        BY DEF Counts
    <2>2. k = "cpu" \/ k = "mem"
        BY DEF Kinds
    <2>3. ResolveTier(name)[k] \in {1, 2, 7, 15}
        BY <2>2, TierType
    <2>4. Requests(limits, ResolveTier(name))[k]
            = AtLeast(limits[k] \div ResolveTier(name)[k], Floors[k])
        BY DEF Requests
    <2>5. Floors[k] \in Nat
        BY <2>2 DEF Floors
    <2>6. ASSUME NEW n \in Nat, NEW ratio \in {1, 2, 7, 15}, NEW floor \in Nat
          PROVE  AtLeast(n \div ratio, floor) <= n <=> floor <= n
        <3>1. n \div ratio \in Nat /\ n \div ratio <= n
            OBVIOUS
        <3>2. CASE n \div ratio < floor
            BY <3>2 DEF AtLeast
        <3>3. CASE ~(n \div ratio < floor)
            <4>1. floor <= n
                BY <3>1, <3>3
            <4> QED BY <3>1, <3>3, <4>1 DEF AtLeast
        <3> QED BY <3>2, <3>3
    <2> QED BY <2>1, <2>3, <2>4, <2>5, <2>6
<1> QED BY <1>1 DEF Valid

-----------------------------------------------------------------------------
\* What the scheduler keeps: the requests of the pods it has placed.
Fits == \A k \in Kinds : Load(placed, k) <= Allocatable[k]

LEMMA RequestType == \A a \in Apps, k \in Kinds : Requested(a)[k] \in Nat
<1> SUFFICES ASSUME NEW a \in Apps, NEW k \in Kinds PROVE Requested(a)[k] \in Nat
    OBVIOUS
<1>1. Limits[a] \in Counts
    BY AppsAssumption
<1> QED BY <1>1, LimitIsCovered DEF Requested

\* Fewer pods request no more.
LEMMA LoadGrows ==
    ASSUME NEW p \in [Apps -> Nat], NEW q \in [Apps -> Nat], \A a \in Apps : p[a] <= q[a],
           NEW k \in Kinds
    PROVE  Load(p, k) \in Nat /\ Load(q, k) \in Nat /\ Load(p, k) <= Load(q, k)
<1> DEFINE f == [a \in Apps |-> p[a] * Requested(a)[k]]
           g == [a \in Apps |-> q[a] * Requested(a)[k]]
<1>1. \A a \in Apps : f[a] \in Nat /\ g[a] \in Nat /\ f[a] <= g[a]
    <2>1. ASSUME NEW m \in Nat, NEW n \in Nat, m <= n, NEW r \in Nat
          PROVE  m * r \in Nat /\ n * r \in Nat /\ m * r <= n * r
        BY <2>1
    <2> QED BY <2>1, RequestType
<1>2. f \in [Apps -> Nat] /\ g \in [Apps -> Nat]
    BY <1>1
<1>3. Load(p, k) = SumFunctionOnSet(f, Apps) /\ Load(q, k) = SumFunctionOnSet(g, Apps)
    BY DEF Load, SumFunction
<1> HIDE DEF f, g
<1>4. \A a \in Apps : f[a] <= 1 * g[a] + 0 * g[a]
    BY <1>1, <1>2
<1>5. /\ SumFunctionOnSet(f, Apps) \in Nat
      /\ SumFunctionOnSet(f, Apps) <= 1 * SumFunctionOnSet(g, Apps) + 0 * SumFunctionOnSet(g, Apps)
    BY <1>2, <1>4, AppsAssumption, SumBounded
<1>6. \A a \in Apps : g[a] <= 1 * g[a] + 0 * g[a]
    BY <1>2
<1>7. SumFunctionOnSet(g, Apps) \in Nat
    BY <1>2, <1>6, AppsAssumption, SumBounded
<1> QED BY <1>3, <1>5, <1>7

LEMMA NothingLoads ==
    ASSUME NEW p \in [Apps -> Nat], \A a \in Apps : p[a] = 0, NEW k \in Kinds
    PROVE  Load(p, k) = 0
<1> DEFINE f == [a \in Apps |-> p[a] * Requested(a)[k]]
<1>1. \A a \in Apps : f[a] = 0
    BY RequestType
<1>2. f \in [Apps -> Nat] /\ Load(p, k) = SumFunctionOnSet(f, Apps)
    BY <1>1 DEF Load, SumFunction
<1>3. \A a \in Apps : f[a] <= 0 * f[a] + 0 * f[a]
    BY <1>1
<1> HIDE DEF f
<1>4. /\ SumFunctionOnSet(f, Apps) \in Nat
      /\ SumFunctionOnSet(f, Apps) <= 0 * SumFunctionOnSet(f, Apps) + 0 * SumFunctionOnSet(f, Apps)
    BY <1>2, <1>3, AppsAssumption, SumBounded
<1> QED BY <1>2, <1>4

\* Only the scheduler and the garbage collector change what is placed.
LEMMA PlacedBy ==
    ASSUME Next
    PROVE  UNCHANGED placed \/ (\E a \in Apps : Place(a) \/ CollectDep(a))
BY DEF Next, User, CreateApp, DeleteApp, CreateRelease, DeleteRelease, Informers, DeliverApp,
   DeliverDep, DeliverRelease, Cluster, CollectService, BecomesReady, Fails, StartReconcile,
   Step, PickRelease, NoRelease, ApplyDep, ApplyService, UpdateStatus, CallFails, Restart,
   objVars

LEMMA FitsStep ==
    ASSUME TypeOK, TypeOK', Fits, Next
    PROVE  Fits'
<1>t. placed \in [Apps -> Nat] /\ placed' \in [Apps -> Nat]
    BY DEF TypeOK, ApiType
<1>1. CASE UNCHANGED placed
    BY <1>1 DEF Fits, Load, Requested
<1>2. ASSUME NEW a \in Apps, Place(a) PROVE Fits'
    BY <1>2 DEF Place, Fits, Load, Requested
<1>3. ASSUME NEW a \in Apps, CollectDep(a) PROVE Fits'
    <2>1. PICK p \in [Apps -> Nat] : p = placed'
        BY <1>t
    <2>2. PICK q \in [Apps -> Nat] : q = placed
        BY <1>t
    <2>3. \A b \in Apps : p[b] <= q[b]
        BY <1>3, <2>1, <2>2 DEF CollectDep
    <2>4. \A k \in Kinds : Load(p, k) \in Nat /\ Load(q, k) \in Nat /\ Load(p, k) <= Load(q, k)
        BY <2>3, LoadGrows
    <2>5. \A k \in Kinds : Allocatable[k] \in Nat
        BY AppsAssumption DEF Counts
    <2>6. \A k \in Kinds : Load(q, k) <= Allocatable[k]
        BY <2>2 DEF Fits, Load, Requested
    <2>7. \A k \in Kinds : Load(p, k) <= Allocatable[k]
        BY <2>4, <2>5, <2>6
    <2> QED BY <2>1, <2>7 DEF Fits, Load, Requested
<1> QED BY <1>1, <1>2, <1>3, PlacedBy

\* What fits by its requests exceeds the ratio by what the division cuts off.
LEMMA FitsByLimits ==
    ASSUME NEW p \in [Apps -> Nat], NEW k \in Kinds, Load(p, k) <= Allocatable[k]
    PROVE  LET ratio == ResolveTier(Tier)[k]
           IN  SumFunction([a \in Apps |-> p[a] * Limits[a][k]])
                   <= ratio * Allocatable[k] + (ratio - 1) * SumFunction(p)
<1> DEFINE ratio == ResolveTier(Tier)[k]
           f == [a \in Apps |-> p[a] * Limits[a][k]]
           g == [a \in Apps |-> p[a] * Requested(a)[k]]
<1>1. ratio \in {1, 2, 7, 15} /\ Allocatable[k] \in Nat
    BY TierType, AppsAssumption DEF Kinds, Counts
<1>2. ASSUME NEW a \in Apps
      PROVE  f[a] \in Nat /\ g[a] \in Nat /\ f[a] <= ratio * g[a] + (ratio - 1) * p[a]
    <2>1. Limits[a] \in Counts /\ Limits[a][k] \in Nat
        BY AppsAssumption DEF Counts
    <2>2. /\ Requested(a)[k] \in Nat
          /\ Limits[a][k] <= ratio * Requested(a)[k] + (ratio - 1)
        BY <2>1, LimitIsCovered DEF Requested
    <2>3. ASSUME NEW n \in Nat, NEW limit \in Nat, NEW request \in Nat,
                 NEW r \in {1, 2, 7, 15}, limit <= r * request + (r - 1)
          PROVE  /\ n * limit \in Nat /\ n * request \in Nat
                 /\ n * limit <= r * (n * request) + (r - 1) * n
        <3>1. n * limit <= n * (r * request + (r - 1))
            BY <2>3
        <3> QED BY <2>3, <3>1
    <2> HIDE DEF ratio
    <2> QED BY <1>1, <2>1, <2>2, <2>3
<1>3. f \in [Apps -> Nat] /\ g \in [Apps -> Nat]
    BY <1>2
<1>4. /\ SumFunction(f) = SumFunctionOnSet(f, Apps) /\ Load(p, k) = SumFunctionOnSet(g, Apps)
      /\ SumFunction(p) = SumFunctionOnSet(p, Apps)
    BY DEF Load, SumFunction
<1>5. \A a \in Apps : f[a] <= ratio * g[a] + (ratio - 1) * p[a]
    BY <1>2
<1>6. ratio \in Nat /\ ratio - 1 \in Nat
    BY <1>1
<1> HIDE DEF f, g, ratio
<1>7. /\ SumFunctionOnSet(f, Apps) \in Nat
      /\ SumFunctionOnSet(f, Apps)
            <= ratio * SumFunctionOnSet(g, Apps) + (ratio - 1) * SumFunctionOnSet(p, Apps)
    BY <1>3, <1>5, <1>6, AppsAssumption, SumBounded
<1>8. SumFunctionOnSet(g, Apps) \in Nat /\ SumFunctionOnSet(p, Apps) \in Nat
    <2>1. /\ \A a \in Apps : g[a] <= 1 * g[a] + 0 * g[a]
          /\ \A a \in Apps : p[a] <= 1 * p[a] + 0 * p[a]
        BY <1>3
    <2> QED BY <1>3, <2>1, AppsAssumption, SumBounded
<1>9. ratio * SumFunctionOnSet(g, Apps) <= ratio * Allocatable[k]
    BY <1>1, <1>4, <1>8
<1> QED BY <1>1, <1>4, <1>6, <1>7, <1>8, <1>9 DEF f, ratio

\* The limits of the pods on the node never add up to more than the ratio of the
\* tier times what it has, and for each pod less than the ratio more: for any
\* Apps, limits, node and tier (overcommit.go:62).
THEOREM TakesNoMore == Spec => []Overcommitted
<1>1. Init => Fits
    <2> SUFFICES ASSUME Init PROVE Fits
        OBVIOUS
    <2>1. PICK p \in [Apps -> Nat] : p = placed
        BY DEF Init
    <2>2. \A a \in Apps : p[a] = 0
        BY <2>1 DEF Init
    <2>3. \A k \in Kinds : Load(p, k) = 0 /\ Allocatable[k] \in Nat
        BY <2>2, NothingLoads, AppsAssumption DEF Counts
    <2>4. \A n \in Nat : 0 <= n
        OBVIOUS
    <2>5. \A k \in Kinds : Load(p, k) <= Allocatable[k]
        BY <2>3, <2>4, Zenon
    <2> QED BY <2>1, <2>5 DEF Fits, Load, Requested
<1>2. TypeOK /\ TypeOK' /\ Fits /\ [Next]_vars => Fits'
    <2>1. CASE UNCHANGED vars
        BY <2>1 DEF vars, objVars, Fits, Load, Requested
    <2> QED BY <2>1, FitsStep
<1>3. TypeOK /\ Fits => Overcommitted
    <2> SUFFICES ASSUME TypeOK, Fits, NEW k \in Kinds
                 PROVE  SumFunction([a \in Apps |-> placed[a] * Limits[a][k]])
                            <= ResolveTier(Tier)[k] * Allocatable[k]
                                 + (ResolveTier(Tier)[k] - 1) * SumFunction(placed)
        BY DEF Overcommitted
    <2>1. PICK p \in [Apps -> Nat] : p = placed
        BY DEF TypeOK, ApiType
    <2>2. Load(p, k) <= Allocatable[k]
        BY <2>1 DEF Fits, Load, Requested
    <2> QED BY <2>1, <2>2, FitsByLimits
<1> QED BY <1>1, <1>2, <1>3, TypeCorrect, PTL DEF Spec

-----------------------------------------------------------------------------
\* While the key of an App is not queued, the caches hold of it what they held
\* when the last pass about it began: so it is right by what they hold, or the
\* App has changed, which is an event still to come.
RightBySeen(a) ==
    LET newests == Newest(a, relSeen) IN
    IF newests = {}
    THEN app[a].phase = "NoRelease"
    ELSE /\ Valid(Limits[a], ResolveTier(Tier))
         /\ dep[a].owner = app[a].uid /\ svc[a] = app[a].uid
         /\ dep[a].rel \in newests /\ app[a].image = dep[a].rel
         /\ app[a].phase = IF depSeen[a].ready = "yes" THEN "Running" ELSE "Progressing"
Left(a) == appSeen[a].uid = 0 \/ app[a] # appSeen[a] \/ RightBySeen(a)

\* The same of the App of a pass, call by call. The objects are its own unless
\* the App was deleted meanwhile.
Deployed == /\ Valid(Limits[at], ResolveTier(Tier)) /\ up = depSeen[at].ready
            /\ view.uid = app[at].uid => dep[at].owner = view.uid /\ dep[at].rel = newest
Serves   == view.uid = app[at].uid => svc[at] = view.uid
InHand   == /\ view = appSeen[at]
            /\ pc \in {"deploy", "service", "status"} => newest \in Newest(at, relSeen)
            /\ pc \in {"service", "status"} => Deployed
            /\ pc = "status" => Serves

\* Uids are given once.
UidsOnce == /\ \A a \in Apps : app[a].uid <= uids /\ appSeen[a].uid <= uids
            /\ at # NoApp => view.uid \in 1 .. uids

Minded(a) == a \notin queued => IF at = a THEN InHand ELSE Left(a)
Awake     == UidsOnce /\ \A a \in Apps : Minded(a)

LEMMA UidsOnceStep ==
    ASSUME TypeOK, TypeOK', UidsOnce, Next
    PROVE  UidsOnce'
<1>t. /\ app \in [Apps -> AppObjects] /\ appSeen \in [Apps -> AppObjects] /\ uids \in Nat
      /\ \A o \in AppObjects : o.uid \in Nat
    BY Constants DEF TypeOK, ApiType, PassType, AppObjects
<1>1. CASE User
    <2>1. ASSUME NEW b \in Apps, CreateApp(b) PROVE UidsOnce'
        <3>1. [Absent EXCEPT !.uid = uids + 1].uid = uids + 1
            BY DEF Absent
        <3>2. /\ uids' = uids + 1 /\ UNCHANGED <<appSeen, at, view>>
              /\ app' = [app EXCEPT ![b] = [Absent EXCEPT !.uid = uids + 1]]
            BY <2>1 DEF CreateApp, cacheVars, passVars
        <3>3. \A a \in Apps : app'[a].uid <= uids + 1 /\ appSeen[a].uid <= uids + 1
            BY <1>t, <3>1, <3>2 DEF UidsOnce
        <3> QED BY <1>t, <3>2, <3>3 DEF UidsOnce
    <2>2. ASSUME NEW b \in Apps, DeleteApp(b) PROVE UidsOnce'
        <3>1. Absent.uid = 0
            BY DEF Absent
        <3> QED BY <1>t, <2>2, <3>1 DEF DeleteApp, cacheVars, passVars, UidsOnce
    <2> QED BY <1>1, <2>1, <2>2
        DEF User, CreateRelease, DeleteRelease, apiVars, cacheVars, passVars, UidsOnce
<1>2. CASE Informers
    BY <1>t, <1>2 DEF Informers, DeliverApp, DeliverRelease, DeliverDep, apiVars, passVars, UidsOnce
<1>3. ASSUME NEW b \in Apps, Cluster(b) \/ Fails(b) \/ StartReconcile(b) PROVE UidsOnce'
    <2>1. CASE Cluster(b) \/ Fails(b)
        BY <2>1 DEF Cluster, CollectDep, CollectService, Place, BecomesReady, Fails, apiVars,
           cacheVars, passVars, UidsOnce
    <2>2. CASE StartReconcile(b)
        BY <1>t, <2>2 DEF StartReconcile, apiVars, cacheVars, UidsOnce
    <2> QED BY <1>3, <2>1, <2>2
<1>4. CASE CallFails \/ Restart
    BY <1>t, <1>4 DEF CallFails, Restart, Retry, Done, apiVars, cacheVars, UidsOnce
<1>5. CASE PickRelease \/ ApplyDep \/ ApplyService
    BY <1>5 DEF PickRelease, ApplyDep, ApplyService, GoTo, Retry, Done, apiVars, cacheVars, UidsOnce
<1>6. CASE NoRelease \/ UpdateStatus
    <2>1. /\ [view EXCEPT !.phase = "NoRelease"].uid = view.uid
          /\ [view EXCEPT !.phase = Phase, !.image = newest].uid = view.uid
        BY DEF TypeOK, PassType, AppObjects
    <2>2. at \in Apps /\ at # NoApp /\ at' = NoApp /\ UNCHANGED <<uids, appSeen>>
        BY <1>6, AtType, Constants
        DEF NoRelease, UpdateStatus, WriteStatus, Retry, Done, cacheVars
    <2>3. app' = app \/ (\E o : o.uid = view.uid /\ app' = [app EXCEPT ![at] = o])
        BY <1>6, <2>1 DEF NoRelease, UpdateStatus, WriteStatus
    <2>4. view.uid <= uids
        BY <2>2 DEF UidsOnce
    <2> QED BY <1>t, <2>2, <2>3, <2>4 DEF UidsOnce
<1> QED BY <1>1, <1>2, <1>3, <1>4, <1>5, <1>6 DEF Next, Step

-----------------------------------------------------------------------------
\* A step leaves what the caches hold of an App, and those objects that are its
\* own.
Spared(a) ==
    /\ appSeen'[a] = appSeen[a] /\ depSeen'[a].ready = depSeen[a].ready
    /\ Newest(a, relSeen)' = Newest(a, relSeen)
    /\ dep[a].owner = app[a].uid => dep'[a].owner = dep[a].owner /\ dep'[a].rel = dep[a].rel
    /\ svc[a] = app[a].uid => svc'[a] = svc[a]

LEMMA NewestKept ==
    ASSUME TypeOK, Next, NEW a \in Apps, Of(a, relSeen)' = Of(a, relSeen)
    PROVE  Newest(a, relSeen)' = Newest(a, relSeen)
<1>1. \A r \in Of(a, relSeen) : rel'[r] = rel[r]
    BY RelKept DEF Of, TypeOK, PassType
<1> QED BY <1>1 DEF Newest

LEMMA OfKept ==
    ASSUME TypeOK, Next, NEW a \in Apps, relSeen' = relSeen
    PROVE  Of(a, relSeen)' = Of(a, relSeen)
<1>1. \A r \in relSeen : rel'[r] = rel[r]
    BY RelKept DEF TypeOK, PassType
<1> QED BY <1>1 DEF Of

LEMMA LeftKept ==
    ASSUME NEW a \in Apps, Left(a), Spared(a), app'[a] = app[a]
    PROVE  Left(a)'
<1>1. CASE RightBySeen(a)
    <2>1. RightBySeen(a)'
        <3>1. PICK n : n = Newest(a, relSeen)
            OBVIOUS
        <3>2. Newest(a, relSeen)' = n
            BY <3>1 DEF Spared
        <3> QED BY <1>1, <3>1, <3>2 DEF RightBySeen, Spared
    <2> QED BY <2>1 DEF Left
<1> QED BY <1>1 DEF Left, Spared

LEMMA InHandKept ==
    ASSUME NEW a \in Apps, at = a, InHand, UNCHANGED passVars, Spared(a), app'[a] = app[a]
    PROVE  InHand'
<1>1. UNCHANGED <<at, pc, view, newest, up>>
    BY DEF passVars
<1> QED BY <1>1 DEF InHand, Deployed, Serves, Spared

\* Nothing of what is right can be taken away without a change of the App.
LEMMA ReplacedIsLeft ==
    ASSUME TypeOK, UidsOnce, UNCHANGED <<passVars, cacheVars, dep, svc, queued>>, Next,
           NEW a \in Apps, Minded(a), a \notin queued,
           app'[a].uid = 0 \/ app'[a].uid = uids + 1
    PROVE  IF at = a THEN InHand' ELSE Left(a)'
<1>1. UNCHANGED <<at, pc, view, newest, up, appSeen, relSeen, depSeen, dep, svc>>
    BY DEF passVars, cacheVars
<1>2. Newest(a, relSeen)' = Newest(a, relSeen)
    BY <1>1, OfKept, NewestKept
<1>t. uids \in Nat /\ appSeen[a].uid \in Nat
    BY Constants DEF TypeOK, ApiType, PassType, AppObjects
<1>3. CASE at = a
    <2>1. view.uid \in 1 .. uids
        BY <1>3, Constants DEF UidsOnce
    <2>2. view.uid # app'[a].uid
        BY <1>t, <2>1
    <2> QED BY <1>1, <1>2, <1>3, <2>2 DEF Minded, InHand, Deployed, Serves
<1>4. CASE at # a
    <2>1. appSeen[a].uid = 0 \/ appSeen[a].uid # app'[a].uid
        BY <1>t DEF UidsOnce
    <2> QED BY <1>1, <1>4, <2>1 DEF Left
<1> QED BY <1>3, <1>4

LEMMA UserMinds ==
    ASSUME TypeOK, UidsOnce, Next, User, NEW a \in Apps, Minded(a)
    PROVE  Minded(a)'
<1> SUFFICES ASSUME a \notin queued' PROVE IF at' = a THEN InHand' ELSE Left(a)'
    BY DEF Minded
<1>1. /\ UNCHANGED <<passVars, cacheVars, dep, svc, queued>>
      /\ UNCHANGED <<at, appSeen, relSeen, depSeen>>
    BY DEF User, CreateApp, DeleteApp, CreateRelease, DeleteRelease, objVars, passVars, cacheVars
<1>2. app'[a] = app[a] \/ app'[a].uid = 0 \/ app'[a].uid = uids + 1
    <2>1. [Absent EXCEPT !.uid = uids + 1].uid = uids + 1 /\ Absent.uid = 0
        BY DEF Absent
    <2>2. app \in [Apps -> AppObjects]
        BY DEF TypeOK, ApiType
    <2> QED BY <2>1, <2>2 DEF User, CreateApp, DeleteApp, CreateRelease, DeleteRelease, apiVars
<1>3. CASE app'[a] = app[a]
    <2>1. Newest(a, relSeen)' = Newest(a, relSeen)
        BY <1>1, OfKept, NewestKept
    <2>2. Spared(a)
        BY <1>1, <2>1 DEF Spared
    <2> QED BY <1>1, <1>3, <2>2, LeftKept, InHandKept DEF Minded
<1>4. CASE app'[a].uid = 0 \/ app'[a].uid = uids + 1
    BY <1>1, <1>4, ReplacedIsLeft
<1> QED BY <1>2, <1>3, <1>4

LEMMA InformersMind ==
    ASSUME TypeOK, Next, Informers, NEW a \in Apps, Minded(a)
    PROVE  Minded(a)'
<1> SUFFICES ASSUME a \notin queued' PROVE IF at' = a THEN InHand' ELSE Left(a)'
    BY DEF Minded
<1>1. UNCHANGED <<app, dep, svc, passVars, at>> /\ a \notin queued
    BY DEF Informers, DeliverApp, DeliverDep, DeliverRelease, apiVars, objVars, passVars
<1>2. appSeen'[a] = appSeen[a] /\ depSeen'[a].ready = depSeen[a].ready
    BY DEF Informers, DeliverApp, DeliverDep, DeliverRelease, TypeOK, PassType
<1>3. Of(a, relSeen)' = Of(a, relSeen)
    <2>1. CASE UNCHANGED relSeen
        BY <2>1, OfKept
    <2>2. ASSUME NEW r \in Created, DeliverRelease(r) PROVE Of(a, relSeen)' = Of(a, relSeen)
        <3>1. rel' = rel /\ rel[r].app # a
            BY <2>2 DEF DeliverRelease, relVars
        <3>2. relSeen' = relSeen \ {r} \/ relSeen' = relSeen \cup {r}
            BY <2>2 DEF DeliverRelease
        <3> QED BY <3>1, <3>2 DEF Of
    <2> QED BY <2>1, <2>2 DEF Informers, DeliverApp, DeliverDep
<1>4. Spared(a)
    BY <1>1, <1>2, <1>3, NewestKept DEF Spared
<1> QED BY <1>1, <1>4, LeftKept, InHandKept DEF Minded

LEMMA ClusterMinds ==
    ASSUME TypeOK, Next, NEW b \in Apps, Cluster(b) \/ Fails(b), NEW a \in Apps, Minded(a)
    PROVE  Minded(a)'
<1>1. UNCHANGED <<app, appSeen, relSeen, depSeen, passVars, at, queued>>
    BY DEF Cluster, CollectDep, CollectService, Place, BecomesReady, Fails, apiVars, cacheVars,
       passVars
<1>2. dep[a].owner = app[a].uid => dep'[a].owner = dep[a].owner /\ dep'[a].rel = dep[a].rel
    <2>1. /\ [dep[b] EXCEPT !.ready = "yes"].owner = dep[b].owner
          /\ [dep[b] EXCEPT !.ready = "yes"].rel = dep[b].rel
          /\ [dep[b] EXCEPT !.ready = "no"].owner = dep[b].owner
          /\ [dep[b] EXCEPT !.ready = "no"].rel = dep[b].rel
          /\ dep \in [Apps -> Deployments]
        BY DEF TypeOK, ApiType, Deployments
    <2> QED BY <2>1 DEF Cluster, CollectDep, CollectService, Place, BecomesReady, Fails, Orphan
<1>3. svc[a] = app[a].uid => svc'[a] = svc[a]
    BY DEF Cluster, CollectDep, CollectService, Place, BecomesReady, Fails, Orphan, objVars,
       TypeOK, ApiType
<1>4. Spared(a)
    BY <1>1, <1>2, <1>3, OfKept, NewestKept DEF Spared
<1> QED BY <1>1, <1>4, LeftKept, InHandKept DEF Minded

LEMMA StartMinds ==
    ASSUME TypeOK, Next, NEW b \in Apps, StartReconcile(b), NEW a \in Apps, Minded(a)
    PROVE  Minded(a)'
<1> SUFFICES ASSUME a \notin queued' PROVE IF at' = a THEN InHand' ELSE Left(a)'
    BY DEF Minded
<1>1. /\ UNCHANGED <<app, dep, svc, appSeen, relSeen, depSeen>> /\ at = NoApp /\ at # a
      /\ queued' = queued \ {b}
    BY Constants DEF StartReconcile, apiVars, objVars, cacheVars, TypeOK, PassType
<1>2. Spared(a)
    BY <1>1, OfKept, NewestKept DEF Spared
<1>3. CASE a # b
    <2>1. at' # a /\ Left(a)
        BY <1>1, <1>3 DEF StartReconcile, Minded
    <2> QED BY <1>1, <1>2, <2>1, LeftKept
<1>4. CASE a = b
    <2>1. CASE appSeen[a].uid = 0
        BY <1>1, <1>4, <2>1 DEF StartReconcile, Left
    <2>2. CASE appSeen[a].uid # 0
        BY <1>1, <1>4, <2>2 DEF StartReconcile, InHand
    <2> QED BY <2>1, <2>2
<1> QED BY <1>3, <1>4

\* What a pass does to another App.
LEMMA PassSparesOthers ==
    ASSUME TypeOK, Next, Step \/ CallFails, NEW a \in Apps, Minded(a), a # at
    PROVE  Minded(a)'
<1>1. at \in Apps /\ UNCHANGED <<appSeen, relSeen, depSeen>>
    BY AtType DEF Step, PickRelease, NoRelease, ApplyDep, ApplyService, UpdateStatus, CallFails,
       cacheVars
<1>2. queued \subseteq queued' /\ at' # a
    BY Constants DEF Step, PickRelease, NoRelease, ApplyDep, ApplyService, UpdateStatus, CallFails,
       WriteStatus, Retry, Done, GoTo
<1>3. app'[a] = app[a] /\ dep'[a] = dep[a] /\ svc'[a] = svc[a]
    <2>1. app \in [Apps -> AppObjects] /\ dep \in [Apps -> Deployments] /\ svc \in [Apps -> Uids]
        BY DEF TypeOK, ApiType
    <2> QED BY <1>1, <2>1 DEF Step, PickRelease, NoRelease, ApplyDep, ApplyService, UpdateStatus,
            CallFails, WriteStatus, apiVars, objVars
<1>4. Spared(a)
    BY <1>1, <1>3, OfKept, NewestKept DEF Spared
<1> QED BY <1>2, <1>3, <1>4, LeftKept DEF Minded

-----------------------------------------------------------------------------
\* What a call leaves of the App of its pass, unless the pass is tried again.
LEMMA PickMinds ==
    ASSUME TypeOK, Next, PickRelease, Minded(at), at \notin queued'
    PROVE  at' = at /\ InHand'
<1>1. /\ at \in Apps /\ UNCHANGED <<at, view, appSeen, relSeen, depSeen, queued>>
      /\ pc' = "deploy" /\ newest' \in Newest(at, relSeen)
    BY AtType DEF PickRelease, GoTo, cacheVars
<1>2. Newest(at, relSeen)' = Newest(at, relSeen)
    <2>1. PICK a \in Apps : a = at
        BY <1>1
    <2> QED BY <1>1, <2>1, OfKept, NewestKept DEF Newest, Of, PickRelease, relVars
<1> QED BY <1>1, <1>2 DEF Minded, InHand

LEMMA ApplyDepMinds ==
    ASSUME TypeOK, Next, ApplyDep, Minded(at), at \notin queued'
    PROVE  at' = at /\ InHand'
<1> DEFINE obj == [dep[at] EXCEPT !.owner = view.uid, !.rel = newest]
<1>1. /\ at \in Apps /\ ~Rejected(depSeen[at]) /\ dep' = [dep EXCEPT ![at] = obj]
      /\ up' = dep[at].ready /\ pc = "deploy" /\ pc' = "service"
      /\ UNCHANGED <<at, view, newest, queued, app, rel, appSeen, relSeen, depSeen>>
    BY AtType DEF ApplyDep, Retry, GoTo, apiVars, relVars, cacheVars
<1>2. /\ depSeen[at] = dep[at] /\ Valid(Limits[at], ResolveTier(Tier))
    BY <1>1 DEF Rejected
<1>3. obj.owner = view.uid /\ obj.rel = newest /\ dep'[at] = obj
    BY <1>1 DEF TypeOK, ApiType, Deployments
<1>4. InHand /\ newest \in Newest(at, relSeen)
    BY <1>1 DEF Minded, InHand
<1>5. Deployed'
    BY <1>1, <1>2, <1>3 DEF Deployed, Valid, Requests
<1> QED BY <1>1, <1>4, <1>5 DEF InHand, Newest, Of

LEMMA ApplyServiceMinds ==
    ASSUME TypeOK, Next, ApplyService, Minded(at), at \notin queued'
    PROVE  at' = at /\ InHand'
<1>1. /\ at \in Apps /\ svc' = [svc EXCEPT ![at] = view.uid]
      /\ pc = "service" /\ pc' = "status"
      /\ UNCHANGED <<at, view, newest, up, queued, app, dep, rel, appSeen, relSeen, depSeen>>
    BY AtType DEF ApplyService, Retry, GoTo, apiVars, relVars, cacheVars
<1>2. InHand /\ newest \in Newest(at, relSeen) /\ Deployed
    BY <1>1 DEF Minded, InHand
<1>3. Serves'
    BY <1>1 DEF Serves, TypeOK, ApiType
<1>4. Deployed'
    BY <1>1, <1>2 DEF Deployed, Valid, Requests
<1> QED BY <1>1, <1>2, <1>3, <1>4 DEF InHand, Newest, Of

LEMMA NoReleaseMinds ==
    ASSUME TypeOK, Next, NoRelease, Minded(at), at \notin queued'
    PROVE  at' # at /\ \A a \in Apps : a = at => Left(a)'
<1>1. /\ at \in Apps /\ at # NoApp /\ at' = NoApp /\ at \notin queued
      /\ UNCHANGED <<rel, appSeen, relSeen, depSeen>> /\ Newest(at, relSeen) = {}
    BY AtType, Constants DEF NoRelease, WriteStatus, Retry, Done, relVars, cacheVars
<1>2. view = appSeen[at]
    BY <1>1 DEF Minded, InHand
<1>3. PICK a \in Apps : a = at
    BY <1>1
<1>4. Newest(a, relSeen)' = {}
    BY <1>1, <1>3 DEF Newest, Of
<1>5. CASE view.phase = "NoRelease"
    <2>1. app' = app
        BY <1>5 DEF NoRelease
    <2>2. app[a] # appSeen[a] \/ app[a].phase = "NoRelease"
        BY <1>2, <1>3, <1>5
    <2>3. Left(a)'
        BY <1>1, <1>4, <2>1, <2>2 DEF Left, RightBySeen
    <2> QED BY <1>1, <1>3, <2>3
<1>6. CASE view.phase # "NoRelease"
    <2>1. app' = [app EXCEPT ![at] = [view EXCEPT !.phase = "NoRelease"]]
        BY <1>1, <1>6 DEF NoRelease, WriteStatus, Retry
    <2>2. app'[a].phase = "NoRelease"
        BY <1>1, <1>3, <2>1 DEF TypeOK, ApiType, PassType, AppObjects
    <2>3. Left(a)'
        BY <1>1, <1>4, <2>2 DEF Left, RightBySeen
    <2> QED BY <1>1, <1>3, <2>3
<1> QED BY <1>5, <1>6

LEMMA UpdateMinds ==
    ASSUME TypeOK, Next, UpdateStatus, Minded(at), at \notin queued'
    PROVE  at' # at /\ \A a \in Apps : a = at => Left(a)'
<1> DEFINE status == [view EXCEPT !.phase = Phase, !.image = newest]
<1>1. /\ at \in Apps /\ at # NoApp /\ at' = NoApp /\ at \notin queued /\ pc = "status"
      /\ UNCHANGED <<rel, appSeen, relSeen, depSeen, dep, svc>>
      /\ app[at] = view /\ app' = [app EXCEPT ![at] = status]
    BY AtType, Constants DEF UpdateStatus, WriteStatus, Retry, Done, relVars, cacheVars, objVars
<1>2. InHand /\ newest \in Newest(at, relSeen) /\ Deployed /\ Serves
    BY <1>1 DEF Minded, InHand
<1>3. status.uid = view.uid /\ status.phase = Phase /\ status.image = newest /\ app'[at] = status
    BY <1>1 DEF TypeOK, ApiType, PassType, AppObjects
<1>4. PICK a \in Apps : a = at
    BY <1>1
<1>5. newest \in Newest(a, relSeen)'
    BY <1>1, <1>2, <1>4 DEF Newest, Of
<1>6. /\ dep[a].owner = status.uid /\ svc[a] = status.uid /\ dep[a].rel = newest
      /\ up = depSeen[a].ready
    BY <1>1, <1>2, <1>3, <1>4 DEF Deployed, Serves
<1>7. Valid(Limits[a], ResolveTier(Tier))
    BY <1>2, <1>4 DEF Deployed
<1> HIDE DEF status
<1>8. RightBySeen(a)'
    BY <1>1, <1>3, <1>4, <1>5, <1>6, <1>7 DEF RightBySeen, Phase, Valid, Requests
<1> QED BY <1>1, <1>4, <1>8 DEF Left

LEMMA AwakeStep ==
    ASSUME TypeOK, TypeOK', Awake, Next
    PROVE  Awake'
<1>1. UidsOnce'
    BY UidsOnceStep DEF Awake
<1>2. ASSUME NEW a \in Apps PROVE Minded(a)'
    <2>m. UidsOnce /\ Minded(a)
        BY DEF Awake
    <2>1. CASE User
        BY <2>m, <2>1, UserMinds
    <2>2. CASE Informers
        BY <2>m, <2>2, InformersMind
    <2>3. CASE \E b \in Apps : Cluster(b) \/ Fails(b)
        BY <2>m, <2>3, ClusterMinds
    <2>4. CASE \E b \in Apps : StartReconcile(b)
        BY <2>m, <2>4, StartMinds
    <2>5. CASE (Step \/ CallFails) /\ a # at
        BY <2>m, <2>5, PassSparesOthers
    <2>6. CASE CallFails /\ a = at
        BY <2>6 DEF CallFails, Retry, Minded
    <2>7. CASE Step /\ a = at
        <3> SUFFICES ASSUME a \notin queued' PROVE IF at' = a THEN InHand' ELSE Left(a)'
            BY DEF Minded
        <3>1. Minded(at) /\ at \notin queued'
            BY <2>m, <2>7
        <3>2. CASE PickRelease
            BY <2>7, <3>1, <3>2, PickMinds
        <3>3. CASE NoRelease
            BY <2>7, <3>1, <3>3, NoReleaseMinds
        <3>4. CASE ApplyDep
            BY <2>7, <3>1, <3>4, ApplyDepMinds
        <3>5. CASE ApplyService
            BY <2>7, <3>1, <3>5, ApplyServiceMinds
        <3>6. CASE UpdateStatus
            BY <2>7, <3>1, <3>6, UpdateMinds
        <3> QED BY <2>7, <3>2, <3>3, <3>4, <3>5, <3>6 DEF Step
    <2>8. CASE Restart
        <3>1. a \notin queued' => appSeen'[a].uid = 0
            BY <2>8 DEF Restart
        <3>2. at' # a
            BY <2>8, Constants DEF Restart, Done
        <3> QED BY <3>1, <3>2 DEF Minded, Left
    <2> QED BY <2>1, <2>2, <2>3, <2>4, <2>5, <2>6, <2>7, <2>8 DEF Next
<1> QED BY <1>1, <1>2 DEF Awake

\* What the caches know is all there is.
LEMMA QuietIsRight ==
    ASSUME TypeOK, Awake, NEW a \in Apps, Quiet(a)
    PROVE  AtRest(a)
<1>1. RightBySeen(a)
    BY DEF Awake, Minded, Left, Quiet
<1>2. Newest(a, relSeen) = Newest(a, Created \ gone) /\ depSeen[a] = dep[a]
    BY DEF Quiet, Newest
<1> QED BY <1>1, <1>2 DEF RightBySeen, AtRest

\* No wake-up is lost: for any Apps, limits, Releases, deletions, restarts and
\* failures, an App that nothing is about to look at again is right.
THEOREM NoWakeupLost == Spec => []NothingForgotten
<1>1. Init => Awake
    <2> SUFFICES ASSUME Init PROVE Awake
        OBVIOUS
    <2>1. \A a \in Apps : app[a].uid = 0 /\ appSeen[a].uid = 0 /\ at # a
        BY Constants DEF Init, Absent
    <2> QED BY <2>1 DEF Init, Awake, UidsOnce, Minded, Left
<1>2. TypeOK /\ TypeOK' /\ Awake /\ [Next]_vars => Awake'
    <2> SUFFICES ASSUME TypeOK, TypeOK', Awake, [Next]_vars PROVE Awake'
        OBVIOUS
    <2>1. CASE UNCHANGED vars
        BY <2>1 DEF vars, apiVars, relVars, objVars, cacheVars, passVars, Awake, UidsOnce, Minded,
           InHand, Deployed, Serves, Left, RightBySeen, Newest, Of, Valid, Requests
    <2> QED BY <2>1, AwakeStep
<1>3. TypeOK /\ Awake => NothingForgotten
    BY QuietIsRight DEF NothingForgotten
<1> QED BY <1>1, <1>2, <1>3, TypeCorrect, PTL DEF Spec
=============================================================================
