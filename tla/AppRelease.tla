----------------------------- MODULE AppRelease -----------------------------
(***************************************************************************)
(* The App controller (internal/controller/app_controller.go): Apps, the   *)
(* Releases that name their images, and the Deployments that run them on a *)
(* node that is overcommitted by tier (overcommit.go).                     *)
(*                                                                         *)
(* A pass reads the App and then the list of Releases from caches, picks   *)
(* the newest, and makes three calls: Deployment, Service, status. It has  *)
(* nothing to poll: every change it must react to is an event. Creation    *)
(* times are whole seconds, and the cache lists in no order, so any of the *)
(* Releases of the last second may be picked, by each pass anew.           *)
(*                                                                         *)
(* Releases are numbered as they are created, and each has an image of its *)
(* own, so a Deployment is described by the number of the Release it runs. *)
(***************************************************************************)
EXTENDS Overcommit, Sequences, FiniteSets, Functions

CONSTANTS
    Apps, NoApp,
    Others,       \* names that Releases give and no App has
    Limits,       \* spec.resources of each App
    Replicas,     \* spec.replicas of each App
    Tier,         \* PAAS_OVERCOMMIT_TIER
    Allocatable,  \* of the node
    MaxReleases,  \* bound: Releases created
    MaxUid,       \* bound: Apps created
    MaxEdits,     \* bound: Apps and Releases deleted
    MaxFaults     \* bound: failed calls, crashes, outages of pods

ASSUME AppsAssumption ==
    IsFiniteSet(Apps) /\ NoApp \notin Apps /\ Others \cap Apps = {} /\ Limits \in [Apps -> Counts]
    /\ Replicas \in [Apps -> Nat] /\ Allocatable \in Counts
ASSUME BoundsAssumption ==
    MaxReleases \in Nat /\ MaxUid \in Nat /\ MaxEdits \in Nat /\ MaxFaults \in Nat

VARIABLES
    \* The API server.
    uids,      \* uids given so far
    app,       \* the Apps: uid, and the status the controller wrote
    rel,       \* every Release ever created: its App and its second
    gone,      \* ... those that were deleted
    dep,       \* Deployments: owner, Release, ReadyReplicas >= 1
    svc,       \* owners of the Services
    placed,    \* pods of each App that the node has taken
    \* The operator's caches and work queue.
    appSeen, relSeen, depSeen, queued,
    \* The pass that is running.
    at,        \* the App it is about, or NoApp
    pc,        \* its next call
    view,      \* the App it read
    newest,    \* the Release it picked, or 0
    up,        \* the Deployment it got back had a ready replica
    \* Bounds.
    edits, faults

apiVars   == <<uids, app>>
relVars   == <<rel, gone>>
objVars   == <<dep, svc, placed>>
cacheVars == <<appSeen, relSeen, depSeen>>
passVars  == <<at, pc, view, newest, up>>
boundVars == <<edits, faults>>
vars == <<apiVars, relVars, objVars, cacheVars, queued, passVars, boundVars>>

-----------------------------------------------------------------------------
Flags  == {"no", "yes"}
Uids   == 0 .. MaxUid
Rels   == 0 .. MaxReleases
Steps  == {"idle", "list", "deploy", "service", "status"}
Phases == {"unset", "NoRelease", "Progressing", "Running"}

AppObjects  == [uid : Uids, phase : Phases, image : Rels]
Absent      == [uid |-> 0, phase |-> "unset", image |-> 0]
Deployments == [owner : Uids, rel : Rels, ready : Flags]
NoDep       == [owner |-> 0, rel |-> 0, ready |-> "no"]

Created == 1 .. Len(rel)

Init ==
    /\ uids = 0 /\ app = [a \in Apps |-> Absent]
    /\ rel = <<>> /\ gone = {}
    /\ dep = [a \in Apps |-> NoDep] /\ svc = [a \in Apps |-> 0]
    /\ placed = [a \in Apps |-> 0]
    /\ appSeen = app /\ relSeen = {} /\ depSeen = dep /\ queued = {}
    /\ at = NoApp /\ pc = "idle" /\ view = Absent /\ newest = 0 /\ up = "no"
    /\ edits = 0 /\ faults = 0

-----------------------------------------------------------------------------
(* Users and builds                                                        *)

CreateApp(a) ==
    /\ app[a].uid = 0 /\ uids < MaxUid
    /\ uids' = uids + 1
    /\ app' = [app EXCEPT ![a] = [Absent EXCEPT !.uid = uids + 1]]
    /\ UNCHANGED <<relVars, objVars, cacheVars, queued, passVars, boundVars>>

DeleteApp(a) ==
    /\ app[a].uid # 0 /\ edits < MaxEdits
    /\ edits' = edits + 1
    /\ app' = [app EXCEPT ![a] = Absent]
    /\ UNCHANGED <<uids, relVars, objVars, cacheVars, queued, passVars, faults>>

\* In the second of the last Release or in a later one.
CreateRelease(a, later) ==
    /\ Len(rel) < MaxReleases
    /\ rel' = Append(rel, [app |-> a,
                           at  |-> IF rel = <<>> THEN 1 ELSE rel[Len(rel)].at + later])
    /\ UNCHANGED <<apiVars, gone, objVars, cacheVars, queued, passVars, boundVars>>

DeleteRelease(r) ==
    /\ r \in Created \ gone /\ edits < MaxEdits
    /\ edits' = edits + 1
    /\ gone' = gone \cup {r}
    /\ UNCHANGED <<apiVars, rel, objVars, cacheVars, queued, passVars, faults>>

-----------------------------------------------------------------------------
(* The cluster                                                             *)

Orphan(owner, of) == owner # 0 /\ owner # of

CollectDep(a) ==
    /\ Orphan(dep[a].owner, app[a].uid)
    /\ dep' = [dep EXCEPT ![a] = NoDep] /\ placed' = [placed EXCEPT ![a] = 0]
    /\ UNCHANGED <<apiVars, relVars, svc, cacheVars, queued, passVars, boundVars>>

CollectService(a) ==
    /\ Orphan(svc[a], app[a].uid)
    /\ svc' = [svc EXCEPT ![a] = 0]
    /\ UNCHANGED <<apiVars, relVars, dep, placed, cacheVars, queued, passVars, boundVars>>

Requested(a) == Requests(Limits[a], ResolveTier(Tier))

Pods(a) == IF Replicas[a] = 0 THEN 1 ELSE Replicas[a]

\* What pods of the Apps, so many of each, request together.
Load(pods, k) == SumFunction([b \in Apps |-> pods[b] * Requested(b)[k]])

\* The scheduler takes a pod if the sum of requests fits the node.
Place(a) ==
    /\ dep[a].owner # 0 /\ placed[a] < Pods(a)
    /\ placed' = [placed EXCEPT ![a] = @ + 1]
    /\ \A k \in Kinds : Load(placed', k) <= Allocatable[k]
    /\ UNCHANGED <<apiVars, relVars, dep, svc, cacheVars, queued, passVars, boundVars>>

\* An update keeps the old replica until the new one is ready.
BecomesReady(a) ==
    /\ placed[a] > 0 /\ dep[a].ready = "no"
    /\ dep' = [dep EXCEPT ![a].ready = "yes"]
    /\ UNCHANGED <<apiVars, relVars, svc, placed, cacheVars, queued, passVars, boundVars>>

Fails(a) ==
    /\ dep[a].ready = "yes" /\ faults < MaxFaults /\ faults' = faults + 1
    /\ dep' = [dep EXCEPT ![a].ready = "no"]
    /\ UNCHANGED <<apiVars, relVars, svc, placed, cacheVars, queued, passVars, edits>>

-----------------------------------------------------------------------------
(* Informers: SetupWithManager, releaseToApp                               *)

DeliverApp(a) ==
    /\ appSeen[a] # app[a]
    /\ appSeen' = [appSeen EXCEPT ![a] = app[a]] /\ queued' = queued \cup {a}
    /\ UNCHANGED <<apiVars, relVars, objVars, relSeen, depSeen, passVars, boundVars>>

DeliverRelease(r) ==
    /\ r \in Created /\ (r \in relSeen <=> r \in gone)
    /\ relSeen' = IF r \in gone THEN relSeen \ {r} ELSE relSeen \cup {r}
    /\ queued' = queued \cup ({rel[r].app} \cap Apps)
    /\ UNCHANGED <<apiVars, relVars, objVars, appSeen, depSeen, passVars, boundVars>>

DeliverDep(a) ==
    /\ depSeen[a] # dep[a]
    /\ depSeen' = [depSeen EXCEPT ![a] = dep[a]] /\ queued' = queued \cup {a}
    /\ UNCHANGED <<apiVars, relVars, objVars, appSeen, relSeen, passVars, boundVars>>

-----------------------------------------------------------------------------
(* The pass                                                                *)

StartReconcile_Gone(a) ==                                  \* mutant
    /\ pc = "idle" /\ a \in queued
    /\ queued' = queued \ {a}
    /\ at' = a /\ pc' = "list" /\ view' = appSeen[a]
    /\ UNCHANGED <<apiVars, relVars, objVars, cacheVars, newest, up, boundVars>>
StartReconcile(a) ==
    /\ pc = "idle" /\ a \in queued
    /\ queued' = queued \ {a}
    /\ IF appSeen[a].uid = 0
       THEN UNCHANGED <<at, pc, view>>
       ELSE at' = a /\ pc' = "list" /\ view' = appSeen[a]
    /\ UNCHANGED <<apiVars, relVars, objVars, cacheVars, newest, up, boundVars>>

Done == at' = NoApp /\ pc' = "idle" /\ view' = Absent /\ newest' = 0 /\ up' = "no"

Retry_Drops == Done /\ UNCHANGED queued                    \* mutant
Retry == Done /\ queued' = queued \cup {at}

GoTo(step) == pc' = step /\ UNCHANGED <<at, view, queued>>

Of(a, releases) == {r \in releases : rel[r].app = a}

Newest_Any(a, releases) == Of(a, releases)                 \* mutant
Newest(a, releases) ==
    {r \in Of(a, releases) : \A q \in Of(a, releases) : rel[q].at <= rel[r].at}

PickRelease ==
    /\ pc = "list"
    /\ \E r \in Newest(at, relSeen) : newest' = r
    /\ GoTo("deploy")
    /\ UNCHANGED <<apiVars, relVars, objVars, cacheVars, up, boundVars>>

\* The controller's writes to the status of an App that has changed since it
\* was read are refused.
WriteStatus(status) ==
    \/ /\ app[at] = view
       /\ app' = [app EXCEPT ![at] = status] /\ Done /\ UNCHANGED queued
    \/ /\ app[at] # view
       /\ Retry /\ UNCHANGED app

\* setPhase
NoRelease ==
    /\ pc = "list" /\ Newest(at, relSeen) = {}
    /\ IF view.phase = "NoRelease"
       THEN Done /\ UNCHANGED <<app, queued>>
       ELSE WriteStatus([view EXCEPT !.phase = "NoRelease"])
    /\ UNCHANGED <<uids, relVars, objVars, cacheVars, boundVars>>

\* CreateOrUpdate is refused another owner's Deployment, a write based on an
\* old copy, and a container that requests more than its limit. It always
\* writes: the template it makes lacks the defaults of the API server.
Rejected(seen) ==
    seen.owner \notin {0, view.uid} \/ seen # dep[at] \/ ~Valid(Limits[at], ResolveTier(Tier))

ApplyDep ==
    /\ pc = "deploy"
    /\ IF Rejected(depSeen[at])
       THEN Retry /\ UNCHANGED dep
       ELSE /\ dep' = [dep EXCEPT ![at] = [@ EXCEPT !.owner = view.uid, !.rel = newest]]
            /\ up' = dep[at].ready
            /\ GoTo("service") /\ UNCHANGED newest
    /\ UNCHANGED <<apiVars, relVars, svc, placed, cacheVars, boundVars>>

ApplyService ==
    /\ pc = "service"
    /\ IF svc[at] \notin {0, view.uid}
       THEN Retry /\ UNCHANGED svc
       ELSE /\ svc' = [svc EXCEPT ![at] = view.uid]
            /\ GoTo("status") /\ UNCHANGED <<newest, up>>
    /\ UNCHANGED <<apiVars, relVars, dep, placed, cacheVars, boundVars>>

Phase_FromView == view.phase                               \* mutant
Phase == IF up = "yes" THEN "Running" ELSE "Progressing"

UpdateStatus ==
    /\ pc = "status"
    /\ WriteStatus([view EXCEPT !.phase = Phase, !.image = newest])
    /\ UNCHANGED <<uids, relVars, objVars, cacheVars, boundVars>>

CallFails ==
    /\ pc # "idle" /\ faults < MaxFaults /\ faults' = faults + 1
    /\ Retry
    /\ UNCHANGED <<apiVars, relVars, objVars, cacheVars, edits>>

Restart ==
    /\ faults < MaxFaults /\ faults' = faults + 1
    /\ Done
    /\ appSeen' = app /\ relSeen' = Created \ gone /\ depSeen' = dep
    /\ queued' = {a \in Apps : app[a].uid # 0}
    /\ UNCHANGED <<apiVars, relVars, objVars, edits>>

-----------------------------------------------------------------------------
User == \/ \E a \in Apps : CreateApp(a) \/ DeleteApp(a)
        \/ \E a \in Apps \cup Others, later \in {0, 1} : CreateRelease(a, later)
        \/ \E r \in Created : DeleteRelease(r)

Cluster(a) == CollectDep(a) \/ CollectService(a) \/ Place(a) \/ BecomesReady(a)

Informers == \/ \E a \in Apps : DeliverApp(a) \/ DeliverDep(a)
             \/ \E r \in Created : DeliverRelease(r)

Step == PickRelease \/ NoRelease \/ ApplyDep \/ ApplyService \/ UpdateStatus

Next == \/ User \/ Informers
        \/ \E a \in Apps : Cluster(a) \/ Fails(a) \/ StartReconcile(a)
        \/ Step \/ CallFails \/ Restart

Spec == Init /\ [][Next]_vars

\* A pass goes on, every key is served, every event is delivered, and the
\* cluster does its work.
FairSpec ==
    /\ Spec /\ WF_vars(Step)
    /\ \A a \in Apps : /\ SF_vars(StartReconcile(a)) /\ WF_vars(Cluster(a))
                      /\ SF_vars(DeliverApp(a)) /\ SF_vars(DeliverDep(a))
    /\ \A r \in 1 .. MaxReleases : WF_vars(DeliverRelease(r))

-----------------------------------------------------------------------------
(* Properties                                                              *)

ApiType ==
    /\ uids \in Uids /\ app \in [Apps -> AppObjects]
    /\ rel \in Seq([app : Apps \cup Others, at : Nat]) /\ Len(rel) <= MaxReleases
    /\ gone \subseteq Created
    /\ dep \in [Apps -> Deployments] /\ svc \in [Apps -> Uids] /\ placed \in [Apps -> Nat]

PassType ==
    /\ appSeen \in [Apps -> AppObjects] /\ relSeen \subseteq Created
    /\ depSeen \in [Apps -> Deployments] /\ queued \subseteq Apps
    /\ at \in Apps \cup {NoApp} /\ pc \in Steps
    /\ (pc = "idle" <=> at = NoApp) /\ (pc = "idle" <=> view.uid = 0)
    /\ view \in AppObjects /\ newest \in Rels /\ up \in Flags
    /\ edits \in 0 .. MaxEdits /\ faults \in 0 .. MaxFaults

\* Type invariant.
TypeOK == ApiType /\ PassType

\* The Deployment of an App never goes back to a Release of an earlier second
\* while no Release is deleted, however old the caches a pass goes by and
\* wherever it is interrupted (app_controller.go:71).
NeverBack ==
    [][\A a \in Apps : dep[a].rel # 0 /\ dep'[a].rel # 0 /\ gone = {} =>
            rel[dep[a].rel].at <= rel[dep'[a].rel].at]_vars

\* An App whose limits are not below the floors ends up running a Release of the
\* last second, with a Service, and its status says so, although nothing polls
\* and the Release may come before the App, or an App of that name may have been
\* deleted just before.
Settled(a) ==
    LET newests == Newest(a, Created \ gone) IN
    IF newests = {}
    THEN app[a].phase = "NoRelease"
    ELSE /\ dep[a].owner = app[a].uid /\ dep[a].rel \in newests
         /\ svc[a] = app[a].uid
         /\ app[a].image \in newests
         /\ Cardinality(newests) = 1 =>
               app[a].phase = IF dep[a].ready = "yes" THEN "Running" ELSE "Progressing"

Settles ==
    <>[](\A a \in Apps :
            app[a].uid # 0 /\ Valid(Limits[a], ResolveTier(Tier)) => Settled(a))

\* Nothing is forgotten: an App whose key is in no queue and no pass, and of which
\* the caches know all there is, runs a newest Release, has its Service, and its
\* status says exactly that; one with a request above its limit is never left
\* alone. Nothing polls, so a pass that ends on an old copy, a refused write or
\* a readiness that changed meanwhile must have left an event behind.
Quiet(a) ==
    /\ app[a].uid # 0 /\ a \notin queued /\ at # a
    /\ appSeen[a] = app[a] /\ depSeen[a] = dep[a]
    /\ Of(a, relSeen) = Of(a, Created \ gone)

AtRest(a) ==
    LET newests == Newest(a, Created \ gone) IN
    IF newests = {}
    THEN app[a].phase = "NoRelease"
    ELSE /\ Valid(Limits[a], ResolveTier(Tier))
         /\ dep[a].owner = app[a].uid /\ svc[a] = app[a].uid
         /\ dep[a].rel \in newests /\ app[a].image = dep[a].rel
         /\ app[a].phase = IF dep[a].ready = "yes" THEN "Running" ELSE "Progressing"

NothingForgotten == \A a \in Apps : Quiet(a) => AtRest(a)

\* "Pick the newest Release that targets this app": a Deployment never goes
\* back to a Release made before the one it runs. It does, within a second.
NeverEarlier ==
    [][\A a \in Apps : dep'[a].rel # 0 /\ gone = {} => dep[a].rel <= dep'[a].rel]_vars

\* What the node has taken is limited to the ratio of the tier times what it
\* has, and for each container less than the ratio more, which the division
\* cuts off; the floors only lower it.
Overcommitted ==
    \A k \in Kinds :
        LET ratio == ResolveTier(Tier)[k] IN
        SumFunction([a \in Apps |-> placed[a] * Limits[a][k]])
            <= ratio * Allocatable[k] + (ratio - 1) * SumFunction(placed)
=============================================================================
