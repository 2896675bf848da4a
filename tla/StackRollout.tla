---------------------------- MODULE StackRollout ----------------------------
(***************************************************************************)
(* The Stack controller (internal/controller/stack_controller.go): one     *)
(* Stack object, the reconciles that roll it out, and the cluster it talks *)
(* to.                                                                     *)
(*                                                                         *)
(* A reconcile reads the Stack once, from a cache, and then makes a series *)
(* of API calls: the backing services, then for every service its release  *)
(* Job and its processes, then the status.  Each call is one action, so    *)
(* edits, deletions, Job completions, garbage collection, cache deliveries *)
(* and failures happen between any two of them.  The typed client reads    *)
(* Jobs and Deployments from caches that lag the API server; a write from  *)
(* a stale copy is refused and the whole pass is retried.                  *)
(*                                                                         *)
(* Every accepted spec of the Stack is a "revision", an index into revs.   *)
(* What a reconcile writes is tagged with the revision it was reading, so  *)
(* owner, generation and contents of an object are those of its revision.  *)
(***************************************************************************)
EXTENDS Naturals, Sequences, FiniteSets

CONSTANTS
    Services,     \* names of the services a spec may list
    Processes,    \* names of the processes of a service
    Backings,     \* names of the backing services
    Images,       \* OCI refs, NoImage among them
    NoImage,      \* ServiceSpec.Image == ""
    Specs,        \* the StackSpecs a user may write
    MaxRevision,  \* bound: specs ever accepted by the API server
    MaxDeletes,   \* bound: times the Stack is deleted
    MaxFaults     \* bound: failed API calls, operator crashes, outages

\* A service a spec does not list is the same as one without image and hook:
\* both are skipped.  `needs` are the targets of its connections that are
\* backing services, or would be if the spec listed them; `ported` are the
\* processes with a port.
ServiceSpec ==
    {svc \in [image : Images, hook : BOOLEAN, needs : SUBSET Backings,
              procs : SUBSET Processes, ported : SUBSET Processes] :
        svc.ported \subseteq svc.procs}

StackSpec == [svc : [Services -> ServiceSpec], backing : SUBSET Backings]

ASSUME SpecsAssumption == Specs \subseteq StackSpec /\ NoImage \in Images

ASSUME BoundsAssumption ==
    MaxRevision \in Nat \ {0} /\ MaxDeletes \in Nat /\ MaxFaults \in Nat

VARIABLES
    \* The API server.
    revs,     \* every accepted spec, oldest first
    live,     \* uid of the Stack object that exists, 0 if none does
    status,   \* its status
    job,      \* state of the release Job named <service>-release-g<gen>
    jobRev,   \* ... and the revision it was built from, 0 if it is absent
    dep,      \* revision of the Deployment of each process, 0 if absent
    pods,     \* the Deployments with ReadyReplicas >= 1
    svcObj,   \* uid of the owner of each process's Service, 0 if absent
    prov,     \* uid of the owner of each backing service, 0 if absent
    up,       \* the backing services that are ready
    \* The operator's caches and its work queue.
    seen,     \* the revision of the Stack the cache has, 0 if it has none
    seenFresh,\* ... and whether that is the object's latest version
    jobSeen,  \* the Jobs as the cache has them
    depSeen,  \* the Deployments as the cache has them
    queued,   \* the Stack's key is in the work queue, or about to be added
    \* The reconcile that is running.
    view,     \* the revision it read (`stack` of Reconcile), 0 if none runs
    fresh,    \* the Stack has not been written since that version
    todoB,    \* backing services it has not come to yet
    todo,     \* services it has not come to yet
    pend,     \* processes of the current service it has not applied yet
    expose,   \* the process it applied whose Service is next
    ready,    \* the backing services it found ready
    flags,    \* backingPending, releasePending, releaseFailed
    \* History, and the bound on faults.
    ran,      \* <<service, revision, outcome>> of every finished release Job
    everUp,   \* <<backing, uid>> that has been ready
    faults

apiVars   == <<revs, live, status>>
jobVars   == <<job, jobRev>>
depVars   == <<dep, pods>>
backVars  == <<prov, up>>
objVars   == <<jobVars, depVars, svcObj, backVars>>
cacheVars == <<seen, seenFresh, jobSeen, depSeen>>
passVars  == <<view, fresh, todoB, todo, pend, expose, ready, flags>>
ghostVars == <<ran, everUp, faults>>
vars == <<apiVars, objVars, cacheVars, queued, passVars, ghostVars>>

-----------------------------------------------------------------------------
(* Revisions                                                               *)

Revisions == 1 .. MaxRevision
Uids      == 1 .. MaxDeletes + 1
Gens      == 1 .. MaxRevision      \* a generation never exceeds its revision
Owned     == Services \X Processes
JobKey    == Services \X Gens
JobState  == {"none", "running", "complete", "failed"}
Flags     == {"backingPending", "releasePending", "releaseFailed"}
Phases    == {"unset", "ReleaseFailed", "ProvisioningBacking", "ReleaseHook",
              "Running", "Progressing"}
Hooks     == {"unset", "None", "Running", "Complete", "Failed"}
NoStatus  == [phase |-> "unset", hook |-> "unset", observed |-> 0]

Cur == Len(revs)
Uid(r) == revs[r].uid
Svc(r, s) == revs[r].spec.svc[s]
Runs(r, s) == Svc(r, s).image # NoImage
Hooked(r, s) == Svc(r, s).hook
Listed(r) == revs[r].spec.backing

\* The connections of a service that resolve to a backing service; the other
\* targets are logged and the rollout goes on without them.
BoundTo(r, s) == Svc(r, s).needs \cap Listed(r)

\* The pod template reconcileProcess computes.
Template(r, s) == [image |-> Svc(r, s).image, env |-> BoundTo(r, s)]

Init ==
    /\ revs = <<>> /\ live = 0 /\ status = NoStatus
    /\ job = [k \in JobKey |-> "none"] /\ jobRev = [k \in JobKey |-> 0]
    /\ dep = [k \in Owned |-> 0] /\ pods = {}
    /\ svcObj = [k \in Owned |-> 0]
    /\ prov = [b \in Backings |-> 0] /\ up = {}
    /\ seen = 0 /\ seenFresh = TRUE /\ jobSeen = job /\ depSeen = dep
    /\ queued = FALSE
    /\ view = 0 /\ fresh = FALSE /\ todoB = {} /\ todo = {} /\ pend = {}
    /\ expose = {} /\ ready = {} /\ flags = {}
    /\ ran = {} /\ everUp = {} /\ faults = 0

-----------------------------------------------------------------------------
(* The user (through the API server or kubectl): any write of the Stack    *)
(* makes the cached version, and the one a running reconcile holds, stale. *)

StackWritten ==
    /\ seenFresh' = FALSE /\ fresh' = FALSE
    /\ UNCHANGED <<objVars, seen, jobSeen, depSeen, queued, view, todoB, todo, pend,
                   expose, ready, flags, ghostVars>>

Create(spec) ==
    /\ live = 0 /\ Cur < MaxRevision
    /\ live' = IF Cur = 0 THEN 1 ELSE Uid(Cur) + 1
    /\ revs' = Append(revs, [uid |-> live', gen |-> 1, spec |-> spec])
    /\ status' = NoStatus
    /\ StackWritten

Edit(spec) ==
    /\ live # 0 /\ Cur < MaxRevision /\ spec # revs[Cur].spec
    /\ revs' = Append(revs, [uid |-> live, gen |-> revs[Cur].gen + 1, spec |-> spec])
    /\ UNCHANGED <<live, status>>
    /\ StackWritten

Delete ==
    /\ live # 0 /\ live <= MaxDeletes
    /\ live' = 0 /\ status' = NoStatus
    /\ UNCHANGED revs
    /\ StackWritten

-----------------------------------------------------------------------------
(* Informer deliveries: each enqueues the Stack (For, Owns).  A cache may   *)
(* be arbitrarily late; that it then passes through older versions shows    *)
(* here as an earlier delivery followed by more writes.                     *)

Refresh == seen' = (IF live = 0 THEN 0 ELSE Cur) /\ seenFresh' = TRUE

DeliverStack ==
    /\ ~seenFresh
    /\ Refresh /\ queued' = TRUE
    /\ UNCHANGED <<apiVars, objVars, jobSeen, depSeen, passVars, ghostVars>>

DeliverJob(k) ==
    /\ jobSeen[k] # job[k]
    /\ jobSeen' = [jobSeen EXCEPT ![k] = job[k]] /\ queued' = TRUE
    /\ UNCHANGED <<apiVars, objVars, seen, seenFresh, depSeen, passVars, ghostVars>>

DeliverDep(k) ==
    /\ depSeen[k] # dep[k]
    /\ depSeen' = [depSeen EXCEPT ![k] = dep[k]] /\ queued' = TRUE
    /\ UNCHANGED <<apiVars, objVars, seen, seenFresh, jobSeen, passVars, ghostVars>>

-----------------------------------------------------------------------------
(* Reconcile                                                               *)

Idle == /\ view' = 0 /\ fresh' = FALSE /\ todoB' = {} /\ todo' = {} /\ pend' = {}
        /\ expose' = {} /\ ready' = {} /\ flags' = {}

\* Reconcile returned an error: the key comes back after a back-off.
Retry == Idle /\ queued' = TRUE

\* controllerutil.SetControllerReference: refuses an object of another owner.
OwnerOK_Adopts(uid) == uid # 0                           \* mutant
OwnerOK(uid) == uid = Uid(view)

\* The Get at the head of Reconcile.
Got_NotFoundIgnored == IF seen = 0 THEN Cur ELSE seen    \* mutant
Got == seen

\* The worker takes the key and Gets the Stack; NotFound ends the pass.
StartReconcile ==
    /\ view = 0 /\ queued
    /\ queued' = FALSE
    /\ IF Got = 0
       THEN UNCHANGED passVars
       ELSE /\ view' = Got /\ fresh' = seenFresh
            /\ todoB' = Listed(Got) /\ todo' = Services
            /\ UNCHANGED <<pend, expose, ready, flags>>
    /\ UNCHANGED <<apiVars, objVars, cacheVars, ghostVars>>

\* One backing service of reconcileBacking: ensured, its readiness read.  One
\* that another Stack object still owns fails the whole pass.
ReconcileBacking(b) ==
    /\ b \in todoB
    /\ IF prov[b] = 0 \/ OwnerOK(prov[b])
       THEN /\ prov' = [prov EXCEPT ![b] = Uid(view)]
            /\ ready' = IF b \in up THEN ready \cup {b} ELSE ready
            /\ todoB' = todoB \ {b}
            /\ UNCHANGED <<view, fresh, todo, pend, expose, flags, queued>>
       ELSE Retry /\ UNCHANGED prov
    /\ UNCHANGED <<apiVars, jobVars, depVars, svcObj, up, cacheVars, ghostVars>>

\* What the loop body of Reconcile decides about service s.
NextIs(s)   == todoB = {} /\ pend = {} /\ expose = {} /\ s \in todo
Wait_Exists(s) == \E b \in BoundTo(view, s) : prov[b] = 0  \* mutant
Wait(s)     == BoundTo(view, s) \ ready # {}
JobOf_NoGeneration(s) == <<s, 1>>                          \* mutant
JobOf(s)    == <<s, revs[view].gen>>
HookOpen_Started(s) == ~Hooked(view, s) \/ jobSeen[JobOf(s)] # "none"   \* mutant
HookOpen(s) == ~Hooked(view, s) \/ jobSeen[JobOf(s)] = "complete"

Handled_LastWins(s, flag) ==                               \* mutant
    /\ todo' = todo \ {s}
    /\ flags' = flag
    /\ UNCHANGED <<view, fresh, todoB, pend, expose, ready, queued>>

Handled(s, flag) ==
    /\ todo' = todo \ {s}
    /\ flags' = flags \cup flag
    /\ UNCHANGED <<view, fresh, todoB, pend, expose, ready, queued>>

\* A service without image is skipped; one whose backing is not ready, or
\* whose release Job runs or failed, is held back.
SkipService(s) ==
    /\ NextIs(s)
    /\ \/ ~Runs(view, s) /\ Handled(s, {})
       \/ Runs(view, s) /\ Wait(s) /\ Handled(s, {"backingPending"})
       \/ /\ Runs(view, s) /\ ~Wait(s) /\ Hooked(view, s)
          /\ \/ jobSeen[JobOf(s)] = "running" /\ Handled(s, {"releasePending"})
             \/ jobSeen[JobOf(s)] = "failed" /\ Handled(s, {"releaseFailed"})
    /\ UNCHANGED <<apiVars, objVars, cacheVars, ghostVars>>

\* reconcileReleaseJob on NotFound: Create, which fails on a Job the cache
\* has not heard of yet.
CreateReleaseJob(s) ==
    /\ NextIs(s)
    /\ Runs(view, s) /\ ~Wait(s) /\ Hooked(view, s)
    /\ jobSeen[JobOf(s)] = "none"
    /\ IF job[JobOf(s)] = "none"
       THEN /\ job' = [job EXCEPT ![JobOf(s)] = "running"]
            /\ jobRev' = [jobRev EXCEPT ![JobOf(s)] = view]
            /\ Handled(s, {"releasePending"})
       ELSE Retry /\ UNCHANGED jobVars
    /\ UNCHANGED <<apiVars, depVars, svcObj, backVars, cacheVars, ghostVars>>

\* The gate is open: on to the processes.
RollService(s) ==
    /\ NextIs(s)
    /\ Runs(view, s) /\ ~Wait(s) /\ HookOpen(s)
    /\ pend' = {s} \X Svc(view, s).procs
    /\ todo' = todo \ {s}
    /\ UNCHANGED <<apiVars, objVars, cacheVars, queued, view, fresh, todoB, expose,
                   ready, flags, ghostVars>>

\* reconcileProcess, the Deployment: created when the cache has none, else
\* updated from the cached version.  The update is always sent (the mutate
\* function drops the defaulted fields), so a stale version is refused.
ApplyProcess(k) ==
    LET created == depSeen[k] = 0 /\ dep[k] = 0
        updated == depSeen[k] = dep[k] /\ dep[k] # 0 /\ OwnerOK(Uid(dep[k]))
        same    == updated /\ Template(dep[k], k[1]) = Template(view, k[1])
    IN
    /\ expose = {} /\ k \in pend
    /\ IF created \/ updated
       THEN /\ dep' = IF same THEN dep ELSE [dep EXCEPT ![k] = view]
            /\ pend' = pend \ {k}
            /\ expose' = {k} \cap ({k[1]} \X Svc(view, k[1]).ported)
            /\ UNCHANGED <<view, fresh, todoB, todo, ready, flags, queued>>
       ELSE Retry /\ UNCHANGED dep
    /\ UNCHANGED <<apiVars, jobVars, pods, svcObj, backVars, cacheVars, ghostVars>>

\* reconcileProcess, the Service of a process with a port.
ExposeProcess(k) ==
    /\ k \in expose
    /\ IF svcObj[k] = 0 \/ OwnerOK(svcObj[k])
       THEN /\ svcObj' = [svcObj EXCEPT ![k] = Uid(view)]
            /\ expose' = {}
            /\ UNCHANGED <<view, fresh, todoB, todo, pend, ready, flags, queued>>
       ELSE Retry /\ UNCHANGED svcObj
    /\ UNCHANGED <<apiVars, jobVars, depVars, backVars, cacheVars, ghostVars>>

\* updateStatus: the Deployments counted are all that carry the Stack's name,
\* as the cache has them.
AllReady == LET counted == {k \in Owned : depSeen[k] # 0}
            IN  counted # {} /\ counted \subseteq pods

HasReleaseHook(r) == \E s \in Services : Hooked(r, s)

NewPhase ==
    IF "releaseFailed" \in flags THEN "ReleaseFailed"
    ELSE IF "backingPending" \in flags THEN "ProvisioningBacking"
    ELSE IF "releasePending" \in flags THEN "ReleaseHook"
    ELSE IF AllReady THEN "Running" ELSE "Progressing"

NewHook ==
    CASE NewPhase = "ReleaseFailed"       -> "Failed"
      [] NewPhase = "ProvisioningBacking" -> status.hook
      [] NewPhase = "ReleaseHook"         -> "Running"
      [] OTHER -> IF HasReleaseHook(view) THEN "Complete" ELSE "None"

NewStatus_OffByOne == [phase |-> NewPhase, hook |-> NewHook, observed |-> Cur + 1]  \* mutant
NewStatus == [phase |-> NewPhase, hook |-> NewHook, observed |-> revs[view].gen]

Requeue_NoPoll(backupPending) == queued \/ backupPending   \* mutant
Requeue(backupPending) == queued \/ backupPending \/ "backingPending" \in flags

\* The write is refused when the Stack changed since it was read.  A pass
\* that waits for a backing service, or for a backup bucket, comes back.
UpdateStatus ==
    /\ view # 0 /\ todoB = {} /\ todo = {} /\ pend = {} /\ expose = {}
    /\ IF fresh
       THEN /\ status' = NewStatus
            /\ seenFresh' = (seenFresh /\ NewStatus = status)
            /\ \E backupPending \in BOOLEAN : queued' = Requeue(backupPending)
            /\ Idle
       ELSE Retry /\ UNCHANGED <<status, seenFresh>>
    /\ UNCHANGED <<revs, live, objVars, seen, jobSeen, depSeen, ghostVars>>

\* Any API call of the pass fails.
CallFails ==
    /\ view # 0 /\ faults < MaxFaults
    /\ faults' = faults + 1
    /\ Retry
    /\ UNCHANGED <<apiVars, objVars, cacheVars, ran, everUp>>

\* The operator dies and starts again: the pass and the queue are gone, the
\* caches are listed afresh and every Stack is enqueued.
Restart ==
    /\ faults < MaxFaults
    /\ faults' = faults + 1
    /\ Idle
    /\ queued' = TRUE
    /\ Refresh /\ jobSeen' = job /\ depSeen' = dep
    /\ UNCHANGED <<apiVars, objVars, ran, everUp>>

-----------------------------------------------------------------------------
(* The cluster: Job controller, kubelet, backing operators, garbage        *)
(* collector.                                                              *)

JobFinishes(k, outcome) ==
    /\ job[k] = "running"
    /\ job' = [job EXCEPT ![k] = outcome]
    /\ ran' = ran \cup {<<k[1], jobRev[k], outcome>>}
    /\ UNCHANGED <<apiVars, jobRev, depVars, svcObj, backVars, cacheVars, queued,
                   passVars, everUp, faults>>

\* A rolling update keeps the old pods until the new ones are ready, so only
\* these steps change ReadyReplicas.  Its delivery is folded into them.
DeploymentReady_NotOwned(k) ==                             \* mutant
    /\ dep[k] # 0 /\ k \notin pods
    /\ pods' = pods \cup {k}
    /\ UNCHANGED <<apiVars, jobVars, dep, svcObj, backVars, cacheVars, queued, passVars,
                   ghostVars>>

DeploymentReady(k) ==
    /\ dep[k] # 0 /\ k \notin pods
    /\ pods' = pods \cup {k} /\ queued' = TRUE
    /\ UNCHANGED <<apiVars, jobVars, dep, svcObj, backVars, cacheVars, passVars, ghostVars>>

DeploymentDown(k) ==
    /\ k \in pods /\ faults < MaxFaults
    /\ pods' = pods \ {k} /\ queued' = TRUE
    /\ faults' = faults + 1
    /\ UNCHANGED <<apiVars, jobVars, dep, svcObj, backVars, cacheVars, passVars, ran, everUp>>

BackingUp(b) ==
    /\ prov[b] # 0 /\ b \notin up
    /\ up' = up \cup {b}
    /\ everUp' = everUp \cup {<<b, prov[b]>>}
    /\ UNCHANGED <<apiVars, jobVars, depVars, svcObj, prov, cacheVars, queued, passVars,
                   ran, faults>>

BackingDown(b) ==
    /\ b \in up /\ faults < MaxFaults
    /\ up' = up \ {b}
    /\ faults' = faults + 1
    /\ UNCHANGED <<apiVars, jobVars, depVars, svcObj, prov, cacheVars, queued, passVars,
                   ran, everUp>>

\* An object whose owner (by uid) is gone is deleted in the background.
Orphan(uid) == uid # 0 /\ uid # live

CollectJob(k) ==
    /\ jobRev[k] # 0 /\ Orphan(Uid(jobRev[k]))
    /\ job' = [job EXCEPT ![k] = "none"] /\ jobRev' = [jobRev EXCEPT ![k] = 0]
    /\ UNCHANGED <<apiVars, depVars, svcObj, backVars, cacheVars, queued, passVars, ghostVars>>

CollectDep(k) ==
    /\ dep[k] # 0 /\ Orphan(Uid(dep[k]))
    /\ dep' = [dep EXCEPT ![k] = 0] /\ pods' = pods \ {k}
    /\ UNCHANGED <<apiVars, jobVars, svcObj, backVars, cacheVars, queued, passVars, ghostVars>>

CollectService(k) ==
    /\ Orphan(svcObj[k])
    /\ svcObj' = [svcObj EXCEPT ![k] = 0]
    /\ UNCHANGED <<apiVars, jobVars, depVars, backVars, cacheVars, queued, passVars, ghostVars>>

CollectBacking(b) ==
    /\ Orphan(prov[b])
    /\ prov' = [prov EXCEPT ![b] = 0] /\ up' = up \ {b}
    /\ UNCHANGED <<apiVars, jobVars, depVars, svcObj, cacheVars, queued, passVars, ghostVars>>

-----------------------------------------------------------------------------
User == Delete \/ \E spec \in Specs : Create(spec) \/ Edit(spec)

StackInformer == DeliverStack
JobInformer == \E k \in JobKey : DeliverJob(k)
DepInformer == \E k \in Owned : DeliverDep(k)

Worker == \/ StartReconcile
          \/ \E b \in Backings : ReconcileBacking(b)
          \/ \E s \in Services : SkipService(s) \/ CreateReleaseJob(s) \/ RollService(s)
          \/ \E k \in Owned : ApplyProcess(k) \/ ExposeProcess(k)
          \/ UpdateStatus

Cluster == \/ \E k \in JobKey, o \in {"complete", "failed"} : JobFinishes(k, o)
           \/ \E k \in Owned : DeploymentReady(k)
           \/ \E b \in Backings : BackingUp(b)

Outage == \/ \E k \in Owned : DeploymentDown(k)
          \/ \E b \in Backings : BackingDown(b)

Collector == \/ \E k \in JobKey : CollectJob(k)
             \/ \E k \in Owned : CollectDep(k) \/ CollectService(k)
             \/ \E b \in Backings : CollectBacking(b)

Next == \/ User \/ StackInformer \/ JobInformer \/ DepInformer
        \/ Worker \/ CallFails \/ Restart
        \/ Cluster \/ Outage \/ Collector

Spec == Init /\ [][Next]_vars

\* The worker, the informers (one goroutine each), the cluster's controllers
\* and the collector do not stop; users and faults owe nothing.
Fairness == /\ WF_vars(Worker) /\ WF_vars(Cluster) /\ WF_vars(Collector)
            /\ WF_vars(StackInformer) /\ WF_vars(JobInformer) /\ WF_vars(DepInformer)

FairSpec == Spec /\ Fairness

-----------------------------------------------------------------------------
(* Properties                                                              *)

Revision == [uid : Uids, gen : Gens, spec : StackSpec]

ApiType ==
    /\ revs \in Seq(Revision) /\ Cur <= MaxRevision
    /\ live \in 0 .. MaxDeletes + 1
    /\ status \in [phase : Phases, hook : Hooks, observed : 0 .. MaxRevision]

ObjType ==
    /\ job \in [JobKey -> JobState] /\ jobRev \in [JobKey -> 0 .. Cur]
    /\ dep \in [Owned -> 0 .. Cur] /\ pods \subseteq Owned
    /\ svcObj \in [Owned -> 0 .. MaxDeletes + 1]
    /\ prov \in [Backings -> 0 .. MaxDeletes + 1] /\ up \subseteq Backings

CacheType ==
    /\ seen \in 0 .. Cur /\ seenFresh \in BOOLEAN
    /\ jobSeen \in [JobKey -> JobState] /\ depSeen \in [Owned -> 0 .. Cur]
    /\ queued \in BOOLEAN

PassType ==
    /\ view \in 0 .. Cur /\ fresh \in BOOLEAN
    /\ view = 0 => todoB = {} /\ todo = {} /\ pend = {} /\ expose = {} /\ ready = {}
    /\ todoB \subseteq Backings /\ todo \subseteq Services
    /\ pend \subseteq Owned /\ expose \subseteq Owned
    /\ ready \subseteq Backings /\ flags \subseteq Flags

GhostType ==
    /\ ran \subseteq Services \X Revisions \X {"complete", "failed"}
    /\ everUp \subseteq Backings \X Uids
    /\ faults \in 0 .. MaxFaults

\* Every variable has its type; what refers to a revision refers to one that
\* was accepted.
TypeOK == ApiType /\ ObjType /\ CacheType /\ PassType /\ GhostType

\* "Release runs to completion before the new processes roll (migrations)":
\* the pods of a process run revision r of a service with a release hook only
\* if the hook of that very revision has completed.
ReleaseGate ==
    \A s \in Services, p \in Processes :
        LET r == dep[<<s, p>>]
        IN  (r # 0 /\ Hooked(r, s)) => <<s, r, "complete">> \in ran

\* What the controller guarantees once a Stack may be deleted and created
\* again under its old name: some Stack of that name had completed its hook of
\* the same generation number.
Completed(s, g) ==
    \E q \in 1 .. Cur : revs[q].gen = g /\ <<s, q, "complete">> \in ran

ReleaseGateByName ==
    \A s \in Services, p \in Processes :
        LET r == dep[<<s, p>>]
        IN  (r # 0 /\ Hooked(r, s)) => Completed(s, revs[r].gen)

\* "hold the service (and its migration) until the DB is up": a Deployment,
\* and a release Job, is made from a revision only after every backing service
\* it connects to was ready - as a backing service of this very Stack object,
\* never of a deleted one that had the same name.
BackingGate ==
    /\ \A s \in Services, p \in Processes :
          LET r == dep[<<s, p>>]
          IN  r # 0 => \A b \in BoundTo(r, s) : <<b, revs[r].uid>> \in everUp
    /\ \A k \in JobKey :
          LET r == jobRev[k]
          IN  r # 0 => \A b \in BoundTo(r, k[1]) : <<b, revs[r].uid>> \in everUp

\* The processes of revision r of service s are applied, or newer ones are.
RolledOut(r, s) ==
    \A p \in Svc(r, s).procs :
        LET q == dep[<<s, p>>]
        IN  q # 0 /\ (q > r \/ Template(q, s) = Template(r, s))

\* The revision the status speaks of, 0 when nothing is reported.
Observed == IF live = 0 \/ status.observed = 0 THEN 0
            ELSE CHOOSE r \in 1 .. Cur :
                    revs[r].uid = live /\ revs[r].gen = status.observed

\* A reported phase is true of the generation it names, whatever happened
\* while it was computed: ReleaseFailed only if a hook of it failed, and
\* Running or Progressing only if every service that has an image went
\* through its hook and had all its processes applied and exposed.
StatusTrue ==
    Observed # 0 =>
        /\ status.phase = "ReleaseFailed" =>
              \E s \in Services : <<s, Observed, "failed">> \in ran
        /\ status.phase \in {"Running", "Progressing"} =>
              \A s \in Services : Runs(Observed, s) =>
                  /\ RolledOut(Observed, s)
                  /\ \A p \in Svc(Observed, s).ported : svcObj[<<s, p>>] = live
                  /\ Hooked(Observed, s) => <<s, Observed, "complete">> \in ran

\* All of it together is a release as StackRelease promises it: a process moves
\* only to a newer spec than it runs, only through the gates of that spec, and is
\* stopped only when its Stack is gone - whatever a pass that works on an old
\* version, an old cache or a deleted Stack still writes.
Release == INSTANCE StackRelease
    WITH asked <- revs, alive <- live, runs <- dep, hooks <- ran, served <- everUp

ImplementsRelease == Release!Spec

\* Nothing is forgotten: when nothing is about to look at the Stack again - no
\* pass, no key in the queue, and the caches know all there is - its last spec is
\* rolled out as far as its release Jobs allow, and the status says exactly how
\* far. Nothing watches the backing services, so no such state may wait for one.
Quiet == live # 0 /\ view = 0 /\ ~queued /\ seenFresh /\ jobSeen = job /\ depSeen = dep

GateOf(s) == IF Hooked(Cur, s) THEN job[<<s, revs[Cur].gen>>] ELSE "complete"

UpToDate(k) ==
    /\ dep[k] # 0 /\ Uid(dep[k]) = live /\ Template(dep[k], k[1]) = Template(Cur, k[1])
    /\ k[2] \in Svc(Cur, k[1]).ported => svcObj[k] = live

NothingForgotten ==
    Quiet =>
        LET gates == {GateOf(s) : s \in {q \in Services : Runs(Cur, q)}} IN
        /\ status.observed = revs[Cur].gen
        /\ \A b \in Listed(Cur) : prov[b] = live
        /\ gates \subseteq {"running", "failed", "complete"}
        /\ \A s \in Services, p \in Processes :
              Runs(Cur, s) /\ GateOf(s) = "complete" /\ p \in Svc(Cur, s).procs
                  => UpToDate(<<s, p>>)
        /\ status.phase = IF "failed" \in gates THEN "ReleaseFailed"
                          ELSE IF "running" \in gates THEN "ReleaseHook"
                          ELSE IF AllReady THEN "Running" ELSE "Progressing"

\* Every accepted spec is in the end rolled out, unless its hook fails.
Converges ==
    <>[](live # 0 => \A s \in Services :
            Runs(Cur, s) /\ <<s, Cur, "failed">> \notin ran
                => RolledOut(Cur, s))

\* The status settles on the truth about the last accepted spec, although
\* nothing watches the backing services and every status write is an event
\* that starts the next pass. (Of a Stack that was created again it may speak of
\* the hook of its predecessor, see ReleaseGate.)
StatusSettles ==
    <>[](live = 1 =>
            status.observed = revs[Cur].gen /\
            status.phase = (IF \E s \in Services : <<s, Cur, "failed">> \in ran
                            THEN "ReleaseFailed"
                            ELSE IF \E k \in Owned : dep[k] # 0
                            THEN "Running" ELSE "Progressing"))

\* Deleting a Stack in the end removes all that was made for it, also what a
\* pass still running at that moment makes afterwards.
NothingLeft ==
    <>[](\A r \in 1 .. Cur : revs[r].uid # live =>
            /\ \A k \in JobKey : jobRev[k] # r
            /\ \A k \in Owned : dep[k] # r /\ svcObj[k] # revs[r].uid
            /\ \A b \in Backings : prov[b] # revs[r].uid)
=============================================================================
