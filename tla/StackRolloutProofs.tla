------------------------- MODULE StackRolloutProofs -------------------------
(***************************************************************************)
(* Theorems about StackRollout, for every value of its constants.          *)
(*                                                                         *)
(* The argument for the release gate: a Job carries in its name the        *)
(* generation it was made for, its outcome is recorded when it finishes,   *)
(* and a cache only ever repeats what the Job once was; so "complete" in   *)
(* the cache means that a Job of that generation number completed.  With   *)
(* one incarnation of the Stack the generation determines the revision,    *)
(* and the gate is the one the code promises.                              *)
(*                                                                         *)
(* For the status: what a pass ticks off is applied and exposed, no pass   *)
(* reads an older revision than a status speaks of, and so nothing that a  *)
(* status reported is undone.                                              *)
(***************************************************************************)
EXTENDS StackRollout, TLAPS

USE SpecsAssumption, BoundsAssumption

-----------------------------------------------------------------------------
(* What the API server accepts: revs only grows, and the generations and   *)
(* uids in it stay within their bounds.                                    *)

RevsOK ==
    /\ \A i \in 1 .. Cur : revs[i].gen <= i
    /\ live # 0 => Cur # 0 /\ live = Uid(Cur)
    /\ (live = 0 /\ Cur # 0) => Uid(Cur) <= MaxDeletes

ApiInv == ApiType /\ RevsOK

Grows == Cur <= Cur' /\ \A i \in 1 .. Cur : revs'[i] = revs[i]

LEMMA CreateApi ==
    ASSUME ApiInv, NEW spec \in Specs, Create(spec) PROVE ApiInv' /\ Grows
<1> DEFINE new == [uid |-> live', gen |-> 1, spec |-> spec]
<1> USE DEF ApiInv, ApiType, Cur
<1>1. live' \in Uids /\ live' # 0
  <2>1. CASE Cur = 0
    BY <2>1 DEF Create, Uids
  <2>2. CASE Cur # 0
    <3>1. revs[Cur] \in Revision
      BY <2>2
    <3> QED BY <2>2, <3>1 DEF Create, RevsOK, Uid, Uids, Revision
  <2> QED BY <2>1, <2>2
<1>2. new \in Revision
  BY <1>1 DEF Revision, Gens
<1>3. revs' = Append(revs, new) /\ Cur < MaxRevision
  BY DEF Create
<1>4. revs' \in Seq(Revision) /\ Cur' = Cur + 1 /\ Cur' <= MaxRevision
  BY <1>2, <1>3
<1>5. Grows /\ revs'[Cur'] = new
  BY <1>3, <1>4 DEF Grows
<1>6. RevsOK'
  BY <1>1, <1>4, <1>5 DEF RevsOK, Uid, Grows
<1>7. status' \in [phase : Phases, hook : Hooks, observed : 0 .. MaxRevision]
  BY DEF Create, NoStatus, Phases, Hooks
<1> QED BY <1>1, <1>4, <1>5, <1>6, <1>7 DEF Uids

LEMMA EditApi ==
    ASSUME ApiInv, NEW spec \in Specs, Edit(spec) PROVE ApiInv' /\ Grows
<1> DEFINE new == [uid |-> live, gen |-> revs[Cur].gen + 1, spec |-> spec]
<1> USE DEF ApiInv, ApiType, Cur
<1>1. live # 0 /\ Cur # 0 /\ revs[Cur] \in Revision /\ live = Uid(Cur)
  BY DEF Edit, RevsOK
<1>2. new \in Revision /\ new.gen <= Cur + 1
  BY <1>1 DEF Edit, Revision, Gens, RevsOK, Uid
<1>3. revs' = Append(revs, new) /\ Cur < MaxRevision /\ UNCHANGED <<live, status>>
  BY DEF Edit
<1>4. revs' \in Seq(Revision) /\ Cur' = Cur + 1 /\ Cur' <= MaxRevision
  BY <1>2, <1>3
<1>5. Grows /\ revs'[Cur'] = new
  BY <1>3, <1>4 DEF Grows
<1>6. RevsOK'
  BY <1>1, <1>2, <1>3, <1>4, <1>5 DEF RevsOK, Uid, Grows
<1> QED BY <1>3, <1>4, <1>5, <1>6

LEMMA DeleteApi == ApiInv /\ Delete => ApiInv' /\ Grows
<1> SUFFICES ASSUME ApiInv, Delete PROVE ApiInv' /\ Grows
  OBVIOUS
<1>1. UNCHANGED revs /\ live' = 0 /\ live # 0 /\ live <= MaxDeletes /\ status' = NoStatus
  BY DEF Delete
<1>2. NoStatus \in [phase : Phases, hook : Hooks, observed : 0 .. MaxRevision]
  BY DEF NoStatus, Phases, Hooks
<1> QED BY <1>1, <1>2 DEF ApiInv, ApiType, RevsOK, Grows, Cur, Uid

\* Steps that leave the spec of the Stack alone.
LEMMA StatusApi ==
    ASSUME ApiInv, UNCHANGED <<revs, live>>,
           status' \in [phase : Phases, hook : Hooks, observed : 0 .. MaxRevision]
    PROVE  ApiInv' /\ Grows
BY DEF ApiInv, ApiType, RevsOK, Grows, Cur, Uid

LEMMA SameApi == ApiInv /\ UNCHANGED apiVars => ApiInv' /\ Grows
BY DEF ApiInv, ApiType, RevsOK, Grows, Cur, Uid, apiVars

-----------------------------------------------------------------------------
(* Types of the rest: a part that a step leaves alone keeps its type,      *)
(* because the revisions it refers to are still there.                     *)

LEMMA CurNat == ApiInv => Cur \in Nat
BY DEF ApiInv, ApiType, Cur

LEMMA KeepObj == ASSUME ApiInv, ApiInv', Grows, ObjType, UNCHANGED objVars PROVE ObjType'
BY CurNat DEF Grows, ObjType, objVars, jobVars, depVars, backVars, ApiInv, ApiType, Cur

LEMMA KeepPass == ASSUME ApiInv, ApiInv', Grows, PassType, UNCHANGED passVars PROVE PassType'
BY CurNat DEF Grows, PassType, passVars, ApiInv, ApiType, Cur

TypeInv == ApiInv /\ TypeOK

LEMMA InitType == Init => TypeInv
<1> SUFFICES ASSUME Init PROVE TypeInv
  OBVIOUS
<1> USE DEF Init, Cur
<1>1. revs \in Seq(Revision) /\ Cur = 0
  OBVIOUS
<1>2. ApiInv
  BY <1>1 DEF ApiInv, ApiType, RevsOK, NoStatus, Phases, Hooks
<1>3. job \in [JobKey -> JobState] /\ jobRev \in [JobKey -> 0 .. Cur]
  BY <1>1 DEF JobState
<1>4. dep \in [Owned -> 0 .. Cur]
  BY <1>1
<1>5. ObjType
  BY <1>3, <1>4 DEF ObjType
<1>b. queued \in BOOLEAN /\ fresh \in BOOLEAN
  OBVIOUS
<1>c. seen \in 0 .. Cur /\ seenFresh \in BOOLEAN
  BY <1>1
<1>6. CacheType
  BY <1>3, <1>4, <1>b, <1>c DEF CacheType
<1>7. PassType
  BY <1>1, <1>b DEF PassType
<1>8. GhostType
  BY DEF GhostType
<1> QED BY <1>2, <1>5, <1>6, <1>7, <1>8 DEF TypeInv, TypeOK, ApiInv

\* A step of the user.
LEMMA UserType == TypeInv /\ User => TypeInv' /\ Grows
<1> SUFFICES ASSUME TypeInv, User PROVE TypeInv' /\ Grows
  OBVIOUS
<1>1. ApiInv' /\ Grows
  BY CreateApi, EditApi, DeleteApi DEF User, TypeInv
<1>2. StackWritten
  BY DEF User, Create, Edit, Delete
<1>3. ObjType'
  BY <1>1, <1>2, KeepObj DEF StackWritten, TypeInv, TypeOK
<1>4. Cur \in Nat /\ Cur' \in Nat /\ Cur <= Cur'
  BY <1>1, CurNat DEF Grows, TypeInv, ApiInv, ApiType, Cur
<1>b. queued' \in BOOLEAN /\ fresh' \in BOOLEAN /\ seenFresh' \in BOOLEAN
  BY <1>2 DEF StackWritten, TypeInv, TypeOK, CacheType
<1>c. seen' \in 0 .. Cur'
  BY <1>2, <1>4 DEF StackWritten, CacheType, TypeInv, TypeOK
<1>5. CacheType'
  BY <1>2, <1>4, <1>b, <1>c DEF StackWritten, CacheType, TypeInv, TypeOK
<1>6. PassType'
  BY <1>2, <1>4, <1>b DEF StackWritten, PassType, TypeInv, TypeOK
<1>7. GhostType'
  BY <1>2 DEF StackWritten, GhostType, ghostVars, TypeInv, TypeOK
<1> QED BY <1>1, <1>3, <1>5, <1>6, <1>7 DEF TypeInv, TypeOK, ApiInv

\* A delivery to a cache.
LEMMA DeliverType ==
    TypeInv /\ (StackInformer \/ JobInformer \/ DepInformer) => TypeInv' /\ Grows
<1> SUFFICES ASSUME TypeInv, StackInformer \/ JobInformer \/ DepInformer PROVE TypeInv' /\ Grows
  OBVIOUS
<1> USE DEF StackInformer, JobInformer, DepInformer, DeliverStack, DeliverJob, DeliverDep
<1>1. UNCHANGED <<apiVars, objVars, passVars, ghostVars>>
  OBVIOUS
<1>2. ApiInv' /\ Grows
  BY <1>1, SameApi DEF TypeInv
<1>3. ObjType' /\ PassType'
  BY <1>1, <1>2, KeepObj, KeepPass DEF TypeInv, TypeOK
<1>4. GhostType'
  BY <1>1 DEF TypeInv, TypeOK, GhostType, ghostVars
<1>5. Cur' = Cur /\ Cur \in Nat
  BY <1>1, CurNat DEF TypeInv, apiVars, Cur
<1>6. CacheType'
  <2>1. CASE DeliverStack
    BY <2>1, <1>5 DEF TypeInv, TypeOK, CacheType, Refresh
  <2>2. ASSUME NEW k \in JobKey, DeliverJob(k) PROVE CacheType'
    BY <2>2, <1>5 DEF TypeInv, TypeOK, CacheType, ObjType
  <2>3. ASSUME NEW k \in Owned, DeliverDep(k) PROVE CacheType'
    BY <2>3, <1>5 DEF TypeInv, TypeOK, CacheType, ObjType
  <2> QED BY <2>1, <2>2, <2>3
<1> QED BY <1>2, <1>3, <1>4, <1>6 DEF TypeInv, TypeOK, ApiInv

\* A pass that runs reads a revision that exists.
LEMMA ViewRev ==
    ASSUME TypeInv, view # 0
    PROVE  /\ view \in 1 .. Cur /\ revs[view] \in Revision
           /\ Uid(view) \in Uids /\ Listed(view) \subseteq Backings
           /\ \A s \in Services : /\ JobOf(s) \in JobKey
                                  /\ Svc(view, s) \in ServiceSpec
                                  /\ BoundTo(view, s) \subseteq Backings
<1>1. view \in 1 .. Cur /\ revs[view] \in Revision
  BY DEF TypeInv, TypeOK, PassType, ApiInv, ApiType, Cur
<1>2. revs[view].spec \in StackSpec /\ revs[view].gen \in Gens /\ Uid(view) \in Uids
  BY <1>1 DEF Revision, Uid
<1>3. \A s \in Services : Svc(view, s) \in ServiceSpec
  BY <1>2 DEF StackSpec, Svc
<1>4. Listed(view) \subseteq Backings
  BY <1>2 DEF StackSpec, Listed
<1> QED BY <1>1, <1>2, <1>3, <1>4 DEF BoundTo, JobOf, JobKey

\* Steps of the operator write neither the spec nor the history.
LEMMA IdleType == TypeInv /\ Idle /\ UNCHANGED revs => PassType'
<1> SUFFICES ASSUME TypeInv, Idle, UNCHANGED revs PROVE PassType'
  OBVIOUS
<1>1. Cur' \in Nat
  BY CurNat DEF TypeInv, Cur
<1>2. fresh' \in BOOLEAN
  BY DEF Idle
<1> QED BY <1>1, <1>2 DEF Idle, PassType

LEMMA StartType == TypeInv /\ StartReconcile => PassType'
<1> SUFFICES ASSUME TypeInv, StartReconcile PROVE PassType'
  OBVIOUS
<1> USE DEF TypeInv, TypeOK
<1>1. Cur' = Cur /\ Cur \in Nat
  BY CurNat DEF StartReconcile, apiVars, Cur
<1>2. CASE seen = 0
  BY <1>1, <1>2 DEF StartReconcile, Got, passVars, PassType
<1>3. CASE seen # 0
  <2>1. seen \in 1 .. Cur /\ revs[seen] \in Revision
    BY <1>1, <1>3 DEF CacheType, ApiInv, ApiType, Cur
  <2>2. Listed(seen) \subseteq Backings
    BY <2>1 DEF Listed, Revision, StackSpec
  <2>3. fresh' \in BOOLEAN
      BY <1>3 DEF StartReconcile, Got, CacheType
  <2> QED BY <1>1, <1>3, <2>1, <2>2, <2>3 DEF StartReconcile, Got, PassType
<1> QED BY <1>2, <1>3

LEMMA BackingType ==
    ASSUME TypeInv, NEW b \in Backings, ReconcileBacking(b) PROVE ObjType' /\ PassType'
<1> USE DEF TypeInv, TypeOK
<1>1. Cur' = Cur /\ UNCHANGED revs
  BY DEF ReconcileBacking, apiVars, Cur
<1>2. view # 0
  BY DEF ReconcileBacking, PassType
<1>3. CASE prov[b] = 0 \/ OwnerOK(prov[b])
  <2>1. Uid(view) \in 0 .. MaxDeletes + 1
    BY <1>2, ViewRev DEF Uids
  <2> QED BY <1>1, <1>3, <2>1 DEF ReconcileBacking, ObjType, PassType, jobVars, depVars
<1>4. CASE ~(prov[b] = 0 \/ OwnerOK(prov[b]))
  <2>1. PassType'
    BY <1>1, <1>4, IdleType DEF ReconcileBacking, Retry
  <2> QED BY <1>1, <1>4, <2>1 DEF ReconcileBacking, ObjType, jobVars, depVars
<1> QED BY <1>3, <1>4

LEMMA SkipType == ASSUME TypeInv, NEW s \in Services, SkipService(s) PROVE PassType'
<1>1. Cur' = Cur
  BY DEF SkipService, apiVars, Cur
<1>2. ASSUME NEW f \in SUBSET Flags, Handled(s, f) PROVE PassType'
  BY <1>1, <1>2 DEF Handled, PassType, TypeInv, TypeOK
<1>3. {} \in SUBSET Flags /\ {"backingPending"} \in SUBSET Flags
      /\ {"releasePending"} \in SUBSET Flags /\ {"releaseFailed"} \in SUBSET Flags
  BY DEF Flags
<1> QED BY <1>2, <1>3 DEF SkipService

LEMMA CreateJobType ==
    ASSUME TypeInv, NEW s \in Services, CreateReleaseJob(s) PROVE ObjType' /\ PassType'
<1> USE DEF TypeInv, TypeOK
<1>1. Cur' = Cur /\ UNCHANGED revs /\ Cur \in Nat
  BY CurNat DEF CreateReleaseJob, apiVars, Cur
<1>2. view # 0 /\ view \in 0 .. Cur
  BY DEF CreateReleaseJob, NextIs, PassType
<1>3. CASE job[JobOf(s)] = "none"
  <2>1. JobOf(s) \in JobKey
    BY <1>2, ViewRev
  <2>2. PassType'
    BY <1>1, <1>3 DEF CreateReleaseJob, Handled, PassType, Flags
  <2> QED BY <1>1, <1>2, <1>3, <2>1, <2>2
          DEF CreateReleaseJob, ObjType, depVars, backVars, JobState
<1>4. CASE job[JobOf(s)] # "none"
  <2>1. PassType'
    BY <1>1, <1>4, IdleType DEF CreateReleaseJob, Retry
  <2> QED BY <1>1, <1>4, <2>1 DEF CreateReleaseJob, ObjType, jobVars, depVars, backVars
<1> QED BY <1>3, <1>4

LEMMA RollType == ASSUME TypeInv, NEW s \in Services, RollService(s) PROVE PassType'
<1>1. Cur' = Cur
  BY DEF RollService, apiVars, Cur
<1>2. view # 0
  BY DEF RollService, NextIs, PassType, TypeInv, TypeOK
<1>3. Svc(view, s).procs \subseteq Processes
  BY <1>2, ViewRev DEF ServiceSpec
<1> QED BY <1>1, <1>2, <1>3 DEF RollService, PassType, TypeInv, TypeOK, Owned

LEMMA ApplyType == ASSUME TypeInv, NEW k \in Owned, ApplyProcess(k) PROVE ObjType' /\ PassType'
<1> USE DEF TypeInv, TypeOK
<1>1. Cur' = Cur /\ UNCHANGED revs /\ Cur \in Nat
  BY CurNat DEF ApplyProcess, apiVars, Cur
<1>2. view \in 0 .. Cur /\ view # 0
  BY DEF ApplyProcess, PassType
<1>3. (\/ dep' = dep \/ dep' = [dep EXCEPT ![k] = view]) /\ UNCHANGED <<jobVars, pods, svcObj, backVars>>
  BY DEF ApplyProcess
<1>4. ObjType'
  BY <1>1, <1>2, <1>3 DEF ObjType, jobVars, backVars
<1>5. CASE pend' = pend \ {k}
           /\ expose' = {k} \cap ({k[1]} \X Svc(view, k[1]).ported)
           /\ UNCHANGED <<view, fresh, todoB, todo, ready, flags, queued>>
  BY <1>1, <1>2, <1>4, <1>5 DEF PassType
<1>6. CASE Retry
  BY <1>1, <1>4, <1>6, IdleType DEF Retry
<1> QED BY <1>4, <1>5, <1>6 DEF ApplyProcess

LEMMA ExposeType == ASSUME TypeInv, NEW k \in Owned, ExposeProcess(k) PROVE ObjType' /\ PassType'
<1> USE DEF TypeInv, TypeOK
<1>1. Cur' = Cur /\ UNCHANGED revs /\ Cur \in Nat
  BY CurNat DEF ExposeProcess, apiVars, Cur
<1>2. Uid(view) \in 0 .. MaxDeletes + 1
  BY ViewRev DEF ExposeProcess, PassType, Uids
<1>3. (svcObj' = svcObj \/ svcObj' = [svcObj EXCEPT ![k] = Uid(view)])
      /\ UNCHANGED <<jobVars, depVars, backVars>>
  BY DEF ExposeProcess
<1>4. ObjType'
  BY <1>1, <1>2, <1>3 DEF ObjType, jobVars, depVars, backVars
<1>5. CASE expose' = {} /\ UNCHANGED <<view, fresh, todoB, todo, pend, ready, flags, queued>>
  BY <1>1, <1>4, <1>5 DEF PassType
<1>6. CASE Retry
  BY <1>1, <1>4, <1>6, IdleType DEF Retry
<1> QED BY <1>4, <1>5, <1>6 DEF ExposeProcess

LEMMA StatusType == TypeInv /\ UpdateStatus => ApiInv' /\ Grows /\ PassType' /\ CacheType'
<1> SUFFICES ASSUME TypeInv, UpdateStatus PROVE ApiInv' /\ Grows /\ PassType' /\ CacheType'
  OBVIOUS
<1> USE DEF TypeInv, TypeOK
<1>1. Cur' = Cur /\ UNCHANGED <<revs, live, seen, jobSeen, depSeen>>
  BY DEF UpdateStatus, Cur
<1>2. view # 0 /\ Idle
  BY DEF UpdateStatus, Retry
<1>3. revs[view].gen \in 0 .. MaxRevision /\ status \in [phase : Phases, hook : Hooks, observed : 0 .. MaxRevision]
  BY <1>2, ViewRev DEF Revision, Gens, ApiType, ApiInv
<1>4. NewPhase \in Phases /\ NewHook \in Hooks
  BY <1>3 DEF NewPhase, NewHook, Phases, Hooks
<1>5. status' \in [phase : Phases, hook : Hooks, observed : 0 .. MaxRevision]
  BY <1>3, <1>4 DEF UpdateStatus, NewStatus
<1>6. ApiInv' /\ Grows
  BY <1>1, <1>5, StatusApi
<1>7. queued' \in BOOLEAN
  BY DEF UpdateStatus, Requeue, Retry, CacheType
<1>8. seenFresh' \in BOOLEAN
  BY DEF UpdateStatus, CacheType
<1>9. CacheType'
  BY <1>1, <1>7, <1>8 DEF CacheType
<1> QED BY <1>1, <1>2, <1>6, <1>9, IdleType

LEMMA WorkerType == TypeInv /\ Worker => TypeInv' /\ Grows
<1> SUFFICES ASSUME TypeInv, Worker PROVE TypeInv' /\ Grows
  OBVIOUS
<1> USE DEF TypeInv, TypeOK
<1>1. UNCHANGED ghostVars
  BY DEF Worker, StartReconcile, ReconcileBacking, SkipService, CreateReleaseJob, RollService,
         ApplyProcess, ExposeProcess, UpdateStatus
<1>2. GhostType'
  BY <1>1 DEF GhostType, ghostVars
<1>3. CASE UpdateStatus
  <2>1. UNCHANGED objVars
    BY <1>3 DEF UpdateStatus
  <2> QED BY <1>2, <1>3, <2>1, StatusType, KeepObj DEF ApiInv
<1>4. ASSUME UNCHANGED apiVars, UNCHANGED cacheVars, queued' \in BOOLEAN, ObjType', PassType'
      PROVE  TypeInv' /\ Grows
  <2>1. ApiInv' /\ Grows /\ Cur' = Cur
    BY <1>4, SameApi DEF apiVars, Cur
  <2>2. CacheType'
    BY <1>4, <2>1 DEF CacheType, cacheVars
  <2> QED BY <1>2, <1>4, <2>1, <2>2 DEF ApiInv
<1>5. CASE StartReconcile
  <2>1. ObjType'
    BY <1>5, SameApi, KeepObj DEF StartReconcile
  <2> QED BY <1>4, <1>5, <2>1, StartType DEF StartReconcile
<1>6. ASSUME NEW b \in Backings, ReconcileBacking(b) PROVE TypeInv' /\ Grows
  <2>1. queued' \in BOOLEAN
    BY <1>6 DEF ReconcileBacking, Retry, CacheType
  <2> QED BY <1>4, <1>6, <2>1, BackingType DEF ReconcileBacking
<1>7. ASSUME NEW s \in Services, SkipService(s) PROVE TypeInv' /\ Grows
  <2>1. queued' \in BOOLEAN
    BY <1>7 DEF SkipService, Handled, CacheType
  <2>2. ObjType'
    BY <1>7, SameApi, KeepObj DEF SkipService
  <2> QED BY <1>4, <1>7, <2>1, <2>2, SkipType DEF SkipService
<1>8. ASSUME NEW s \in Services, CreateReleaseJob(s) PROVE TypeInv' /\ Grows
  <2>1. queued' \in BOOLEAN
    BY <1>8 DEF CreateReleaseJob, Handled, Retry, CacheType
  <2> QED BY <1>4, <1>8, <2>1, CreateJobType DEF CreateReleaseJob
<1>9. ASSUME NEW s \in Services, RollService(s) PROVE TypeInv' /\ Grows
  <2>1. queued' \in BOOLEAN
    BY <1>9 DEF RollService, CacheType
  <2>2. ObjType'
    BY <1>9, SameApi, KeepObj DEF RollService
  <2> QED BY <1>4, <1>9, <2>1, <2>2, RollType DEF RollService
<1>10. ASSUME NEW k \in Owned, ApplyProcess(k) PROVE TypeInv' /\ Grows
  <2>1. queued' \in BOOLEAN
    BY <1>10 DEF ApplyProcess, Retry, CacheType
  <2> QED BY <1>4, <1>10, <2>1, ApplyType DEF ApplyProcess
<1>11. ASSUME NEW k \in Owned, ExposeProcess(k) PROVE TypeInv' /\ Grows
  <2>1. queued' \in BOOLEAN
    BY <1>11 DEF ExposeProcess, Retry, CacheType
  <2> QED BY <1>4, <1>11, <2>1, ExposeType DEF ExposeProcess
<1> QED BY <1>3, <1>5, <1>6, <1>7, <1>8, <1>9, <1>10, <1>11 DEF Worker

LEMMA FaultType == TypeInv /\ (CallFails \/ Restart) => TypeInv' /\ Grows
<1> SUFFICES ASSUME TypeInv, CallFails \/ Restart PROVE TypeInv' /\ Grows
  OBVIOUS
<1> USE DEF TypeInv, TypeOK
<1>1. ApiInv' /\ Grows /\ Cur' = Cur /\ UNCHANGED revs
  BY SameApi DEF CallFails, Restart, apiVars, Cur
<1>2. ObjType'
  BY <1>1, KeepObj DEF CallFails, Restart
<1>3. PassType'
  BY <1>1, IdleType DEF CallFails, Restart, Retry
<1>4. GhostType'
  BY DEF CallFails, Restart, GhostType
<1>5. Cur \in Nat /\ queued' \in BOOLEAN /\ seenFresh' \in BOOLEAN
  BY CurNat DEF CallFails, Restart, Retry, CacheType, cacheVars, Refresh
<1>6. CacheType'
  BY <1>1, <1>5 DEF CallFails, Restart, CacheType, ObjType, cacheVars, Refresh
<1> QED BY <1>1, <1>2, <1>3, <1>4, <1>6 DEF ApiInv

\* Steps of the cluster write objects, history and the queue.
LEMMA ClusterObj == TypeInv /\ (Cluster \/ Outage \/ Collector) => ObjType'
<1> SUFFICES ASSUME TypeInv, Cluster \/ Outage \/ Collector PROVE ObjType'
  OBVIOUS
<1> USE DEF TypeInv, TypeOK, ObjType
<1>1. Cur' = Cur /\ Cur \in Nat
  BY CurNat DEF Cluster, Outage, Collector, JobFinishes, DeploymentReady, BackingUp, DeploymentDown,
         BackingDown, CollectJob, CollectDep, CollectService, CollectBacking, apiVars, Cur
<1>2. ASSUME NEW k \in JobKey, NEW o \in {"complete", "failed"}, JobFinishes(k, o) PROVE ObjType'
  BY <1>1, <1>2 DEF JobFinishes, depVars, backVars, JobState
<1>3. ASSUME NEW k \in Owned, DeploymentReady(k) \/ DeploymentDown(k) PROVE ObjType'
  BY <1>1, <1>3 DEF DeploymentReady, DeploymentDown, jobVars, backVars
<1>4. ASSUME NEW b \in Backings, BackingUp(b) \/ BackingDown(b) PROVE ObjType'
  BY <1>1, <1>4 DEF BackingUp, BackingDown, jobVars, depVars
<1>5. ASSUME NEW k \in JobKey, CollectJob(k) PROVE ObjType'
  BY <1>1, <1>5 DEF CollectJob, depVars, backVars, JobState
<1>6. ASSUME NEW k \in Owned, CollectDep(k) \/ CollectService(k) PROVE ObjType'
  BY <1>1, <1>6 DEF CollectDep, CollectService, jobVars, depVars, backVars
<1>7. ASSUME NEW b \in Backings, CollectBacking(b) PROVE ObjType'
  BY <1>1, <1>7 DEF CollectBacking, jobVars, depVars
<1> QED BY <1>2, <1>3, <1>4, <1>5, <1>6, <1>7 DEF Cluster, Outage, Collector

\* A Job that exists was made from a revision, of the generation in its name.
JobRevOK ==
    \A k \in JobKey : /\ job[k] # "none" => jobRev[k] # 0
                      /\ jobRev[k] # 0 => revs[jobRev[k]].gen = k[2]

LEMMA ClusterGhost ==
    TypeInv /\ JobRevOK /\ (Cluster \/ Outage \/ Collector) => GhostType'
<1> SUFFICES ASSUME TypeInv, JobRevOK, Cluster \/ Outage \/ Collector PROVE GhostType'
  OBVIOUS
<1> USE DEF TypeInv, TypeOK
<1>1. ASSUME NEW k \in JobKey, NEW o \in {"complete", "failed"}, JobFinishes(k, o) PROVE GhostType'
  <2>1. k[1] \in Services /\ jobRev[k] \in Revisions
    BY <1>1 DEF JobFinishes, JobRevOK, ObjType, JobKey, Revisions, ApiInv, ApiType, Cur
  <2>2. <<k[1], jobRev[k], o>> \in Services \X Revisions \X {"complete", "failed"}
    BY <2>1
  <2> QED BY <1>1, <2>2 DEF JobFinishes, GhostType
<1>2. ASSUME NEW b \in Backings, BackingUp(b) PROVE GhostType'
  BY <1>2 DEF BackingUp, GhostType, ObjType, Uids
<1>3. CASE (\E k \in Owned : DeploymentReady(k)) \/ Outage
  BY <1>3 DEF Outage, DeploymentReady, DeploymentDown, BackingDown, GhostType, ghostVars
<1>4. CASE Collector
  BY <1>4 DEF Collector, CollectJob, CollectDep, CollectService, CollectBacking, GhostType, ghostVars
<1> QED BY <1>1, <1>2, <1>3, <1>4 DEF Cluster

LEMMA ClusterType ==
    TypeInv /\ JobRevOK /\ (Cluster \/ Outage \/ Collector) => TypeInv' /\ Grows
<1> SUFFICES ASSUME TypeInv, JobRevOK, Cluster \/ Outage \/ Collector PROVE TypeInv' /\ Grows
  OBVIOUS
<1> USE DEF TypeInv, TypeOK
<1>1. UNCHANGED <<apiVars, cacheVars, passVars>>
  BY DEF Cluster, Outage, Collector, JobFinishes, DeploymentReady, BackingUp, DeploymentDown,
         BackingDown, CollectJob, CollectDep, CollectService, CollectBacking
<1>2. queued' \in BOOLEAN
  BY DEF Cluster, Outage, Collector, JobFinishes, DeploymentReady, BackingUp, DeploymentDown,
         BackingDown, CollectJob, CollectDep, CollectService, CollectBacking, CacheType
<1>3. ApiInv' /\ Grows /\ Cur' = Cur
  BY <1>1, SameApi DEF apiVars, Cur
<1>4. PassType' /\ CacheType'
  BY <1>1, <1>2, <1>3, KeepPass DEF CacheType, cacheVars
<1> QED BY <1>3, <1>4, ClusterObj, ClusterGhost DEF ApiInv

LEMMA JobRevStep == TypeInv /\ JobRevOK /\ [Next]_vars /\ Grows => JobRevOK'
<1> SUFFICES ASSUME TypeInv, JobRevOK, [Next]_vars, Grows PROVE JobRevOK'
  OBVIOUS
<1> USE DEF TypeInv, TypeOK, ObjType, JobRevOK
<1>1. CASE UNCHANGED jobVars
  BY <1>1 DEF jobVars, Grows, ApiInv, ApiType, Cur
<1>2. ASSUME NEW s \in Services, CreateReleaseJob(s), ~UNCHANGED jobVars PROVE JobRevOK'
  <2>1. view # 0
    BY <1>2 DEF CreateReleaseJob, NextIs, PassType
  <2>2. /\ jobRev' = [jobRev EXCEPT ![JobOf(s)] = view]
        /\ job' = [job EXCEPT ![JobOf(s)] = "running"] /\ UNCHANGED revs
    BY <1>2 DEF CreateReleaseJob, apiVars
  <2>3. JobOf(s) \in JobKey /\ JobOf(s)[2] = revs[view].gen
    BY <2>1, ViewRev DEF JobOf
  <2> QED BY <2>1, <2>2, <2>3
<1>3. ASSUME NEW k \in JobKey, NEW o \in {"complete", "failed"}, JobFinishes(k, o)
      PROVE  JobRevOK'
  BY <1>3 DEF JobFinishes, apiVars
<1>4. ASSUME NEW k \in JobKey, CollectJob(k) PROVE JobRevOK'
  BY <1>4 DEF CollectJob, apiVars
<1>5. CASE User \/ StackInformer \/ JobInformer \/ DepInformer \/ CallFails \/ Restart
  BY <1>1, <1>5 DEF User, StackInformer, JobInformer, DepInformer, CallFails, Restart, Create, Edit,
              Delete, StackWritten, DeliverStack, DeliverJob, DeliverDep, objVars
<1>6. CASE Worker
  BY <1>1, <1>2, <1>6 DEF Worker, StartReconcile, ReconcileBacking, SkipService, RollService,
              ApplyProcess, ExposeProcess, UpdateStatus, objVars
<1>7. CASE Cluster \/ Outage \/ Collector
  BY <1>1, <1>3, <1>4, <1>7 DEF Cluster, Outage, Collector, DeploymentReady, BackingUp, DeploymentDown,
         BackingDown, CollectDep, CollectService, CollectBacking
<1>8. CASE UNCHANGED vars
  BY <1>1, <1>8 DEF vars, objVars
<1> QED BY <1>5, <1>6, <1>7, <1>8 DEF Next

Typed == TypeInv /\ JobRevOK

LEMMA TypedStep == Typed /\ [Next]_vars => Typed' /\ Grows
<1> SUFFICES ASSUME Typed, [Next]_vars PROVE Typed' /\ Grows
  OBVIOUS
<1>1. CASE UNCHANGED vars
  <2>1. ApiInv' /\ Grows /\ Cur' = Cur
    BY <1>1, SameApi DEF vars, Typed, TypeInv, apiVars, Cur
  <2>2. ObjType' /\ PassType'
    BY <1>1, <2>1, KeepObj, KeepPass DEF vars, Typed, TypeInv, TypeOK
  <2>3. CacheType' /\ GhostType'
    BY <1>1, <2>1 DEF vars, cacheVars, ghostVars, CacheType, GhostType, Typed, TypeInv, TypeOK
  <2> QED BY <2>1, <2>2, <2>3, JobRevStep DEF Typed, TypeInv, TypeOK, ApiInv
<1>2. CASE Next
  <2>1. TypeInv' /\ Grows
    BY <1>2, UserType, DeliverType, WorkerType, FaultType, ClusterType DEF Next, Typed
  <2> QED BY <2>1, JobRevStep DEF Typed
<1> QED BY <1>1, <1>2

LEMMA TypedInit == Init => Typed
BY InitType DEF Typed, JobRevOK, Init

\* Every variable has its type in every state of every behaviour: no
\* generation, uid or revision runs out of its bound and what an object, a
\* cache or a pass refers to was accepted.
THEOREM TypeCorrect == Spec => []TypeOK
<1>1. Spec => []Typed
  BY TypedInit, TypedStep, PTL DEF Spec
<1> QED BY <1>1, PTL DEF Typed, TypeInv

-----------------------------------------------------------------------------
(* The release gate                                                        *)

HistoryGrows == ran \subseteq ran' /\ everUp \subseteq everUp'

LEMMA HistoryStep == [Next]_vars => HistoryGrows
<1> SUFFICES ASSUME [Next]_vars PROVE HistoryGrows
  OBVIOUS
<1> USE DEF HistoryGrows
<1>1. CASE User \/ StackInformer \/ JobInformer \/ DepInformer
  BY <1>1 DEF User, Create, Edit, Delete, StackWritten, StackInformer, JobInformer, DepInformer,
              DeliverStack, DeliverJob, DeliverDep, ghostVars
<1>2. CASE Worker
  <2>1. UNCHANGED ghostVars
    BY <1>2 DEF Worker, StartReconcile, ReconcileBacking, SkipService, CreateReleaseJob, RollService,
                ApplyProcess, ExposeProcess, UpdateStatus
  <2> QED BY <2>1 DEF ghostVars
<1>3. CASE CallFails \/ Restart
  BY <1>3 DEF CallFails, Restart
<1>4. CASE Cluster \/ Outage \/ Collector
  BY <1>4 DEF Cluster, Outage, Collector, JobFinishes, DeploymentReady, BackingUp, DeploymentDown,
              BackingDown, CollectJob, CollectDep, CollectService, CollectBacking, ghostVars
<1>5. CASE UNCHANGED vars
  BY <1>5 DEF vars, ghostVars
<1> QED BY <1>1, <1>2, <1>3, <1>4, <1>5 DEF Next

\* What was completed stays so.
LEMMA CompletedKept ==
    ASSUME ApiInv, ApiInv', Grows, HistoryGrows, NEW s, NEW g, Completed(s, g)
    PROVE  Completed(s, g)'
<1>1. PICK q \in 1 .. Cur : revs[q].gen = g /\ <<s, q, "complete">> \in ran
  BY DEF Completed
<1>2. q \in 1 .. Cur'
  BY CurNat DEF Grows, ApiInv, ApiType, Cur
<1>3. revs'[q] = revs[q] /\ <<s, q, "complete">> \in ran'
  BY <1>1 DEF Grows, HistoryGrows
<1> QED BY <1>1, <1>2, <1>3 DEF Completed

\* "complete", in the cluster or in the cache, speaks of a finished Job.
JobsTold ==
    \A k \in JobKey : job[k] = "complete" \/ jobSeen[k] = "complete" => Completed(k[1], k[2])

\* The processes a pass is about to apply have passed the gate.
PassGated == \A k \in pend : Hooked(view, k[1]) => Completed(k[1], revs[view].gen)

GateInv == JobsTold /\ PassGated /\ ReleaseGateByName

LEMMA GateInit == Init => GateInv
BY DEF Init, GateInv, JobsTold, PassGated, ReleaseGateByName, Owned

LEMMA JobsToldStep ==
    Typed /\ JobsTold /\ [Next]_vars => JobsTold'
<1> SUFFICES ASSUME Typed, JobsTold, [Next]_vars PROVE JobsTold'
  OBVIOUS
<1>g. Grows /\ HistoryGrows /\ ApiInv /\ ApiInv'
  BY TypedStep, HistoryStep DEF Typed, TypeInv
<1>t. ObjType /\ CacheType
  BY DEF Typed, TypeInv, TypeOK
<1>k. ASSUME \A k \in JobKey : /\ job'[k] = "complete" => job[k] = "complete" \/ Completed(k[1], k[2])'
                               /\ jobSeen'[k] = "complete" => jobSeen[k] = "complete" \/ job[k] = "complete"
      PROVE  JobsTold'
  BY <1>g, <1>k, CompletedKept DEF JobsTold
<1>1. ASSUME NEW k \in JobKey, NEW o \in {"complete", "failed"}, JobFinishes(k, o)
      PROVE  JobsTold'
  <2>1. /\ job[k] = "running" /\ job' = [job EXCEPT ![k] = o]
        /\ ran' = ran \cup {<<k[1], jobRev[k], o>>} /\ UNCHANGED <<revs, jobSeen>>
    BY <1>1 DEF JobFinishes, apiVars, cacheVars
  <2>2. jobRev[k] \in 1 .. Cur /\ revs[jobRev[k]].gen = k[2]
    BY <2>1, <1>t DEF Typed, JobRevOK, ObjType, TypeInv, ApiInv, ApiType, Cur
  <2>3. o = "complete" => Completed(k[1], k[2])'
    BY <2>1, <2>2 DEF Completed, Cur
  <2> QED BY <2>1, <2>3, <1>k, <1>t DEF ObjType
<1>2. ASSUME NEW k \in JobKey, DeliverJob(k) PROVE JobsTold'
  BY <1>2, <1>k, <1>t DEF DeliverJob, objVars, jobVars, CacheType
<1>3. ASSUME NEW s \in Services, CreateReleaseJob(s) PROVE JobsTold'
  <2>1. view # 0
    BY <1>3 DEF CreateReleaseJob, NextIs, Typed, TypeInv, TypeOK, PassType
  <2>2. JobOf(s) \in JobKey
    BY <2>1, ViewRev DEF Typed
  <2>3. UNCHANGED jobSeen /\ (UNCHANGED job \/ job' = [job EXCEPT ![JobOf(s)] = "running"])
    BY <1>3 DEF CreateReleaseJob, cacheVars, jobVars
  <2> QED BY <2>2, <2>3, <1>k, <1>t DEF ObjType
<1>4. ASSUME NEW k \in JobKey, CollectJob(k) PROVE JobsTold'
  BY <1>4, <1>k, <1>t DEF CollectJob, cacheVars, ObjType
<1>5. CASE Restart
  BY <1>5, <1>k DEF Restart, objVars, jobVars
<1>6. CASE UNCHANGED <<job, jobSeen>>
  BY <1>6, <1>k
<1>7. CASE User \/ StackInformer \/ JobInformer \/ DepInformer \/ CallFails
  BY <1>2, <1>6, <1>7 DEF User, Create, Edit, Delete, StackWritten, StackInformer, JobInformer,
              DepInformer, DeliverStack, DeliverDep, CallFails, objVars, jobVars, cacheVars
<1>8. CASE Worker
  BY <1>3, <1>6, <1>8 DEF Worker, StartReconcile, ReconcileBacking, SkipService, RollService,
              ApplyProcess, ExposeProcess, UpdateStatus, objVars, jobVars, cacheVars
<1>9. CASE Cluster \/ Outage \/ Collector
  BY <1>1, <1>4, <1>6, <1>9 DEF Cluster, Outage, Collector, DeploymentReady, BackingUp,
              DeploymentDown, BackingDown, CollectDep, CollectService, CollectBacking, jobVars, cacheVars
<1>10. CASE UNCHANGED vars
  BY <1>6, <1>10 DEF vars, objVars, jobVars, cacheVars
<1> QED BY <1>5, <1>7, <1>8, <1>9, <1>10 DEF Next

\* The running pass: it goes on with the revision it has and with fewer
\* processes, ends, or opens the gate of one service.
LEMMA PassStep ==
    ASSUME Typed, [Next]_vars
    PROVE  \/ pend' = {}
           \/ pend' \subseteq pend /\ view' = view /\ UNCHANGED revs
           \/ pend' \subseteq pend /\ view' = view /\ User
           \/ \E s \in Services : RollService(s)
<1> USE DEF Typed, TypeInv, TypeOK
<1>1. CASE User
  BY <1>1 DEF User, Create, Edit, Delete, StackWritten
<1>2. CASE StackInformer \/ JobInformer \/ DepInformer
  BY <1>2 DEF StackInformer, JobInformer, DepInformer, DeliverStack, DeliverJob, DeliverDep, passVars, apiVars
<1>3. CASE CallFails \/ Restart
  BY <1>3 DEF CallFails, Restart, Retry, Idle
<1>4. CASE Cluster \/ Outage \/ Collector
  BY <1>4 DEF Cluster, Outage, Collector, JobFinishes, DeploymentReady, BackingUp, DeploymentDown,
              BackingDown, CollectJob, CollectDep, CollectService, CollectBacking, passVars, apiVars
<1>5. CASE StartReconcile
  BY <1>5 DEF StartReconcile, PassType, passVars
<1>6. CASE UpdateStatus
  BY <1>6 DEF UpdateStatus, Retry, Idle
<1>7. CASE \E b \in Backings : ReconcileBacking(b)
  BY <1>7 DEF ReconcileBacking, Retry, Idle, apiVars
<1>8. CASE \E s \in Services : SkipService(s) \/ CreateReleaseJob(s)
  BY <1>8 DEF SkipService, CreateReleaseJob, Handled, Retry, Idle, apiVars
<1>9. CASE \E k \in Owned : ApplyProcess(k) \/ ExposeProcess(k)
  BY <1>9 DEF ApplyProcess, ExposeProcess, Retry, Idle, apiVars
<1>10. CASE UNCHANGED vars
  BY <1>10 DEF vars, passVars, apiVars
<1> QED BY <1>1, <1>2, <1>3, <1>4, <1>5, <1>6, <1>7, <1>8, <1>9, <1>10 DEF Next, Worker

\* A revision reads the same after any step.
LEMMA SameRev ==
    ASSUME ApiInv, Grows, NEW r \in 1 .. Cur, NEW s \in Services
    PROVE  /\ Hooked(r, s)' = Hooked(r, s) /\ BoundTo(r, s)' = BoundTo(r, s)
           /\ revs'[r] = revs[r] /\ Uid(r)' = Uid(r)
BY DEF Grows, Hooked, BoundTo, Svc, Listed, Uid, ApiInv, ApiType, Cur

LEMMA PassGatedStep == Typed /\ JobsTold /\ PassGated /\ [Next]_vars => PassGated'
<1> SUFFICES ASSUME Typed, JobsTold, PassGated, [Next]_vars PROVE PassGated'
  OBVIOUS
<1>g. Grows /\ HistoryGrows /\ ApiInv /\ ApiInv' /\ PassType
  BY TypedStep, HistoryStep DEF Typed, TypeInv, TypeOK
<1>1. CASE pend' = {}
  BY <1>1 DEF PassGated
<1>2. CASE pend' \subseteq pend /\ view' = view
  <2> SUFFICES ASSUME NEW k \in pend, Hooked(view, k[1])' PROVE Completed(k[1], revs[view].gen)'
    BY <1>2 DEF PassGated
  <2>1. k \in Owned /\ k[1] \in Services /\ view \in 1 .. Cur
    BY <1>g DEF PassType, Owned, ApiInv, ApiType, Cur
  <2>2. Hooked(view, k[1]) /\ revs'[view] = revs[view]
    BY <2>1, <1>2, <1>g, SameRev DEF Hooked, Svc
  <2>3. Completed(k[1], revs[view].gen)
    BY <2>2 DEF PassGated
  <2> QED BY <1>2, <2>2, <2>3, <1>g, CompletedKept DEF Completed
<1>3. ASSUME NEW s \in Services, RollService(s) PROVE PassGated'
  <2>1. view # 0 /\ UNCHANGED <<revs, view, ran>> /\ HookOpen(s)
        /\ pend' = {s} \X Svc(view, s).procs
    BY <1>3, <1>g DEF RollService, NextIs, PassType, apiVars, ghostVars
  <2>2. JobOf(s) \in JobKey
    BY <2>1, ViewRev DEF Typed
  <2>3. Hooked(view, s) => Completed(s, revs[view].gen)
    BY <2>1, <2>2 DEF HookOpen, JobsTold, JobOf
  <2> QED BY <2>1, <2>3 DEF PassGated, Completed, Hooked, Svc, Cur
<1> QED BY <1>1, <1>2, <1>3, PassStep

\* The only way a Deployment comes to a revision.
LEMMA DepStep ==
    ASSUME Typed, [Next]_vars, NEW k \in Owned
    PROVE  \/ dep'[k] = dep[k]
           \/ CollectDep(k) /\ dep'[k] = 0
           \/ ApplyProcess(k) /\ dep'[k] = view
<1> USE DEF Typed, TypeInv, TypeOK, ObjType
<1>1. CASE UNCHANGED dep
  BY <1>1
<1>2. ASSUME NEW j \in Owned, ApplyProcess(j)
      PROVE  dep'[k] = dep[k] \/ (ApplyProcess(k) /\ dep'[k] = view)
  <2>1. UNCHANGED dep \/ dep' = [dep EXCEPT ![j] = view]
    BY <1>2 DEF ApplyProcess
  <2> QED BY <2>1, <1>2
<1>3. ASSUME NEW j \in Owned, CollectDep(j)
      PROVE  dep'[k] = dep[k] \/ (CollectDep(k) /\ dep'[k] = 0)
  BY <1>3 DEF CollectDep
<1>4. CASE User \/ StackInformer \/ JobInformer \/ DepInformer \/ CallFails \/ Restart
  BY <1>1, <1>4 DEF User, Create, Edit, Delete, StackWritten, StackInformer, JobInformer,
     DepInformer, DeliverStack, DeliverJob, DeliverDep, CallFails, Restart, objVars, depVars
<1>5. CASE Worker
  BY <1>1, <1>2, <1>5 DEF Worker, StartReconcile, ReconcileBacking, SkipService, CreateReleaseJob,
     RollService, ExposeProcess, UpdateStatus, objVars, depVars
<1>6. CASE Cluster \/ Outage \/ Collector
  BY <1>1, <1>3, <1>6 DEF Cluster, Outage, Collector, JobFinishes, DeploymentReady, BackingUp,
     DeploymentDown, BackingDown, CollectJob, CollectService, CollectBacking, depVars
<1>7. CASE UNCHANGED vars
  BY <1>1, <1>7 DEF vars, objVars, depVars
<1> QED BY <1>4, <1>5, <1>6, <1>7 DEF Next

LEMMA GateStep == Typed /\ GateInv /\ [Next]_vars => GateInv'
<1> SUFFICES ASSUME Typed, GateInv, [Next]_vars PROVE GateInv'
  OBVIOUS
<1>g. Grows /\ HistoryGrows /\ ApiInv /\ ApiInv' /\ PassType /\ ObjType
  BY TypedStep, HistoryStep DEF Typed, TypeInv, TypeOK
<1>1. JobsTold' /\ PassGated'
  BY JobsToldStep, PassGatedStep DEF GateInv
<1>2. ReleaseGateByName'
  <2> SUFFICES ASSUME NEW s \in Services, NEW p \in Processes, dep'[<<s, p>>] # 0,
                      Hooked(dep[<<s, p>>], s)'
               PROVE  Completed(s, revs[dep[<<s, p>>]].gen)'
    BY DEF ReleaseGateByName
  <2> DEFINE k == <<s, p>>
  <2>k. k \in Owned /\ k[1] = s
    BY DEF Owned
  <2>1. CASE dep'[k] = dep[k]
    <3>1. dep[k] \in 1 .. Cur
      BY <2>k, <2>1, <1>g DEF ObjType, ApiInv, ApiType, Cur
    <3>2. Hooked(dep[k], s) /\ revs'[dep[k]] = revs[dep[k]]
      BY <3>1, <2>1, <1>g, SameRev DEF Hooked, Svc
    <3>3. Completed(s, revs[dep[k]].gen)
      BY <3>1, <3>2 DEF GateInv, ReleaseGateByName
    <3> QED BY <2>1, <3>2, <3>3, <1>g, CompletedKept DEF Completed
  <2>2. CASE ApplyProcess(k) /\ dep'[k] = view
    <3>1. UNCHANGED <<revs, ran>> /\ k \in pend
      BY <2>2 DEF ApplyProcess, apiVars, ghostVars
    <3>2. Hooked(view, s)
      BY <2>2, <3>1 DEF Hooked, Svc
    <3>3. Completed(s, revs[view].gen)
      BY <2>k, <3>1, <3>2 DEF GateInv, PassGated
    <3> QED BY <2>2, <3>1, <3>3 DEF Completed, Cur
  <2> QED BY <2>k, <2>1, <2>2, DepStep
<1> QED BY <1>1, <1>2 DEF GateInv

\* A process runs a revision of a service that has a release hook only after
\* a hook of that generation number completed, whatever edits, deletions,
\* stale caches, crashes and lost calls came in between.
THEOREM GateByName == Spec => []ReleaseGateByName
<1>1. Spec => [](Typed /\ GateInv)
  BY TypedInit, TypedStep, GateInit, GateStep, PTL DEF Spec
<1> QED BY <1>1, PTL DEF GateInv

\* While the Stack is never deleted, its n-th spec has generation n.
GenIsRevision == \A i \in 1 .. Cur : revs[i].gen = i

LEMMA GenStep ==
    ASSUME MaxDeletes = 0, Typed, GenIsRevision, [Next]_vars PROVE GenIsRevision'
<1>g. Grows /\ ApiInv /\ ApiInv'
  BY TypedStep DEF Typed, TypeInv
<1>1. ASSUME NEW spec \in Specs, Create(spec) PROVE GenIsRevision'
  <2>1. Cur = 0
    <3>1. Cur # 0 => Uid(Cur) \in Uids
      <4> SUFFICES ASSUME Cur # 0 PROVE Uid(Cur) \in Uids
        OBVIOUS
      <4>1. revs[Cur] \in Revision
        BY <1>g DEF ApiInv, ApiType, Cur
      <4> QED BY <4>1 DEF Revision, Uid
    <3> QED BY <1>1, <1>g, <3>1 DEF Create, ApiInv, RevsOK, Uids
  <2> QED BY <1>1, <1>g, <2>1 DEF Create, GenIsRevision, Cur, ApiInv, ApiType
<1>2. ASSUME NEW spec \in Specs, Edit(spec) PROVE GenIsRevision'
  <2>1. Cur # 0 /\ revs[Cur].gen = Cur
    BY <1>2, <1>g DEF Edit, ApiInv, RevsOK, GenIsRevision, ApiType, Cur
  <2> QED BY <1>2, <1>g, <2>1 DEF Edit, GenIsRevision, Cur, ApiInv, ApiType
<1>3. CASE UNCHANGED revs
  BY <1>3 DEF GenIsRevision, Cur
<1>4. CASE Delete \/ StackInformer \/ JobInformer \/ DepInformer \/ CallFails \/ Restart
  BY <1>3, <1>4 DEF Delete, StackInformer, JobInformer, DepInformer, DeliverStack, DeliverJob,
     DeliverDep, CallFails, Restart, apiVars
<1>5. CASE Worker
  BY <1>3, <1>5 DEF Worker, StartReconcile, ReconcileBacking, SkipService, CreateReleaseJob,
     RollService, ApplyProcess, ExposeProcess, UpdateStatus, apiVars
<1>6. CASE Cluster \/ Outage \/ Collector
  BY <1>3, <1>6 DEF Cluster, Outage, Collector, JobFinishes, DeploymentReady, BackingUp,
     DeploymentDown, BackingDown, CollectJob, CollectDep, CollectService, CollectBacking, apiVars
<1>7. CASE UNCHANGED vars
  BY <1>3, <1>7 DEF vars, apiVars
<1> QED BY <1>1, <1>2, <1>4, <1>5, <1>6, <1>7 DEF Next, User

LEMMA GateIsStrict == Typed /\ GenIsRevision /\ ReleaseGateByName => ReleaseGate
<1> SUFFICES ASSUME Typed, GenIsRevision, ReleaseGateByName, NEW s \in Services, NEW p \in Processes,
                    dep[<<s, p>>] # 0, Hooked(dep[<<s, p>>], s)
             PROVE  <<s, dep[<<s, p>>], "complete">> \in ran
  BY DEF ReleaseGate
<1>1. dep[<<s, p>>] \in 1 .. Cur
  BY DEF Typed, TypeInv, TypeOK, ObjType, Owned, ApiInv, ApiType, Cur
<1>2. Completed(s, revs[dep[<<s, p>>]].gen)
  BY DEF ReleaseGateByName
<1> QED BY <1>1, <1>2 DEF Completed, GenIsRevision

\* As long as the Stack is not deleted and created again, a process runs a
\* revision of a service with a release hook only after the hook of that very
\* revision completed: the promise of the code, in full.
THEOREM StrictGate == ASSUME MaxDeletes = 0 PROVE Spec => []ReleaseGate
<1>1. Init => GenIsRevision
  BY DEF Init, GenIsRevision, Cur
<1>2. Typed /\ GenIsRevision /\ [Next]_vars => GenIsRevision'
  BY GenStep
<1>3. Spec => [](Typed /\ GenIsRevision /\ GateInv)
  BY <1>1, <1>2, TypedInit, TypedStep, GateInit, GateStep, PTL DEF Spec
<1>4. Typed /\ GenIsRevision /\ GateInv => ReleaseGate
  BY GateIsStrict DEF GateInv
<1> QED BY <1>3, <1>4, PTL

-----------------------------------------------------------------------------
(* The backing gate                                                        *)

\* A backing service that is ready is one the history knows; what the pass
\* found ready belongs to the Stack object it reads; and the processes it is
\* about to apply wait for nothing.
BackInv ==
    /\ \A b \in up : prov[b] # 0 /\ <<b, prov[b]>> \in everUp
    /\ view # 0 => \A b \in ready : <<b, Uid(view)>> \in everUp
    /\ \A k \in pend : BoundTo(view, k[1]) \subseteq ready
    /\ BackingGate

LEMMA BackInit == Init => BackInv
BY DEF Init, BackInv, BackingGate, Owned

LEMMA UpStep ==
    ASSUME Typed, \A b \in up : prov[b] # 0 /\ <<b, prov[b]>> \in everUp, [Next]_vars
    PROVE  \A b \in up' : prov'[b] # 0 /\ <<b, prov'[b]>> \in everUp'
<1> DEFINE P == \A b \in up : prov[b] # 0 /\ <<b, prov[b]>> \in everUp
<1> USE DEF Typed, TypeInv, TypeOK, ObjType
<1>h. everUp \subseteq everUp'
  BY HistoryStep DEF HistoryGrows
<1>1. CASE UNCHANGED prov /\ up' \subseteq up
  BY <1>1, <1>h
<1>2. ASSUME NEW b \in Backings, ReconcileBacking(b) PROVE P'
  <2>1. UNCHANGED up /\ (prov' = prov \/ (prov' = [prov EXCEPT ![b] = Uid(view)]
                                         /\ (prov[b] = 0 \/ prov[b] = Uid(view))))
    BY <1>2 DEF ReconcileBacking, OwnerOK
  <2> QED BY <2>1, <1>h
<1>3. ASSUME NEW b \in Backings, BackingUp(b) PROVE P'
  BY <1>3, <1>h DEF BackingUp
<1>4. ASSUME NEW b \in Backings, CollectBacking(b) PROVE P'
  BY <1>4, <1>h DEF CollectBacking
<1>5. CASE User \/ StackInformer \/ JobInformer \/ DepInformer \/ CallFails \/ Restart
  BY <1>1, <1>5 DEF User, Create, Edit, Delete, StackWritten, StackInformer, JobInformer,
     DepInformer, DeliverStack, DeliverJob, DeliverDep, CallFails, Restart, objVars, backVars
<1>6. CASE Worker
  BY <1>1, <1>2, <1>6 DEF Worker, StartReconcile, SkipService, CreateReleaseJob, RollService,
     ApplyProcess, ExposeProcess, UpdateStatus, objVars, backVars
<1>7. CASE Cluster \/ Outage \/ Collector
  BY <1>1, <1>3, <1>4, <1>7 DEF Cluster, Outage, Collector, JobFinishes, DeploymentReady,
     DeploymentDown, BackingDown, CollectJob, CollectDep, CollectService, backVars
<1>8. CASE UNCHANGED vars
  BY <1>1, <1>8 DEF vars, objVars, backVars
<1> QED BY <1>5, <1>6, <1>7, <1>8 DEF Next

LEMMA ReadyStep ==
    ASSUME Typed, BackInv, [Next]_vars
    PROVE  view' # 0 => \A b \in ready' : <<b, Uid(view)'>> \in everUp'
<1> SUFFICES ASSUME view' # 0, NEW b \in ready' PROVE <<b, Uid(view)'>> \in everUp'
  OBVIOUS
<1> USE DEF Typed, TypeInv, TypeOK
<1>h. Grows /\ everUp \subseteq everUp' /\ ApiInv
  BY TypedStep, HistoryStep DEF HistoryGrows
<1>1. CASE view' = view /\ ready' = ready
  <2>1. view \in 1 .. Cur
    BY <1>1 DEF PassType, ApiInv, ApiType, Cur
  <2>2. Uid(view)' = Uid(view)
    BY <2>1, <1>1, <1>h DEF Grows, Uid
  <2> QED BY <1>1, <1>h, <2>2 DEF BackInv
<1>2. ASSUME NEW c \in Backings, ReconcileBacking(c), ready' # ready PROVE <<b, Uid(view)'>> \in everUp'
  <2>1. c \in up /\ ready' = ready \cup {c} /\ prov[c] \in {0, Uid(view)} /\ UNCHANGED <<view, revs>>
    BY <1>2 DEF ReconcileBacking, OwnerOK, apiVars, Retry, Idle
  <2>2. <<c, Uid(view)>> \in everUp
    BY <2>1 DEF BackInv
  <2> QED BY <1>h, <2>1, <2>2 DEF BackInv, Uid
<1>3. CASE StartReconcile
  BY <1>1, <1>3 DEF StartReconcile, PassType, passVars
<1>4. CASE UpdateStatus \/ CallFails \/ Restart
  BY <1>4 DEF UpdateStatus, CallFails, Restart, Retry, Idle
<1>5. CASE User \/ StackInformer \/ JobInformer \/ DepInformer
  BY <1>1, <1>5 DEF User, Create, Edit, Delete, StackWritten, StackInformer, JobInformer,
     DepInformer, DeliverStack, DeliverJob, DeliverDep, passVars
<1>6. ASSUME NEW c \in Backings, ReconcileBacking(c), ready' = ready PROVE <<b, Uid(view)'>> \in everUp'
  BY <1>1, <1>6 DEF ReconcileBacking, Retry, Idle
<1>7. CASE \E s \in Services : SkipService(s) \/ CreateReleaseJob(s) \/ RollService(s)
  BY <1>1, <1>7 DEF SkipService, CreateReleaseJob, RollService, Handled, Retry, Idle
<1>8. CASE \E k \in Owned : ApplyProcess(k) \/ ExposeProcess(k)
  BY <1>1, <1>8 DEF ApplyProcess, ExposeProcess, Retry, Idle
<1>9. CASE Cluster \/ Outage \/ Collector
  BY <1>1, <1>9 DEF Cluster, Outage, Collector, JobFinishes, DeploymentReady, BackingUp,
     DeploymentDown, BackingDown, CollectJob, CollectDep, CollectService, CollectBacking, passVars
<1>10. CASE UNCHANGED vars
  BY <1>1, <1>10 DEF vars, passVars
<1> QED BY <1>2, <1>3, <1>4, <1>5, <1>6, <1>7, <1>8, <1>9, <1>10 DEF Next, Worker

LEMMA WaitStep ==
    ASSUME Typed, BackInv, [Next]_vars
    PROVE  \A k \in pend' : BoundTo(view, k[1])' \subseteq ready'
<1> USE DEF Typed, TypeInv, TypeOK
<1>h. Grows /\ ApiInv
  BY TypedStep
<1>1. CASE pend' = {}
  BY <1>1
<1>2. ASSUME pend' \subseteq pend, view' = view, ready \subseteq ready'
      PROVE  \A k \in pend' : BoundTo(view, k[1])' \subseteq ready'
  <2> SUFFICES ASSUME NEW k \in pend' PROVE BoundTo(view, k[1])' \subseteq ready'
    OBVIOUS
  <2>1. k \in pend /\ k[1] \in Services /\ view \in 1 .. Cur
    BY <1>2 DEF PassType, Owned, ApiInv, ApiType, Cur
  <2>2. BoundTo(view, k[1])' = BoundTo(view, k[1])
    BY <1>2, <1>h, <2>1, SameRev DEF BoundTo, Svc, Listed
  <2> QED BY <1>2, <2>1, <2>2 DEF BackInv
<1>3. ASSUME NEW s \in Services, RollService(s)
      PROVE  \A k \in pend' : BoundTo(view, k[1])' \subseteq ready'
  BY <1>3 DEF RollService, Wait, BoundTo, Svc, Listed, apiVars
<1>4. CASE StartReconcile
  BY <1>1, <1>2, <1>4 DEF StartReconcile, PassType, passVars
<1>5. CASE UpdateStatus \/ CallFails \/ Restart
  BY <1>1, <1>5 DEF UpdateStatus, CallFails, Restart, Retry, Idle
<1>6. CASE User \/ StackInformer \/ JobInformer \/ DepInformer
  BY <1>2, <1>6 DEF User, Create, Edit, Delete, StackWritten, StackInformer, JobInformer,
     DepInformer, DeliverStack, DeliverJob, DeliverDep, passVars
<1>7. CASE \E b \in Backings : ReconcileBacking(b)
  BY <1>1, <1>2, <1>7 DEF ReconcileBacking, Retry, Idle
<1>8. CASE \E s \in Services : SkipService(s) \/ CreateReleaseJob(s)
  BY <1>1, <1>2, <1>8 DEF SkipService, CreateReleaseJob, Handled, Retry, Idle
<1>9. CASE \E k \in Owned : ApplyProcess(k) \/ ExposeProcess(k)
  BY <1>1, <1>2, <1>9 DEF ApplyProcess, ExposeProcess, Retry, Idle
<1>10. CASE Cluster \/ Outage \/ Collector
  BY <1>2, <1>10 DEF Cluster, Outage, Collector, JobFinishes, DeploymentReady, BackingUp,
     DeploymentDown, BackingDown, CollectJob, CollectDep, CollectService, CollectBacking, passVars
<1>11. CASE UNCHANGED vars
  BY <1>2, <1>11 DEF vars, passVars
<1> QED BY <1>3, <1>4, <1>5, <1>6, <1>7, <1>8, <1>9, <1>10, <1>11 DEF Next, Worker

\* The only way a Job comes to a revision.
LEMMA JobStep ==
    ASSUME Typed, [Next]_vars, NEW k \in JobKey
    PROVE  jobRev'[k] = jobRev[k] \/ jobRev'[k] = 0
           \/ \E s \in Services : /\ CreateReleaseJob(s) /\ k = JobOf(s) /\ jobRev'[k] = view
<1> USE DEF Typed, TypeInv, TypeOK, ObjType
<1>1. CASE UNCHANGED jobRev
  BY <1>1
<1>2. ASSUME NEW s \in Services, CreateReleaseJob(s), ~UNCHANGED jobRev
      PROVE  jobRev'[k] = jobRev[k] \/ (k = JobOf(s) /\ jobRev'[k] = view)
  <2>1. jobRev' = [jobRev EXCEPT ![JobOf(s)] = view]
    BY <1>2 DEF CreateReleaseJob, jobVars
  <2> QED BY <2>1
<1>3. ASSUME NEW j \in JobKey, CollectJob(j) PROVE jobRev'[k] = jobRev[k] \/ jobRev'[k] = 0
  BY <1>3 DEF CollectJob
<1>4. CASE User \/ StackInformer \/ JobInformer \/ DepInformer \/ CallFails \/ Restart
  BY <1>1, <1>4 DEF User, Create, Edit, Delete, StackWritten, StackInformer, JobInformer,
     DepInformer, DeliverStack, DeliverJob, DeliverDep, CallFails, Restart, objVars, jobVars
<1>5. CASE Worker
  BY <1>1, <1>2, <1>5 DEF Worker, StartReconcile, ReconcileBacking, SkipService, ApplyProcess,
     RollService, ExposeProcess, UpdateStatus, objVars, jobVars
<1>6. CASE Cluster \/ Outage \/ Collector
  BY <1>1, <1>3, <1>6 DEF Cluster, Outage, Collector, JobFinishes, DeploymentReady, BackingUp,
     DeploymentDown, BackingDown, CollectDep, CollectService, CollectBacking, jobVars
<1>7. CASE UNCHANGED vars
  BY <1>1, <1>7 DEF vars, objVars, jobVars
<1> QED BY <1>4, <1>5, <1>6, <1>7 DEF Next

\* Revision r of service s has had all it connects to.
Backed(r, s) == \A b \in BoundTo(r, s) : <<b, Uid(r)>> \in everUp

LEMMA BackedKept ==
    ASSUME ApiInv, Grows, HistoryGrows, NEW r \in 1 .. Cur, NEW s \in Services, Backed(r, s)
    PROVE  \A b \in BoundTo(r, s)' : <<b, Uid(r)'>> \in everUp'
BY SameRev DEF Backed, HistoryGrows

LEMMA BackStep == Typed /\ BackInv /\ [Next]_vars => BackInv'
<1> SUFFICES ASSUME Typed, BackInv, [Next]_vars PROVE BackInv'
  OBVIOUS
<1>g. Grows /\ HistoryGrows /\ ApiInv /\ ApiInv' /\ PassType /\ ObjType
  BY TypedStep, HistoryStep DEF Typed, TypeInv, TypeOK
<1>1. \A b \in up' : prov'[b] # 0 /\ <<b, prov'[b]>> \in everUp'
  BY UpStep DEF BackInv
<1>2. view' # 0 => \A b \in ready' : <<b, Uid(view)'>> \in everUp'
  BY ReadyStep
<1>3. \A k \in pend' : BoundTo(view, k[1])' \subseteq ready'
  BY WaitStep
<1>4. ASSUME NEW s \in Services, NEW p \in Processes, dep'[<<s, p>>] # 0,
             NEW b \in BoundTo(dep[<<s, p>>], s)'
      PROVE  <<b, Uid(dep[<<s, p>>])'>> \in everUp'
  <2> DEFINE k == <<s, p>>
  <2>k. k \in Owned /\ k[1] = s
    BY DEF Owned
  <2>1. CASE dep'[k] = dep[k]
    <3>1. dep[k] \in 1 .. Cur
      BY <1>4, <2>k, <2>1, <1>g DEF ObjType, ApiInv, ApiType, Cur
    <3>2. Backed(dep[k], s)
      BY <3>1 DEF BackInv, BackingGate, Backed, Uid
    <3> QED BY <1>4, <2>1, <3>1, <3>2, <1>g, BackedKept DEF BoundTo, Svc, Listed, Uid
  <2>2. CASE ApplyProcess(k) /\ dep'[k] = view
    <3>1. UNCHANGED <<revs, everUp>> /\ k \in pend /\ view # 0
      BY <2>2, <1>g DEF ApplyProcess, apiVars, ghostVars, PassType
    <3>2. b \in BoundTo(view, s)
      BY <1>4, <2>2, <3>1 DEF BoundTo, Svc, Listed
    <3>3. <<b, Uid(view)>> \in everUp
      BY <2>k, <3>1, <3>2 DEF BackInv
    <3> QED BY <2>2, <3>1, <3>3 DEF Uid
  <2> QED BY <1>4, <2>k, <2>1, <2>2, DepStep
<1>5. ASSUME NEW k \in JobKey, jobRev'[k] # 0, NEW b \in BoundTo(jobRev[k], k[1])'
      PROVE  <<b, Uid(jobRev[k])'>> \in everUp'
  <2>1. CASE jobRev'[k] = jobRev[k]
    <3>1. jobRev[k] \in 1 .. Cur /\ k[1] \in Services
      BY <1>5, <2>1, <1>g DEF ObjType, JobKey, ApiInv, ApiType, Cur
    <3>2. Backed(jobRev[k], k[1])
      BY <3>1 DEF BackInv, BackingGate, Backed, Uid
    <3> QED BY <1>5, <2>1, <3>1, <3>2, <1>g, BackedKept DEF BoundTo, Svc, Listed, Uid
  <2>2. ASSUME NEW s \in Services, CreateReleaseJob(s), k = JobOf(s), jobRev'[k] = view
        PROVE  <<b, Uid(jobRev[k])'>> \in everUp'
    <3>1. UNCHANGED <<revs, everUp>> /\ ~Wait(s) /\ view # 0 /\ k[1] = s
      BY <2>2, <1>g DEF CreateReleaseJob, NextIs, PassType, JobOf, apiVars, ghostVars
    <3>2. b \in BoundTo(view, s)
      BY <1>5, <2>2, <3>1 DEF BoundTo, Svc, Listed
    <3>3. <<b, Uid(view)>> \in everUp
      BY <3>1, <3>2 DEF BackInv, Wait
    <3> QED BY <2>2, <3>1, <3>3 DEF Uid
  <2> QED BY <1>5, <2>1, <2>2, JobStep
<1>6. BackingGate'
  BY <1>4, <1>5 DEF BackingGate, Uid
<1> QED BY <1>1, <1>2, <1>3, <1>6 DEF BackInv

\* A process and a release hook are made from a revision only after every
\* backing service the revision connects them to has been ready, and as a
\* backing service of that very Stack object.
THEOREM BackingGated == Spec => []BackingGate
<1>1. Spec => [](Typed /\ BackInv)
  BY TypedInit, TypedStep, BackInit, BackStep, PTL DEF Spec
<1> QED BY <1>1, PTL DEF BackInv


-----------------------------------------------------------------------------
(* The status, as long as the Stack is not deleted                         *)

\* There is one Stack, and nothing of it is collected.
LEMMA Alone ==
    ASSUME MaxDeletes = 0, Typed, Cur # 0
    PROVE  /\ live = 1 /\ \A r \in 1 .. Cur : Uid(r) = 1
           /\ \A k \in Owned : ~CollectDep(k) /\ ~CollectService(k)
<1>1. ASSUME NEW r \in 1 .. Cur PROVE Uid(r) = 1
  <2>1. revs[r] \in Revision
    BY DEF Typed, TypeInv, ApiInv, ApiType, Cur
  <2> QED BY <2>1 DEF Revision, Uid, Uids
<1>2. Cur \in 1 .. Cur
  BY CurNat DEF Typed, TypeInv
<1>3. live = 1
  BY <1>1, <1>2 DEF Typed, TypeInv, ApiInv, ApiType, RevsOK
<1>4. ASSUME NEW k \in Owned PROVE ~CollectDep(k) /\ ~CollectService(k)
  <2>1. dep[k] \in 0 .. Cur /\ svcObj[k] \in 0 .. 1
    BY DEF Typed, TypeInv, TypeOK, ObjType
  <2> QED BY <1>1, <1>2, <1>3, <2>1 DEF CollectDep, CollectService, Orphan
<1> QED BY <1>1, <1>3, <1>4

\* "failed", in the cluster or in the cache, speaks of the Job of a revision.
FailuresTold ==
    \A k \in JobKey : job[k] = "failed" \/ jobSeen[k] = "failed" => <<k[1], k[2], "failed">> \in ran

LEMMA FailuresToldStep ==
    ASSUME Typed, GenIsRevision, FailuresTold, [Next]_vars PROVE FailuresTold'
<1>t. ObjType /\ CacheType /\ ran \subseteq ran'
  BY HistoryStep DEF Typed, TypeInv, TypeOK, HistoryGrows
<1>k. ASSUME \A k \in JobKey :
                /\ job'[k] = "failed" => job[k] = "failed" \/ <<k[1], k[2], "failed">> \in ran'
                /\ jobSeen'[k] = "failed" => jobSeen[k] = "failed" \/ job[k] = "failed"
      PROVE  FailuresTold'
  BY <1>t, <1>k DEF FailuresTold
<1>1. ASSUME NEW k \in JobKey, NEW o \in {"complete", "failed"}, JobFinishes(k, o)
      PROVE  FailuresTold'
  <2>1. /\ job[k] = "running" /\ job' = [job EXCEPT ![k] = o]
        /\ ran' = ran \cup {<<k[1], jobRev[k], o>>} /\ UNCHANGED jobSeen
    BY <1>1 DEF JobFinishes, cacheVars
  <2>2. jobRev[k] # 0 /\ jobRev[k] \in 0 .. Cur /\ revs[jobRev[k]].gen = k[2]
    BY <2>1, <1>t DEF Typed, JobRevOK, ObjType
  <2>3. jobRev[k] = k[2]
    BY <2>2 DEF GenIsRevision, Typed, TypeInv, ApiInv, ApiType, Cur
  <2> QED BY <2>1, <2>3, <1>k, <1>t DEF ObjType
<1>2. ASSUME NEW k \in JobKey, DeliverJob(k) PROVE FailuresTold'
  BY <1>2, <1>k, <1>t DEF DeliverJob, objVars, jobVars, CacheType
<1>3. ASSUME NEW s \in Services, CreateReleaseJob(s) PROVE FailuresTold'
  <2>1. view # 0
    BY <1>3 DEF CreateReleaseJob, NextIs, Typed, TypeInv, TypeOK, PassType
  <2>2. JobOf(s) \in JobKey
    BY <2>1, ViewRev DEF Typed
  <2>3. UNCHANGED jobSeen /\ (UNCHANGED job \/ job' = [job EXCEPT ![JobOf(s)] = "running"])
    BY <1>3 DEF CreateReleaseJob, cacheVars, jobVars
  <2> QED BY <2>2, <2>3, <1>k, <1>t DEF ObjType
<1>4. ASSUME NEW k \in JobKey, CollectJob(k) PROVE FailuresTold'
  BY <1>4, <1>k, <1>t DEF CollectJob, cacheVars, ObjType
<1>5. CASE Restart
  BY <1>5, <1>k DEF Restart, objVars, jobVars
<1>6. CASE UNCHANGED <<job, jobSeen>>
  BY <1>6, <1>k
<1>7. CASE User \/ StackInformer \/ JobInformer \/ DepInformer \/ CallFails
  BY <1>2, <1>6, <1>7 DEF User, Create, Edit, Delete, StackWritten, StackInformer, JobInformer,
              DepInformer, DeliverStack, DeliverDep, CallFails, objVars, jobVars, cacheVars
<1>8. CASE Worker
  BY <1>3, <1>6, <1>8 DEF Worker, StartReconcile, ReconcileBacking, SkipService, RollService,
              ApplyProcess, ExposeProcess, UpdateStatus, objVars, jobVars, cacheVars
<1>9. CASE Cluster \/ Outage \/ Collector
  BY <1>1, <1>4, <1>6, <1>9 DEF Cluster, Outage, Collector, DeploymentReady, BackingUp,
              DeploymentDown, BackingDown, CollectDep, CollectService, CollectBacking, jobVars, cacheVars
<1>10. CASE UNCHANGED vars
  BY <1>6, <1>10 DEF vars, objVars, jobVars, cacheVars
<1> QED BY <1>5, <1>7, <1>8, <1>9, <1>10 DEF Next

\* What a step does to the pass.
LEMMA PassFrame ==
    ASSUME Typed, [Next]_vars
    PROVE  \/ UNCHANGED <<view, flags, todo, pend, expose>>
           \/ Idle
           \/ StartReconcile
           \/ \E s \in Services : SkipService(s) \/ CreateReleaseJob(s) \/ RollService(s)
           \/ \E k \in Owned : ApplyProcess(k) \/ ExposeProcess(k)
<1>1. CASE User \/ StackInformer \/ JobInformer \/ DepInformer
  BY <1>1 DEF User, Create, Edit, Delete, StackWritten, StackInformer, JobInformer, DepInformer,
     DeliverStack, DeliverJob, DeliverDep, passVars
<1>2. CASE CallFails \/ Restart
  BY <1>2 DEF CallFails, Restart, Retry
<1>3. CASE Cluster \/ Outage \/ Collector
  BY <1>3 DEF Cluster, Outage, Collector, JobFinishes, DeploymentReady, BackingUp, DeploymentDown,
     BackingDown, CollectJob, CollectDep, CollectService, CollectBacking, passVars
<1>4. CASE UpdateStatus \/ \E b \in Backings : ReconcileBacking(b)
  BY <1>4 DEF UpdateStatus, ReconcileBacking, Retry
<1>5. CASE UNCHANGED vars
  BY <1>5 DEF vars, passVars
<1> QED BY <1>1, <1>2, <1>3, <1>4, <1>5 DEF Next, Worker

\* ... to the status and to the Stack in the cache.
LEMMA StatusFrame ==
    ASSUME Typed, [Next]_vars
    PROVE  /\ (UNCHANGED status) \/ status' = NoStatus \/ (UpdateStatus /\ fresh)
           /\ (UNCHANGED seen) \/ (Refresh /\ UNCHANGED <<live, revs>>)
<1>1. CASE User \/ StackInformer \/ JobInformer \/ DepInformer
  BY <1>1 DEF User, Create, Edit, Delete, StackWritten, StackInformer, JobInformer, DepInformer,
     DeliverStack, DeliverJob, DeliverDep, apiVars
<1>2. CASE CallFails \/ Restart
  BY <1>2 DEF CallFails, Restart, apiVars, cacheVars
<1>3. CASE Cluster \/ Outage \/ Collector
  BY <1>3 DEF Cluster, Outage, Collector, JobFinishes, DeploymentReady, BackingUp, DeploymentDown,
     BackingDown, CollectJob, CollectDep, CollectService, CollectBacking, apiVars, cacheVars
<1>4. CASE Worker
  BY <1>4 DEF Worker, StartReconcile, ReconcileBacking, SkipService, CreateReleaseJob, RollService,
     ApplyProcess, ExposeProcess, UpdateStatus, apiVars, cacheVars
<1>5. CASE UNCHANGED vars
  BY <1>5 DEF vars, apiVars, cacheVars
<1> QED BY <1>1, <1>2, <1>3, <1>4, <1>5 DEF Next

\* ... and to the Services.
LEMMA SvcStep ==
    ASSUME Typed, [Next]_vars, NEW k \in Owned
    PROVE  \/ svcObj'[k] = svcObj[k]
           \/ CollectService(k)
           \/ ExposeProcess(k) /\ svcObj'[k] = Uid(view)
<1> USE DEF Typed, TypeInv, TypeOK, ObjType
<1>1. CASE UNCHANGED svcObj
  BY <1>1
<1>2. ASSUME NEW j \in Owned, ExposeProcess(j)
      PROVE  svcObj'[k] = svcObj[k] \/ (ExposeProcess(k) /\ svcObj'[k] = Uid(view))
  <2>1. UNCHANGED svcObj \/ svcObj' = [svcObj EXCEPT ![j] = Uid(view)]
    BY <1>2 DEF ExposeProcess
  <2> QED BY <2>1, <1>2
<1>3. ASSUME NEW j \in Owned, CollectService(j)
      PROVE  svcObj'[k] = svcObj[k] \/ CollectService(k)
  BY <1>3 DEF CollectService
<1>4. CASE User \/ StackInformer \/ JobInformer \/ DepInformer \/ CallFails \/ Restart
  BY <1>1, <1>4 DEF User, Create, Edit, Delete, StackWritten, StackInformer, JobInformer,
     DepInformer, DeliverStack, DeliverJob, DeliverDep, CallFails, Restart, objVars
<1>5. CASE Worker
  BY <1>1, <1>2, <1>5 DEF Worker, StartReconcile, ReconcileBacking, SkipService, CreateReleaseJob,
     RollService, ApplyProcess, UpdateStatus, objVars
<1>6. CASE Cluster \/ Outage \/ Collector
  BY <1>1, <1>3, <1>6 DEF Cluster, Outage, Collector, JobFinishes, DeploymentReady, BackingUp,
     DeploymentDown, BackingDown, CollectJob, CollectDep, CollectBacking
<1>7. CASE UNCHANGED vars
  BY <1>1, <1>7 DEF vars, objVars
<1> QED BY <1>4, <1>5, <1>6, <1>7 DEF Next

\* Process k has revision r, one with the same pods, or a newer one.
Applied(r, k) ==
    dep[k] # 0 /\ (dep[k] > r \/ Template(dep[k], k[1]) = Template(r, k[1]))

\* A pass over revision r is through with service s, but for the processes in
\* `left` and the Services of those in `exp`.
Served(r, s, left, exp) ==
    /\ \A p \in Svc(r, s).procs : <<s, p>> \notin left => Applied(r, <<s, p>>)
    /\ \A p \in Svc(r, s).ported : <<s, p>> \notin left \cup exp => svcObj[<<s, p>>] = 1
    /\ Hooked(r, s) => <<s, r, "complete">> \in ran

\* A revision that no running pass is older than stays applied and exposed.
LEMMA AppliedKept ==
    ASSUME MaxDeletes = 0, Typed, [Next]_vars, NEW r \in 1 .. Cur, view = 0 \/ r <= view,
           NEW k \in Owned, Applied(r, k)
    PROVE  Applied(r, k)'
<1>g. Grows /\ ApiInv /\ ApiInv' /\ PassType /\ ObjType /\ Cur \in Nat
  BY TypedStep, CurNat DEF Typed, TypeInv, TypeOK
<1>1. dep[k] \in 1 .. Cur /\ k[1] \in Services /\ Cur # 0
  BY <1>g DEF Applied, ObjType, Owned
<1>2. ~CollectDep(k)
  BY <1>1, Alone
<1>3. CASE dep'[k] = dep[k]
  <2>1. revs'[r] = revs[r] /\ revs'[dep[k]] = revs[dep[k]]
    BY <1>1, <1>g, SameRev
  <2> QED BY <1>3, <2>1 DEF Applied, Template, Svc, BoundTo, Listed
<1>4. CASE ApplyProcess(k) /\ dep'[k] = view
  <2>1. UNCHANGED revs /\ k \in pend /\ view # 0 /\ view \in 0 .. Cur
    BY <1>4, <1>g DEF ApplyProcess, apiVars, PassType
  <2>2. view = r \/ view > r
    BY <2>1, <1>g
  <2> QED BY <1>4, <2>1, <2>2 DEF Applied, Template, Svc, BoundTo, Listed
<1> QED BY <1>2, <1>3, <1>4, DepStep

LEMMA ExposedKept ==
    ASSUME MaxDeletes = 0, Typed, Cur # 0, [Next]_vars, NEW k \in Owned, svcObj[k] = 1
    PROVE  svcObj'[k] = 1
<1>1. ExposeProcess(k) => Uid(view) = 1
  <2>1. ExposeProcess(k) => view \in 1 .. Cur
    BY CurNat DEF ExposeProcess, Typed, TypeInv, TypeOK, PassType
  <2> QED BY <2>1, Alone
<1> QED BY <1>1, Alone, SvcStep

\* One step further in the pass over r: what it ticks off, it has done.
LEMMA ServedStep ==
    ASSUME MaxDeletes = 0, Typed, [Next]_vars, NEW r \in 1 .. Cur, view = 0 \/ r <= view,
           NEW s \in Services, NEW left, NEW exp, NEW left2, NEW exp2,
           Served(r, s, left, exp),
           \A p \in Svc(r, s).procs : <<s, p>> \in left \ left2 => Applied(r, <<s, p>>)',
           \A p \in Svc(r, s).ported :
              <<s, p>> \in (left \cup exp) \ (left2 \cup exp2) => svcObj'[<<s, p>>] = 1
    PROVE  /\ \A p \in Svc(r, s).procs : <<s, p>> \notin left2 => Applied(r, <<s, p>>)'
           /\ \A p \in Svc(r, s).ported : <<s, p>> \notin left2 \cup exp2 => svcObj'[<<s, p>>] = 1
           /\ Hooked(r, s) => <<s, r, "complete">> \in ran'
           /\ revs'[r] = revs[r]
<1>g. Grows /\ HistoryGrows /\ ApiInv /\ Cur \in Nat
  BY TypedStep, HistoryStep, CurNat DEF Typed, TypeInv
<1>1. revs'[r] = revs[r]
  BY <1>g, SameRev
<1>2. Svc(r, s) \in ServiceSpec
  <2>1. revs[r] \in Revision
    BY <1>g DEF ApiInv, ApiType, Cur
  <2> QED BY <2>1 DEF Revision, StackSpec, Svc
<1>3. \A p \in Svc(r, s).procs : <<s, p>> \in Owned
  BY <1>2 DEF ServiceSpec, Owned
<1>4. \A p \in Svc(r, s).ported : <<s, p>> \in Owned
  BY <1>2 DEF ServiceSpec, Owned
<1>5. ASSUME NEW p \in Svc(r, s).procs, <<s, p>> \notin left2 PROVE Applied(r, <<s, p>>)'
  <2>1. CASE <<s, p>> \in left
    BY <1>5, <2>1
  <2>2. CASE <<s, p>> \notin left
    <3>1. Applied(r, <<s, p>>) /\ <<s, p>> \in Owned
      BY <1>3, <2>2 DEF Served
    <3> QED BY <3>1, AppliedKept
  <2> QED BY <2>1, <2>2
<1>6. ASSUME NEW p \in Svc(r, s).ported, <<s, p>> \notin left2 \cup exp2
      PROVE  svcObj'[<<s, p>>] = 1
  <2>1. CASE <<s, p>> \in left \cup exp
    BY <1>6, <2>1
  <2>2. CASE <<s, p>> \notin left \cup exp
    <3>1. svcObj[<<s, p>>] = 1 /\ <<s, p>> \in Owned /\ Cur # 0
      BY <1>4, <1>g, <2>2 DEF Served
    <3> QED BY <3>1, ExposedKept
  <2> QED BY <2>1, <2>2
<1> QED BY <1>1, <1>5, <1>6, <1>g DEF Served, HistoryGrows

\* What the pass has gathered is true of the revision it reads.
PassTrue ==
    /\ view = 0 => flags = {}
    /\ \A j, k \in expose : j = k
    /\ "releaseFailed" \in flags => \E s \in Services : <<s, view, "failed">> \in ran
    /\ view # 0 /\ flags = {} =>
          \A s \in Services \ todo : Runs(view, s) => Served(view, s, pend, expose)

\* The part of it that is about the services.
LEMMA PassServed ==
    ASSUME MaxDeletes = 0, Typed, PassTrue, [Next]_vars, view # 0, view' = view, flags = {},
           NEW s \in Services \ todo, Runs(view, s)',
           \A p \in Svc(view, s).procs :
              <<s, p>> \in pend \ pend' => Applied(view, <<s, p>>)',
           \A p \in Svc(view, s).ported :
              <<s, p>> \in (pend \cup expose) \ (pend' \cup expose') => svcObj'[<<s, p>>] = 1
    PROVE  Served(view, s, pend, expose)'
<1>1. PICK r \in 1 .. Cur : r = view
  BY ViewRev DEF Typed
<1>2. PICK left, left2, exp, exp2 :
        left = pend /\ left2 = pend' /\ exp = expose /\ exp2 = expose'
  OBVIOUS
<1>3. revs'[r] = revs[r]
  BY TypedStep, SameRev DEF Typed, TypeInv
<1>4. Runs(view, s)
  BY <1>1, <1>3 DEF Runs, Svc
<1>5. Served(r, s, left, exp)
  BY <1>1, <1>2, <1>4 DEF PassTrue, Served, Applied
<1>6. /\ \A p \in Svc(r, s).procs : <<s, p>> \in left \ left2 => Applied(r, <<s, p>>)'
      /\ \A p \in Svc(r, s).ported :
           <<s, p>> \in (left \cup exp) \ (left2 \cup exp2) => svcObj'[<<s, p>>] = 1
  BY <1>1, <1>2 DEF Applied, Template, Svc, BoundTo, Listed
<1>7. r <= view
  BY <1>1
<1>8. /\ \A p \in Svc(r, s).procs : <<s, p>> \notin left2 => Applied(r, <<s, p>>)'
      /\ \A p \in Svc(r, s).ported : <<s, p>> \notin left2 \cup exp2 => svcObj'[<<s, p>>] = 1
      /\ Hooked(r, s) => <<s, r, "complete">> \in ran'
  BY <1>5, <1>6, <1>7, ServedStep
<1> QED BY <1>1, <1>2, <1>3, <1>8 DEF Served, Applied, Template, Svc, BoundTo, Listed, Hooked

LEMMA PassTrueStep ==
    ASSUME MaxDeletes = 0, Typed, GenIsRevision, JobsTold, FailuresTold, PassTrue, [Next]_vars
    PROVE  PassTrue'
<1>t. PassType /\ ObjType /\ ran \subseteq ran'
  BY HistoryStep DEF Typed, TypeInv, TypeOK, HistoryGrows
\* It suffices to follow a pass that goes on and has nothing to wait for.
<1>k. ASSUME view # 0, view' = view, \A j, k \in expose' : j = k,
             "releaseFailed" \in flags' =>
                "releaseFailed" \in flags \/ \E s \in Services : <<s, view, "failed">> \in ran,
             flags' = {} => \A s \in Services \ todo' :
                               Runs(view, s)' => Served(view, s, pend, expose)'
      PROVE  PassTrue'
  BY <1>t, <1>k DEF PassTrue
<1>1. CASE UNCHANGED <<view, flags, todo, pend, expose>>
  <2>1. CASE view = 0
    BY <1>1, <2>1, <1>t DEF PassTrue, PassType
  <2>2. CASE view # 0
    <3>1. ASSUME flags' = {}, NEW s \in Services \ todo', Runs(view, s)'
          PROVE  Served(view, s, pend, expose)'
      BY <1>1, <2>2, <3>1, PassServed
    <3> QED BY <1>1, <2>2, <3>1, <1>k DEF PassTrue
  <2> QED BY <2>1, <2>2
<1>2. CASE Idle
  BY <1>2 DEF Idle, PassTrue
<1>3. CASE StartReconcile
  <2>1. view = 0 /\ flags' = {} /\ expose' = {} /\ (view' = 0 \/ todo' = Services)
    BY <1>3, <1>t DEF StartReconcile, passVars, PassTrue, PassType
  <2> QED BY <2>1 DEF PassTrue
<1>4. ASSUME NEW s \in Services, SkipService(s) \/ CreateReleaseJob(s) PROVE PassTrue'
  <2>1. view # 0 /\ JobOf(s) = <<s, view>> /\ JobOf(s) \in JobKey /\ UNCHANGED revs
    <3>1. view # 0 /\ UNCHANGED revs
      BY <1>4, <1>t DEF SkipService, CreateReleaseJob, NextIs, PassType, apiVars
    <3>2. view \in 1 .. Cur /\ JobOf(s) \in JobKey
      BY <3>1, ViewRev DEF Typed
    <3> QED BY <3>1, <3>2 DEF GenIsRevision, JobOf
  <2>2. \/ Idle
        \/ /\ UNCHANGED <<view, pend, expose>> /\ todo' = todo \ {s}
           /\ \/ ~Runs(view, s) /\ flags' = flags
              \/ flags' = flags \cup {"backingPending"}
              \/ flags' = flags \cup {"releasePending"}
              \/ jobSeen[JobOf(s)] = "failed" /\ flags' = flags \cup {"releaseFailed"}
    BY <1>4 DEF SkipService, CreateReleaseJob, Handled, Retry
  <2>3. CASE ~Idle
    <3>1. "releaseFailed" \in flags' =>
             "releaseFailed" \in flags \/ \E q \in Services : <<q, view, "failed">> \in ran
      BY <2>1, <2>2, <2>3 DEF FailuresTold
    <3>2. ASSUME flags' = {}, NEW q \in Services \ todo', Runs(view, q)'
          PROVE  Served(view, q, pend, expose)'
      <4>1. flags = {} /\ q \in Services \ todo /\ UNCHANGED <<view, pend, expose>>
        BY <2>1, <2>2, <2>3, <3>2 DEF Runs, Svc
      <4> QED BY <2>1, <3>2, <4>1, PassServed
    <3> QED BY <2>1, <2>2, <2>3, <3>1, <3>2, <1>k DEF PassTrue
  <2> QED BY <1>2, <2>3
<1>5. ASSUME NEW s \in Services, RollService(s) PROVE PassTrue'
  <2>1. /\ view # 0 /\ pend = {} /\ expose = {}
        /\ UNCHANGED <<revs, view, flags, expose, ran>>
        /\ pend' = {s} \X Svc(view, s).procs /\ todo' = todo \ {s} /\ HookOpen(s)
    BY <1>5, <1>t DEF RollService, NextIs, PassType, apiVars, ghostVars
  <2>2. view \in 1 .. Cur /\ JobOf(s) = <<s, view>> /\ JobOf(s) \in JobKey
        /\ Svc(view, s) \in ServiceSpec
    BY <2>1, ViewRev DEF Typed, GenIsRevision, JobOf
  <2>3. ASSUME Hooked(view, s) PROVE <<s, view, "complete">> \in ran
    <3>1. Completed(s, view)
      BY <2>1, <2>2, <2>3 DEF HookOpen, JobsTold
    <3> QED BY <3>1 DEF Completed, GenIsRevision
  <2>4. ASSUME flags' = {}, NEW q \in Services \ todo', Runs(view, q)'
        PROVE  Served(view, q, pend, expose)'
    <3>1. CASE q = s
      <4>1. Svc(view, s).ported \subseteq Svc(view, s).procs
        BY <2>2 DEF ServiceSpec
      <4> QED BY <2>1, <2>3, <3>1, <4>1 DEF Served, Hooked, Svc
    <3>2. CASE q # s
      BY <2>1, <2>4, <3>2, PassServed
    <3> QED BY <3>1, <3>2
  <2> QED BY <2>1, <2>4, <1>k DEF PassTrue
<1>6. ASSUME NEW k \in Owned, ApplyProcess(k) PROVE PassTrue'
  <2>1. /\ view # 0 /\ expose = {} /\ UNCHANGED revs
        /\ \/ Idle
           \/ /\ UNCHANGED <<view, flags, todo>> /\ pend' = pend \ {k}
              /\ expose' = {k} \cap ({k[1]} \X Svc(view, k[1]).ported)
              /\ \/ dep' = [dep EXCEPT ![k] = view]
                 \/ dep' = dep /\ dep[k] # 0 /\ Template(dep[k], k[1]) = Template(view, k[1])
    BY <1>6, <1>t DEF ApplyProcess, PassType, apiVars, Retry
  <2>2. CASE ~Idle
    <3>1. Applied(view, k)'
      BY <2>1, <2>2, <1>t DEF Applied, Template, Svc, BoundTo, Listed, ObjType
    <3>2. ASSUME flags' = {}, NEW q \in Services \ todo', Runs(view, q)'
          PROVE  Served(view, q, pend, expose)'
      <4>1. \A p \in Svc(view, q).procs :
               <<q, p>> \in pend \ pend' => Applied(view, <<q, p>>)'
        BY <2>1, <2>2, <3>1
      <4>2. \A p \in Svc(view, q).ported :
               <<q, p>> \in (pend \cup expose) \ (pend' \cup expose') => svcObj'[<<q, p>>] = 1
        BY <2>1, <2>2
      <4> QED BY <2>1, <2>2, <3>2, <4>1, <4>2, PassServed
    <3> QED BY <2>1, <2>2, <3>2, <1>k DEF PassTrue
  <2> QED BY <1>2, <2>2
<1>7. ASSUME NEW k \in Owned, ExposeProcess(k) PROVE PassTrue'
  <2>1. /\ view # 0 /\ k \in expose /\ UNCHANGED revs
        /\ \/ Idle
           \/ /\ UNCHANGED <<view, flags, todo, pend>> /\ expose' = {}
              /\ svcObj' = [svcObj EXCEPT ![k] = Uid(view)]
    BY <1>7, <1>t DEF ExposeProcess, PassType, apiVars, Retry
  <2>2. Uid(view) = 1
    <3>1. view \in 1 .. Cur
      BY <2>1, ViewRev DEF Typed
    <3> QED BY <3>1, Alone
  <2>3. CASE ~Idle
    <3>1. ASSUME flags' = {}, NEW q \in Services \ todo', Runs(view, q)'
          PROVE  Served(view, q, pend, expose)'
      <4>1. \A p \in Svc(view, q).procs :
               <<q, p>> \in pend \ pend' => Applied(view, <<q, p>>)'
        BY <2>1, <2>3
      <4>2. \A p \in Svc(view, q).ported :
               <<q, p>> \in (pend \cup expose) \ (pend' \cup expose') => svcObj'[<<q, p>>] = 1
        BY <2>1, <2>2, <2>3, <1>t DEF PassTrue, ObjType
      <4> QED BY <2>1, <2>3, <3>1, <4>1, <4>2, PassServed
    <3> QED BY <2>1, <2>3, <3>1, <1>k DEF PassTrue
  <2> QED BY <1>2, <2>3
<1> QED BY <1>1, <1>2, <1>3, <1>4, <1>5, <1>6, <1>7, PassFrame

\* A pass, and the status, are never ahead of the cache, and a pass never
\* reads a revision older than the one the status speaks of.
Order == /\ view <= seen /\ status.observed <= seen
         /\ view # 0 => status.observed <= view

LEMMA OrderStep ==
    ASSUME MaxDeletes = 0, Typed, GenIsRevision, Order, [Next]_vars PROVE Order'
<1>t. /\ view \in 0 .. Cur /\ seen \in 0 .. Cur /\ Cur \in Nat /\ status.observed \in Nat
      /\ (live = 0 => Cur = 0)
  <2>1. live = 0 => Cur = 0
    BY Alone
  <2> QED BY <2>1, CurNat DEF Typed, TypeInv, TypeOK, PassType, CacheType, ApiType
<1>s. seen <= seen' /\ seen' \in Nat
  <2>1. seen' = seen \/ seen' = IF live = 0 THEN 0 ELSE Cur
    BY StatusFrame DEF Refresh
  <2> QED BY <2>1, <1>t
<1>o. /\ status'.observed \in {0, status.observed}
         \/ (UpdateStatus /\ fresh /\ status'.observed = view /\ view # 0)
  <2>1. ASSUME UpdateStatus, fresh PROVE status'.observed = view /\ view # 0
    <3>1. view # 0 /\ status' = NewStatus
      BY <2>1 DEF UpdateStatus
    <3> QED BY <3>1, <1>t DEF NewStatus, GenIsRevision
  <2> QED BY <2>1, StatusFrame DEF NoStatus
<1>1. CASE StartReconcile
  <2>1. UNCHANGED <<seen, status>> /\ view' \in {0, seen} /\ view = 0
    BY <1>1 DEF StartReconcile, cacheVars, apiVars, passVars, Got
  <2> QED BY <2>1, <1>t DEF Order
<1>2. CASE UpdateStatus /\ fresh
  <2>1. view' = 0
    BY <1>2 DEF UpdateStatus, Idle
  <2> QED BY <2>1, <1>t, <1>s, <1>o DEF Order
<1>3. CASE ~StartReconcile /\ ~(UpdateStatus /\ fresh)
  <2>1. view' \in {0, view}
    <3>1. ASSUME NEW s \in Services, SkipService(s) \/ CreateReleaseJob(s) \/ RollService(s)
          PROVE  view' \in {0, view}
      BY <3>1 DEF SkipService, CreateReleaseJob, RollService, Handled, Retry, Idle
    <3>2. ASSUME NEW k \in Owned, ApplyProcess(k) \/ ExposeProcess(k) PROVE view' \in {0, view}
      BY <3>2 DEF ApplyProcess, ExposeProcess, Retry, Idle
    <3> QED BY <1>3, <3>1, <3>2, PassFrame DEF Idle
  <2> QED BY <1>3, <2>1, <1>t, <1>s, <1>o DEF Order
<1> QED BY <1>1, <1>2, <1>3

\* What the status says is, and stays, true of the revision it speaks of.
StatusInv ==
    status.observed # 0 =>
        /\ status.phase = "ReleaseFailed" =>
              \E s \in Services : <<s, status.observed, "failed">> \in ran
        /\ status.phase \in {"Running", "Progressing"} =>
              \A s \in Services :
                 Runs(status.observed, s) => Served(status.observed, s, {}, {})

LEMMA StatusInvStep ==
    ASSUME MaxDeletes = 0, Typed, GenIsRevision, Order, PassTrue, StatusInv, [Next]_vars
    PROVE  StatusInv'
<1>t. /\ view \in 0 .. Cur /\ seen \in 0 .. Cur /\ Cur \in Nat /\ status.observed \in Nat
      /\ flags \subseteq Flags /\ ran \subseteq ran'
  BY CurNat, HistoryStep DEF Typed, TypeInv, TypeOK, PassType, CacheType, ApiType, HistoryGrows
<1>1. CASE status' = NoStatus
  BY <1>1 DEF StatusInv, NoStatus
<1>2. CASE UNCHANGED status /\ status.observed # 0
  <2>1. PICK r \in 1 .. Cur : r = status.observed
    BY <1>2, <1>t DEF Order
  <2>2. view = 0 \/ r <= view
    BY <2>1 DEF Order
  <2>3. status'.phase = "ReleaseFailed" => \E s \in Services : <<s, r, "failed">> \in ran'
    BY <1>2, <2>1, <1>t DEF StatusInv
  <2>4. ASSUME status'.phase \in {"Running", "Progressing"}, NEW s \in Services,
               Runs(status.observed, s)'
        PROVE  Served(status.observed, s, {}, {})'
    <3>1. revs'[r] = revs[r]
      BY TypedStep, SameRev DEF Typed, TypeInv
    <3>2. Served(r, s, {}, {})
      BY <1>2, <2>1, <2>4, <3>1 DEF StatusInv, Served, Applied, Runs, Svc
    <3>3. PICK none : none = {}
      OBVIOUS
    <3>4. Served(r, s, none, none)
      BY <3>2, <3>3
    <3>5. /\ \A p \in Svc(r, s).procs : <<s, p>> \in none \ none => Applied(r, <<s, p>>)'
          /\ \A p \in Svc(r, s).ported :
                <<s, p>> \in (none \cup none) \ (none \cup none) => svcObj'[<<s, p>>] = 1
      OBVIOUS
    <3>6. /\ \A p \in Svc(r, s).procs : <<s, p>> \notin none => Applied(r, <<s, p>>)'
          /\ \A p \in Svc(r, s).ported : <<s, p>> \notin none \cup none => svcObj'[<<s, p>>] = 1
          /\ Hooked(r, s) => <<s, r, "complete">> \in ran'
      BY <2>2, <3>4, <3>5, ServedStep
    <3> QED BY <1>2, <2>1, <3>1, <3>3, <3>6
            DEF Served, Applied, Template, Svc, BoundTo, Listed, Hooked
  <2> QED BY <1>2, <2>1, <2>3, <2>4 DEF StatusInv
<1>3. CASE UpdateStatus /\ fresh
  <2>1. /\ view # 0 /\ todo = {} /\ pend = {} /\ expose = {} /\ status' = NewStatus
        /\ UNCHANGED <<revs, dep, svcObj, ran>>
    BY <1>3 DEF UpdateStatus, objVars, depVars, ghostVars
  <2>2. status'.observed = view /\ status'.phase = NewPhase
    BY <2>1, <1>t DEF NewStatus, GenIsRevision
  <2>3. status'.phase = "ReleaseFailed" => "releaseFailed" \in flags
    BY <2>2 DEF NewPhase
  <2>4. status'.phase \in {"Running", "Progressing"} => flags = {}
    BY <2>2, <1>t DEF NewPhase, Flags
  <2>5. status'.phase = "ReleaseFailed" => \E s \in Services : <<s, view, "failed">> \in ran
    BY <2>3 DEF PassTrue
  <2>6. ASSUME status'.phase \in {"Running", "Progressing"}, NEW s \in Services,
               Runs(status.observed, s)'
        PROVE  Served(status.observed, s, {}, {})'
    <3>1. Runs(view, s)
      BY <2>1, <2>2, <2>6 DEF Runs, Svc
    <3>2. Served(view, s, pend, expose)
      BY <2>1, <2>4, <2>6, <3>1 DEF PassTrue
    <3> QED BY <2>1, <2>2, <3>2 DEF Served, Applied, Template, Svc, BoundTo, Listed, Hooked
  <2> QED BY <2>1, <2>2, <2>5, <2>6 DEF StatusInv
<1>4. CASE UNCHANGED status /\ status.observed = 0
  BY <1>4 DEF StatusInv
<1> QED BY <1>1, <1>2, <1>3, <1>4, StatusFrame

LEMMA StatusInvTrue ==
    ASSUME MaxDeletes = 0, Typed, GenIsRevision, Order, StatusInv PROVE StatusTrue
<1> SUFFICES ASSUME Observed # 0 PROVE StatusTrue
  BY DEF StatusTrue
<1>1. live # 0 /\ status.observed # 0
  BY DEF Observed
<1>2. status.observed \in 1 .. Cur /\ Cur # 0
  BY <1>1, CurNat DEF Order, Typed, TypeInv, TypeOK, CacheType, ApiType
<1>3. live = 1 /\ \A r \in 1 .. Cur : revs[r].uid = 1 /\ revs[r].gen = r
  BY <1>2, Alone DEF Uid, GenIsRevision
<1>4. Observed = status.observed
  BY <1>1, <1>2, <1>3 DEF Observed
<1> QED BY <1>1, <1>3, <1>4 DEF StatusTrue, StatusInv, Served, Applied, RolledOut

\* As long as the Stack is not deleted, a phase that is reported is true of the
\* generation it names, whatever edits, faults and stale caches there were
\* while it was computed or came after it was written.
THEOREM StatusIsTrue == ASSUME MaxDeletes = 0 PROVE Spec => []StatusTrue
<1> DEFINE Inv == /\ Typed /\ GenIsRevision /\ GateInv /\ FailuresTold
                  /\ PassTrue /\ Order /\ StatusInv
<1>1. Init => Inv
  <2> SUFFICES ASSUME Init PROVE Inv
    OBVIOUS
  <2>1. GenIsRevision /\ FailuresTold /\ PassTrue /\ Order /\ StatusInv
    BY DEF Init, GenIsRevision, Cur, FailuresTold, PassTrue, Order, StatusInv, NoStatus
  <2> QED BY <2>1, TypedInit, GateInit
<1>2. Inv /\ [Next]_vars => Inv'
  <2> SUFFICES ASSUME Inv, [Next]_vars PROVE Inv'
    OBVIOUS
  <2>1. Typed' /\ GenIsRevision' /\ GateInv'
    BY TypedStep, GenStep, GateStep
  <2>2. FailuresTold' /\ PassTrue'
    BY FailuresToldStep, PassTrueStep DEF GateInv
  <2>3. Order' /\ StatusInv'
    BY OrderStep, StatusInvStep
  <2> QED BY <2>1, <2>2, <2>3
<1>3. Inv => StatusTrue
  BY StatusInvTrue
<1> QED BY <1>1, <1>2, <1>3, PTL DEF Spec

-----------------------------------------------------------------------------
(* The release that StackRelease promises                                  *)

\* What is about to be applied, was made, or is being waited for, is listed by
\* the revision it is made from.
PendListed == \A k \in pend : Runs(view, k[1]) /\ k[2] \in Svc(view, k[1]).procs

JobsListed ==
    \A k \in JobKey :
        jobRev[k] # 0 => Runs(jobRev[k], k[1]) /\ Hooked(jobRev[k], k[1])

BackingListed ==
    /\ view # 0 => todoB \subseteq Listed(view)
    /\ \A b \in Backings :
          prov[b] # 0 => \E r \in 1 .. Cur : Uid(r) = prov[b] /\ b \in Listed(r)

\* No pass, and no cached Stack, is older than a Deployment; a Stack that the
\* cache has not got (any more) will be the latest when it comes.
Forward ==
    /\ seen # 0 => \A k \in Owned : dep[k] <= seen
    /\ view # 0 => (\A k \in Owned : dep[k] <= view) /\ (seen = 0 \/ view <= seen)

AsListed == PendListed /\ JobsListed /\ BackingListed /\ Forward

LEMMA AsListedInit == Init => AsListed
<1> SUFFICES ASSUME Init PROVE AsListed
  OBVIOUS
<1> QED BY DEF Init, AsListed, PendListed, JobsListed, BackingListed, Forward

\* What a revision lists does not change.
LEMMA SameSpec ==
    ASSUME ApiInv, Grows, NEW r \in 1 .. Cur
    PROVE  /\ r \in 1 .. Cur' /\ revs'[r] = revs[r] /\ Uid(r)' = Uid(r) /\ Listed(r)' = Listed(r)
           /\ \A s \in Services : /\ Svc(r, s)' = Svc(r, s) /\ Runs(r, s)' = Runs(r, s)
                                  /\ Hooked(r, s)' = Hooked(r, s)
<1>1. r \in 1 .. Cur' /\ revs'[r] = revs[r]
  BY CurNat DEF Grows, ApiInv, ApiType, Cur
<1> QED BY <1>1 DEF Uid, Listed, Svc, Runs, Hooked

LEMMA PendListedStep == Typed /\ PendListed /\ [Next]_vars => PendListed'
<1> SUFFICES ASSUME Typed, PendListed, [Next]_vars, NEW k \in pend'
             PROVE  (Runs(view, k[1]) /\ k[2] \in Svc(view, k[1]).procs)'
  BY DEF PendListed
<1>g. Grows /\ ApiInv /\ PassType
  BY TypedStep DEF Typed, TypeInv, TypeOK
<1>1. CASE k \in pend /\ view' = view
  <2>1. view \in 1 .. Cur /\ k[1] \in Services
    BY <1>1, <1>g DEF PassType, Owned, ApiInv, ApiType, Cur
  <2>2. Runs(view, k[1])' = Runs(view, k[1]) /\ Svc(view, k[1])' = Svc(view, k[1])
    BY <1>1, <1>g, <2>1, SameSpec DEF Runs, Svc
  <2> QED BY <1>1, <2>2 DEF PendListed
<1>2. ASSUME NEW s \in Services, RollService(s)
      PROVE  (Runs(view, k[1]) /\ k[2] \in Svc(view, k[1]).procs)'
  <2>1. /\ UNCHANGED <<revs, view>> /\ Runs(view, s)
        /\ k[1] = s /\ k[2] \in Svc(view, s).procs
    BY <1>2 DEF RollService, apiVars
  <2> QED BY <2>1 DEF Runs, Svc
<1> QED BY <1>1, <1>2, PassStep

LEMMA JobsListedStep == Typed /\ JobsListed /\ [Next]_vars => JobsListed'
<1> SUFFICES ASSUME Typed, JobsListed, [Next]_vars, NEW k \in JobKey, jobRev'[k] # 0
             PROVE  (Runs(jobRev[k], k[1]) /\ Hooked(jobRev[k], k[1]))'
  BY DEF JobsListed
<1>g. Grows /\ ApiInv /\ PassType /\ ObjType
  BY TypedStep DEF Typed, TypeInv, TypeOK
<1>1. CASE jobRev'[k] = jobRev[k]
  <2>1. jobRev[k] \in 1 .. Cur /\ k[1] \in Services
    BY <1>1, <1>g DEF ObjType, JobKey, ApiInv, ApiType, Cur
  <2>2. Runs(jobRev[k], k[1]) /\ Hooked(jobRev[k], k[1])
    BY <2>1 DEF JobsListed
  <2> QED BY <1>1, <1>g, <2>1, <2>2, SameSpec DEF Runs, Hooked, Svc
<1>2. ASSUME NEW s \in Services, CreateReleaseJob(s), k = JobOf(s), jobRev'[k] = view
      PROVE  (Runs(jobRev[k], k[1]) /\ Hooked(jobRev[k], k[1]))'
  <2>1. UNCHANGED revs /\ Runs(view, s) /\ Hooked(view, s) /\ k[1] = s
    BY <1>2 DEF CreateReleaseJob, JobOf, apiVars
  <2> QED BY <1>2, <2>1 DEF Runs, Hooked, Svc
<1> QED BY <1>1, <1>2, JobStep

\* What a step does to a backing service, and to those a pass has not come to.
LEMMA ProvStep ==
    ASSUME Typed, [Next]_vars, NEW b \in Backings
    PROVE  \/ prov'[b] = prov[b] \/ prov'[b] = 0
           \/ b \in todoB /\ prov'[b] = Uid(view) /\ UNCHANGED revs
<1> USE DEF Typed, TypeInv, TypeOK, ObjType
<1>1. CASE UNCHANGED prov
  BY <1>1
<1>2. ASSUME NEW c \in Backings, ReconcileBacking(c)
      PROVE  prov'[b] = prov[b] \/ (b \in todoB /\ prov'[b] = Uid(view) /\ UNCHANGED revs)
  BY <1>2 DEF ReconcileBacking, apiVars
<1>3. ASSUME NEW c \in Backings, CollectBacking(c) PROVE prov'[b] = prov[b] \/ prov'[b] = 0
  BY <1>3 DEF CollectBacking
<1>4. CASE User \/ StackInformer \/ JobInformer \/ DepInformer \/ CallFails \/ Restart
  BY <1>1, <1>4 DEF User, Create, Edit, Delete, StackWritten, StackInformer, JobInformer,
     DepInformer, DeliverStack, DeliverJob, DeliverDep, CallFails, Restart, objVars, backVars
<1>5. CASE Worker
  BY <1>1, <1>2, <1>5 DEF Worker, StartReconcile, SkipService, CreateReleaseJob, RollService,
     ApplyProcess, ExposeProcess, UpdateStatus, objVars, backVars
<1>6. CASE Cluster \/ Outage \/ Collector
  BY <1>1, <1>3, <1>6 DEF Cluster, Outage, Collector, JobFinishes, DeploymentReady, BackingUp,
     DeploymentDown, BackingDown, CollectJob, CollectDep, CollectService, backVars
<1>7. CASE UNCHANGED vars
  BY <1>1, <1>7 DEF vars, objVars, backVars
<1> QED BY <1>4, <1>5, <1>6, <1>7 DEF Next

LEMMA TodoStep ==
    ASSUME Typed, [Next]_vars
    PROVE  \/ todoB' \subseteq todoB /\ view' \in {0, view}
           \/ StartReconcile
<1>1. CASE User \/ StackInformer \/ JobInformer \/ DepInformer
  BY <1>1 DEF User, Create, Edit, Delete, StackWritten, StackInformer, JobInformer, DepInformer,
     DeliverStack, DeliverJob, DeliverDep, passVars
<1>2. CASE CallFails \/ Restart
  BY <1>2 DEF CallFails, Restart, Retry, Idle
<1>3. CASE Cluster \/ Outage \/ Collector
  BY <1>3 DEF Cluster, Outage, Collector, JobFinishes, DeploymentReady, BackingUp, DeploymentDown,
     BackingDown, CollectJob, CollectDep, CollectService, CollectBacking, passVars
<1>4. CASE UpdateStatus
  BY <1>4 DEF UpdateStatus, Retry, Idle
<1>5. CASE \E b \in Backings : ReconcileBacking(b)
  BY <1>5 DEF ReconcileBacking, Retry, Idle
<1>6. CASE \E s \in Services : SkipService(s) \/ CreateReleaseJob(s) \/ RollService(s)
  BY <1>6 DEF SkipService, CreateReleaseJob, RollService, Handled, Retry, Idle
<1>7. CASE \E k \in Owned : ApplyProcess(k) \/ ExposeProcess(k)
  BY <1>7 DEF ApplyProcess, ExposeProcess, Retry, Idle
<1>8. CASE UNCHANGED vars
  BY <1>8 DEF vars, passVars
<1> QED BY <1>1, <1>2, <1>3, <1>4, <1>5, <1>6, <1>7, <1>8 DEF Next, Worker

LEMMA BackingListedStep == Typed /\ BackingListed /\ [Next]_vars => BackingListed'
<1> SUFFICES ASSUME Typed, BackingListed, [Next]_vars PROVE BackingListed'
  OBVIOUS
<1>g. Grows /\ ApiInv /\ PassType /\ CacheType
  BY TypedStep DEF Typed, TypeInv, TypeOK
<1>1. ASSUME view' # 0 PROVE (todoB \subseteq Listed(view))'
  <2>1. CASE todoB' \subseteq todoB /\ view' \in {0, view}
    <3>1. view \in 1 .. Cur /\ view' = view
      BY <1>1, <2>1, <1>g DEF PassType, ApiInv, ApiType, Cur
    <3>2. Listed(view)' = Listed(view)
      BY <3>1, <1>g, SameSpec DEF Listed
    <3> QED BY <2>1, <3>1, <3>2 DEF BackingListed
  <2>2. CASE StartReconcile
    <3>1. UNCHANGED revs /\ (view = 0 => todoB = {}) /\ view = 0
          /\ (UNCHANGED <<view, todoB>> \/ todoB' = Listed(view'))
      BY <2>2, <1>g DEF StartReconcile, apiVars, passVars, PassType
    <3> QED BY <1>1, <3>1 DEF Listed
  <2> QED BY <2>1, <2>2, TodoStep
<1>2. ASSUME NEW b \in Backings, prov'[b] # 0
      PROVE  \E r \in 1 .. Cur' : Uid(r)' = prov'[b] /\ b \in Listed(r)'
  <2>1. CASE prov'[b] = prov[b]
    <3>1. PICK r \in 1 .. Cur : Uid(r) = prov[b] /\ b \in Listed(r)
      BY <1>2, <2>1 DEF BackingListed
    <3>2. r \in 1 .. Cur' /\ Uid(r)' = Uid(r) /\ Listed(r)' = Listed(r)
      BY <1>g, SameSpec
    <3> QED BY <2>1, <3>1, <3>2
  <2>2. CASE b \in todoB /\ prov'[b] = Uid(view) /\ UNCHANGED revs
    <3>1. view \in 1 .. Cur /\ b \in Listed(view)
      BY <2>2, <1>g DEF PassType, BackingListed, ApiInv, ApiType, Cur
    <3> QED BY <2>2, <3>1 DEF Uid, Listed, Cur
  <2> QED BY <1>2, <2>1, <2>2, ProvStep
<1> QED BY <1>1, <1>2 DEF BackingListed

LEMMA ForwardStep == Typed /\ Forward /\ [Next]_vars => Forward'
<1> SUFFICES ASSUME Typed, Forward, [Next]_vars PROVE Forward'
  OBVIOUS
<1>t. /\ view \in 0 .. Cur /\ seen \in 0 .. Cur /\ Cur \in Nat
      /\ \A k \in Owned : dep[k] \in 0 .. Cur
      /\ pend \subseteq Owned /\ (view = 0 => pend = {})
  BY CurNat DEF Typed, TypeInv, TypeOK, PassType, CacheType, ObjType
<1>s. seen' = seen \/ seen' = 0 \/ (seen' = Cur /\ UNCHANGED revs)
  BY StatusFrame DEF Refresh
<1>d. ASSUME NEW k \in Owned
      PROVE  dep'[k] = dep[k] \/ dep'[k] = 0 \/ (dep'[k] = view /\ view # 0 /\ seen' = seen)
  BY <1>t, DepStep DEF ApplyProcess, cacheVars
<1>v. view' \in {0, view} \/ (view = 0 /\ view' = seen /\ seen' = seen)
  BY TodoStep DEF StartReconcile, Got, passVars, cacheVars
<1>1. ASSUME seen' # 0, NEW k \in Owned PROVE dep'[k] <= seen'
  BY <1>1, <1>t, <1>s, <1>d DEF Forward
<1>2. ASSUME view' # 0, NEW k \in Owned PROVE dep'[k] <= view'
  BY <1>2, <1>t, <1>d, <1>v DEF Forward
<1>3. ASSUME view' # 0 PROVE seen' = 0 \/ view' <= seen'
  BY <1>3, <1>t, <1>s, <1>v DEF Forward
<1> QED BY <1>1, <1>2, <1>3 DEF Forward

LEMMA AsListedStep == Typed /\ AsListed /\ [Next]_vars => AsListed'
BY PendListedStep, JobsListedStep, BackingListedStep, ForwardStep DEF AsListed

\* Who writes the history, and when.
LEMMA HistoryFrame ==
    ASSUME Typed, [Next]_vars
    PROVE  \/ UNCHANGED <<ran, everUp>>
           \/ \E k \in JobKey, o \in {"complete", "failed"} : JobFinishes(k, o)
           \/ \E b \in Backings : BackingUp(b)
<1>1. CASE User \/ StackInformer \/ JobInformer \/ DepInformer \/ CallFails \/ Restart
  BY <1>1 DEF User, Create, Edit, Delete, StackWritten, StackInformer, JobInformer, DepInformer,
     DeliverStack, DeliverJob, DeliverDep, CallFails, Restart, ghostVars
<1>2. CASE Worker
  BY <1>2 DEF Worker, StartReconcile, ReconcileBacking, SkipService, CreateReleaseJob, RollService,
     ApplyProcess, ExposeProcess, UpdateStatus, ghostVars
<1>3. CASE Cluster \/ Outage \/ Collector
  BY <1>3 DEF Cluster, Outage, Collector, DeploymentReady, DeploymentDown, BackingDown, CollectJob,
     CollectDep, CollectService, CollectBacking, ghostVars
<1>4. CASE UNCHANGED vars
  BY <1>4 DEF vars, ghostVars
<1> QED BY <1>1, <1>2, <1>3, <1>4 DEF Next

\* ... and the Deployments: one step, one process.
LEMMA DepFrame ==
    ASSUME Typed, [Next]_vars
    PROVE  \/ UNCHANGED dep
           \/ \E k \in Owned : ApplyProcess(k) /\ dep' = [dep EXCEPT ![k] = view]
           \/ \E k \in Owned : CollectDep(k)
<1>1. CASE User \/ StackInformer \/ JobInformer \/ DepInformer \/ CallFails \/ Restart
  BY <1>1 DEF User, Create, Edit, Delete, StackWritten, StackInformer, JobInformer,
     DepInformer, DeliverStack, DeliverJob, DeliverDep, CallFails, Restart, objVars, depVars
<1>2. ASSUME NEW k \in Owned, ApplyProcess(k)
      PROVE  UNCHANGED dep \/ (ApplyProcess(k) /\ dep' = [dep EXCEPT ![k] = view])
  BY <1>2 DEF ApplyProcess
<1>3. CASE Worker
  BY <1>2, <1>3 DEF Worker, StartReconcile, ReconcileBacking, SkipService, CreateReleaseJob,
     RollService, ExposeProcess, UpdateStatus, objVars, depVars
<1>4. CASE Cluster \/ Outage \/ Collector
  BY <1>4 DEF Cluster, Outage, Collector, JobFinishes, DeploymentReady, BackingUp,
     DeploymentDown, BackingDown, CollectJob, CollectService, CollectBacking, depVars
<1>5. CASE UNCHANGED vars
  BY <1>5 DEF vars, objVars, depVars
<1> QED BY <1>1, <1>3, <1>4, <1>5 DEF Next

LEMMA UserReleases == ASSUME Typed, User PROVE Release!Next
<1>s. UNCHANGED <<dep, ran, everUp>>
  BY DEF User, Create, Edit, Delete, StackWritten, objVars, depVars, ghostVars
<1>1. CASE Delete
  <2>1. Release!Delete
    BY <1>1, <1>s DEF Delete, Release!Delete
  <2> QED BY <2>1 DEF Release!Next
<1>2. ASSUME NEW spec \in Specs, Create(spec) PROVE Release!Next
  <2>1. revs = <<>> <=> Cur = 0
    BY DEF Typed, TypeInv, ApiInv, ApiType, Cur
  <2>2. Release!Create(spec)
    BY <1>2, <1>s, <2>1 DEF Create, Release!Create, Cur, Uid
  <2> QED BY <2>2 DEF Release!Next
<1>3. ASSUME NEW spec \in Specs, Edit(spec) PROVE Release!Next
  <2>1. Release!Edit(spec)
    BY <1>3, <1>s DEF Edit, Release!Edit, Cur
  <2> QED BY <2>1 DEF Release!Next
<1> QED BY <1>1, <1>2, <1>3 DEF User

\* What the gates of StackRelease say is what the invariants of the gates say.
LEMMA SameGates ==
    ASSUME NEW r, NEW s
    PROVE  /\ Release!Of(r, s) = Svc(r, s)
           /\ Release!Backed(r, s) <=> Backed(r, s)
           /\ Release!Migrated(r, s) <=> (Hooked(r, s) => Completed(s, revs[r].gen))
BY DEF Release!Of, Release!Backed, Release!Migrated, Svc, Backed, BoundTo, Listed, Uid, Hooked,
       Completed, Cur

LEMMA HookReleases ==
    ASSUME Typed, BackInv, AsListed, NEW k \in JobKey, NEW o \in {"complete", "failed"},
           JobFinishes(k, o), UNCHANGED dep
    PROVE  Release!Next
<1>1. jobRev[k] \in 1 .. Len(revs) /\ k[1] \in Services
  BY DEF JobFinishes, Typed, JobRevOK, TypeInv, TypeOK, ObjType, JobKey, ApiInv, ApiType, Cur
<1>2. Runs(jobRev[k], k[1]) /\ Hooked(jobRev[k], k[1])
  BY <1>1 DEF AsListed, JobsListed
<1>3. Backed(jobRev[k], k[1])
  BY <1>1 DEF BackInv, BackingGate, Backed, Uid
<1>4. Release!HookEnds(k[1], jobRev[k], o)
  BY <1>2, <1>3, SameGates DEF Release!HookEnds, Runs, Hooked, JobFinishes, apiVars
<1> QED BY <1>1, <1>4 DEF Release!Next

LEMMA BackingReleases ==
    ASSUME Typed, AsListed, NEW b \in Backings, BackingUp(b), UNCHANGED dep
    PROVE  Release!Next
<1>1. PICK r \in 1 .. Cur : Uid(r) = prov[b] /\ b \in Listed(r)
  BY DEF AsListed, BackingListed, BackingUp
<1>2. Release!ComesUp(b, r)
  BY <1>1 DEF Release!ComesUp, BackingUp, Uid, Listed, apiVars
<1> QED BY <1>1, <1>2 DEF Release!Next, Cur

LEMMA ProcessReleases ==
    ASSUME Typed, GateInv, BackInv, AsListed, NEW k \in Owned, ApplyProcess(k),
           dep' = [dep EXCEPT ![k] = view]
    PROVE  Release!Next
<1>1. /\ k \in pend /\ UNCHANGED <<revs, live, ran, everUp>>
      /\ k[1] \in Services /\ k[2] \in Processes /\ k = <<k[1], k[2]>>
  BY DEF ApplyProcess, apiVars, ghostVars, Owned
<1>2. view # 0 /\ view \in 1 .. Len(revs)
  BY <1>1 DEF Typed, TypeInv, TypeOK, PassType, ApiInv, ApiType, Cur
<1>3. /\ Runs(view, k[1]) /\ k[2] \in Svc(view, k[1]).procs
      /\ dep[k] <= view
  BY <1>1, <1>2 DEF AsListed, PendListed, Forward
<1>4. Hooked(view, k[1]) => Completed(k[1], revs[view].gen)
  BY <1>1 DEF GateInv, PassGated
<1>5. Backed(view, k[1])
  BY <1>1, <1>2 DEF BackInv, Backed
<1>6. Release!Roll(k[1], k[2], view)
  BY <1>1, <1>3, <1>4, <1>5, SameGates DEF Release!Roll, Runs
<1> QED BY <1>1, <1>2, <1>6 DEF Release!Next

LEMMA StopReleases == ASSUME NEW k \in Owned, CollectDep(k), UNCHANGED <<ran, everUp>> PROVE Release!Next
<1>1. Release!Stop(k)
  BY DEF CollectDep, Orphan, Uid, Release!Stop, apiVars
<1> QED BY <1>1 DEF Release!Next, Owned

LEMMA ReleaseStep ==
    ASSUME Typed, GateInv, BackInv, AsListed, [Next]_vars
    PROVE  [Release!Next]_Release!vars
<1>a. CASE User
  BY <1>a, UserReleases
<1>b. ASSUME ~User PROVE [Release!Next]_Release!vars
  <2>u. UNCHANGED <<revs, live>>
    <3>1. CASE StackInformer \/ JobInformer \/ DepInformer \/ CallFails \/ Restart
      BY <3>1 DEF StackInformer, JobInformer, DepInformer, DeliverStack, DeliverJob, DeliverDep,
         CallFails, Restart, apiVars
    <3>2. CASE Worker
      BY <3>2 DEF Worker, StartReconcile, ReconcileBacking, SkipService, CreateReleaseJob,
         RollService, ApplyProcess, ExposeProcess, UpdateStatus, apiVars
    <3>3. CASE Cluster \/ Outage \/ Collector
      BY <3>3 DEF Cluster, Outage, Collector, JobFinishes, DeploymentReady, BackingUp, DeploymentDown,
         BackingDown, CollectJob, CollectDep, CollectService, CollectBacking, apiVars
    <3>4. CASE UNCHANGED vars
      BY <3>4 DEF vars, apiVars
    <3> QED BY <1>b, <3>1, <3>2, <3>3, <3>4 DEF Next
  <2>1. ASSUME NEW k \in JobKey, NEW o \in {"complete", "failed"}, JobFinishes(k, o)
        PROVE  Release!Next
    BY <2>1, HookReleases DEF JobFinishes, depVars
  <2>2. ASSUME NEW b \in Backings, BackingUp(b) PROVE Release!Next
    BY <2>2, BackingReleases DEF BackingUp, depVars
  <2>3. ASSUME NEW k \in Owned, ApplyProcess(k), dep' = [dep EXCEPT ![k] = view]
        PROVE  Release!Next
    BY <2>3, ProcessReleases
  <2>4. ASSUME NEW k \in Owned, CollectDep(k) PROVE Release!Next
    BY <2>4, StopReleases DEF CollectDep, ghostVars
  <2>5. CASE UNCHANGED <<dep, ran, everUp>>
    BY <2>u, <2>5 DEF Release!vars
  <2> QED BY <2>1, <2>2, <2>3, <2>4, <2>5, HistoryFrame, DepFrame
<1> QED BY <1>a, <1>b

\* The controller keeps the promise of a release: with Jobs, Deployments, caches
\* that lag, failing calls, crashes and deletions in between, a process moves
\* only to a newer spec than it runs and only through the gates of that spec,
\* hooks run only when what they connect to is up, and nothing is stopped but
\* what a Stack that is gone has left.
THEOREM ReleaseImplemented == Spec => ImplementsRelease
<1> DEFINE Inv == Typed /\ GateInv /\ BackInv /\ AsListed
<1>1. Init => Inv
  BY TypedInit, GateInit, BackInit, AsListedInit
<1>2. Inv /\ [Next]_vars => Inv'
  BY TypedStep, GateStep, BackStep, AsListedStep
<1>3. Init => Release!Init
  BY DEF Init, Release!Init, Owned
<1>4. Inv /\ [Next]_vars => [Release!Next]_Release!vars
  BY ReleaseStep
<1> QED BY <1>1, <1>2, <1>3, <1>4, PTL DEF Spec, ImplementsRelease, Release!Spec

=============================================================================
