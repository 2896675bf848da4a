--------------------------- MODULE StackWakeProofs ---------------------------
(***************************************************************************)
(* That no wake-up of the Stack controller is lost, for every value of the *)
(* constants, deletions and faults included.                               *)
(*                                                                         *)
(* The argument: every delivery to a cache queues the key, so while it is  *)
(* not queued the caches hold what the pass has read. What the pass ticks  *)
(* off is therefore either done, and stays done while the Stack is there,  *)
(* or waits for something that the caches do not hold yet, which is an     *)
(* event still to come, or for a backing service, and then the pass comes  *)
(* back by itself.                                                         *)
(***************************************************************************)
EXTENDS StackRolloutProofs

-----------------------------------------------------------------------------
(* What a pass over revision r has done, as far as the caches go.          *)

\* The gate of a service, and whether it is open, by the cache of Jobs.
SeenGate(r, s) == IF Hooked(r, s) THEN jobSeen[<<s, revs[r].gen>>] ELSE "complete"

\* Its release Job is there, but the cache has not heard of it.
Made(r, s) ==
    /\ SeenGate(r, s) = "none" /\ job[<<s, revs[r].gen>>] # "none"
    /\ Uid(jobRev[<<s, revs[r].gen>>]) = live

Failing(r) == {s \in Services : Runs(r, s) /\ SeenGate(r, s) = "failed"}
Pending(r) == {s \in Services : Runs(r, s) /\ (SeenGate(r, s) = "running" \/ Made(r, s))}

DepDone(r, k) == dep[k] # 0 /\ Uid(dep[k]) = live /\ Template(dep[k], k[1]) = Template(r, k[1])
SvcDone(r, k) == k[2] \in Svc(r, k[1]).ported => svcObj[k] = live

\* All but the processes in `left` and the Services of those in `exp`.
Through(r, s, left, exp) ==
    \A p \in Svc(r, s).procs :
        /\ <<s, p>> \notin left => DepDone(r, <<s, p>>)
        /\ <<s, p>> \notin left \cup exp => SvcDone(r, <<s, p>>)

\* What it means that a pass with such flags is through with service s.
Ticked(r, s, flg, left, exp) ==
    \/ ~Runs(r, s)
    \/ "backingPending" \in flg
    \/ s \in Failing(r) /\ "releaseFailed" \in flg
    \/ s \in Pending(r) /\ "releasePending" \in flg
    \/ SeenGate(r, s) = "complete" /\ Through(r, s, left, exp)

\* No version of the Stack is taken for a later one than it is.
FreshOK ==
    /\ seenFresh => seen = IF live = 0 THEN 0 ELSE Cur
    /\ fresh => view # 0 /\ live # 0 /\ seenFresh /\ view = Cur
    /\ \A j, k \in expose : j = k
    /\ view = 0 => flags = {}

PassMinded ==
    fresh /\ ~queued =>
        /\ \A b \in Listed(view) \ todoB : prov[b] = live
        /\ \A s \in Services \ todo : Ticked(view, s, flags, pend, expose)
        /\ "releaseFailed" \in flags => Failing(view) # {}
        /\ "releasePending" \in flags => Pending(view) # {}

\* What the last pass left behind.
Left(r) ==
    /\ status.observed = revs[r].gen
    /\ \A b \in Listed(r) : prov[b] = live
    /\ \A s \in Services :
          Runs(r, s) => \/ s \in Failing(r) \cup Pending(r)
                        \/ SeenGate(r, s) = "complete" /\ Through(r, s, {}, {})
    /\ IF Failing(r) # {} THEN status.phase = "ReleaseFailed"
       ELSE IF Pending(r) # {} THEN status.phase = "ReleaseHook"
       ELSE \/ status.phase = IF AllReady THEN "Running" ELSE "Progressing"
            \/ \E k \in Owned : depSeen[k] # 0 /\ dep[k] = 0

LeftMinded == live # 0 /\ view = 0 /\ ~queued /\ seenFresh => Left(Cur)

Awake == FreshOK /\ PassMinded /\ LeftMinded

-----------------------------------------------------------------------------
(* What a step changes.                                                    *)

\* Who clears the queue, and what stays as it is while the key is not queued.
LEMMA QueueFrame ==
    ASSUME Typed, [Next]_vars, ~queued'
    PROVE  \/ StartReconcile
           \/ User
           \/ ~queued /\ UNCHANGED <<revs, live, seen, jobSeen, depSeen>>
<1>1. CASE StackInformer \/ JobInformer \/ DepInformer \/ CallFails \/ Restart
  BY <1>1 DEF StackInformer, JobInformer, DepInformer, DeliverStack, DeliverJob, DeliverDep,
     CallFails, Restart, Retry
<1>2. CASE Cluster \/ Outage \/ Collector
  BY <1>2 DEF Cluster, Outage, Collector, JobFinishes, DeploymentReady, BackingUp, DeploymentDown,
     BackingDown, CollectJob, CollectDep, CollectService, CollectBacking, apiVars, cacheVars
<1>3. CASE Worker /\ ~StartReconcile
  <2>1. CASE UpdateStatus
    BY <2>1 DEF UpdateStatus, Retry, Requeue
  <2>2. CASE \E b \in Backings : ReconcileBacking(b)
    BY <2>2 DEF ReconcileBacking, Retry, apiVars, cacheVars
  <2>3. CASE \E s \in Services : SkipService(s) \/ CreateReleaseJob(s) \/ RollService(s)
    BY <2>3 DEF SkipService, CreateReleaseJob, RollService, Handled, Retry, apiVars, cacheVars
  <2>4. CASE \E k \in Owned : ApplyProcess(k) \/ ExposeProcess(k)
    BY <2>4 DEF ApplyProcess, ExposeProcess, Retry, apiVars, cacheVars
  <2> QED BY <1>3, <2>1, <2>2, <2>3, <2>4 DEF Worker
<1>4. CASE UNCHANGED vars
  BY <1>4 DEF vars, apiVars, cacheVars
<1> QED BY <1>1, <1>2, <1>3, <1>4 DEF Next, Worker

\* The Stack, as it is and as the cache has it, between the steps of the user.
LEMMA SeenFrame ==
    ASSUME Typed, [Next]_vars, ~User
    PROVE  /\ UNCHANGED <<revs, live>>
           /\ Refresh \/ (seen' = seen /\ seenFresh' = seenFresh) \/ (seen' = seen /\ UpdateStatus)
<1>1. CASE StackInformer \/ JobInformer \/ DepInformer
  BY <1>1 DEF StackInformer, JobInformer, DepInformer, DeliverStack, DeliverJob, DeliverDep, apiVars
<1>2. CASE CallFails \/ Restart
  BY <1>2 DEF CallFails, Restart, cacheVars, apiVars
<1>3. CASE Cluster \/ Outage \/ Collector
  BY <1>3 DEF Cluster, Outage, Collector, JobFinishes, DeploymentReady, BackingUp, DeploymentDown,
     BackingDown, CollectJob, CollectDep, CollectService, CollectBacking, apiVars, cacheVars
<1>4. CASE Worker
  BY <1>4 DEF Worker, StartReconcile, ReconcileBacking, SkipService, CreateReleaseJob, RollService,
     ApplyProcess, ExposeProcess, UpdateStatus, apiVars, cacheVars
<1>5. CASE UNCHANGED vars
  BY <1>5 DEF vars, apiVars, cacheVars
<1> QED BY <1>1, <1>2, <1>3, <1>4, <1>5 DEF Next

\* Whether the version a pass holds is still the latest.
LEMMA FreshFrame ==
    ASSUME Typed, [Next]_vars, ~User
    PROVE  \/ StartReconcile
           \/ Idle
           \/ fresh' = fresh /\ view' = view /\ ~UpdateStatus
<1>1. CASE StackInformer \/ JobInformer \/ DepInformer
  BY <1>1 DEF StackInformer, JobInformer, DepInformer, DeliverStack, DeliverJob, DeliverDep,
     passVars, UpdateStatus, Idle, Retry
<1>2. CASE CallFails \/ Restart
  BY <1>2 DEF CallFails, Restart, Retry
<1>3. CASE Cluster \/ Outage \/ Collector
  BY <1>3 DEF Cluster, Outage, Collector, JobFinishes, DeploymentReady, BackingUp, DeploymentDown,
     BackingDown, CollectJob, CollectDep, CollectService, CollectBacking, passVars, UpdateStatus,
     Idle, Retry
<1>4. CASE UpdateStatus
  BY <1>4 DEF UpdateStatus, Retry
<1>5. CASE \E b \in Backings : ReconcileBacking(b)
  BY <1>5 DEF ReconcileBacking, Retry, UpdateStatus, Idle
<1>6. CASE \E s \in Services : SkipService(s) \/ CreateReleaseJob(s) \/ RollService(s)
  BY <1>6 DEF SkipService, CreateReleaseJob, RollService, Handled, Retry, UpdateStatus, Idle
<1>7. CASE \E k \in Owned : ApplyProcess(k) \/ ExposeProcess(k)
  BY <1>7 DEF ApplyProcess, ExposeProcess, Retry, UpdateStatus, Idle
<1>8. CASE UNCHANGED vars
  BY <1>8 DEF vars, passVars, UpdateStatus, Idle, Retry
<1> QED BY <1>1, <1>2, <1>3, <1>4, <1>5, <1>6, <1>7, <1>8 DEF Next, Worker

LEMMA TodoFrame ==
    ASSUME Typed, [Next]_vars
    PROVE  \/ UNCHANGED todoB \/ Idle \/ StartReconcile \/ \E b \in Backings : ReconcileBacking(b)
<1>1. CASE User \/ StackInformer \/ JobInformer \/ DepInformer
  BY <1>1 DEF User, Create, Edit, Delete, StackWritten, StackInformer, JobInformer, DepInformer,
     DeliverStack, DeliverJob, DeliverDep, passVars
<1>2. CASE CallFails \/ Restart
  BY <1>2 DEF CallFails, Restart, Retry
<1>3. CASE Cluster \/ Outage \/ Collector
  BY <1>3 DEF Cluster, Outage, Collector, JobFinishes, DeploymentReady, BackingUp, DeploymentDown,
     BackingDown, CollectJob, CollectDep, CollectService, CollectBacking, passVars
<1>4. CASE UpdateStatus
  BY <1>4 DEF UpdateStatus, Retry
<1>5. CASE \E s \in Services : SkipService(s) \/ CreateReleaseJob(s) \/ RollService(s)
  BY <1>5 DEF SkipService, CreateReleaseJob, RollService, Handled, Retry
<1>6. CASE \E k \in Owned : ApplyProcess(k) \/ ExposeProcess(k)
  BY <1>6 DEF ApplyProcess, ExposeProcess, Retry
<1>7. CASE UNCHANGED vars
  BY <1>7 DEF vars, passVars
<1> QED BY <1>1, <1>2, <1>3, <1>4, <1>5, <1>6, <1>7 DEF Next, Worker

\* A Job that is there stays, unless it is collected.
LEMMA JobKept ==
    ASSUME Typed, [Next]_vars, NEW k \in JobKey, job[k] # "none"
    PROVE  (job'[k] # "none" /\ jobRev'[k] = jobRev[k]) \/ CollectJob(k)
<1> USE DEF Typed, TypeInv, TypeOK, ObjType
<1>1. CASE UNCHANGED <<job, jobRev>>
  BY <1>1
<1>2. ASSUME NEW s \in Services, CreateReleaseJob(s)
      PROVE  job'[k] # "none" /\ jobRev'[k] = jobRev[k]
  <2>1. \/ UNCHANGED <<job, jobRev>>
        \/ /\ job[JobOf(s)] = "none" /\ job' = [job EXCEPT ![JobOf(s)] = "running"]
           /\ jobRev' = [jobRev EXCEPT ![JobOf(s)] = view]
    BY <1>2 DEF CreateReleaseJob, jobVars
  <2> QED BY <2>1
<1>3. ASSUME NEW j \in JobKey, NEW o \in {"complete", "failed"}, JobFinishes(j, o)
      PROVE  job'[k] # "none" /\ jobRev'[k] = jobRev[k]
  BY <1>3 DEF JobFinishes
<1>4. ASSUME NEW j \in JobKey, CollectJob(j)
      PROVE  (job'[k] # "none" /\ jobRev'[k] = jobRev[k]) \/ CollectJob(k)
  BY <1>4 DEF CollectJob
<1>5. CASE User \/ StackInformer \/ JobInformer \/ DepInformer \/ CallFails \/ Restart
  BY <1>1, <1>5 DEF User, Create, Edit, Delete, StackWritten, StackInformer, JobInformer,
     DepInformer, DeliverStack, DeliverJob, DeliverDep, CallFails, Restart, objVars, jobVars
<1>6. CASE Worker
  BY <1>1, <1>2, <1>6 DEF Worker, StartReconcile, ReconcileBacking, SkipService, RollService,
     ApplyProcess, ExposeProcess, UpdateStatus, objVars, jobVars
<1>7. CASE Cluster \/ Outage \/ Collector
  BY <1>1, <1>3, <1>4, <1>7 DEF Cluster, Outage, Collector, DeploymentReady, BackingUp,
     DeploymentDown, BackingDown, CollectDep, CollectService, CollectBacking, jobVars
<1>8. CASE UNCHANGED vars
  BY <1>1, <1>8 DEF vars, objVars, jobVars
<1> QED BY <1>5, <1>6, <1>7, <1>8 DEF Next

\* A backing service that the Stack owns stays.
LEMMA ProvKept ==
    ASSUME Typed, [Next]_vars, NEW b \in Backings, live # 0, prov[b] = live
    PROVE  prov'[b] = live
<1> USE DEF Typed, TypeInv, TypeOK, ObjType
<1>1. CASE UNCHANGED prov
  BY <1>1
<1>2. ASSUME NEW c \in Backings, ReconcileBacking(c) PROVE prov'[b] = live
  BY <1>2 DEF ReconcileBacking, OwnerOK
<1>3. ASSUME NEW c \in Backings, CollectBacking(c) PROVE prov'[b] = live
  BY <1>3 DEF CollectBacking, Orphan
<1>4. CASE User \/ StackInformer \/ JobInformer \/ DepInformer \/ CallFails \/ Restart
  BY <1>1, <1>4 DEF User, Create, Edit, Delete, StackWritten, StackInformer, JobInformer,
     DepInformer, DeliverStack, DeliverJob, DeliverDep, CallFails, Restart, objVars, backVars
<1>5. CASE Worker
  BY <1>1, <1>2, <1>5 DEF Worker, StartReconcile, SkipService, CreateReleaseJob, RollService,
     ApplyProcess, ExposeProcess, UpdateStatus, objVars, backVars
<1>6. CASE Cluster \/ Outage \/ Collector
  BY <1>1, <1>3, <1>6 DEF Cluster, Outage, Collector, JobFinishes, DeploymentReady, BackingUp,
     DeploymentDown, BackingDown, CollectJob, CollectDep, CollectService, backVars
<1>7. CASE UNCHANGED vars
  BY <1>1, <1>7 DEF vars, objVars, backVars
<1> QED BY <1>4, <1>5, <1>6, <1>7 DEF Next

-----------------------------------------------------------------------------
(* What is done stays done while the Stack is there.                       *)

\* A step within the life of one version of the Stack, which r is.
Within(r) == UNCHANGED <<revs, live>> /\ live # 0 /\ Uid(r) = live /\ view \in {0, r}

LEMMA DepDoneKept ==
    ASSUME Typed, [Next]_vars, NEW r \in 1 .. Cur, Within(r), NEW k \in Owned, DepDone(r, k)
    PROVE  DepDone(r, k)'
<1>1. CASE dep'[k] = dep[k]
  BY <1>1 DEF DepDone, Template, Svc, BoundTo, Listed, Uid, Within
<1>2. CASE CollectDep(k)
  BY <1>2 DEF CollectDep, Orphan, DepDone, Within
<1>3. CASE ApplyProcess(k) /\ dep'[k] = view
  <2>1. view # 0
    BY <1>3 DEF ApplyProcess, Typed, TypeInv, TypeOK, PassType
  <2>2. dep'[k] = r /\ r # 0
    BY <1>3, <2>1 DEF Within
  <2> QED BY <2>2 DEF DepDone, Template, Svc, BoundTo, Listed, Uid, Within
<1> QED BY <1>1, <1>2, <1>3, DepStep

LEMMA SvcDoneKept ==
    ASSUME Typed, [Next]_vars, NEW r \in 1 .. Cur, Within(r), NEW k \in Owned, SvcDone(r, k)
    PROVE  SvcDone(r, k)'
<1>1. svcObj[k] = live => svcObj'[k] = live
  <2>1. CASE CollectService(k)
    BY <2>1 DEF CollectService, Orphan, Within
  <2>2. CASE ExposeProcess(k) /\ svcObj'[k] = Uid(view)
    <3>1. view # 0
      BY <2>2 DEF ExposeProcess, Typed, TypeInv, TypeOK, PassType
    <3> QED BY <2>2, <3>1 DEF Within
  <2> QED BY <2>1, <2>2, SvcStep
<1> QED BY <1>1 DEF SvcDone, Svc, Within

LEMMA MadeKept ==
    ASSUME Typed, [Next]_vars, NEW r \in 1 .. Cur, Within(r), jobSeen' = jobSeen,
           NEW s \in Services, Made(r, s)
    PROVE  Made(r, s)'
<1>1. Hooked(r, s)
  BY DEF Made, SeenGate
<1>2. revs[r].gen \in Gens /\ <<s, revs[r].gen>> \in JobKey
  <2>1. revs[r] \in Revision
    BY DEF Typed, TypeInv, ApiInv, ApiType, Cur
  <2> QED BY <2>1 DEF Revision, JobKey
<1>3. PICK k \in JobKey : k = <<s, revs[r].gen>>
  BY <1>2
<1>4. job[k] # "none" /\ Uid(jobRev[k]) = live
  BY <1>3 DEF Made
<1>5. ~CollectJob(k)
  BY <1>4 DEF CollectJob, Orphan, Within
<1>6. job'[k] # "none" /\ jobRev'[k] = jobRev[k]
  BY <1>4, <1>5, JobKept
<1> QED BY <1>3, <1>4, <1>6 DEF Made, SeenGate, Hooked, Svc, Uid, Within

\* The gates stay as the caches have them, and so does what is through.
LEMMA GatesKept ==
    ASSUME Typed, [Next]_vars, NEW r \in 1 .. Cur, Within(r), jobSeen' = jobSeen
    PROVE  /\ \A s \in Services : Runs(r, s)' = Runs(r, s) /\ SeenGate(r, s)' = SeenGate(r, s)
           /\ Failing(r)' = Failing(r) /\ Pending(r) \subseteq Pending(r)'
<1>1. \A s \in Services : Runs(r, s)' = Runs(r, s) /\ SeenGate(r, s)' = SeenGate(r, s)
  BY DEF Runs, SeenGate, Hooked, Svc, Within
<1>2. \A s \in Services : Made(r, s) => Made(r, s)'
  BY MadeKept
<1> QED BY <1>1, <1>2 DEF Failing, Pending

LEMMA ThroughKept ==
    ASSUME Typed, [Next]_vars, NEW r \in 1 .. Cur, Within(r), NEW s \in Services,
           NEW left, NEW exp, NEW left2, NEW exp2, Through(r, s, left, exp),
           \A p \in Svc(r, s).procs : <<s, p>> \in left \ left2 => DepDone(r, <<s, p>>)',
           \A p \in Svc(r, s).procs :
              <<s, p>> \in (left \cup exp) \ (left2 \cup exp2) => SvcDone(r, <<s, p>>)'
    PROVE  Through(r, s, left2, exp2)'
<1>1. Svc(r, s)' = Svc(r, s)
  BY DEF Svc, Within
<1>2. \A p \in Svc(r, s).procs : <<s, p>> \in Owned
  <2>1. revs[r] \in Revision
    BY DEF Typed, TypeInv, ApiInv, ApiType, Cur
  <2>2. Svc(r, s) \in ServiceSpec
    BY <2>1 DEF Revision, StackSpec, Svc
  <2> QED BY <2>2 DEF ServiceSpec, Owned
<1>3. ASSUME NEW p \in Svc(r, s).procs
      PROVE  /\ <<s, p>> \notin left2 => DepDone(r, <<s, p>>)'
             /\ <<s, p>> \notin left2 \cup exp2 => SvcDone(r, <<s, p>>)'
  <2>1. PICK k \in Owned : k = <<s, p>>
    BY <1>2
  <2>2. /\ k \notin left => DepDone(r, k)
        /\ k \notin left \cup exp => SvcDone(r, k)
        /\ k \in left \ left2 => DepDone(r, k)'
        /\ k \in (left \cup exp) \ (left2 \cup exp2) => SvcDone(r, k)'
    BY <2>1 DEF Through
  <2>3. (k \notin left2 => DepDone(r, k)') /\ (k \notin left2 \cup exp2 => SvcDone(r, k)')
    BY <2>2, DepDoneKept, SvcDoneKept
  <2> QED BY <2>1, <2>3
<1> QED BY <1>1, <1>3 DEF Through

LEMMA TickedKept ==
    ASSUME Typed, [Next]_vars, NEW r \in 1 .. Cur, Within(r), jobSeen' = jobSeen,
           NEW s \in Services, NEW left, NEW exp, NEW flg, NEW left2, NEW exp2, NEW flg2,
           Ticked(r, s, flg, left, exp), flg \subseteq flg2,
           \A p \in Svc(r, s).procs : <<s, p>> \in left \ left2 => DepDone(r, <<s, p>>)',
           \A p \in Svc(r, s).procs :
              <<s, p>> \in (left \cup exp) \ (left2 \cup exp2) => SvcDone(r, <<s, p>>)'
    PROVE  Ticked(r, s, flg2, left2, exp2)'
<1>1. CASE SeenGate(r, s) = "complete" /\ Through(r, s, left, exp)
  BY <1>1, GatesKept, ThroughKept DEF Ticked
<1>2. CASE ~(SeenGate(r, s) = "complete" /\ Through(r, s, left, exp))
  BY <1>2, GatesKept DEF Ticked
<1> QED BY <1>1, <1>2

-----------------------------------------------------------------------------
(* The invariant is inductive.                                             *)

LEMMA FreshStep ==
    ASSUME Typed, FreshOK, [Next]_vars PROVE FreshOK'
<1>t. /\ view \in 0 .. Cur /\ Cur \in Nat /\ (live # 0 => Cur # 0)
      /\ (view = 0 => expose = {} /\ todo = {} /\ pend = {})
  BY CurNat DEF Typed, TypeInv, TypeOK, PassType, ApiInv, RevsOK
<1>u. User => ~seenFresh' /\ ~fresh' /\ UNCHANGED <<view, flags, expose>>
  BY DEF User, Create, Edit, Delete, StackWritten
<1>1. seenFresh' => seen' = IF live' = 0 THEN 0 ELSE Cur'
  <2>1. CASE ~User
    <3>1. UNCHANGED <<revs, live>>
      BY <2>1, SeenFrame
    <3>2. CASE Refresh
      BY <3>1, <3>2 DEF Refresh, Cur
    <3>3. CASE seen' = seen /\ (seenFresh' = seenFresh \/ UpdateStatus)
      <4>1. seenFresh' => seenFresh
        BY <3>3 DEF UpdateStatus
      <4> QED BY <3>1, <3>3, <4>1 DEF FreshOK, Cur
    <3> QED BY <2>1, <3>2, <3>3, SeenFrame
  <2> QED BY <2>1, <1>u
<1>2. fresh' => view' # 0 /\ live' # 0 /\ seenFresh' /\ view' = Cur'
  <2> SUFFICES ASSUME fresh' PROVE view' # 0 /\ live' # 0 /\ seenFresh' /\ view' = Cur'
    OBVIOUS
  <2>1. ~User /\ UNCHANGED <<revs, live>>
    BY <1>u, SeenFrame
  <2>2. CASE StartReconcile
    <3>1. UNCHANGED <<seen, seenFresh>> /\ (UNCHANGED <<fresh, view>> \/ (seen # 0 /\ view' = seen /\ fresh' = seenFresh))
      BY <2>2 DEF StartReconcile, cacheVars, passVars, Got
    <3> QED BY <2>1, <3>1, <1>t DEF FreshOK, Cur
  <2>3. CASE fresh' = fresh /\ view' = view /\ ~UpdateStatus
    <3>1. seenFresh' = seenFresh \/ seenFresh'
      BY <2>1, <2>3, SeenFrame DEF Refresh
    <3> QED BY <2>1, <2>3, <3>1 DEF FreshOK, Cur
  <2>4. ~Idle
    BY DEF Idle
  <2> QED BY <2>1, <2>2, <2>3, <2>4, FreshFrame
<1>3. (\A j, k \in expose' : j = k) /\ (view' = 0 => flags' = {})
  <2>1. CASE UNCHANGED <<view, flags, todo, pend, expose>>
    BY <2>1 DEF FreshOK
  <2>2. CASE Idle
    BY <2>2 DEF Idle
  <2>3. CASE StartReconcile
    BY <2>3 DEF StartReconcile, FreshOK, passVars, Got
  <2>4. ASSUME NEW s \in Services, SkipService(s) \/ CreateReleaseJob(s) \/ RollService(s), ~Idle
        PROVE  UNCHANGED <<view, expose>> /\ view # 0
    BY <1>t, <2>4 DEF SkipService, CreateReleaseJob, RollService, Handled, Retry, NextIs
  <2>5. ASSUME NEW k \in Owned, ApplyProcess(k) \/ ExposeProcess(k), ~Idle
        PROVE  expose' \subseteq {k} /\ view' = view /\ view # 0
    BY <1>t, <2>5 DEF ApplyProcess, ExposeProcess, Retry
  <2> QED BY <2>1, <2>2, <2>3, <2>4, <2>5, PassFrame DEF FreshOK
<1> QED BY <1>1, <1>2, <1>3 DEF FreshOK

\* A backing service the pass has come to is the Stack's.
LEMMA ProvMinded ==
    ASSUME Typed, FreshOK, PassMinded, [Next]_vars, fresh, fresh', ~queued, ~StartReconcile,
           view' = view, UNCHANGED <<revs, live>>
    PROVE  \A b \in Listed(view)' \ todoB' : prov'[b] = live'
<1>1. PICK r \in 1 .. Cur : r = view
  BY ViewRev DEF Typed, FreshOK
<1>2. live # 0 /\ Uid(r) = live /\ Listed(view)' = Listed(r) /\ Listed(r) \subseteq Backings
  <2>1. revs[r] \in Revision
    BY DEF Typed, TypeInv, ApiInv, ApiType, Cur
  <2> QED BY <1>1, <2>1 DEF FreshOK, Typed, TypeInv, ApiInv, RevsOK, Listed, Revision, StackSpec
<1>3. ASSUME NEW b \in Listed(r), b \notin todoB' PROVE prov'[b] = live
  <2>1. CASE b \notin todoB
    <3>1. prov[b] = live
      BY <1>1, <1>3, <2>1 DEF PassMinded
    <3> QED BY <1>2, <3>1, ProvKept
  <2>2. CASE b \in todoB
    <3>1. PICK c \in Backings : ReconcileBacking(c)
      BY <1>3, <2>2, TodoFrame DEF Idle
    <3>2. todoB' = todoB \ {c} /\ prov' = [prov EXCEPT ![c] = Uid(view)]
      BY <3>1 DEF ReconcileBacking, Retry, Idle
    <3> QED BY <1>1, <1>2, <1>3, <2>2, <3>2 DEF Typed, TypeInv, TypeOK, ObjType
  <2> QED BY <2>1, <2>2
<1> QED BY <1>2, <1>3

\* A service that is held back, or whose release Job is made, is ticked off.
LEMMA HeldMinded ==
    ASSUME Typed, [Next]_vars, NEW r \in 1 .. Cur, r = view, Within(r), jobSeen' = jobSeen,
           NEW s \in Services, SkipService(s) \/ CreateReleaseJob(s), ~Idle
    PROVE  /\ UNCHANGED <<pend, expose>> /\ todo' = todo \ {s} /\ flags \subseteq flags'
           /\ \A flg, left, exp : flg = flags' => Ticked(r, s, flg, left, exp)'
           /\ "releaseFailed" \in flags' => "releaseFailed" \in flags \/ s \in Failing(r)
           /\ "releasePending" \in flags' => "releasePending" \in flags \/ s \in Pending(r)'
<1>g. /\ Runs(r, s)' = Runs(r, s) /\ SeenGate(r, s)' = SeenGate(r, s)
      /\ Failing(r)' = Failing(r) /\ Pending(r) \subseteq Pending(r)'
  BY GatesKept
<1>1. JobOf(s) = <<s, revs[r].gen>> /\ JobOf(s) \in JobKey
  <2>1. view # 0
    OBVIOUS
  <2> QED BY <2>1, ViewRev DEF JobOf, Typed
<1>2. CASE SkipService(s)
  <2>1. CASE ~Runs(view, s) /\ Handled(s, {})
    BY <1>g, <2>1 DEF Handled, Ticked
  <2>2. CASE Handled(s, {"backingPending"})
    BY <1>g, <2>2 DEF Handled, Ticked
  <2>3. CASE /\ Runs(view, s) /\ Hooked(view, s)
             /\ jobSeen[JobOf(s)] = "running" /\ Handled(s, {"releasePending"})
    <3>1. s \in Pending(r)
      BY <1>1, <2>3 DEF Pending, SeenGate
    <3> QED BY <1>g, <2>3, <3>1 DEF Handled, Ticked
  <2>4. CASE /\ Runs(view, s) /\ Hooked(view, s)
             /\ jobSeen[JobOf(s)] = "failed" /\ Handled(s, {"releaseFailed"})
    <3>1. s \in Failing(r)
      BY <1>1, <2>4 DEF Failing, SeenGate
    <3> QED BY <1>g, <2>4, <3>1 DEF Handled, Ticked
  <2> QED BY <1>2, <2>1, <2>2, <2>3, <2>4 DEF SkipService
<1>3. CASE CreateReleaseJob(s)
  <2>1. /\ job' = [job EXCEPT ![JobOf(s)] = "running"]
        /\ jobRev' = [jobRev EXCEPT ![JobOf(s)] = view]
        /\ Handled(s, {"releasePending"}) /\ Runs(view, s) /\ Hooked(view, s)
        /\ jobSeen[JobOf(s)] = "none"
    BY <1>3 DEF CreateReleaseJob, Retry
  <2>2. job'[JobOf(s)] = "running" /\ jobRev'[JobOf(s)] = r
    BY <1>1, <2>1 DEF Typed, TypeInv, TypeOK, ObjType
  <2>3. Made(r, s)'
    BY <1>1, <1>g, <2>1, <2>2 DEF Made, SeenGate, Uid, Within
  <2>4. s \in Pending(r)'
    BY <1>g, <2>1, <2>3 DEF Pending
  <2> QED BY <1>g, <2>1, <2>4 DEF Handled, Ticked
<1> QED BY <1>2, <1>3

\* So is one that is handed on to its processes, which are all still to do.
LEMMA RolledMinded ==
    ASSUME Typed, [Next]_vars, NEW r \in 1 .. Cur, r = view, Within(r), jobSeen' = jobSeen,
           NEW s \in Services, RollService(s)
    PROVE  /\ pend = {} /\ expose = {} /\ UNCHANGED <<expose, flags>> /\ todo' = todo \ {s}
           /\ \A flg, left, exp : left = pend' => Ticked(r, s, flg, left, exp)'
<1>g. SeenGate(r, s)' = SeenGate(r, s)
  BY GatesKept
<1>1. JobOf(s) = <<s, revs[r].gen>>
  BY DEF JobOf
<1>2. /\ pend = {} /\ expose = {} /\ UNCHANGED <<expose, flags>> /\ todo' = todo \ {s}
      /\ pend' = {s} \X Svc(view, s).procs /\ SeenGate(r, s) = "complete"
  BY <1>1 DEF RollService, NextIs, HookOpen, SeenGate
<1>3. \A left, exp : left = pend' => Through(r, s, left, exp)'
  BY <1>2 DEF Through, Svc, Within
<1> QED BY <1>g, <1>2, <1>3 DEF Ticked

LEMMA ApplyMinded ==
    ASSUME Typed, [Next]_vars, NEW r \in 1 .. Cur, r = view, Within(r),
           NEW k \in Owned, ApplyProcess(k), ~Idle
    PROVE  /\ UNCHANGED <<flags, todo>> /\ pend' = pend \ {k} /\ expose = {}
           /\ DepDone(r, k)' /\ (k \notin expose' => SvcDone(r, k)')
<1>1. /\ UNCHANGED <<flags, todo>> /\ pend' = pend \ {k} /\ expose = {}
      /\ expose' = {k} \cap ({k[1]} \X Svc(view, k[1]).ported)
      /\ \/ dep' = [dep EXCEPT ![k] = view]
         \/ /\ dep' = dep /\ dep[k] # 0 /\ OwnerOK(Uid(dep[k]))
            /\ Template(dep[k], k[1]) = Template(view, k[1])
  BY DEF ApplyProcess, Retry
<1>2. DepDone(r, k)'
  <2>1. CASE dep' = [dep EXCEPT ![k] = view]
    <3>1. dep'[k] = r /\ r # 0
      BY <2>1 DEF Typed, TypeInv, TypeOK, ObjType
    <3> QED BY <3>1 DEF DepDone, Template, Svc, BoundTo, Listed, Uid, Within
  <2>2. CASE /\ dep' = dep /\ dep[k] # 0 /\ OwnerOK(Uid(dep[k]))
             /\ Template(dep[k], k[1]) = Template(view, k[1])
    <3>1. DepDone(r, k)
      BY <2>2 DEF DepDone, OwnerOK, Within
    <3> QED BY <2>2, <3>1 DEF DepDone, Template, Svc, BoundTo, Listed, Uid, Within
  <2> QED BY <1>1, <2>1, <2>2
<1>3. k = <<k[1], k[2]>>
  BY DEF Owned
<1>4. k \notin expose' => SvcDone(r, k)'
  BY <1>1, <1>3 DEF SvcDone, Svc, Within
<1> QED BY <1>1, <1>2, <1>4

LEMMA ExposeMinded ==
    ASSUME Typed, FreshOK, [Next]_vars, NEW r \in 1 .. Cur, r = view, Within(r),
           NEW k \in Owned, ExposeProcess(k), ~Idle
    PROVE  UNCHANGED <<flags, todo, pend>> /\ expose = {k} /\ expose' = {} /\ SvcDone(r, k)'
<1>1. /\ UNCHANGED <<flags, todo, pend>> /\ k \in expose /\ expose' = {}
      /\ svcObj' = [svcObj EXCEPT ![k] = Uid(view)]
  BY DEF ExposeProcess, Retry
<1>2. svcObj'[k] = live'
  BY <1>1 DEF Typed, TypeInv, TypeOK, ObjType, Within
<1> QED BY <1>1, <1>2 DEF FreshOK, SvcDone

LEMMA PassMindedStep ==
    ASSUME Typed, FreshOK, FreshOK', PassMinded, [Next]_vars PROVE PassMinded'
<1> SUFFICES ASSUME fresh', ~queued'
             PROVE  /\ \A b \in Listed(view)' \ todoB' : prov'[b] = live'
                    /\ \A s \in Services \ todo' : Ticked(view, s, flags, pend, expose)'
                    /\ "releaseFailed" \in flags' => Failing(view)' # {}
                    /\ "releasePending" \in flags' => Pending(view)' # {}
  BY DEF PassMinded
<1>1. ~User
  BY DEF User, Create, Edit, Delete, StackWritten
<1>2. CASE StartReconcile
  <2>1. view' # 0 /\ view = 0 /\ flags = {}
    BY <1>2 DEF StartReconcile, FreshOK
  <2>2. /\ view' = Got /\ todoB' = Listed(Got) /\ todo' = Services /\ flags' = {}
        /\ UNCHANGED revs
    BY <1>2, <2>1 DEF StartReconcile, passVars, apiVars
  <2> QED BY <2>2 DEF Listed
<1>3. CASE ~StartReconcile
  <2>1. ~queued /\ UNCHANGED <<revs, live, jobSeen>> /\ fresh /\ view' = view
    <3>1. ~queued /\ UNCHANGED <<revs, live, jobSeen>>
      BY <1>1, <1>3, QueueFrame
    <3>2. fresh /\ view' = view
      BY <1>1, <1>3, FreshFrame DEF Idle
    <3> QED BY <3>1, <3>2
  <2>2. PICK r \in 1 .. Cur : r = view
    BY <2>1, ViewRev DEF Typed, FreshOK
  <2>3. Within(r)
    BY <2>1, <2>2 DEF Within, FreshOK, Typed, TypeInv, ApiInv, RevsOK
  <2>4. PICK flg, left, exp, flg2, left2, exp2 :
           /\ flg = flags /\ left = pend /\ exp = expose
           /\ flg2 = flags' /\ left2 = pend' /\ exp2 = expose'
    OBVIOUS
  <2>m. /\ \A s \in Services \ todo : Ticked(r, s, flg, left, exp)
        /\ "releaseFailed" \in flg => Failing(r) # {}
        /\ "releasePending" \in flg => Pending(r) # {}
    BY <2>1, <2>2, <2>4 DEF PassMinded, Ticked, Failing, Pending, Through, SvcDone
  <2>g. Failing(r)' = Failing(r) /\ Pending(r) \subseteq Pending(r)'
    BY <2>1, <2>3, GatesKept
  <2>k. ASSUME \A s \in Services \ todo' : Ticked(r, s, flg2, left2, exp2)',
               "releaseFailed" \in flg2 => Failing(r)' # {},
               "releasePending" \in flg2 => Pending(r)' # {}
        PROVE  /\ \A s \in Services \ todo' : Ticked(view, s, flags, pend, expose)'
               /\ "releaseFailed" \in flags' => Failing(view)' # {}
               /\ "releasePending" \in flags' => Pending(view)' # {}
    BY <2>1, <2>2, <2>4, <2>k DEF Ticked, Failing, Pending, Through, SvcDone
  <2> DEFINE Goal == /\ \A s \in Services \ todo' : Ticked(r, s, flg2, left2, exp2)'
                     /\ "releaseFailed" \in flg2 => Failing(r)' # {}
                     /\ "releasePending" \in flg2 => Pending(r)' # {}
  <2>5. Goal
    <3>1. CASE UNCHANGED <<view, flags, todo, pend, expose>>
      BY <2>1, <2>3, <2>4, <2>m, <2>g, <3>1, TickedKept
    <3>2. ASSUME NEW q \in Services, SkipService(q) \/ CreateReleaseJob(q), ~Idle
          PROVE  Goal
      <4>1. /\ left2 = left /\ exp2 = exp /\ todo' = todo \ {q} /\ flg \subseteq flg2
            /\ Ticked(r, q, flg2, left2, exp2)'
            /\ "releaseFailed" \in flg2 => "releaseFailed" \in flg \/ q \in Failing(r)
            /\ "releasePending" \in flg2 => "releasePending" \in flg \/ q \in Pending(r)'
        BY <2>1, <2>2, <2>3, <2>4, <3>2, HeldMinded
      <4>2. ASSUME NEW s \in Services \ todo', s # q PROVE Ticked(r, s, flg2, left2, exp2)'
        BY <2>1, <2>3, <2>m, <4>1, <4>2, TickedKept
      <4> QED BY <2>m, <2>g, <4>1, <4>2
    <3>3. ASSUME NEW q \in Services, RollService(q) PROVE Goal
      <4>1. /\ left = {} /\ exp = {} /\ flg2 = flg /\ todo' = todo \ {q}
            /\ Ticked(r, q, flg2, left2, exp2)'
        BY <2>1, <2>2, <2>3, <2>4, <3>3, RolledMinded
      <4>2. ASSUME NEW s \in Services \ todo', s # q PROVE Ticked(r, s, flg2, left2, exp2)'
        BY <2>1, <2>3, <2>m, <4>1, <4>2, TickedKept
      <4> QED BY <2>m, <2>g, <4>1, <4>2
    <3>4. ASSUME NEW k \in Owned, ApplyProcess(k), ~Idle PROVE Goal
      <4>1. /\ flg2 = flg /\ UNCHANGED todo /\ left2 = left \ {k} /\ exp = {}
            /\ DepDone(r, k)' /\ (k \notin exp2 => SvcDone(r, k)')
        BY <2>2, <2>3, <2>4, <3>4, ApplyMinded
      <4>2. ASSUME NEW s \in Services \ todo' PROVE Ticked(r, s, flg2, left2, exp2)'
        <5>1. \A p \in Svc(r, s).procs :
                 <<s, p>> \in (left \ left2) \cup ((left \cup exp) \ (left2 \cup exp2)) => <<s, p>> = k
          BY <4>1
        <5> QED BY <2>1, <2>3, <2>m, <4>1, <5>1, TickedKept
      <4> QED BY <2>m, <2>g, <4>1, <4>2
    <3>5. ASSUME NEW k \in Owned, ExposeProcess(k), ~Idle PROVE Goal
      <4>1. /\ flg2 = flg /\ UNCHANGED todo /\ left2 = left /\ exp = {k} /\ exp2 = {}
            /\ SvcDone(r, k)'
        BY <2>2, <2>3, <2>4, <3>5, ExposeMinded
      <4>2. ASSUME NEW s \in Services \ todo' PROVE Ticked(r, s, flg2, left2, exp2)'
        <5>1. \A p \in Svc(r, s).procs :
                 <<s, p>> \in (left \cup exp) \ (left2 \cup exp2) => <<s, p>> = k
          BY <4>1
        <5> QED BY <2>1, <2>3, <2>m, <4>1, <5>1, TickedKept
      <4> QED BY <2>m, <2>g, <4>1, <4>2
    <3>6. ~Idle
      BY DEF Idle
    <3> QED BY <1>3, <3>1, <3>2, <3>3, <3>4, <3>5, <3>6, PassFrame
  <2>6. \A b \in Listed(view)' \ todoB' : prov'[b] = live'
    BY <1>3, <2>1, ProvMinded
  <2> QED BY <2>5, <2>6, <2>k
<1> QED BY <1>2, <1>3

\* A step that is none of those leaves the pass, the status and the pods alone,
\* but for pods whose Deployment is collected.
LEMMA LeftFrame ==
    ASSUME Typed, [Next]_vars, ~queued', ~User, ~StartReconcile, ~UpdateStatus
    PROVE  /\ UNCHANGED <<view, status, seenFresh>>
           /\ (UNCHANGED pods) \/ \E k \in Owned : pods' = pods \ {k} /\ dep'[k] = 0
<1>1. CASE StackInformer \/ JobInformer \/ DepInformer \/ CallFails \/ Restart
  BY <1>1 DEF StackInformer, JobInformer, DepInformer, DeliverStack, DeliverJob, DeliverDep,
     CallFails, Restart, Retry
<1>2. CASE Cluster \/ Outage
  BY <1>2 DEF Cluster, Outage, JobFinishes, DeploymentReady, BackingUp, DeploymentDown,
     BackingDown, apiVars, cacheVars, passVars, depVars
<1>3. ASSUME NEW k \in Owned, CollectDep(k)
      PROVE  UNCHANGED <<view, status, seenFresh>> /\ pods' = pods \ {k} /\ dep'[k] = 0
  BY <1>3 DEF CollectDep, apiVars, cacheVars, passVars, Typed, TypeInv, TypeOK, ObjType
<1>4. CASE Collector
  BY <1>3, <1>4 DEF Collector, CollectJob, CollectService, CollectBacking,
     apiVars, cacheVars, passVars, depVars
<1>5. CASE \E b \in Backings : ReconcileBacking(b)
  BY <1>5 DEF ReconcileBacking, Retry, apiVars, cacheVars, depVars
<1>6. CASE \E s \in Services : SkipService(s) \/ CreateReleaseJob(s) \/ RollService(s)
  BY <1>6 DEF SkipService, CreateReleaseJob, RollService, Handled, Retry, apiVars, cacheVars,
     objVars, depVars
<1>7. CASE \E k \in Owned : ApplyProcess(k) \/ ExposeProcess(k)
  BY <1>7 DEF ApplyProcess, ExposeProcess, Retry, apiVars, cacheVars, depVars
<1>8. CASE UNCHANGED vars
  BY <1>8 DEF vars, apiVars, cacheVars, passVars, objVars, depVars
<1> QED BY <1>1, <1>2, <1>4, <1>5, <1>6, <1>7, <1>8 DEF Next, Worker

\* The status that a pass writes is that of what it ticked off.
LEMMA StatusMinded ==
    ASSUME Typed, FreshOK, PassMinded, UpdateStatus, NEW r \in 1 .. Cur, r = Cur,
           ~queued', seenFresh'
    PROVE  Left(r)'
<1>1. fresh /\ status' = NewStatus /\ UNCHANGED <<revs, live, objVars, jobSeen, depSeen>>
      /\ todoB = {} /\ todo = {} /\ pend = {} /\ expose = {} /\ ~queued
      /\ "backingPending" \notin flags
  BY DEF UpdateStatus, Retry, Requeue
<1>2. view = r
  BY <1>1 DEF FreshOK
<1>3. PICK flg, none : flg = flags /\ none = {}
  OBVIOUS
<1>4. /\ \A b \in Listed(r) : prov[b] = live
      /\ \A s \in Services : Ticked(r, s, flg, none, none)
      /\ "releaseFailed" \in flg => Failing(r) # {}
      /\ "releasePending" \in flg => Pending(r) # {}
  BY <1>1, <1>2, <1>3 DEF PassMinded, Ticked, Failing, Pending, Through
<1>5. \A s \in Services : /\ s \in Failing(r) => SeenGate(r, s) = "failed"
                          /\ s \in Pending(r) => SeenGate(r, s) \in {"running", "none"}
  BY DEF Failing, Pending, Made
<1>6. /\ "releaseFailed" \in flg <=> Failing(r) # {}
      /\ "releasePending" \in flg <=> Pending(r) # {}
  <2>1. \A s \in Services : /\ s \in Failing(r) => "releaseFailed" \in flg
                            /\ s \in Pending(r) => "releasePending" \in flg
    BY <1>1, <1>3, <1>4, <1>5 DEF Ticked, Failing, Pending
  <2>2. Failing(r) \subseteq Services /\ Pending(r) \subseteq Services
    BY DEF Failing, Pending
  <2> QED BY <1>4, <2>1, <2>2
<1>7. UNCHANGED <<job, jobRev, dep, pods, svcObj, prov>>
  BY <1>1 DEF objVars, jobVars, depVars, backVars
<1>8. /\ Failing(r)' = Failing(r) /\ Pending(r)' = Pending(r) /\ AllReady' = AllReady
      /\ \A s \in Services : Runs(r, s)' = Runs(r, s) /\ SeenGate(r, s)' = SeenGate(r, s)
      /\ \A s \in Services : Through(r, s, none, none)' <=> Through(r, s, none, none)
  BY <1>1, <1>7 DEF Failing, Pending, Made, AllReady, Runs, SeenGate, Hooked, Svc, Uid, Through,
     DepDone, SvcDone, Template, BoundTo, Listed
<1>9. ASSUME NEW s \in Services, Runs(r, s)'
      PROVE  \/ s \in Failing(r)' \cup Pending(r)'
             \/ SeenGate(r, s)' = "complete" /\ Through(r, s, {}, {})'
  <2>1. \/ s \in Failing(r) \cup Pending(r)
        \/ SeenGate(r, s) = "complete" /\ Through(r, s, none, none)
    BY <1>1, <1>3, <1>4, <1>8, <1>9 DEF Ticked
  <2> QED BY <1>3, <1>8, <2>1 DEF Through
<1>10. status'.observed = revs[r].gen /\ status'.phase = NewPhase
  BY <1>1, <1>2 DEF NewStatus
<1>11. IF Failing(r)' # {} THEN status'.phase = "ReleaseFailed"
       ELSE IF Pending(r)' # {} THEN status'.phase = "ReleaseHook"
       ELSE status'.phase = IF AllReady' THEN "Running" ELSE "Progressing"
  BY <1>1, <1>3, <1>6, <1>8, <1>10 DEF NewPhase
<1>12. /\ status'.observed = revs'[r].gen
       /\ \A b \in Listed(r)' : prov'[b] = live'
  BY <1>1, <1>4, <1>7, <1>10 DEF Listed
<1> QED BY <1>9, <1>11, <1>12 DEF Left

\* What was left stays so while the key is not queued.
LEMMA LeftKept ==
    ASSUME Typed, [Next]_vars, NEW r \in 1 .. Cur, Within(r), view = 0, Left(r),
           UNCHANGED <<jobSeen, depSeen, status, view>>,
           UNCHANGED pods \/ \E k \in Owned : pods' = pods \ {k} /\ dep'[k] = 0
    PROVE  Left(r)'
<1>1. PICK none : none = {}
  OBVIOUS
<1>2. /\ \A s \in Services : Runs(r, s)' = Runs(r, s) /\ SeenGate(r, s)' = SeenGate(r, s)
      /\ Failing(r)' = Failing(r) /\ Pending(r) \subseteq Pending(r)'
  BY GatesKept
<1>3. \A s \in Services :
         Runs(r, s) => \/ s \in Failing(r) \cup Pending(r)
                       \/ SeenGate(r, s) = "complete" /\ Through(r, s, none, none)
  BY <1>1 DEF Left
<1>4. Pending(r)' = Pending(r)
  <2>1. ASSUME NEW s \in Services, s \in Pending(r)' PROVE s \in Pending(r)
    <3>1. Runs(r, s) /\ SeenGate(r, s) \in {"running", "none"}
      BY <1>2, <2>1 DEF Pending, Made
    <3>2. s \notin Failing(r)
      BY <3>1 DEF Failing
    <3> QED BY <1>3, <3>1, <3>2
  <2>2. Pending(r)' \subseteq Services
    BY DEF Pending
  <2> QED BY <1>2, <2>1, <2>2
<1>5. ASSUME NEW s \in Services, Through(r, s, none, none) PROVE Through(r, s, none, none)'
  BY <1>5, ThroughKept
<1>6. \A s \in Services :
         Runs(r, s)' => \/ s \in Failing(r)' \cup Pending(r)'
                        \/ SeenGate(r, s)' = "complete" /\ Through(r, s, {}, {})'
  BY <1>1, <1>2, <1>3, <1>4, <1>5 DEF Through
<1>7. /\ status'.observed = revs'[r].gen
      /\ \A b \in Listed(r)' : prov'[b] = live'
  <2>1. revs[r] \in Revision
    BY DEF Typed, TypeInv, ApiInv, ApiType, Cur
  <2>2. Listed(r)' = Listed(r) /\ Listed(r) \subseteq Backings
    BY <2>1 DEF Listed, Within, Revision, StackSpec
  <2> QED BY <2>2, ProvKept DEF Left, Within
<1>8. ASSUME NEW k \in Owned, dep[k] = 0 PROVE dep'[k] = 0
  <2>1. ~ApplyProcess(k)
    BY DEF ApplyProcess, Typed, TypeInv, TypeOK, PassType
  <2> QED BY <1>8, <2>1, DepStep
<1>9. AllReady' = AllReady \/ \E k \in Owned : depSeen'[k] # 0 /\ dep'[k] = 0
  <2>1. CASE UNCHANGED pods
    BY <2>1 DEF AllReady
  <2>2. ASSUME NEW k \in Owned, pods' = pods \ {k}, dep'[k] = 0
        PROVE  AllReady' = AllReady \/ \E j \in Owned : depSeen'[j] # 0 /\ dep'[j] = 0
    BY <2>2 DEF AllReady
  <2> QED BY <2>1, <2>2
<1>10. CASE Failing(r) # {} \/ Pending(r) # {}
  BY <1>2, <1>4, <1>6, <1>7, <1>10 DEF Left
<1>11. CASE Failing(r) = {} /\ Pending(r) = {}
  <2>1. \/ status'.phase = IF AllReady' THEN "Running" ELSE "Progressing"
        \/ \E k \in Owned : depSeen'[k] # 0 /\ dep'[k] = 0
    <3>1. \/ status.phase = IF AllReady THEN "Running" ELSE "Progressing"
          \/ \E k \in Owned : depSeen[k] # 0 /\ dep[k] = 0
      BY <1>11 DEF Left
    <3> QED BY <1>8, <1>9, <3>1
  <2> QED BY <1>2, <1>4, <1>6, <1>7, <1>11, <2>1 DEF Left
<1> QED BY <1>10, <1>11

LEMMA LeftMindedStep ==
    ASSUME Typed, FreshOK, PassMinded, LeftMinded, [Next]_vars PROVE LeftMinded'
<1> SUFFICES ASSUME live' # 0, view' = 0, ~queued', seenFresh' PROVE Left(Cur)'
  BY DEF LeftMinded
<1>1. ~User
  BY DEF User, Create, Edit, Delete, StackWritten
<1>2. UNCHANGED <<revs, live>> /\ live # 0 /\ Cur' = Cur
  BY <1>1, SeenFrame DEF Cur
<1>3. PICK r \in 1 .. Cur : r = Cur /\ Uid(r) = live
  BY <1>2, CurNat DEF Typed, TypeInv, ApiInv, RevsOK
<1>4. ~StartReconcile
  <2> SUFFICES ASSUME StartReconcile PROVE FALSE
    OBVIOUS
  <2>1. Got = 0 /\ seenFresh' = seenFresh
    BY DEF StartReconcile, cacheVars
  <2> QED BY <1>2, <1>3, <2>1 DEF FreshOK, Got
<1>5. ~queued /\ UNCHANGED <<jobSeen, depSeen>>
  BY <1>1, <1>4, QueueFrame
<1>6. Left(r)'
  <2>1. CASE UpdateStatus
    BY <1>3, <2>1, StatusMinded
  <2>2. CASE ~UpdateStatus
    <3>1. /\ UNCHANGED <<view, status, seenFresh>>
          /\ (UNCHANGED pods) \/ \E k \in Owned : pods' = pods \ {k} /\ dep'[k] = 0
      BY <1>1, <1>4, <2>2, LeftFrame
    <3>2. Left(r) /\ view = 0 /\ Within(r)
      BY <1>2, <1>3, <1>5, <3>1 DEF LeftMinded, Within
    <3> QED BY <1>5, <3>1, <3>2, LeftKept
  <2> QED BY <2>1, <2>2
<1> QED BY <1>2, <1>3, <1>6

\* When the caches know all, being right by them is being right.
LEMMA QuietIsRight == ASSUME Typed, Awake, Quiet PROVE NothingForgotten
<1>1. /\ live # 0 /\ view = 0 /\ ~queued /\ seenFresh /\ jobSeen = job /\ depSeen = dep
  BY DEF Quiet
<1>2. Left(Cur)
  BY <1>1 DEF Awake, LeftMinded
<1>3. \A s \in Services : SeenGate(Cur, s) = GateOf(s) /\ ~Made(Cur, s)
  BY <1>1 DEF SeenGate, GateOf, Made
<1>4. \A s \in Services : Runs(Cur, s) =>
         \/ GateOf(s) \in {"failed", "running"}
         \/ GateOf(s) = "complete" /\ Through(Cur, s, {}, {})
  BY <1>2, <1>3 DEF Left, Failing, Pending
<1> DEFINE gates == {GateOf(s) : s \in {q \in Services : Runs(Cur, q)}}
<1>5. gates \subseteq {"running", "failed", "complete"}
  BY <1>4
<1>6. ("failed" \in gates <=> Failing(Cur) # {}) /\ ("running" \in gates <=> Pending(Cur) # {})
  BY <1>3 DEF Failing, Pending
<1>7. ASSUME NEW s \in Services, NEW p \in Processes, Runs(Cur, s), GateOf(s) = "complete",
             p \in Svc(Cur, s).procs
      PROVE  UpToDate(<<s, p>>)
  BY <1>4, <1>7 DEF Through, DepDone, SvcDone, UpToDate
<1>8. status.phase = IF "failed" \in gates THEN "ReleaseFailed"
                     ELSE IF "running" \in gates THEN "ReleaseHook"
                     ELSE IF AllReady THEN "Running" ELSE "Progressing"
  <2>1. ~\E k \in Owned : depSeen[k] # 0 /\ dep[k] = 0
    BY <1>1
  <2> HIDE DEF gates
  <2> QED BY <1>2, <1>6, <2>1 DEF Left
<1> QED BY <1>2, <1>5, <1>7, <1>8 DEF NothingForgotten, Left

\* No wake-up is lost: for any services, specs, edits, deletions, restarts and
\* failures, a Stack that nothing is about to look at again is rolled out as far
\* as its release Jobs allow, waits for no backing service, and its status says
\* exactly how far it is.
THEOREM NoWakeupLost == Spec => []NothingForgotten
<1>1. Init => Typed /\ Awake
  <2> SUFFICES ASSUME Init PROVE Awake
    BY TypedInit
  <2> QED BY DEF Init, Awake, FreshOK, PassMinded, LeftMinded
<1>2. Typed /\ Awake /\ [Next]_vars => (Typed /\ Awake)'
  <2> SUFFICES ASSUME Typed, Awake, [Next]_vars PROVE Typed' /\ Awake'
    OBVIOUS
  <2>1. Typed' /\ FreshOK'
    BY TypedStep, FreshStep DEF Awake
  <2> QED BY <2>1, PassMindedStep, LeftMindedStep DEF Awake
<1>3. Typed /\ Awake => NothingForgotten
  BY QuietIsRight DEF NothingForgotten
<1> QED BY <1>1, <1>2, <1>3, PTL DEF Spec
=============================================================================
