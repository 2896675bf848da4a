---------------------------- MODULE EnvLifecycle ----------------------------
(***************************************************************************)
(* The Environment controller (internal/controller/environment_controller  *)
(* .go): Environments, the namespaces they stand for, and what is in them. *)
(*                                                                         *)
(* A reconcile reads its Environment once and then makes its calls one by  *)
(* one: finalizer, namespace, each document of the baseline, Stack, status *)
(* - or, for one that is being deleted, the collection of clone artifacts, *)
(* the deletion of the namespace, and the finalizer. Namespaces are not    *)
(* owned and neither they nor the Stacks in them are watched: only changes *)
(* of the Environment itself, and errors, bring the controller back. Typed *)
(* objects are read from caches that lag; deletion of a namespace takes    *)
(* its contents away in any order and then the namespace.                  *)
(*                                                                         *)
(* Of the Stack controller there is what a teardown meets: a pass over a   *)
(* clone that is running, and the artifacts it makes outside its namespace.*)
(***************************************************************************)
EXTENDS Naturals, FiniteSets

CONSTANTS
    Envs,         \* Environments, by namespace and name
    Projects,
    Namespaces,
    NamespaceOf,  \* proj-<project>-<name>
    Docs,         \* the documents of baseline/tenant-baseline.yaml, by their place in it
    Graphs,       \* the Stack specs
    NoGraph,      \* an Environment without Stack
    Parents,      \* values of CloneFrom
    NoParent,     \* CloneFrom == ""
    Specs,        \* the EnvironmentSpecs a user may write
    NoSpec,       \* the spec of an Environment that does not exist
    MaxGen,       \* bound: generations of an Environment
    MaxDeletes,   \* bound: Environments deleted
    MaxPuts,      \* bound: Stacks written or deleted through the canvas
    MaxFaults     \* bound: failed calls and crashes

Types     == {"persistent", "preview"}
EnvSpec   == [project : Projects, type : Types, from : Parents, graph : Graphs]
Stacks    == [graph : Graphs, from : Parents]
NoStack   == [graph |-> NoGraph, from |-> NoParent]
Artifacts == {"snapshot", "content"}

ASSUME SpecsAssumption ==
    /\ Specs \subseteq EnvSpec /\ NoSpec \notin Specs
    /\ NoGraph \in Graphs /\ NoParent \in Parents
    /\ NamespaceOf \in [Envs \X Projects -> Namespaces] /\ Docs \subseteq Nat

ASSUME BoundsAssumption ==
    MaxGen \in Nat \ {0} /\ MaxDeletes \in Nat /\ MaxPuts \in Nat /\ MaxFaults \in Nat

VARIABLES
    \* The API server.
    obj,       \* the Environments: state, spec, finalizer, generation
    status,    \* their status: phase, observed generation
    ns,        \* phase of each namespace
    stamped,   \* <<namespace, document>> of the baseline
    stack,     \* the Stack in each namespace, or NoStack
    artifacts, \* the clone artifacts labelled with each namespace
    \* The operator's caches and the work queue.
    seen,      \* the Environments as the cache has them
    stale,     \* ... and those with a later version
    nsSeen,    \* the namespaces as the cache has them
    stackSeen, \* the Stacks as the cache has them
    queued,    \* keys in the work queue, or about to be added
    \* The pass that is running.
    pc,        \* its next call, "idle" for an Environment that has none
    view,      \* the Environment it read
    viewStale, \* Environments written since a pass read them
    todo,      \* documents it has not applied yet
    \* The Stack controller.
    cloning,   \* namespaces with a pass over a clone
    \* Bounds.
    deletes, puts, faults

apiVars   == <<obj, status>>
nsVars    == <<ns, stamped, stack>>
cacheVars == <<seen, stale, nsSeen, stackSeen>>
passVars  == <<pc, view, viewStale, todo>>
boundVars == <<deletes, puts, faults>>
vars == <<apiVars, nsVars, artifacts, cacheVars, queued, passVars, cloning, boundVars>>

-----------------------------------------------------------------------------
NsPhases  == {"none", "active", "terminating"}
Steps     == {"idle", "finalizer", "namespace", "baseline", "stack", "status",
              "snapshot", "content", "delete", "unfinalize"}
Absent    == [state |-> "absent", spec |-> NoSpec, final |-> "no", gen |-> 0]
Objects   == [state : {"live", "deleting"}, spec : Specs, final : {"yes", "no"},
              gen : 0 .. MaxGen] \cup {Absent}
Statuses  == [phase : {"unset", "Provisioning", "Ready"}, observed : 0 .. MaxGen]
NoStatus  == [phase |-> "unset", observed |-> 0]

\* namespaceFor
NamespaceFor(e, p) == NamespaceOf[e, p]
NsOf(e, spec) == NamespaceFor(e, spec.project)
Here(e)       == NsOf(e, view[e].spec)
WantsClone(spec) == spec.type = "preview" /\ spec.from # NoParent

Init ==
    /\ obj = [e \in Envs |-> Absent] /\ status = [e \in Envs |-> NoStatus]
    /\ ns = [n \in Namespaces |-> "none"] /\ stamped = {}
    /\ stack = [n \in Namespaces |-> NoStack]
    /\ artifacts = [n \in Namespaces |-> {}]
    /\ seen = obj /\ stale = {} /\ nsSeen = ns /\ stackSeen = stack /\ queued = {}
    /\ pc = [e \in Envs |-> "idle"] /\ view = obj /\ viewStale = {} /\ todo = {}
    /\ cloning = {}
    /\ deletes = 0 /\ puts = 0 /\ faults = 0

\* A write of Environment e outdates the cached version and a pass's copy.
Written(e, o, st) ==
    /\ obj' = [obj EXCEPT ![e] = o]
    /\ status' = [status EXCEPT ![e] = st]
    /\ stale' = stale \cup {e}

-----------------------------------------------------------------------------
(* Users                                                                   *)

UserWrites(e, o, st) ==
    /\ Written(e, o, st)
    /\ viewStale' = IF pc[e] = "idle" THEN viewStale ELSE viewStale \cup {e}
    /\ UNCHANGED <<nsVars, artifacts, seen, nsSeen, stackSeen, queued, pc, view, todo,
                   cloning, puts, faults>>

CreateEnv(e, s) ==
    /\ obj[e].state = "absent"
    /\ UserWrites(e, [state |-> "live", spec |-> s, final |-> "no", gen |-> 1], NoStatus)
    /\ UNCHANGED deletes

\* Also while it is being deleted.
EditEnv(e, s) ==
    /\ obj[e].state # "absent" /\ obj[e].spec # s /\ obj[e].gen < MaxGen
    /\ UserWrites(e, [obj[e] EXCEPT !.spec = s, !.gen = @ + 1], status[e])
    /\ UNCHANGED deletes

\* The finalizer keeps the object until the controller lets go of it.
DeleteEnv(e) ==
    /\ obj[e].state = "live" /\ deletes < MaxDeletes
    /\ deletes' = deletes + 1
    /\ IF obj[e].final = "yes"
       THEN UserWrites(e, [obj[e] EXCEPT !.state = "deleting"], status[e])
       ELSE UserWrites(e, Absent, NoStatus)

\* The canvas writes over the copy in the cache, which it reads first: one that
\* is out of date is refused, as is a new Stack where no namespace takes it.
\* A Stack that nobody made before has neither labels nor annotations.
handlePutStack(n, g) ==
    /\ g # stack[n].graph /\ stackSeen[n] = stack[n]
    /\ stack[n] # NoStack \/ ns[n] = "active"
    /\ stack' = [stack EXCEPT ![n].graph = g]

handleDeleteStack(n) ==
    /\ stack[n] # NoStack
    /\ stack' = [stack EXCEPT ![n] = NoStack]

\* The Stack of an Environment's name.
WriteStack(n, g) ==
    /\ puts < MaxPuts /\ puts' = puts + 1
    /\ IF g = NoGraph THEN handleDeleteStack(n) ELSE handlePutStack(n, g)
    /\ UNCHANGED <<apiVars, ns, stamped, artifacts, cacheVars, queued, passVars, cloning,
                   deletes, faults>>

-----------------------------------------------------------------------------
(* The namespace controller                                                *)

DropContent(n) ==
    /\ ns[n] = "terminating"
    /\ \/ \E d \in Docs : /\ <<n, d>> \in stamped
                          /\ stamped' = stamped \ {<<n, d>>} /\ UNCHANGED stack
       \/ /\ stack[n] # NoStack
          /\ stack' = [stack EXCEPT ![n] = NoStack] /\ UNCHANGED stamped
    /\ UNCHANGED <<apiVars, ns, artifacts, cacheVars, queued, passVars, cloning, boundVars>>

DropNamespace(n) ==
    /\ ns[n] = "terminating"
    /\ stack[n] = NoStack /\ \A d \in Docs : <<n, d>> \notin stamped
    /\ ns' = [ns EXCEPT ![n] = "none"]
    /\ UNCHANGED <<apiVars, stamped, stack, artifacts, cacheVars, queued, passVars, cloning,
                   boundVars>>

-----------------------------------------------------------------------------
(* Informer deliveries: only Environments enqueue anything (For).          *)

DeliverEnv(e) ==
    /\ e \in stale
    /\ seen' = [seen EXCEPT ![e] = obj[e]] /\ stale' = stale \ {e}
    /\ queued' = queued \cup {e}
    /\ UNCHANGED <<apiVars, nsVars, artifacts, nsSeen, stackSeen, passVars, cloning, boundVars>>

DeliverNamespace(n) ==
    /\ nsSeen[n] # ns[n]
    /\ nsSeen' = [nsSeen EXCEPT ![n] = ns[n]]
    /\ UNCHANGED <<apiVars, nsVars, artifacts, seen, stale, stackSeen, queued, passVars, cloning,
                   boundVars>>

DeliverStack(n) ==
    /\ stackSeen[n] # stack[n]
    /\ stackSeen' = [stackSeen EXCEPT ![n] = stack[n]]
    /\ UNCHANGED <<apiVars, nsVars, artifacts, seen, stale, nsSeen, queued, passVars, cloning,
                   boundVars>>
-----------------------------------------------------------------------------
(* Reconcile. One worker: a pass runs to its end before the next begins.    *)

Continue(e, step) ==
    /\ pc' = [pc EXCEPT ![e] = step]
    /\ UNCHANGED <<view, viewStale, queued>>

Done(e) ==
    /\ pc' = [pc EXCEPT ![e] = "idle"] /\ view' = [view EXCEPT ![e] = Absent]
    /\ viewStale' = viewStale \ {e} /\ todo' = {}

\* An error: the key comes back after a back-off.
Retry_Swallowed(e) == Done(e) /\ UNCHANGED queued          \* mutant
Retry(e) == Done(e) /\ queued' = queued \cup {e}

FirstStep_NoFinalizer(o) ==                                \* mutant
    CASE o.state = "deleting" -> "snapshot" [] OTHER -> "namespace"
FirstStep(o) ==
    CASE o.state = "deleting" /\ o.final = "yes" -> "snapshot"
      [] o.state = "deleting" -> "idle"
      [] o.final = "no" -> "finalizer"
      [] OTHER -> "namespace"

StartReconcile(e) ==
    /\ e \in queued /\ \A f \in Envs : pc[f] = "idle"
    /\ queued' = queued \ {e}
    /\ IF seen[e].state = "absent"
       THEN UNCHANGED passVars
       ELSE /\ pc' = [pc EXCEPT ![e] = FirstStep(seen[e])]
            /\ view' = [view EXCEPT ![e] = seen[e]]
            /\ viewStale' = stale \cap {e}
            /\ UNCHANGED todo
    /\ UNCHANGED <<apiVars, nsVars, artifacts, cacheVars, cloning, boundVars>>

\* Update with the finalizer; refused when the object has moved on.
AddFinalizer(e) ==
    /\ pc[e] = "finalizer"
    /\ IF e \in viewStale
       THEN Retry(e) /\ UNCHANGED <<apiVars, stale>>
       ELSE /\ Written(e, [obj[e] EXCEPT !.final = "yes"], status[e])
            /\ view' = [view EXCEPT ![e].final = "yes"]
            /\ pc' = [pc EXCEPT ![e] = "namespace"]
            /\ UNCHANGED <<viewStale, queued, todo>>
    /\ UNCHANGED <<nsVars, artifacts, seen, nsSeen, stackSeen, cloning, boundVars>>

ToStamp_OnlyNew(e) == IF nsSeen[Here(e)] = "none" THEN Docs ELSE {}   \* mutant
ToStamp(e) == Docs

\* ensureNamespace: created unless the cache has it; then its labels are as
\* they should be or are set (a refused Update is a failed call).
EnsureNamespace(e) ==
    /\ pc[e] = "namespace"
    /\ IF nsSeen[Here(e)] = "none" /\ ns[Here(e)] # "none"
       THEN Retry(e) /\ UNCHANGED ns
       ELSE /\ ns' = IF nsSeen[Here(e)] = "none" THEN [ns EXCEPT ![Here(e)] = "active"] ELSE ns
            /\ Continue(e, "baseline") /\ todo' = ToStamp(e)
    /\ UNCHANGED <<apiVars, stamped, stack, artifacts, cacheVars, cloning, boundVars>>

\* stampBaseline: a server-side apply of each document in turn. In a namespace that is
\* being deleted nothing new can be created, what is still there is patched.
ApplyDocument(e, d) ==
    /\ pc[e] = "baseline" /\ d \in todo /\ \A c \in todo : d <= c
    /\ IF ns[Here(e)] = "active" \/ <<Here(e), d>> \in stamped
       THEN /\ stamped' = stamped \cup {<<Here(e), d>>}
            /\ todo' = todo \ {d}
            /\ UNCHANGED <<pc, view, viewStale, queued>>
       ELSE Retry(e) /\ UNCHANGED stamped
    /\ UNCHANGED <<apiVars, ns, stack, artifacts, cacheVars, cloning, boundVars>>

StampDone(e) ==
    /\ pc[e] = "baseline" /\ todo = {}
    /\ Continue(e, IF view[e].spec.graph = NoGraph THEN "status" ELSE "stack")
    /\ UNCHANGED <<apiVars, nsVars, artifacts, cacheVars, todo, cloning, boundVars>>

\* The Stack ensureStack computes from the cached one. The clone annotations
\* are set for a preview and never removed.
DesiredStack(e) ==
    [graph |-> view[e].spec.graph,
     from  |-> IF WantsClone(view[e].spec) THEN view[e].spec.from ELSE stackSeen[Here(e)].from]

EnsureStack(e) ==
    LET n == Here(e)
        same    == stackSeen[n] = DesiredStack(e)
        created == stackSeen[n] = NoStack /\ stack[n] = NoStack /\ ns[n] = "active"
        updated == stackSeen[n] # NoStack /\ stackSeen[n] = stack[n]
    IN
    /\ pc[e] = "stack"
    /\ IF same \/ created \/ updated
       THEN /\ stack' = IF same THEN stack ELSE [stack EXCEPT ![n] = DesiredStack(e)]
            /\ Continue(e, "status") /\ UNCHANGED todo
       ELSE Retry(e) /\ UNCHANGED stack
    /\ UNCHANGED <<apiVars, ns, stamped, artifacts, cacheVars, cloning, boundVars>>

NewStatus_OffByOne(e) ==                                   \* mutant
    [phase |-> IF nsSeen[Here(e)] # "none" THEN "Ready" ELSE "Provisioning",
     observed |-> view[e].gen + 1]
NewStatus(e) ==
    [phase |-> IF nsSeen[Here(e)] # "none" THEN "Ready" ELSE "Provisioning",
     observed |-> view[e].gen]

\* updateEnvStatus; a status that says nothing new is no new version.
UpdateEnvStatus(e) ==
    /\ pc[e] = "status"
    /\ IF e \in viewStale
       THEN Retry(e) /\ UNCHANGED <<apiVars, stale>>
       ELSE /\ Done(e) /\ UNCHANGED queued
            /\ IF status[e] = NewStatus(e)
               THEN UNCHANGED <<apiVars, stale>>
               ELSE Written(e, obj[e], NewStatus(e))
    /\ UNCHANGED <<nsVars, artifacts, seen, nsSeen, stackSeen, cloning, boundVars>>

\* gcCloneArtifacts, the two kinds one after the other.
GcArtifacts(e, a) ==
    /\ pc[e] = a /\ a \in Artifacts
    /\ artifacts' = [artifacts EXCEPT ![Here(e)] = @ \ {a}]
    /\ Continue(e, IF a = "snapshot" THEN "content" ELSE "delete")
    /\ UNCHANGED <<apiVars, nsVars, cacheVars, todo, cloning, boundVars>>

DeleteNamespace_ErrorIgnored(e) ==                         \* mutant
    /\ pc[e] = "delete"
    /\ ns' \in {ns, [ns EXCEPT ![Here(e)] = IF @ = "active" THEN "terminating" ELSE @]}
    /\ Continue(e, "unfinalize")
    /\ UNCHANGED <<apiVars, stamped, stack, artifacts, cacheVars, todo, cloning, boundVars>>
DeleteNamespace(e) ==
    /\ pc[e] = "delete"
    /\ ns' = [ns EXCEPT ![Here(e)] = IF @ = "active" THEN "terminating" ELSE @]
    /\ Continue(e, "unfinalize")
    /\ UNCHANGED <<apiVars, stamped, stack, artifacts, cacheVars, todo, cloning, boundVars>>

\* Without its finalizer the Environment that is being deleted is gone.
RemoveFinalizer(e) ==
    /\ pc[e] = "unfinalize"
    /\ IF e \in viewStale
       THEN Retry(e) /\ UNCHANGED <<apiVars, stale>>
       ELSE Done(e) /\ UNCHANGED queued /\ Written(e, Absent, NoStatus)
    /\ UNCHANGED <<nsVars, artifacts, seen, nsSeen, stackSeen, cloning, boundVars>>

-----------------------------------------------------------------------------
(* The Stack controller's passes over clones (prepareCloneRestore). They    *)
(* work on the copy they read, whatever has become of the Stack since.      *)

CloneStarts(n) ==
    /\ stackSeen[n].from # NoParent
    /\ cloning' = cloning \cup {n}
    /\ UNCHANGED <<apiVars, nsVars, artifacts, cacheVars, queued, passVars, boundVars>>

CloneMakes(n, a) ==
    /\ n \in cloning
    /\ artifacts' = [artifacts EXCEPT ![n] = @ \cup {a}]
    /\ UNCHANGED <<apiVars, nsVars, cacheVars, queued, passVars, cloning, boundVars>>

CloneEnds(n) ==
    /\ n \in cloning
    /\ cloning' = cloning \ {n}
    /\ UNCHANGED <<apiVars, nsVars, artifacts, cacheVars, queued, passVars, boundVars>>

-----------------------------------------------------------------------------
(* Failures                                                                *)

\* The next call of a pass fails.
CallFails(e) ==
    /\ pc[e] # "idle" /\ faults < MaxFaults
    /\ faults' = faults + 1 /\ Retry(e)
    /\ UNCHANGED <<apiVars, nsVars, artifacts, cacheVars, cloning, deletes, puts>>

\* The operator restarts: passes are gone, caches are read anew, and every
\* object it finds is enqueued.
Restart ==
    /\ faults < MaxFaults /\ faults' = faults + 1
    /\ pc' = [e \in Envs |-> "idle"] /\ view' = [e \in Envs |-> Absent]
    /\ viewStale' = {} /\ todo' = {} /\ cloning' = {}
    /\ seen' = obj /\ stale' = {} /\ nsSeen' = ns /\ stackSeen' = stack
    /\ queued' = {e \in Envs : obj[e].state # "absent"}
    /\ UNCHANGED <<apiVars, nsVars, artifacts, deletes, puts>>

-----------------------------------------------------------------------------
Worker(e) ==
    \/ StartReconcile(e) \/ AddFinalizer(e) \/ EnsureNamespace(e)
    \/ \E d \in Docs : ApplyDocument(e, d)
    \/ StampDone(e) \/ EnsureStack(e) \/ UpdateEnvStatus(e)
    \/ \E a \in Artifacts : GcArtifacts(e, a)
    \/ DeleteNamespace(e) \/ RemoveFinalizer(e)

NamespaceController(n) == DropContent(n) \/ DropNamespace(n)

User == \/ \E e \in Envs : \/ \E s \in Specs : CreateEnv(e, s) \/ EditEnv(e, s)
                           \/ DeleteEnv(e)
        \/ \E n \in Namespaces, g \in Graphs : WriteStack(n, g)

CloneStep(n) == CloneStarts(n) \/ CloneEnds(n) \/ \E a \in Artifacts : CloneMakes(n, a)

Next ==
    \/ User
    \/ \E e \in Envs : Worker(e) \/ DeliverEnv(e) \/ CallFails(e)
    \/ \E n \in Namespaces : NamespaceController(n) \/ DeliverNamespace(n) \/ DeliverStack(n)
                              \/ CloneStep(n)
    \/ Restart

Spec == Init /\ [][Next]_vars

\* The worker serves every key, informers deliver, the namespace controller
\* works and a pass of the Stack controller ends. Nothing is assumed of users.
FairSpec ==
    /\ Spec
    /\ \A e \in Envs : SF_vars(Worker(e)) /\ WF_vars(DeliverEnv(e))
    /\ \A n \in Namespaces :
          /\ WF_vars(NamespaceController(n)) /\ WF_vars(CloneEnds(n))
          /\ WF_vars(DeliverNamespace(n)) /\ WF_vars(DeliverStack(n))

-----------------------------------------------------------------------------
(* Properties                                                              *)

\* Type invariant.
TypeOK ==
    /\ obj \in [Envs -> Objects] /\ status \in [Envs -> Statuses]
    /\ ns \in [Namespaces -> NsPhases] /\ stamped \subseteq Namespaces \X Docs
    /\ stack \in [Namespaces -> Stacks] /\ artifacts \in [Namespaces -> SUBSET Artifacts]
    /\ seen \in [Envs -> Objects] /\ stale \subseteq Envs
    /\ nsSeen \in [Namespaces -> NsPhases] /\ stackSeen \in [Namespaces -> Stacks]
    /\ queued \subseteq Envs
    /\ pc \in [Envs -> Steps] /\ view \in [Envs -> Objects]
    /\ viewStale \subseteq Envs /\ todo \subseteq Docs /\ cloning \subseteq Namespaces
    /\ deletes \in 0 .. MaxDeletes /\ puts \in 0 .. MaxPuts /\ faults \in 0 .. MaxFaults

\* The controller puts a graph into a live namespace, or changes it there, only
\* when the whole security baseline is in it at that moment, whatever crashed
\* between two documents, was deleted or was created again before
\* (environment_controller.go: stampBaseline before ensureStack). What the
\* canvas puts there itself (a step that counts in puts) waits for nothing.
Isolated ==
    [][\A n \in Namespaces :
            ns[n] = "active" /\ stack'[n] \notin {stack[n], NoStack} /\ puts' = puts
            => \A d \in Docs : <<n, d>> \in stamped]_vars

\* The finalizer is given up only when the namespace that the spec names is on
\* its way out: an Environment never disappears leaving it for nobody to delete
\* (environment_controller.go: deleteNamespace before RemoveFinalizer).
FinalizerLast ==
    [][\A e \in Envs : obj[e].state = "deleting" /\ obj'[e].state = "absent" =>
            ns[NsOf(e, obj[e].spec)] # "active"]_vars

\* The Environments that claim namespace n.
Claimed(n) == \E e \in Envs : obj[e].state # "absent" /\ NsOf(e, obj[e].spec) = n

\* "Teardown (delete Environment) deletes the namespace, taking the whole graph
\* with it": in the end no namespace is left that no Environment stands for.
TornDown == <>[](\A n \in Namespaces : ns[n] # "none" => Claimed(n))

\* The clone artifacts outside the namespace are "GC'd by environment teardown".
ArtifactsCollected == <>[](\A n \in Namespaces : artifacts[n] # {} => Claimed(n))

\* The graph in the namespace is what the controller last made of the Environment:
\* nobody else writes the Stack, and the spec was edited once at most. One that is
\* edited and put back while the cache still has the Stack of before the first
\* edit is taken for deployed already (ensureStack), and nothing looks again.
Followed(e) ==
    /\ puts = 0 /\ obj[e].gen <= 2
    /\ \A f \in Envs \ {e}, p \in Projects, q \in Projects :
            NamespaceFor(e, p) # NamespaceFor(f, q)

Deployed(e) ==
    LET n == NsOf(e, obj[e].spec) IN
    /\ ns[n] = "active" /\ \A d \in Docs : <<n, d>> \in stamped
    /\ obj[e].spec.graph # NoGraph /\ Followed(e) => stack[n].graph = obj[e].spec.graph
    /\ status[e] = [phase |-> "Ready", observed |-> obj[e].gen]

\* Every Environment that stays is deployed as its last spec says, and its
\* status says so of that generation, unless an Environment was deleted: what
\* that undoes is noticed at the next event only.
Converges ==
    <>[](\A e \in Envs : obj[e].state = "live" /\ deletes = 0 => Deployed(e))

\* Nothing is forgotten: an Environment whose key is in no queue and no pass, and
\* of which the cache has the last version, is deployed and guarded by the
\* finalizer. Neither namespaces nor Stacks are watched and nothing polls, so what
\* a pass found missing, or wrote over a copy that was out of date, must itself
\* have caused the event that leads to the next pass.
Quiet(e) == obj[e].state = "live" /\ e \notin queued /\ e \notin stale /\ pc[e] = "idle"

NothingForgotten ==
    \A e \in Envs : Quiet(e) /\ deletes = 0 => Deployed(e) /\ obj[e].final = "yes"
=============================================================================
