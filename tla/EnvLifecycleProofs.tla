------------------------- MODULE EnvLifecycleProofs -------------------------
(***************************************************************************)
(* Proofs about EnvLifecycle for any Environments, projects, naming of     *)
(* namespaces (NamespaceOf need not be injective), baseline documents and  *)
(* bounds: types, that no pass puts a graph where the baseline is not      *)
(* whole, that the finalizer is given up last, and that no Environment is  *)
(* forgotten.                                                              *)
(*                                                                         *)
(* Isolated is about one call of a pass, but what the pass did before may  *)
(* have been undone by then: it rests on the pass having stamped all it is *)
(* no longer to do unless the namespace is going (Stamping), whatever      *)
(* other passes, of which there is none at the time (Single), and the      *)
(* namespace controller did meanwhile.                                     *)
(***************************************************************************)
EXTENDS EnvLifecycle, TLAPS

\* A pass works on an Environment that existed when it was read.
Busy == \A e \in Envs : pc[e] # "idle" => view[e].state # "absent"

\* What is not stale is the latest version.
CacheOK == \A e \in Envs : e \notin stale => seen[e] = obj[e]
ViewOK  == \A e \in Envs : pc[e] # "idle" /\ e \notin viewStale => view[e] = obj[e]

\* One worker.
Single == \A e, f \in Envs : pc[e] # "idle" /\ pc[f] # "idle" => e = f

-----------------------------------------------------------------------------
\* An object that is there has a spec of the user's.
LEMMA ObjectSpec ==
    ASSUME NEW o \in Objects, o.state # "absent"
    PROVE  /\ o.state \in {"live", "deleting"} /\ o.spec \in Specs
           /\ o.final \in {"yes", "no"} /\ o.gen \in 0 .. MaxGen
           /\ o.spec.project \in Projects /\ o.spec.graph \in Graphs
           /\ o.spec.from \in Parents
    BY SpecsAssumption DEF Objects, Absent, EnvSpec

\* A pass works in one of the namespaces.
LEMMA HereType ==
    ASSUME TypeOK, Busy, NEW e \in Envs, pc[e] # "idle"
    PROVE  /\ Here(e) \in Namespaces /\ view[e] \in Objects /\ view[e].state # "absent"
           /\ view[e].spec \in Specs
    <1>1. view[e] \in Objects /\ view[e].state # "absent"
        BY DEF TypeOK, Busy
    <1> QED BY <1>1, ObjectSpec, SpecsAssumption DEF Here, NsOf, NamespaceFor

\* Writing an object of the right type keeps the types of the API server.
LEMMA WrittenType ==
    ASSUME TypeOK, NEW e \in Envs, NEW o \in Objects, NEW st \in Statuses, Written(e, o, st)
    PROVE  obj' \in [Envs -> Objects] /\ status' \in [Envs -> Statuses] /\ stale' \subseteq Envs
    BY DEF TypeOK, Written

\* The ends of a pass.
LEMMA DoneType ==
    ASSUME TypeOK, NEW e \in Envs, Done(e)
    PROVE  /\ pc' \in [Envs -> Steps] /\ view' \in [Envs -> Objects]
           /\ viewStale' \subseteq Envs /\ todo' \subseteq Docs
    BY DEF TypeOK, Done, Steps, Objects

LEMMA RetryType ==
    ASSUME TypeOK, NEW e \in Envs, Retry(e)
    PROVE  /\ pc' \in [Envs -> Steps] /\ view' \in [Envs -> Objects]
           /\ viewStale' \subseteq Envs /\ todo' \subseteq Docs /\ queued' \subseteq Envs
    BY DoneType DEF TypeOK, Retry

LEMMA ContinueType ==
    ASSUME TypeOK, NEW e \in Envs, NEW step \in Steps, Continue(e, step)
    PROVE  /\ pc' \in [Envs -> Steps] /\ view' \in [Envs -> Objects]
           /\ viewStale' \subseteq Envs /\ queued' \subseteq Envs
    BY DEF TypeOK, Continue

-----------------------------------------------------------------------------
\* What users, informers, the namespace controller and the Stack controller do
\* keeps the types.
LEMMA OutsideType ==
    ASSUME TypeOK,
           \/ User \/ \E e \in Envs : DeliverEnv(e)
           \/ \E n \in Namespaces : \/ NamespaceController(n) \/ DeliverNamespace(n)
                                    \/ DeliverStack(n) \/ CloneStep(n)
    PROVE  TypeOK'
<1> USE BoundsAssumption
<1>n. NoStatus \in Statuses /\ Absent \in Objects /\ NoStack \in Stacks
    BY SpecsAssumption DEF NoStatus, Statuses, Objects, NoStack, Stacks
<1>w. ASSUME NEW e \in Envs, NEW o \in Objects, NEW st \in Statuses, UserWrites(e, o, st),
             deletes' \in 0 .. MaxDeletes
      PROVE  TypeOK'
    BY <1>w, WrittenType DEF UserWrites, TypeOK, nsVars
<1>1. ASSUME NEW e \in Envs, NEW s \in Specs, CreateEnv(e, s) PROVE TypeOK'
    <2>1. [state |-> "live", spec |-> s, final |-> "no", gen |-> 1] \in Objects
        BY DEF Objects
    <2> QED BY <1>1, <1>n, <1>w, <2>1 DEF CreateEnv, TypeOK
<1>2. ASSUME NEW e \in Envs, NEW s \in Specs, EditEnv(e, s) PROVE TypeOK'
    <2>1. obj[e] \in Objects /\ obj[e].state # "absent" /\ status[e] \in Statuses
        BY <1>2 DEF EditEnv, TypeOK
    <2>r. obj[e] \in [state : {"live", "deleting"}, spec : Specs, final : {"yes", "no"},
                      gen : 0 .. MaxGen]
        BY <2>1 DEF Objects, Absent
    <2>g. obj[e].gen + 1 \in 0 .. MaxGen
        BY <1>2, <2>r DEF EditEnv
    <2>2. [obj[e] EXCEPT !.spec = s, !.gen = @ + 1] \in Objects
        BY <2>r, <2>g DEF Objects
    <2> QED BY <1>2, <1>w, <2>1, <2>2 DEF EditEnv, TypeOK
<1>3. ASSUME NEW e \in Envs, DeleteEnv(e) PROVE TypeOK'
    <2>1. obj[e] \in Objects /\ obj[e].state # "absent" /\ status[e] \in Statuses
        BY <1>3 DEF DeleteEnv, TypeOK
    <2>2. [obj[e] EXCEPT !.state = "deleting"] \in Objects
        BY <2>1 DEF Objects, Absent
    <2>3. deletes' \in 0 .. MaxDeletes
        BY <1>3 DEF DeleteEnv, TypeOK
    <2> QED BY <1>3, <1>n, <1>w, <2>1, <2>2, <2>3 DEF DeleteEnv
<1>4. ASSUME NEW n \in Namespaces, NEW g \in Graphs, WriteStack(n, g) PROVE TypeOK'
    <2>1. /\ puts' \in 0 .. MaxPuts
          /\ stack' = [stack EXCEPT ![n] = NoStack] \/ stack' = [stack EXCEPT ![n].graph = g]
        BY <1>4 DEF WriteStack, handlePutStack, handleDeleteStack, TypeOK
    <2>2. stack' \in [Namespaces -> Stacks]
        BY <1>n, <2>1 DEF TypeOK, Stacks
    <2> QED BY <1>4, <2>1, <2>2 DEF WriteStack, TypeOK, apiVars, cacheVars, passVars
<1>5. ASSUME NEW n \in Namespaces, DropContent(n) PROVE TypeOK'
    BY <1>5, <1>n DEF DropContent, TypeOK, apiVars, cacheVars, passVars, boundVars
<1>6. ASSUME NEW n \in Namespaces, DropNamespace(n) PROVE TypeOK'
    BY <1>6 DEF DropNamespace, TypeOK, apiVars, cacheVars, passVars, boundVars, NsPhases
<1>7. ASSUME NEW e \in Envs, DeliverEnv(e) PROVE TypeOK'
    BY <1>7 DEF DeliverEnv, TypeOK, apiVars, nsVars, passVars, boundVars
<1>8. ASSUME NEW n \in Namespaces, DeliverNamespace(n) PROVE TypeOK'
    BY <1>8 DEF DeliverNamespace, TypeOK, apiVars, nsVars, passVars, boundVars
<1>9. ASSUME NEW n \in Namespaces, DeliverStack(n) PROVE TypeOK'
    BY <1>9 DEF DeliverStack, TypeOK, apiVars, nsVars, passVars, boundVars
<1>10. ASSUME NEW n \in Namespaces, CloneStarts(n) \/ CloneEnds(n) PROVE TypeOK'
    BY <1>10 DEF CloneStarts, CloneEnds, TypeOK, apiVars, nsVars, cacheVars, passVars, boundVars
<1>11. ASSUME NEW n \in Namespaces, NEW a \in Artifacts, CloneMakes(n, a) PROVE TypeOK'
    BY <1>11 DEF CloneMakes, TypeOK, apiVars, nsVars, cacheVars, passVars, boundVars
<1>12. ASSUME User PROVE TypeOK'
    BY <1>1, <1>2, <1>3, <1>4, <1>12 DEF User
<1>13. ASSUME NEW n \in Namespaces, NamespaceController(n) \/ CloneStep(n) PROVE TypeOK'
    BY <1>5, <1>6, <1>10, <1>11, <1>13 DEF NamespaceController, CloneStep
<1> QED BY <1>7, <1>8, <1>9, <1>12, <1>13

\* So does the worker.
LEMMA WorkerType ==
    ASSUME TypeOK, Busy, ViewOK, NEW e \in Envs, Worker(e)
    PROVE  TypeOK'
<1> USE BoundsAssumption
<1>n. NoStatus \in Statuses /\ Absent \in Objects /\ NoStack \in Stacks
    BY SpecsAssumption DEF NoStatus, Statuses, Objects, NoStack, Stacks
<1>s. {"idle", "finalizer", "namespace", "baseline", "stack", "status", "snapshot", "content",
       "delete", "unfinalize"} \subseteq Steps
    BY DEF Steps
<1>t. obj[e] \in Objects /\ view[e] \in Objects /\ status[e] \in Statuses
    BY DEF TypeOK
<1>v. ASSUME pc[e] # "idle"
      PROVE  view[e] \in [state : {"live", "deleting"}, spec : Specs, final : {"yes", "no"},
                          gen : 0 .. MaxGen]
    BY <1>t, <1>v DEF Busy, Objects, Absent
<1>1. CASE StartReconcile(e)
    <2>1. FirstStep(seen[e]) \in Steps
        BY <1>s DEF FirstStep
    <2>2. pc' \in [Envs -> Steps] /\ view' \in [Envs -> Objects]
        BY <1>1, <2>1 DEF StartReconcile, TypeOK, passVars
    <2> QED BY <1>1, <2>2 DEF StartReconcile, TypeOK, apiVars, nsVars, cacheVars, boundVars,
            passVars
<1>2. CASE AddFinalizer(e)
    <2>1. CASE e \in viewStale
        <3>1. Retry(e) /\ UNCHANGED <<apiVars, stale>>
            BY <1>2, <2>1 DEF AddFinalizer
        <3> QED BY <1>2, <3>1, RetryType DEF AddFinalizer, TypeOK, apiVars, nsVars, boundVars
    <2>2. CASE e \notin viewStale
        <3>1. [obj[e] EXCEPT !.final = "yes"] \in Objects
            BY <1>2, <1>v, <2>2 DEF AddFinalizer, ViewOK, Objects
        <3>2. Written(e, [obj[e] EXCEPT !.final = "yes"], status[e])
            BY <1>2, <2>2 DEF AddFinalizer
        <3>3. view' \in [Envs -> Objects] /\ pc' \in [Envs -> Steps]
            BY <1>2, <1>v, <1>s, <2>2 DEF AddFinalizer, Objects, TypeOK
        <3>4. UNCHANGED <<viewStale, queued, todo>>
            BY <1>2, <2>2 DEF AddFinalizer
        <3> QED BY <1>2, <1>t, <3>1, <3>2, <3>3, <3>4, WrittenType
                DEF AddFinalizer, TypeOK, nsVars, boundVars
    <2> QED BY <2>1, <2>2
<1>3. CASE EnsureNamespace(e)
    <2>1. ns' \in [Namespaces -> NsPhases]
        BY <1>3 DEF EnsureNamespace, TypeOK, NsPhases
    <2>2. /\ pc' \in [Envs -> Steps] /\ view' \in [Envs -> Objects]
          /\ viewStale' \subseteq Envs /\ todo' \subseteq Docs /\ queued' \subseteq Envs
        BY <1>3, <1>s, RetryType, ContinueType DEF EnsureNamespace, ToStamp
    <2> QED BY <1>3, <2>1, <2>2 DEF EnsureNamespace, TypeOK, apiVars, cacheVars, boundVars
<1>4. ASSUME NEW d \in Docs, ApplyDocument(e, d) PROVE TypeOK'
    <2>1. Here(e) \in Namespaces
        BY <1>4, HereType DEF ApplyDocument
    <2>2. stamped' \subseteq Namespaces \X Docs
        BY <1>4, <2>1 DEF ApplyDocument, TypeOK
    <2>3. /\ pc' \in [Envs -> Steps] /\ view' \in [Envs -> Objects]
          /\ viewStale' \subseteq Envs /\ todo' \subseteq Docs /\ queued' \subseteq Envs
        BY <1>4, RetryType DEF ApplyDocument, TypeOK
    <2> QED BY <1>4, <2>2, <2>3 DEF ApplyDocument, TypeOK, apiVars, cacheVars, boundVars
<1>5. CASE StampDone(e)
    <2>1. /\ pc' \in [Envs -> Steps] /\ view' \in [Envs -> Objects]
          /\ viewStale' \subseteq Envs /\ queued' \subseteq Envs
        BY <1>5, <1>s, ContinueType DEF StampDone
    <2> QED BY <1>5, <2>1 DEF StampDone, TypeOK, apiVars, nsVars, cacheVars, boundVars
<1>6. CASE EnsureStack(e)
    <2>1. Here(e) \in Namespaces /\ view[e].spec \in Specs
        BY <1>6, HereType DEF EnsureStack
    <2>2. DesiredStack(e) \in Stacks
        BY <2>1, SpecsAssumption DEF DesiredStack, Stacks, TypeOK, EnvSpec
    <2>3. stack' \in [Namespaces -> Stacks]
        BY <1>6, <2>1, <2>2 DEF EnsureStack, TypeOK
    <2>4. /\ pc' \in [Envs -> Steps] /\ view' \in [Envs -> Objects]
          /\ viewStale' \subseteq Envs /\ todo' \subseteq Docs /\ queued' \subseteq Envs
        BY <1>6, <1>s, RetryType, ContinueType DEF EnsureStack, TypeOK
    <2> QED BY <1>6, <2>3, <2>4 DEF EnsureStack, TypeOK, apiVars, cacheVars, boundVars
<1>7. CASE UpdateEnvStatus(e)
    <2>1. NewStatus(e) \in Statuses
        BY <1>7, <1>v DEF UpdateEnvStatus, NewStatus, Statuses
    <2>2. obj' \in [Envs -> Objects] /\ status' \in [Envs -> Statuses] /\ stale' \subseteq Envs
        BY <1>7, <1>t, <2>1, WrittenType DEF UpdateEnvStatus, TypeOK, apiVars
    <2>3. /\ pc' \in [Envs -> Steps] /\ view' \in [Envs -> Objects]
          /\ viewStale' \subseteq Envs /\ todo' \subseteq Docs /\ queued' \subseteq Envs
        BY <1>7, RetryType, DoneType DEF UpdateEnvStatus, TypeOK
    <2> QED BY <1>7, <2>2, <2>3 DEF UpdateEnvStatus, TypeOK, nsVars, boundVars
<1>8. ASSUME NEW a \in Artifacts, GcArtifacts(e, a) PROVE TypeOK'
    <2>1. /\ pc' \in [Envs -> Steps] /\ view' \in [Envs -> Objects]
          /\ viewStale' \subseteq Envs /\ queued' \subseteq Envs
        BY <1>8, <1>s, ContinueType DEF GcArtifacts
    <2>2. artifacts' \in [Namespaces -> SUBSET Artifacts]
        BY <1>8 DEF GcArtifacts, TypeOK
    <2> QED BY <1>8, <2>1, <2>2 DEF GcArtifacts, TypeOK, apiVars, nsVars, cacheVars, boundVars
<1>9. CASE DeleteNamespace(e)
    <2>1. /\ pc' \in [Envs -> Steps] /\ view' \in [Envs -> Objects]
          /\ viewStale' \subseteq Envs /\ queued' \subseteq Envs
        BY <1>9, <1>s, ContinueType DEF DeleteNamespace
    <2>2. ns' \in [Namespaces -> NsPhases]
        BY <1>9 DEF DeleteNamespace, TypeOK, NsPhases
    <2> QED BY <1>9, <2>1, <2>2 DEF DeleteNamespace, TypeOK, apiVars, cacheVars, boundVars
<1>10. CASE RemoveFinalizer(e)
    <2>1. obj' \in [Envs -> Objects] /\ status' \in [Envs -> Statuses] /\ stale' \subseteq Envs
        BY <1>10, <1>n, WrittenType DEF RemoveFinalizer, TypeOK, apiVars
    <2>2. /\ pc' \in [Envs -> Steps] /\ view' \in [Envs -> Objects]
          /\ viewStale' \subseteq Envs /\ todo' \subseteq Docs /\ queued' \subseteq Envs
        BY <1>10, RetryType, DoneType DEF RemoveFinalizer, TypeOK
    <2> QED BY <1>10, <2>1, <2>2 DEF RemoveFinalizer, TypeOK, nsVars, boundVars
<1> QED BY <1>1, <1>2, <1>3, <1>4, <1>5, <1>6, <1>7, <1>8, <1>9, <1>10 DEF Worker

\* So do failed calls and restarts.
LEMMA FailureType ==
    ASSUME TypeOK, Restart \/ \E e \in Envs : CallFails(e)
    PROVE  TypeOK'
<1>1. ASSUME NEW e \in Envs, CallFails(e) PROVE TypeOK'
    <2>1. faults' \in 0 .. MaxFaults
        BY <1>1, BoundsAssumption DEF CallFails, TypeOK
    <2> QED BY <1>1, <2>1, RetryType DEF CallFails, TypeOK, apiVars, nsVars, cacheVars
<1>2. CASE Restart
    <2>1. faults' \in 0 .. MaxFaults
        BY <1>2, BoundsAssumption DEF Restart, TypeOK
    <2>2. pc' \in [Envs -> Steps] /\ view' \in [Envs -> Objects]
        BY <1>2 DEF Restart, Steps, Objects
    <2> QED BY <1>2, <2>1, <2>2 DEF Restart, TypeOK, apiVars, nsVars
<1> QED BY <1>1, <1>2
-----------------------------------------------------------------------------
\* What a pass knows of its Environment.
Sound == Busy /\ Single /\ CacheOK /\ ViewOK

\* A step that leaves Environments alone and starts no pass.
LEMMA SoundKept ==
    ASSUME Sound, UNCHANGED <<obj, seen, stale, view, viewStale>>,
           \A e \in Envs : pc'[e] # "idle" => pc[e] # "idle"
    PROVE  Sound'
    BY DEF Sound, Busy, Single, CacheOK, ViewOK

\* The end of a pass that wrote nothing, or the next version.
LEMMA SoundDone ==
    ASSUME TypeOK, Sound, NEW e \in Envs, pc[e] # "idle", Done(e), UNCHANGED seen,
           \/ UNCHANGED <<obj, stale>>
           \/ \E o : obj' = [obj EXCEPT ![e] = o] /\ stale' = stale \cup {e}
    PROVE  Sound'
<1>1. \A f \in Envs : pc'[f] = "idle"
    BY DEF Done, Sound, Single, TypeOK
<1>2. CacheOK'
    BY DEF Sound, CacheOK, TypeOK
<1> QED BY <1>1, <1>2 DEF Sound, Busy, Single, ViewOK

\* Every step keeps it.
LEMMA SoundStep == TypeOK /\ Sound /\ [Next]_vars => Sound'
<1> SUFFICES ASSUME TypeOK, Sound, [Next]_vars PROVE Sound'
    OBVIOUS
<1>1. ASSUME NEW e \in Envs, NEW o, NEW st, UserWrites(e, o, st) PROVE Sound'
    <2>1. UNCHANGED <<seen, pc, view>> /\ obj' = [obj EXCEPT ![e] = o] /\ stale' = stale \cup {e}
          /\ viewStale' = IF pc[e] = "idle" THEN viewStale ELSE viewStale \cup {e}
        BY <1>1 DEF UserWrites, Written
    <2>2. CacheOK'
        BY <2>1 DEF Sound, CacheOK, TypeOK
    <2>3. ViewOK'
        BY <2>1 DEF Sound, ViewOK, TypeOK
    <2> QED BY <2>1, <2>2, <2>3 DEF Sound, Busy, Single
<1>2. ASSUME NEW e \in Envs, NEW s \in Specs, CreateEnv(e, s) \/ EditEnv(e, s) \/ DeleteEnv(e)
      PROVE  Sound'
    BY <1>1, <1>2 DEF CreateEnv, EditEnv, DeleteEnv
<1>3. ASSUME NEW n \in Namespaces, NEW g \in Graphs,
             \/ WriteStack(n, g) \/ NamespaceController(n)
             \/ DeliverNamespace(n) \/ DeliverStack(n) \/ CloneStep(n)
      PROVE  Sound'
    BY <1>3, SoundKept DEF WriteStack, NamespaceController, DropContent, DropNamespace,
       DeliverNamespace, DeliverStack, CloneStep, CloneStarts, CloneMakes, CloneEnds,
       apiVars, cacheVars, passVars
<1>4. ASSUME NEW e \in Envs, DeliverEnv(e) PROVE Sound'
    BY <1>4 DEF DeliverEnv, Sound, Busy, Single, CacheOK, ViewOK, TypeOK, apiVars, passVars
<1>5. ASSUME NEW e \in Envs, StartReconcile(e) PROVE Sound'
    <2>1. CASE seen[e].state = "absent"
        BY <1>5, <2>1, SoundKept DEF StartReconcile, passVars, apiVars, cacheVars
    <2>2. CASE seen[e].state # "absent"
        <3>1. /\ pc' = [pc EXCEPT ![e] = FirstStep(seen[e])]
              /\ view' = [view EXCEPT ![e] = seen[e]] /\ viewStale' = stale \cap {e}
              /\ UNCHANGED <<obj, seen, stale>> /\ \A f \in Envs : pc[f] = "idle"
            BY <1>5, <2>2 DEF StartReconcile, apiVars, cacheVars
        <3>2. \A f \in Envs : f # e => pc'[f] = "idle"
            BY <3>1 DEF TypeOK
        <3>3. view'[e] = seen[e]
            BY <3>1 DEF TypeOK
        <3> QED BY <2>2, <3>1, <3>2, <3>3 DEF Sound, Busy, Single, CacheOK, ViewOK
    <2> QED BY <2>1, <2>2
<1>6. ASSUME NEW e \in Envs, pc[e] # "idle", Retry(e), UNCHANGED <<obj, stale, seen>>
      PROVE  Sound'
    BY <1>6, SoundDone DEF Retry
<1>7. ASSUME NEW e \in Envs, AddFinalizer(e) PROVE Sound'
    <2>1. CASE e \in viewStale
        BY <1>6, <1>7, <2>1 DEF AddFinalizer, apiVars
    <2>2. CASE e \notin viewStale
        <3>1. /\ obj' = [obj EXCEPT ![e] = [obj[e] EXCEPT !.final = "yes"]]
              /\ view' = [view EXCEPT ![e].final = "yes"]
              /\ pc' = [pc EXCEPT ![e] = "namespace"] /\ stale' = stale \cup {e}
              /\ UNCHANGED <<seen, viewStale>> /\ pc[e] = "finalizer"
            BY <1>7, <2>2 DEF AddFinalizer, Written
        <3>2. view[e] = obj[e] /\ view[e].state # "absent" /\ view[e] \in Objects
            BY <2>2, <3>1 DEF Sound, ViewOK, Busy, TypeOK
        <3>3. view'[e] = obj'[e] /\ view'[e].state = view[e].state
            BY <3>1, <3>2 DEF TypeOK, Objects, Absent
        <3>4. \A f \in Envs : f # e => pc'[f] = "idle"
            BY <3>1 DEF TypeOK, Sound, Single
        <3>5. CacheOK'
            BY <3>1 DEF Sound, CacheOK, TypeOK
        <3> QED BY <3>2, <3>3, <3>4, <3>5 DEF Sound, Busy, Single, ViewOK
    <2> QED BY <2>1, <2>2
<1>8. ASSUME NEW e \in Envs, NEW step, pc[e] # "idle", Continue(e, step),
             UNCHANGED <<obj, stale, seen>>
      PROVE  Sound'
    BY <1>8, SoundKept DEF Continue, TypeOK
<1>9. ASSUME NEW e \in Envs,
             EnsureNamespace(e) \/ StampDone(e) \/ EnsureStack(e) \/ DeleteNamespace(e)
      PROVE  Sound'
    BY <1>6, <1>8, <1>9 DEF EnsureNamespace, StampDone, EnsureStack, DeleteNamespace,
       apiVars, cacheVars
<1>10. ASSUME NEW e \in Envs, NEW a \in Artifacts, GcArtifacts(e, a) PROVE Sound'
    BY <1>8, <1>10 DEF GcArtifacts, Artifacts, apiVars, cacheVars
<1>11. ASSUME NEW e \in Envs, NEW d \in Docs, ApplyDocument(e, d) PROVE Sound'
    BY <1>6, <1>11, SoundKept DEF ApplyDocument, apiVars, cacheVars
<1>12. ASSUME NEW e \in Envs, UpdateEnvStatus(e) PROVE Sound'
    BY <1>6, <1>12, SoundDone DEF UpdateEnvStatus, Written, apiVars
<1>13. ASSUME NEW e \in Envs, RemoveFinalizer(e) PROVE Sound'
    BY <1>6, <1>13, SoundDone DEF RemoveFinalizer, Written, apiVars
<1>14. ASSUME NEW e \in Envs, CallFails(e) PROVE Sound'
    BY <1>6, <1>14 DEF CallFails, apiVars, cacheVars
<1>15. CASE Restart
    BY <1>15 DEF Restart, Sound, Busy, Single, CacheOK, ViewOK, apiVars
<1>16. CASE UNCHANGED vars
    BY <1>16, SoundKept DEF vars, apiVars, cacheVars, passVars
<1>17. CASE User
    <2>1. CASE \E e \in Envs : \/ \E s \in Specs : CreateEnv(e, s) \/ EditEnv(e, s)
                              \/ DeleteEnv(e)
        <3>1. CASE \E e \in Envs : DeleteEnv(e)
            BY <1>1, <3>1 DEF DeleteEnv
        <3> QED BY <1>2, <2>1, <3>1
    <2> QED BY <1>3, <1>17, <2>1 DEF User
<1>18. ASSUME NEW e \in Envs, Worker(e) PROVE Sound'
    BY <1>5, <1>7, <1>9, <1>10, <1>11, <1>12, <1>13, <1>18 DEF Worker
<1>19. ASSUME NEW n \in Namespaces,
              NamespaceController(n) \/ DeliverNamespace(n) \/ DeliverStack(n) \/ CloneStep(n)
       PROVE  Sound'
    BY <1>3, <1>19, SpecsAssumption
<1> QED BY <1>4, <1>14, <1>15, <1>16, <1>17, <1>18, <1>19 DEF Next

\* Every step keeps the types.
LEMMA TypeStep == TypeOK /\ Sound /\ [Next]_vars => TypeOK'
<1> SUFFICES ASSUME TypeOK, Sound, [Next]_vars PROVE TypeOK'
    OBVIOUS
<1>1. CASE \E e \in Envs : Worker(e) \/ CallFails(e)
    BY <1>1, WorkerType, FailureType DEF Sound
<1>2. CASE Restart
    BY <1>2, FailureType
<1>3. CASE UNCHANGED vars
    BY <1>3 DEF TypeOK, vars, apiVars, nsVars, cacheVars, passVars, boundVars
<1> QED BY <1>1, <1>2, <1>3, OutsideType DEF Next

\* It all holds at first.
LEMMA InitSound == Init => TypeOK /\ Sound
<1> SUFFICES ASSUME Init PROVE TypeOK /\ Sound
    OBVIOUS
<1>1. Absent \in Objects /\ NoStatus \in Statuses /\ NoStack \in Stacks
    BY SpecsAssumption, BoundsAssumption
    DEF Objects, Statuses, NoStatus, Stacks, NoStack
<1>2. /\ obj \in [Envs -> Objects] /\ seen \in [Envs -> Objects]
      /\ view \in [Envs -> Objects] /\ status \in [Envs -> Statuses]
    BY <1>1 DEF Init
<1>3. /\ ns \in [Namespaces -> NsPhases] /\ nsSeen \in [Namespaces -> NsPhases]
      /\ pc \in [Envs -> Steps]
    BY DEF Init, NsPhases, Steps
<1>4. /\ stack \in [Namespaces -> Stacks] /\ stackSeen \in [Namespaces -> Stacks]
      /\ artifacts \in [Namespaces -> SUBSET Artifacts]
    BY <1>1 DEF Init
<1>5. deletes \in 0 .. MaxDeletes /\ puts \in 0 .. MaxPuts /\ faults \in 0 .. MaxFaults
    BY BoundsAssumption DEF Init
<1>6. TypeOK
    BY <1>2, <1>3, <1>4, <1>5 DEF Init, TypeOK
<1> QED BY <1>6 DEF Init, Sound, Busy, Single, CacheOK, ViewOK

\* Every variable of the Environment controller has its type in every reachable
\* state, and a pass works on one Environment, at its latest version unless it
\* was written since (environment_controller.go: Reconcile).
THEOREM TypeCorrect == Spec => []TypeOK
<1>1. Init => TypeOK /\ Sound
    BY InitSound
<1>2. TypeOK /\ Sound /\ [Next]_vars => TypeOK'
    BY TypeStep
<1>3. TypeOK /\ Sound /\ [Next]_vars => Sound'
    BY SoundStep
<1> QED BY <1>1, <1>2, <1>3, PTL DEF Spec

-----------------------------------------------------------------------------
\* The pass that is running has stamped all it is no longer to do.
Stamped(n, ds) == ns[n] = "active" => \A d \in ds : <<n, d>> \in stamped
Stamping ==
    \A e \in Envs : /\ pc[e] = "baseline" => Stamped(Here(e), Docs \ todo)
                    /\ pc[e] = "stack" => Stamped(Here(e), Docs)

\* Before the finalizer goes, the namespace does.
Gone == \A e \in Envs : pc[e] = "unfinalize" => ns[Here(e)] # "active"

Iso == Stamping /\ Gone

\* A step that leaves namespaces alone and brings no pass to a step that
\* rests on them.
LEMMA IsoKept ==
    ASSUME Iso, UNCHANGED nsVars,
           \A e \in Envs : pc'[e] \in {"baseline", "stack", "unfinalize"}
                => pc'[e] = pc[e] /\ UNCHANGED <<view[e], todo>>
    PROVE  Iso'
    BY DEF Iso, Stamping, Stamped, Gone, Here, nsVars

\* The end of a pass, with namespaces as they were.
LEMMA IsoDone ==
    ASSUME TypeOK, Sound, Iso, NEW e \in Envs, pc[e] # "idle", Done(e), UNCHANGED nsVars
    PROVE  Iso'
<1>1. \A f \in Envs : pc'[f] = "idle"
    BY DEF Done, Sound, Single, TypeOK
<1> QED BY <1>1, IsoKept

\* Where the other Environments are while one has a pass.
LEMMA Alone ==
    ASSUME TypeOK, Sound, NEW e \in Envs, pc[e] # "idle", NEW step, Continue(e, step)
    PROVE  /\ pc'[e] = step /\ \A f \in Envs : f # e => pc'[f] = "idle"
           /\ Here(e)' = Here(e) /\ Here(e) \in Namespaces
    BY HereType DEF TypeOK, Sound, Single, Continue, Here

\* What is not the worker's keeps it.
LEMMA IsoOutside ==
    ASSUME TypeOK, Sound, Iso,
           \/ User \/ \E e \in Envs : DeliverEnv(e) \/ CallFails(e)
           \/ \E n \in Namespaces : \/ NamespaceController(n) \/ DeliverNamespace(n)
                                    \/ DeliverStack(n) \/ CloneStep(n)
           \/ Restart \/ UNCHANGED vars
    PROVE  Iso'
<1>1. ASSUME UNCHANGED <<nsVars, pc, view, todo>> PROVE Iso'
    BY <1>1, IsoKept
<1>2. ASSUME NEW e \in Envs, NEW s \in Specs, CreateEnv(e, s) \/ EditEnv(e, s) PROVE Iso'
    BY <1>1, <1>2 DEF CreateEnv, EditEnv, UserWrites
<1>3. ASSUME NEW e \in Envs, DeleteEnv(e) PROVE Iso'
    BY <1>1, <1>3 DEF DeleteEnv, UserWrites
<1>4. ASSUME NEW n \in Namespaces, NEW g \in Graphs, WriteStack(n, g) PROVE Iso'
    <2>1. UNCHANGED <<ns, stamped, pc, view, todo>>
        BY <1>4 DEF WriteStack, passVars
    <2> QED BY <2>1 DEF Iso, Stamping, Stamped, Gone, Here
<1>5. ASSUME NEW n \in Namespaces, DropContent(n) PROVE Iso'
    <2>1. /\ UNCHANGED <<ns, pc, view, todo>> /\ ns[n] # "active"
          /\ \A m \in Namespaces, d \in Docs :
                m # n /\ <<m, d>> \in stamped => <<m, d>> \in stamped'
        BY <1>5 DEF DropContent, passVars, TypeOK
    <2>2. Gone'
        BY <2>1 DEF Iso, Gone, Here
    <2>3. \A e \in Envs : pc[e] # "idle" => Here(e) \in Namespaces
        BY HereType DEF Sound
    <2>4. Stamping'
        BY <2>1, <2>3 DEF Iso, Stamping, Stamped, Here
    <2> QED BY <2>2, <2>4 DEF Iso
<1>6. ASSUME NEW n \in Namespaces, DropNamespace(n) PROVE Iso'
    <2>1. /\ UNCHANGED <<stamped, pc, view, todo>> /\ ns'[n] = "none"
          /\ \A m \in Namespaces : m # n => ns'[m] = ns[m]
        BY <1>6 DEF DropNamespace, passVars, TypeOK
    <2>2. \A e \in Envs : pc[e] # "idle" => Here(e) \in Namespaces
        BY HereType DEF Sound
    <2> QED BY <2>1, <2>2 DEF Iso, Stamping, Stamped, Gone, Here
<1>7. ASSUME NEW e \in Envs, CallFails(e) PROVE Iso'
    BY <1>7, IsoDone DEF CallFails, Retry
<1>8. ASSUME NEW n \in Namespaces, CloneStep(n) PROVE Iso'
    BY <1>1, <1>8 DEF CloneStep, CloneStarts, CloneMakes, CloneEnds, passVars
<1>9. CASE Restart
    BY <1>9, IsoKept DEF Restart
<1>10. CASE UNCHANGED vars
    BY <1>1, <1>10 DEF vars, passVars
<1>11. CASE \E e \in Envs : DeliverEnv(e)
    BY <1>1, <1>11 DEF DeliverEnv, passVars
<1>12. CASE \E n \in Namespaces : DeliverNamespace(n) \/ DeliverStack(n)
    BY <1>1, <1>12 DEF DeliverNamespace, DeliverStack, passVars
<1>13. CASE User
    BY <1>2, <1>3, <1>4, <1>13 DEF User
<1> QED BY <1>5, <1>6, <1>7, <1>8, <1>9, <1>10, <1>11, <1>12, <1>13 DEF NamespaceController

\* Each step of the worker keeps it.
LEMMA IsoWorker ==
    ASSUME TypeOK, Sound, Iso, NEW e \in Envs, Worker(e)
    PROVE  Iso'
<1>1. ASSUME pc[e] # "idle", Retry(e), UNCHANGED nsVars PROVE Iso'
    BY <1>1, IsoDone DEF Retry
<1>2. CASE StartReconcile(e)
    <2>1. \A f \in Envs : pc[f] = "idle"
        BY <1>2 DEF StartReconcile
    <2>2. FirstStep(seen[e]) \notin {"baseline", "stack", "unfinalize"}
        BY DEF FirstStep
    <2>3. \A f \in Envs : pc'[f] \notin {"baseline", "stack", "unfinalize"}
        BY <1>2, <2>1, <2>2 DEF StartReconcile, passVars, TypeOK
    <2> QED BY <1>2, <2>3, IsoKept DEF StartReconcile
<1>3. CASE AddFinalizer(e)
    <2>1. CASE e \in viewStale
        BY <1>1, <1>3, <2>1 DEF AddFinalizer
    <2>2. CASE e \notin viewStale
        <3>1. \A f \in Envs : pc'[f] \notin {"baseline", "stack", "unfinalize"}
            BY <1>3, <2>2 DEF AddFinalizer, TypeOK, Sound, Single
        <3> QED BY <1>3, <3>1, IsoKept DEF AddFinalizer
    <2> QED BY <2>1, <2>2
<1>4. CASE EnsureNamespace(e)
    <2>1. CASE nsSeen[Here(e)] = "none" /\ ns[Here(e)] # "none"
        BY <1>1, <1>4, <2>1 DEF EnsureNamespace, nsVars
    <2>2. CASE ~(nsSeen[Here(e)] = "none" /\ ns[Here(e)] # "none")
        <3>1. /\ pc[e] = "namespace" /\ Continue(e, "baseline") /\ todo' = Docs
              /\ UNCHANGED <<stamped, stack>>
              /\ \/ ns' = ns
                 \/ ns' = [ns EXCEPT ![Here(e)] = "active"] /\ ns[Here(e)] = "none"
            BY <1>4, <2>2 DEF EnsureNamespace, ToStamp
        <3>2. /\ pc'[e] = "baseline" /\ \A f \in Envs : f # e => pc'[f] = "idle"
              /\ Here(e) \in Namespaces
            BY <3>1, Alone
        <3> QED BY <3>1, <3>2 DEF Iso, Stamping, Stamped, Gone
    <2> QED BY <2>1, <2>2
<1>5. ASSUME NEW d \in Docs, ApplyDocument(e, d) PROVE Iso'
    <2>1. CASE ns[Here(e)] = "active" \/ <<Here(e), d>> \in stamped
        <3>1. /\ pc[e] = "baseline" /\ stamped' = stamped \cup {<<Here(e), d>>}
              /\ todo' = todo \ {d} /\ UNCHANGED <<pc, view, ns, stack>>
            BY <1>5, <2>1 DEF ApplyDocument
        <3>2. Gone'
            BY <3>1 DEF Iso, Gone, Here
        <3>3. \A f \in Envs : pc'[f] \in {"baseline", "stack"} => f = e
            BY <3>1 DEF Sound, Single
        <3>4. Stamped(Here(e), Docs \ todo)
            BY <3>1 DEF Iso, Stamping
        <3>5. Stamped(Here(e), Docs \ todo)'
            BY <3>1, <3>4 DEF Stamped, Here
        <3> QED BY <3>1, <3>2, <3>3, <3>5 DEF Iso, Stamping
    <2>2. CASE ~(ns[Here(e)] = "active" \/ <<Here(e), d>> \in stamped)
        BY <1>1, <1>5, <2>2 DEF ApplyDocument, nsVars
    <2> QED BY <2>1, <2>2
<1>6. CASE StampDone(e)
    <2>1. PICK step \in {"status", "stack"} : Continue(e, step)
        BY <1>6 DEF StampDone
    <2>2. pc[e] = "baseline" /\ todo = {} /\ UNCHANGED <<nsVars, todo>>
        BY <1>6 DEF StampDone
    <2>3. /\ pc'[e] = step /\ \A f \in Envs : f # e => pc'[f] = "idle"
          /\ Here(e)' = Here(e)
        BY <2>1, <2>2, Alone
    <2>4. Stamped(Here(e), Docs)'
        BY <2>2, <2>3 DEF Iso, Stamping, Stamped, nsVars
    <2> QED BY <2>1, <2>3, <2>4 DEF Iso, Stamping, Gone
<1>7. CASE EnsureStack(e)
    <2>1. CASE Retry(e) /\ UNCHANGED stack
        BY <1>1, <1>7, <2>1 DEF EnsureStack, nsVars
    <2>2. CASE Continue(e, "status")
        <3>1. pc[e] = "stack"
            BY <1>7 DEF EnsureStack
        <3>2. pc'[e] = "status" /\ \A f \in Envs : f # e => pc'[f] = "idle"
            BY <2>2, <3>1, Alone
        <3> QED BY <3>2 DEF Iso, Stamping, Gone
    <2> QED BY <1>7, <2>1, <2>2 DEF EnsureStack
<1>8. CASE UpdateEnvStatus(e)
    BY <1>1, <1>8, IsoDone DEF UpdateEnvStatus
<1>9. ASSUME NEW a \in Artifacts, GcArtifacts(e, a) PROVE Iso'
    <2>1. PICK step \in {"content", "delete"} : Continue(e, step)
        BY <1>9 DEF GcArtifacts
    <2>2. pc[e] # "idle"
        BY <1>9 DEF GcArtifacts, Artifacts
    <2>3. pc'[e] = step /\ \A f \in Envs : f # e => pc'[f] = "idle"
        BY <2>1, <2>2, Alone
    <2> QED BY <1>9, <2>1, <2>3, IsoKept DEF GcArtifacts
<1>10. CASE DeleteNamespace(e)
    <2>1. /\ pc[e] = "delete" /\ Continue(e, "unfinalize")
          /\ ns' = [ns EXCEPT ![Here(e)] = IF @ = "active" THEN "terminating" ELSE @]
        BY <1>10 DEF DeleteNamespace
    <2>2. /\ pc'[e] = "unfinalize" /\ \A f \in Envs : f # e => pc'[f] = "idle"
          /\ Here(e)' = Here(e) /\ Here(e) \in Namespaces
        BY <2>1, Alone
    <2>3. ns'[Here(e)] # "active"
        BY <2>1, <2>2 DEF TypeOK
    <2> QED BY <2>2, <2>3 DEF Iso, Gone, Stamping
<1>11. CASE RemoveFinalizer(e)
    BY <1>1, <1>11, IsoDone DEF RemoveFinalizer
<1> QED BY <1>2, <1>3, <1>4, <1>5, <1>6, <1>7, <1>8, <1>9, <1>10, <1>11 DEF Worker

\* What every reachable state satisfies.
LEMMA Reachable == Spec => [](TypeOK /\ Sound /\ Iso)
<1>1. Init => TypeOK /\ Sound
    BY InitSound
<1>2. Init => Iso
    BY DEF Init, Iso, Stamping, Gone
<1>3. TypeOK /\ Sound /\ Iso /\ [Next]_vars => Iso'
    BY IsoOutside, IsoWorker DEF Next
<1> QED BY <1>1, <1>2, <1>3, TypeStep, SoundStep, PTL DEF Spec

\* The controller puts a graph into a live namespace only over the whole
\* baseline: not when a pass is interrupted anywhere, not when the namespace is
\* deleted and made again behind a lagging cache or written to through the
\* canvas, not when Environments share one (environment_controller.go:
\* stampBaseline before ensureStack).
THEOREM Isolation == Spec => Isolated
<1> DEFINE Put(n) == ns[n] = "active" /\ stack'[n] \notin {stack[n], NoStack} /\ puts' = puts
           Iso1 == \A n \in Namespaces : Put(n) => \A d \in Docs : <<n, d>> \in stamped
<1>1. TypeOK /\ Sound /\ Iso /\ [Next]_vars => Iso1
    <2> SUFFICES ASSUME TypeOK, Sound, Iso, [Next]_vars, NEW n \in Namespaces, Put(n)
                 PROVE  \A d \in Docs : <<n, d>> \in stamped
        OBVIOUS
    <2>1. stack' # stack
        OBVIOUS
    <2>2. ASSUME NEW e \in Envs, EnsureStack(e) PROVE \A d \in Docs : <<n, d>> \in stamped
        <3>1. pc[e] = "stack" /\ stack' = [stack EXCEPT ![Here(e)] = DesiredStack(e)]
            BY <2>1, <2>2 DEF EnsureStack
        <3>2. n = Here(e)
            BY <3>1 DEF TypeOK
        <3> QED BY <3>1, <3>2 DEF Iso, Stamping, Stamped
    <2>3. ASSUME NEW m \in Namespaces, DropContent(m) PROVE FALSE
        BY <2>1, <2>3 DEF DropContent, TypeOK
    <2>4. ASSUME NEW m \in Namespaces, NEW g \in Graphs, WriteStack(m, g) PROVE FALSE
        BY <2>4 DEF WriteStack, TypeOK
    <2>5. CASE \E e \in Envs : Worker(e)
        <3>1. PICK e \in Envs : Worker(e)
            BY <2>5
        <3>2. UNCHANGED stack \/ EnsureStack(e)
            BY <3>1 DEF Worker, StartReconcile, AddFinalizer, EnsureNamespace, ApplyDocument,
               StampDone, UpdateEnvStatus, GcArtifacts, DeleteNamespace, RemoveFinalizer, nsVars
        <3> QED BY <2>1, <2>2, <3>2
    <2>6. CASE User
        <3>1. CASE \E e \in Envs : \/ \E s \in Specs : CreateEnv(e, s) \/ EditEnv(e, s)
                                  \/ DeleteEnv(e)
            BY <2>1, <3>1 DEF CreateEnv, EditEnv, DeleteEnv, UserWrites, nsVars
        <3> QED BY <2>4, <2>6, <3>1 DEF User
    <2>7. ASSUME NEW m \in Namespaces,
                 \/ NamespaceController(m) \/ DeliverNamespace(m) \/ DeliverStack(m)
                 \/ CloneStep(m)
          PROVE  FALSE
        BY <2>1, <2>3, <2>7 DEF NamespaceController, DropNamespace, DeliverNamespace,
           DeliverStack, CloneStep, CloneStarts, CloneMakes, CloneEnds, nsVars
    <2>8. CASE Restart \/ UNCHANGED vars \/ \E e \in Envs : DeliverEnv(e) \/ CallFails(e)
        BY <2>1, <2>8 DEF Restart, vars, nsVars, DeliverEnv, CallFails
    <2> QED BY <2>5, <2>6, <2>7, <2>8 DEF Next
<1>2. TypeOK /\ Sound /\ Iso /\ [Next]_vars => [Iso1]_vars
    BY <1>1
<1> QED BY <1>2, Reachable, PTL DEF Spec, Isolated

\* An Environment that is being deleted is let go of only when its namespace is
\* gone or going, although the finalizer may be taken off long after the
\* namespace was deleted (environment_controller.go: Reconcile's deletion branch).
THEOREM TeardownBeforeRelease == Spec => FinalizerLast
<1> DEFINE Last == \A e \in Envs : obj[e].state = "deleting" /\ obj'[e].state = "absent" =>
                                     ns[NsOf(e, obj[e].spec)] # "active"
<1>1. TypeOK /\ Sound /\ Iso /\ [Next]_vars => Last
    <2> SUFFICES ASSUME TypeOK, Sound, Iso, [Next]_vars, NEW e \in Envs,
                        obj[e].state = "deleting", obj'[e].state = "absent"
                 PROVE  ns[NsOf(e, obj[e].spec)] # "active"
        OBVIOUS
    <2>1. obj'[e] # obj[e]
        OBVIOUS
    <2>2. obj[e] \in Objects /\ obj[e].state # "absent"
        BY DEF TypeOK
    <2>3. ASSUME NEW f \in Envs, NEW s \in Specs, CreateEnv(f, s) \/ EditEnv(f, s) PROVE FALSE
        <3>1. /\ obj[f].state # "absent"
              /\ obj' = [obj EXCEPT ![f] = [obj[f] EXCEPT !.spec = s, !.gen = @ + 1]]
            BY <2>1, <2>2, <2>3 DEF CreateEnv, EditEnv, UserWrites, Written, TypeOK
        <3>2. obj[f] \in Objects
            BY DEF TypeOK
        <3>3. obj'[f].state = obj[f].state
            BY <3>1, <3>2 DEF TypeOK, Objects, Absent
        <3> QED BY <3>1, <3>3 DEF TypeOK
    <2>4. ASSUME NEW f \in Envs, DeleteEnv(f) PROVE FALSE
        BY <2>2, <2>4 DEF DeleteEnv, UserWrites, Written, TypeOK
    <2>5. ASSUME NEW f \in Envs, AddFinalizer(f) \/ UpdateEnvStatus(f) PROVE FALSE
        <3>1. PICK o \in {obj[f], [obj[f] EXCEPT !.final = "yes"]} :
                  obj' = obj \/ obj' = [obj EXCEPT ![f] = o]
            BY <2>5 DEF AddFinalizer, UpdateEnvStatus, Written, apiVars
        <3>2. obj[f] \in Objects
            BY DEF TypeOK
        <3>3. o.state = obj[f].state
            BY <3>1, <3>2 DEF Objects, Absent
        <3> QED BY <2>1, <2>2, <3>1, <3>3 DEF TypeOK
    <2>6. ASSUME NEW f \in Envs, RemoveFinalizer(f) PROVE ns[NsOf(e, obj[e].spec)] # "active"
        <3>1. f = e /\ e \notin viewStale /\ pc[e] = "unfinalize"
            BY <2>1, <2>6 DEF RemoveFinalizer, Written, TypeOK, apiVars
        <3> QED BY <3>1 DEF Sound, ViewOK, Iso, Gone, Here
    <2>7. CASE \E f \in Envs : Worker(f)
        <3>1. PICK f \in Envs : Worker(f)
            BY <2>7
        <3>2. UNCHANGED obj \/ AddFinalizer(f) \/ UpdateEnvStatus(f) \/ RemoveFinalizer(f)
            BY <3>1 DEF Worker, StartReconcile, EnsureNamespace, ApplyDocument, StampDone,
               EnsureStack, GcArtifacts, DeleteNamespace, apiVars
        <3> QED BY <2>1, <2>5, <2>6, <3>2
    <2>8. CASE User
        <3>1. ASSUME NEW n \in Namespaces, NEW g \in Graphs, WriteStack(n, g) PROVE FALSE
            BY <2>1, <3>1 DEF WriteStack, apiVars
        <3> QED BY <2>3, <2>4, <2>8, <3>1 DEF User
    <2>9. UNCHANGED obj \/ User \/ \E f \in Envs : Worker(f)
        BY DEF Next, NamespaceController, DropContent, DropNamespace, DeliverEnv,
           DeliverNamespace, DeliverStack, CloneStep, CloneStarts, CloneMakes, CloneEnds,
           CallFails, Restart, vars, apiVars
    <2> QED BY <2>1, <2>7, <2>8, <2>9
<1> QED BY <1>1, Reachable, PTL DEF FinalizerLast, Spec

-----------------------------------------------------------------------------
(* That nothing is forgotten. As long as no Environment is deleted,         *)
(* namespaces come and stay, and what a pass found or made is there when it *)
(* ends. A pass that was overtaken is refused its status and comes back.    *)

\* Without deletions nothing is torn down, and the cache of namespaces is right
\* about those that it has.
Kept ==
    /\ \A e \in Envs : /\ obj[e].state # "deleting" /\ seen[e].state # "deleting"
                       /\ pc[e] \notin {"snapshot", "content", "delete", "unfinalize"}
    /\ \A n \in Namespaces : ns[n] # "terminating" /\ (nsSeen[n] # "none" => ns[n] = "active")

\* A copy of an Environment is one of its versions, as far as its spec goes.
Copy(e, o) ==
    /\ obj[e].state = "live" /\ o.gen \in 1 .. obj[e].gen
    /\ o.gen = obj[e].gen => o.spec = obj[e].spec

Copies ==
    \A e \in Envs :
        /\ seen[e].state # "absent" => Copy(e, seen[e])
        /\ pc[e] # "idle" => /\ seen[e].state # "absent" /\ Copy(e, view[e])
                             /\ view[e].gen <= seen[e].gen
                             /\ view[e].gen = seen[e].gen => view[e].spec = seen[e].spec

\* The status speaks of a generation whose namespace is there.
Told ==
    \A e \in Envs : obj[e].state = "live" =>
        /\ obj[e].gen >= 1 /\ status[e].observed <= obj[e].gen
        /\ status[e].observed = obj[e].gen => ns[NsOf(e, obj[e].spec)] = "active"

\* The cached Stack, the Stack, and the graphs of an Environment that was edited
\* once at most: a graph that is deployed is not taken back by an older copy, and
\* a cached one that is up to date says that the Stack is.
Says(o, g) == o.state # "absent" => o.spec.graph = g

Deploying(e) ==
    \A p \in Projects :
        LET n == NamespaceFor(e, p)
            g == obj[e].spec.graph
        IN
        /\ stackSeen[n].graph # NoGraph => stack[n].graph # NoGraph
        /\ obj[e].state = "absent" => stack[n].graph = NoGraph
        /\ obj[e].state = "live" =>
              /\ obj[e].gen = 1 => stack[n].graph \in {NoGraph, g} /\ stackSeen[n].graph \in {NoGraph, g}
              /\ g # NoGraph /\ stackSeen[n].graph = g => stack[n].graph = g
              /\ g # NoGraph /\ stack[n].graph = g => Says(seen[e], g) /\ (pc[e] # "idle" => Says(view[e], g))

\* What a pass has behind it. Only if it made the namespace itself can the cache
\* still be without it, and then the status is of an earlier generation.
Minded(e) ==
    LET n == Here(e) IN
    /\ pc[e] \in {"namespace", "baseline", "stack", "status"} => view[e].final = "yes"
    /\ pc[e] \in {"baseline", "stack", "status"} =>
          /\ ns[n] = "active"
          /\ nsSeen[n] = "none" /\ e \notin viewStale => status[e].observed # view[e].gen
    /\ pc[e] = "stack" => view[e].spec.graph # NoGraph
    /\ pc[e] = "status" =>
          /\ \A d \in Docs : <<n, d>> \in stamped
          /\ e \notin viewStale /\ view[e].spec.graph # NoGraph /\ Followed(e)
                => stack[n].graph = view[e].spec.graph

Calm ==
    /\ Kept /\ Copies /\ Told
    /\ \A e \in Envs : Minded(e) /\ (Followed(e) => Deploying(e))
    /\ \A e \in Envs : Quiet(e) => Deployed(e) /\ obj[e].final = "yes"

Awake == deletes = 0 => Calm

\* What is asked of a state at the start of a step, and of the step.
Before == TypeOK /\ Sound /\ Iso /\ Calm

\* The graph is followed no longer once it is no longer followed.
LEMMA FollowedBack ==
    ASSUME TypeOK, TypeOK', NEW e \in Envs, puts <= puts', obj[e].gen <= obj'[e].gen,
           Followed(e)'
    PROVE  Followed(e)
<1>1. obj[e] \in Objects /\ obj'[e] \in Objects /\ puts \in Nat /\ puts' \in Nat
    BY BoundsAssumption DEF TypeOK
<1>2. obj[e].gen \in Nat /\ obj'[e].gen \in Nat
    BY <1>1, BoundsAssumption DEF Objects, Absent
<1> QED BY <1>1, <1>2 DEF Followed

\* A pass, and what it works on.
LEMMA PassOn ==
    ASSUME Before, NEW e \in Envs, pc[e] # "idle"
    PROVE  /\ \A f \in Envs : f # e => pc[f] = "idle"
           /\ Here(e) \in Namespaces /\ Here(e) = NsOf(e, view[e].spec)
           /\ view[e].spec.project \in Projects /\ view[e].spec.graph \in Graphs
           /\ obj[e].state = "live" /\ obj[e].spec.project \in Projects
           /\ view[e].gen \in 1 .. obj[e].gen /\ obj[e].gen \in Nat
           /\ e \notin viewStale => view[e] = obj[e]
<1>1. obj[e].state = "live" /\ view[e].gen \in 1 .. obj[e].gen
    BY DEF Before, Calm, Copies, Copy
<1>2. obj[e] \in Objects /\ view[e] \in Objects /\ view[e].state # "absent"
    BY DEF Before, TypeOK, Sound, Busy
<1>3. /\ obj[e].spec.project \in Projects /\ view[e].spec.project \in Projects
      /\ view[e].spec.graph \in Graphs /\ obj[e].gen \in Nat
    BY <1>1, <1>2, ObjectSpec
<1>4. Here(e) \in Namespaces
    BY HereType DEF Before, Sound
<1> QED BY <1>1, <1>3, <1>4 DEF Before, Sound, Single, ViewOK, Here

\* A step that leaves Environments, namespaces, Stacks and caches alone, and
\* ends a pass only to have the key come back.
LEMMA CalmKept ==
    ASSUME Calm, UNCHANGED <<obj, status, ns, stack, seen, stale, nsSeen, stackSeen, puts>>,
           stamped \subseteq stamped', queued \subseteq queued',
           \A e \in Envs :
              /\ pc'[e] # "idle" => /\ UNCHANGED <<pc[e], view[e]>>
                                    /\ e \in viewStale => e \in viewStale'
              /\ pc'[e] = "idle" => pc[e] = "idle" \/ e \in queued'
    PROVE  Calm'
<1>1. Kept' /\ Copies' /\ Told'
    BY DEF Calm, Kept, Copies, Copy, Told
<1>2. ASSUME NEW e \in Envs PROVE Minded(e)' /\ (Followed(e)' => Deploying(e)')
    <2>1. Followed(e)' <=> Followed(e)
        BY DEF Followed
    <2>2. Minded(e)'
        BY <2>1 DEF Calm, Minded, Here
    <2>3. Deploying(e) => Deploying(e)'
        BY DEF Deploying, Says
    <2> QED BY <2>1, <2>2, <2>3 DEF Calm
<1>3. ASSUME NEW e \in Envs, Quiet(e)' PROVE Deployed(e)' /\ obj'[e].final = "yes"
    BY <1>3 DEF Quiet, Deployed, Followed, Calm
<1> QED BY <1>1, <1>2, <1>3 DEF Calm

LEMMA CalmRetry ==
    ASSUME TypeOK, Sound, Calm, NEW e \in Envs, pc[e] # "idle", Retry(e),
           UNCHANGED <<apiVars, nsVars, cacheVars, puts>>
    PROVE  Calm'
<1>1. \A f \in Envs : pc'[f] = "idle" /\ (f # e => pc[f] = "idle")
    BY DEF Retry, Done, Sound, Single, TypeOK
<1> QED BY <1>1, CalmKept DEF Retry, apiVars, nsVars, cacheVars

-----------------------------------------------------------------------------
\* What users do leaves the Environment in need of a pass that an event will bring.
LEMMA CalmCreate ==
    ASSUME Before, TypeOK', NEW e \in Envs, NEW s \in Specs, CreateEnv(e, s)
    PROVE  Calm'
<1> DEFINE o == [state |-> "live", spec |-> s, final |-> "no", gen |-> 1]
<1>1. /\ obj[e].state = "absent" /\ obj' = [obj EXCEPT ![e] = o]
      /\ status' = [status EXCEPT ![e] = NoStatus] /\ stale' = stale \cup {e}
      /\ viewStale' = IF pc[e] = "idle" THEN viewStale ELSE viewStale \cup {e}
      /\ UNCHANGED <<ns, stamped, stack, seen, nsSeen, stackSeen, queued, pc, view, puts>>
    BY DEF CreateEnv, UserWrites, Written, nsVars
<1>2. seen[e].state = "absent" /\ pc[e] = "idle"
    BY <1>1 DEF Before, Calm, Copies, Copy
<1>3. obj'[e] = o /\ status'[e] = NoStatus /\ viewStale' = viewStale
    BY <1>1, <1>2 DEF Before, TypeOK
<1>4. \A f \in Envs : f # e => obj'[f] = obj[f] /\ status'[f] = status[f]
    BY <1>1 DEF Before, TypeOK
<1>5. Kept' /\ Copies' /\ Told'
    BY <1>1, <1>2, <1>3, <1>4 DEF Before, Calm, Kept, Copies, Copy, Told, NoStatus
<1>6. ASSUME NEW f \in Envs, f # e
      PROVE  /\ Minded(f)' /\ (Followed(f)' => Deploying(f)')
             /\ Quiet(f)' => Deployed(f)' /\ obj'[f].final = "yes"
    <2>1. Followed(f)' <=> Followed(f)
        BY <1>1, <1>4, <1>6 DEF Followed
    <2>2. Minded(f)'
        BY <1>1, <1>3, <1>4, <1>6, <2>1 DEF Before, Calm, Minded, Here
    <2>3. Deploying(f) => Deploying(f)'
        BY <1>1, <1>4, <1>6 DEF Deploying, Says
    <2>4. (Quiet(f)' => Quiet(f)) /\ (Deployed(f) => Deployed(f)')
        BY <1>1, <1>4, <1>6, <2>1 DEF Quiet, Deployed
    <2> QED BY <1>4, <1>6, <2>1, <2>2, <2>3, <2>4 DEF Before, Calm
<1>7. Minded(e)' /\ ~Quiet(e)'
    BY <1>1, <1>2 DEF Minded, Quiet
<1>8. ASSUME Followed(e)' PROVE Deploying(e)'
    <2>1. Followed(e)
        <3>1. obj[e] = Absent
            BY <1>1 DEF Before, TypeOK, Objects
        <3> QED BY <1>1, <1>8, <3>1 DEF Followed, Absent
    <2>2. Deploying(e)
        BY <2>1 DEF Before, Calm
    <2>3. \A p \in Projects : /\ stack[NamespaceFor(e, p)].graph = NoGraph
                              /\ stackSeen[NamespaceFor(e, p)].graph = NoGraph
        BY <1>1, <2>2 DEF Deploying
    <2> QED BY <1>1, <1>2, <1>3, <2>3 DEF Deploying
<1> QED BY <1>5, <1>6, <1>7, <1>8 DEF Calm

LEMMA CalmEdit ==
    ASSUME Before, TypeOK', NEW e \in Envs, NEW s \in Specs, EditEnv(e, s)
    PROVE  Calm'
<1> DEFINE o == [obj[e] EXCEPT !.spec = s, !.gen = @ + 1]
<1>s. obj[e].state = "live"
    BY ObjectSpec DEF EditEnv, Before, TypeOK, Calm, Kept
<1>1. /\ obj[e].state = "live" /\ obj' = [obj EXCEPT ![e] = o]
      /\ status' = [status EXCEPT ![e] = status[e]] /\ stale' = stale \cup {e}
      /\ viewStale' = IF pc[e] = "idle" THEN viewStale ELSE viewStale \cup {e}
      /\ UNCHANGED <<ns, stamped, stack, seen, nsSeen, stackSeen, queued, pc, view, puts>>
    BY <1>s DEF EditEnv, UserWrites, Written, nsVars
<1>2. obj[e].gen \in Nat /\ obj[e].gen >= 1
    BY <1>1, ObjectSpec DEF Before, TypeOK, Calm, Told
<1>3. /\ obj'[e].state = "live" /\ obj'[e].gen = obj[e].gen + 1 /\ obj'[e].spec = s
      /\ obj'[e].final = obj[e].final
    <2>1. obj[e] \in Objects
        BY DEF Before, TypeOK
    <2> QED BY <1>1, <2>1 DEF Before, TypeOK, Objects, Absent
<1>4. /\ \A f \in Envs : f # e => obj'[f] = obj[f]
      /\ UNCHANGED status
    BY <1>1 DEF Before, TypeOK
<1>5. Kept'
    BY <1>1, <1>3, <1>4 DEF Before, Calm, Kept
<1>6. Copies'
    <2>1. ASSUME NEW c, Copy(e, c) PROVE Copy(e, c)'
        BY <1>2, <1>3, <2>1 DEF Copy
    <2>2. ASSUME NEW f \in Envs, f # e, NEW c, Copy(f, c) PROVE Copy(f, c)'
        BY <1>4, <2>2 DEF Copy
    <2>3. \A f \in Envs : seen'[f].state # "absent" => Copy(f, seen[f])'
        BY <1>1, <2>1, <2>2 DEF Before, Calm, Copies
    <2>4. \A f \in Envs : pc'[f] # "idle" => Copy(f, view[f])'
        BY <1>1, <2>1, <2>2 DEF Before, Calm, Copies
    <2> QED BY <1>1, <2>3, <2>4 DEF Before, Calm, Copies, Copy
<1>7. Told'
    <2>1. status[e].observed \in Nat /\ status[e].observed <= obj[e].gen
        BY <1>1, BoundsAssumption DEF Before, TypeOK, Statuses, Calm, Told
    <2> QED BY <1>1, <1>2, <1>3, <1>4, <2>1 DEF Before, Calm, Told
<1>8. ASSUME NEW f \in Envs, f # e
      PROVE  /\ Minded(f)' /\ (Followed(f)' => Deploying(f)')
             /\ Quiet(f)' => Deployed(f)' /\ obj'[f].final = "yes"
    <2>1. Followed(f)' <=> Followed(f)
        BY <1>1, <1>4, <1>8 DEF Followed
    <2>2. Minded(f)'
        BY <1>1, <1>4, <1>8, <2>1 DEF Before, Calm, Minded, Here
    <2>3. Deploying(f) => Deploying(f)'
        BY <1>1, <1>4, <1>8 DEF Deploying, Says
    <2>4. (Quiet(f)' => Quiet(f)) /\ (Deployed(f) => Deployed(f)')
        BY <1>1, <1>4, <1>8, <2>1 DEF Quiet, Deployed
    <2> QED BY <1>4, <1>8, <2>1, <2>2, <2>3, <2>4 DEF Before, Calm
<1>9. ~Quiet(e)'
    BY <1>1 DEF Quiet
<1>10. Minded(e)'
    BY <1>1 DEF Before, Calm, Minded, Here
<1>11. ASSUME Followed(e)' PROVE Deploying(e)'
    <2>1. Followed(e)
        BY <1>1, <1>2, <1>3, <1>11, FollowedBack DEF Before, TypeOK
    <2>2. Deploying(e) /\ obj[e].gen = 1 /\ obj'[e].gen = 2
        BY <1>2, <1>3, <1>11, <2>1 DEF Before, Calm, Followed
    <2>3. ASSUME NEW p \in Projects PROVE
            LET n == NamespaceFor(e, p)
                g == obj[e].spec.graph
            IN  /\ stackSeen[n].graph # NoGraph => stack[n].graph # NoGraph
                /\ stack[n].graph \in {NoGraph, g} /\ stackSeen[n].graph \in {NoGraph, g}
                /\ g # NoGraph /\ stack[n].graph = g
                      => Says(seen[e], g) /\ (pc[e] # "idle" => Says(view[e], g))
        BY <1>1, <2>2 DEF Deploying
    <2> QED BY <1>1, <1>3, <2>2, <2>3 DEF Deploying
<1> QED BY <1>5, <1>6, <1>7, <1>8, <1>9, <1>10, <1>11 DEF Calm

\* A Stack written through the canvas is followed by nobody.
LEMMA CalmPut ==
    ASSUME Before, TypeOK', NEW n \in Namespaces, NEW g \in Graphs, WriteStack(n, g)
    PROVE  Calm'
<1>1. UNCHANGED <<obj, status, ns, stamped, seen, stale, nsSeen, stackSeen, queued, pc, view,
                  viewStale>>
    BY DEF WriteStack, apiVars, cacheVars, passVars
<1>2. \A e \in Envs : ~Followed(e)'
    BY DEF WriteStack, Followed, Before, TypeOK
<1>3. Kept' /\ Copies' /\ Told'
    BY <1>1 DEF Before, Calm, Kept, Copies, Copy, Told
<1>4. \A e \in Envs : Minded(e)'
    BY <1>1, <1>2 DEF Before, Calm, Minded, Here
<1>5. \A e \in Envs : Quiet(e)' => Deployed(e)' /\ obj'[e].final = "yes"
    BY <1>1, <1>2 DEF Before, Calm, Quiet, Deployed
<1> QED BY <1>2, <1>3, <1>4, <1>5 DEF Calm

-----------------------------------------------------------------------------
\* What a cache hears, and what a restart makes of them.
LEMMA CalmHeard ==
    ASSUME Before,
           \/ \E e \in Envs : DeliverEnv(e)
           \/ \E n \in Namespaces : DeliverNamespace(n) \/ DeliverStack(n)
    PROVE  Calm'
<1>1. ASSUME NEW e \in Envs, DeliverEnv(e) PROVE Calm'
    <2>1. /\ seen' = [seen EXCEPT ![e] = obj[e]] /\ stale' = stale \ {e} /\ queued' = queued \cup {e}
          /\ UNCHANGED <<obj, status, ns, stamped, stack, nsSeen, stackSeen, pc, view,
                         viewStale, puts>>
        BY <1>1 DEF DeliverEnv, apiVars, nsVars, passVars, boundVars
    <2>2. seen'[e] = obj[e] /\ \A f \in Envs : f # e => seen'[f] = seen[f]
        BY <2>1 DEF Before, TypeOK
    <2>3. Kept' /\ Told'
        BY <2>1, <2>2 DEF Before, Calm, Kept, Told
    <2>4. obj[e].state # "absent" => obj[e].state = "live" /\ obj[e].gen \in Nat /\ obj[e].gen >= 1
        BY ObjectSpec DEF Before, TypeOK, Calm, Kept, Told
    <2>5. Copies'
        BY <2>1, <2>2, <2>4 DEF Before, Calm, Copies, Copy
    <2>6. ASSUME NEW f \in Envs PROVE Minded(f)' /\ (Followed(f)' => Deploying(f)')
        <3>1. Followed(f)' <=> Followed(f)
            BY <2>1 DEF Followed
        <3>2. Minded(f)'
            BY <2>1, <3>1 DEF Before, Calm, Minded, Here
        <3>3. Deploying(f) => Deploying(f)'
            BY <2>1, <2>2 DEF Deploying, Says
        <3> QED BY <3>1, <3>2, <3>3 DEF Before, Calm
    <2>7. ASSUME NEW f \in Envs, Quiet(f)' PROVE Deployed(f)' /\ obj'[f].final = "yes"
        BY <2>1, <2>7 DEF Before, Calm, Quiet, Deployed, Followed
    <2> QED BY <2>3, <2>5, <2>6, <2>7 DEF Calm
<1>2. ASSUME NEW n \in Namespaces, DeliverNamespace(n) PROVE Calm'
    <2>1. /\ nsSeen' = [nsSeen EXCEPT ![n] = ns[n]]
          /\ UNCHANGED <<obj, status, ns, stamped, stack, seen, stale, stackSeen, queued, pc, view,
                         viewStale, puts>>
        BY <1>2 DEF DeliverNamespace, apiVars, nsVars, passVars, boundVars
    <2>2. \A m \in Namespaces : nsSeen'[m] = nsSeen[m] \/ (m = n /\ nsSeen'[m] = ns[m])
        BY <2>1 DEF Before, TypeOK
    <2>3. Kept'
        BY <2>1, <2>2 DEF Before, TypeOK, NsPhases, Calm, Kept
    <2>4. Copies' /\ Told'
        BY <2>1 DEF Before, Calm, Copies, Copy, Told
    <2>5. ASSUME NEW e \in Envs PROVE Minded(e)'
        <3>1. pc[e] # "idle" => Here(e) \in Namespaces
            BY HereType DEF Before, Sound
        <3>2. Here(e)' = Here(e) /\ (Followed(e)' <=> Followed(e))
            BY <2>1 DEF Here, Followed
        <3>3. Minded(e)
            BY DEF Before, Calm
        <3> QED BY <2>1, <2>2, <3>1, <3>2, <3>3 DEF Minded
    <2>6. ASSUME NEW e \in Envs PROVE Followed(e)' => Deploying(e)'
        BY <2>1 DEF Before, Calm, Followed, Deploying, Says
    <2>7. ASSUME NEW e \in Envs, Quiet(e)' PROVE Deployed(e)' /\ obj'[e].final = "yes"
        BY <2>1, <2>7 DEF Before, Calm, Quiet, Deployed, Followed
    <2> QED BY <2>3, <2>4, <2>5, <2>6, <2>7 DEF Calm
<1>3. ASSUME NEW n \in Namespaces, DeliverStack(n) PROVE Calm'
    <2>1. /\ stackSeen' = [stackSeen EXCEPT ![n] = stack[n]]
          /\ UNCHANGED <<obj, status, ns, stamped, stack, seen, stale, nsSeen, queued, pc, view,
                         viewStale, puts>>
        BY <1>3 DEF DeliverStack, apiVars, nsVars, passVars, boundVars
    <2>2. \A m \in Namespaces : stackSeen'[m] \in {stackSeen[m], stack[m]}
        BY <2>1 DEF Before, TypeOK
    <2>3. Kept' /\ Copies' /\ Told'
        BY <2>1 DEF Before, Calm, Kept, Copies, Copy, Told
    <2>4. ASSUME NEW e \in Envs PROVE Minded(e)'
        <3>1. Followed(e)' <=> Followed(e)
            BY <2>1 DEF Followed
        <3> QED BY <2>1, <3>1 DEF Before, Calm, Minded, Here
    <2>5. ASSUME NEW e \in Envs, Followed(e)' PROVE Deploying(e)'
        <3>1. Deploying(e)
            BY <2>1, <2>5 DEF Before, Calm, Followed
        <3>2. \A p \in Projects : NamespaceFor(e, p) \in Namespaces
            BY SpecsAssumption DEF NamespaceFor
        <3> QED BY <2>1, <2>2, <3>1, <3>2 DEF Deploying, Says
    <2>6. ASSUME NEW e \in Envs, Quiet(e)' PROVE Deployed(e)' /\ obj'[e].final = "yes"
        BY <2>1, <2>6 DEF Before, Calm, Quiet, Deployed, Followed
    <2> QED BY <2>3, <2>4, <2>5, <2>6 DEF Calm
<1> QED BY <1>1, <1>2, <1>3

LEMMA CalmRestart == ASSUME Before, TypeOK', Restart PROVE Calm'
<1>1. /\ \A e \in Envs : pc'[e] = "idle" /\ (obj[e].state # "absent" => e \in queued')
      /\ seen' = obj /\ nsSeen' = ns /\ stackSeen' = stack
      /\ UNCHANGED <<obj, status, ns, stamped, stack, puts>>
    BY DEF Restart, apiVars, nsVars
<1>2. Kept'
    BY <1>1 DEF Before, TypeOK, NsPhases, Calm, Kept
<1>3. \A e \in Envs : obj[e].state # "absent" =>
            obj[e].state = "live" /\ obj[e].gen \in Nat /\ obj[e].gen >= 1
    BY ObjectSpec DEF Before, TypeOK, Calm, Kept, Told
<1>4. Copies' /\ Told'
    BY <1>1, <1>3 DEF Before, Calm, Copies, Copy, Told
<1>5. \A e \in Envs : Minded(e)' /\ ~Quiet(e)'
    BY <1>1 DEF Minded, Quiet
<1>6. \A e \in Envs : Followed(e)' => Deploying(e)'
    BY <1>1 DEF Before, Calm, Followed, Deploying, Says
<1> QED BY <1>2, <1>4, <1>5, <1>6 DEF Calm

-----------------------------------------------------------------------------
\* The worker. A key is taken from the queue for a pass over the cached version.
LEMMA CalmStart ==
    ASSUME Before, TypeOK', Sound', NEW e \in Envs, StartReconcile(e)
    PROVE  Calm'
<1>1. /\ \A f \in Envs : pc[f] = "idle"
      /\ queued' = queued \ {e}
      /\ UNCHANGED <<obj, status, ns, stamped, stack, seen, stale, nsSeen, stackSeen, puts>>
    BY DEF StartReconcile, apiVars, nsVars, cacheVars, boundVars
<1>2. Kept /\ Copies /\ Told /\ (e \notin stale => seen[e] = obj[e])
    BY DEF Before, Calm, Sound, CacheOK
<1>3. \A f \in Envs : Followed(f)' <=> Followed(f)
    BY <1>1 DEF Followed
<1>4. \A f \in Envs : f # e => (Quiet(f)' => Quiet(f)) /\ (Deployed(f) => Deployed(f)')
    BY <1>1, <1>3 DEF Quiet, Deployed
<1>5. CASE seen[e].state = "absent"
    <2>1. UNCHANGED <<pc, view, viewStale, todo>>
        BY <1>5 DEF StartReconcile, passVars
    <2>2. Kept' /\ Copies' /\ Told'
        BY <1>1, <1>2, <2>1 DEF Kept, Copies, Copy, Told
    <2>3. ~Quiet(e)'
        BY <1>1, <1>2, <1>5, <2>1 DEF Quiet
    <2>4. \A f \in Envs : Minded(f)'
        BY <1>1, <2>1 DEF Minded
    <2>5. \A f \in Envs : Deploying(f) => Deploying(f)'
        BY <1>1, <2>1 DEF Deploying, Says
    <2> QED BY <1>1, <1>3, <1>4, <2>2, <2>3, <2>4, <2>5 DEF Before, Calm
<1>6. CASE seen[e].state # "absent"
    <2>1. /\ pc' = [pc EXCEPT ![e] = FirstStep(seen[e])] /\ view' = [view EXCEPT ![e] = seen[e]]
        BY <1>6 DEF StartReconcile
    <2>2. /\ pc'[e] = FirstStep(seen[e]) /\ view'[e] = seen[e]
          /\ \A f \in Envs : f # e => pc'[f] = "idle"
        BY <1>1, <2>1 DEF Before, TypeOK
    <2>3. seen[e].state = "live" /\ seen[e].final \in {"yes", "no"}
        BY <1>2, <1>6, ObjectSpec DEF Before, TypeOK, Kept
    <2>4. \/ pc'[e] = "finalizer"
          \/ pc'[e] = "namespace" /\ seen[e].final = "yes"
        BY <2>2, <2>3 DEF FirstStep
    <2>5. Kept' /\ Told'
        BY <1>1, <1>2, <2>2, <2>4 DEF Kept, Told
    <2>6. Copies'
        <3>1. Copy(e, seen[e]) /\ seen[e].gen <= seen[e].gen
            BY <1>2, <1>6, BoundsAssumption, ObjectSpec DEF Copies, Before, TypeOK
        <3> QED BY <1>1, <1>2, <1>6, <2>2, <3>1 DEF Copies, Copy
    <2>7. \A f \in Envs : Minded(f)'
        BY <2>2, <2>4 DEF Minded
    <2>8. \A f \in Envs : Deploying(f) => Deploying(f)'
        BY <1>1, <2>2 DEF Deploying
    <2>9. ~Quiet(e)'
        BY <2>4 DEF Quiet
    <2> QED BY <1>1, <1>3, <1>4, <2>5, <2>6, <2>7, <2>8, <2>9 DEF Before, Calm
<1> QED BY <1>5, <1>6

LEMMA CalmFinalizer ==
    ASSUME Before, TypeOK', NEW e \in Envs, AddFinalizer(e)
    PROVE  Calm'
<1>p. pc[e] = "finalizer"
    BY DEF AddFinalizer
<1>1. CASE e \in viewStale
    BY <1>p, <1>1, CalmRetry DEF AddFinalizer, Before, nsVars, cacheVars, boundVars
<1>2. CASE e \notin viewStale
    <2>1. /\ obj' = [obj EXCEPT ![e] = [obj[e] EXCEPT !.final = "yes"]]
          /\ status' = [status EXCEPT ![e] = status[e]] /\ stale' = stale \cup {e}
          /\ view' = [view EXCEPT ![e].final = "yes"]
          /\ pc' = [pc EXCEPT ![e] = "namespace"]
          /\ UNCHANGED <<viewStale, queued, ns, stamped, stack, seen, nsSeen, stackSeen, puts>>
        BY <1>2 DEF AddFinalizer, Written, nsVars, boundVars
    <2>2. /\ \A f \in Envs : f # e => pc[f] = "idle"
          /\ obj[e].state = "live" /\ view[e] = obj[e]
        BY <1>p, <1>2, PassOn
    <2>3. obj[e] \in Objects /\ view[e] \in Objects
        BY DEF Before, TypeOK
    <2>4. /\ obj'[e].state = "live" /\ obj'[e].spec = obj[e].spec /\ obj'[e].gen = obj[e].gen
          /\ view'[e].final = "yes" /\ view'[e].spec = view[e].spec /\ view'[e].gen = view[e].gen
          /\ view'[e].state = view[e].state
          /\ pc'[e] = "namespace" /\ UNCHANGED status
          /\ \A f \in Envs : f # e => UNCHANGED <<obj[f], view[f], pc[f]>>
        BY <2>1, <2>2, <2>3 DEF Before, TypeOK, Objects, Absent
    <2>5. Kept' /\ Told'
        BY <2>1, <2>2, <2>4 DEF Before, Calm, Kept, Told
    <2>6. Copies'
        <3>1. \A f \in Envs : \A c : Copy(f, c) => Copy(f, c)'
            BY <2>2, <2>4 DEF Copy
        <3>2. \A f \in Envs : seen'[f].state # "absent" => Copy(f, seen[f])'
            BY <2>1, <3>1 DEF Before, Calm, Copies
        <3>3. Copy(e, view[e])'
            BY <1>p, <2>2, <2>4 DEF Before, Calm, Copies, Copy
        <3> QED BY <1>p, <2>1, <2>2, <2>4, <3>2, <3>3 DEF Before, Calm, Copies
    <2>7. \A f \in Envs : Followed(f)' <=> Followed(f)
        BY <2>1, <2>4 DEF Followed
    <2>8. \A f \in Envs : Minded(f)'
        BY <2>2, <2>4 DEF Minded
    <2>9. \A f \in Envs : Deploying(f) => Deploying(f)'
        BY <1>p, <2>1, <2>2, <2>4 DEF Deploying, Says
    <2>10. ~Quiet(e)'
        BY <2>4 DEF Quiet
    <2>11. \A f \in Envs : f # e => (Quiet(f)' => Quiet(f)) /\ (Deployed(f) => Deployed(f)')
        BY <2>1, <2>4, <2>7 DEF Quiet, Deployed
    <2> QED BY <2>4, <2>5, <2>6, <2>7, <2>8, <2>9, <2>10, <2>11 DEF Before, Calm
<1> QED BY <1>1, <1>2

\* Namespaces are made once, by a pass that then has a status to write.
LEMMA CalmNamespace ==
    ASSUME Before, TypeOK', NEW e \in Envs, EnsureNamespace(e)
    PROVE  Calm'
<1>p. pc[e] = "namespace"
    BY DEF EnsureNamespace
<1>1. CASE nsSeen[Here(e)] = "none" /\ ns[Here(e)] # "none"
    BY <1>p, <1>1, CalmRetry DEF EnsureNamespace, Before, nsVars, boundVars
<1>2. CASE ~(nsSeen[Here(e)] = "none" /\ ns[Here(e)] # "none")
    <2>1. /\ ns' = IF nsSeen[Here(e)] = "none" THEN [ns EXCEPT ![Here(e)] = "active"] ELSE ns
          /\ Continue(e, "baseline")
          /\ UNCHANGED <<obj, status, stamped, stack, seen, stale, nsSeen, stackSeen, view,
                         viewStale, queued, puts>>
        BY <1>2 DEF EnsureNamespace, Continue, apiVars, cacheVars, boundVars
    <2>2. /\ pc'[e] = "baseline" /\ \A f \in Envs : f # e => pc'[f] = "idle" /\ pc[f] = "idle"
          /\ Here(e)' = Here(e) /\ Here(e) \in Namespaces
        BY <1>p, <2>1, Alone, PassOn DEF Before
    <2>3. /\ \A n \in Namespaces : ns'[n] = ns[n] \/ (n = Here(e) /\ ns'[n] = "active" /\ ns[n] = "none")
          /\ ns'[Here(e)] = "active"
          /\ nsSeen[Here(e)] = "none" => ns[Here(e)] = "none"
        BY <1>2, <2>1, <2>2 DEF Before, TypeOK, Calm, Kept
    <2>n. \A f \in Envs : obj[f].state = "live" => NsOf(f, obj[f].spec) \in Namespaces
        BY ObjectSpec, SpecsAssumption DEF Before, TypeOK, NsOf, NamespaceFor
    <2>4. Kept'
        BY <1>p, <2>1, <2>2, <2>3 DEF Before, Calm, Kept
    <2>5. Copies'
        BY <1>p, <2>1, <2>2 DEF Before, Calm, Copies, Copy
    <2>6. Told'
        BY <2>1, <2>3, <2>n DEF Before, Calm, Told
    <2>7. \A f \in Envs : Followed(f)' <=> Followed(f)
        BY <2>1 DEF Followed
    <2>8. Minded(e)'
        <3>1. view[e].final = "yes"
            BY <1>p DEF Before, Calm, Minded
        <3>2. ASSUME nsSeen[Here(e)] = "none", e \notin viewStale, status[e].observed = view[e].gen
              PROVE  FALSE
            <4>1. obj[e].state = "live" /\ view[e] = obj[e] /\ Here(e) = NsOf(e, obj[e].spec)
                BY <1>p, <3>2, PassOn
            <4> QED BY <2>3, <3>2, <4>1 DEF Before, Calm, Told
        <3> QED BY <2>1, <2>2, <2>3, <3>1, <3>2 DEF Minded
    <2>9. \A f \in Envs : f # e => Minded(f)'
        BY <2>2 DEF Minded
    <2>10. \A f \in Envs : Deploying(f) => Deploying(f)'
        BY <1>p, <2>1, <2>2 DEF Deploying, Says
    <2>11. ~Quiet(e)'
        BY <2>2 DEF Quiet
    <2>12. \A f \in Envs : f # e =>
                (Quiet(f)' => Quiet(f)) /\ (Quiet(f) /\ Deployed(f) => Deployed(f)')
        BY <2>1, <2>2, <2>3, <2>7, <2>n DEF Quiet, Deployed
    <2> QED BY <2>1, <2>4, <2>5, <2>6, <2>7, <2>8, <2>9, <2>10, <2>11, <2>12 DEF Before, Calm
<1> QED BY <1>1, <1>2

\* A document more.
LEMMA CalmDocument ==
    ASSUME Before, NEW e \in Envs, NEW d \in Docs, ApplyDocument(e, d)
    PROVE  Calm'
<1>1. CASE ns[Here(e)] = "active" \/ <<Here(e), d>> \in stamped
    <2>1. /\ stamped \subseteq stamped'
          /\ UNCHANGED <<obj, status, ns, stack, seen, stale, nsSeen, stackSeen, pc, view,
                         viewStale, queued, puts>>
        BY <1>1 DEF ApplyDocument, apiVars, cacheVars, boundVars
    <2> QED BY <2>1, CalmKept DEF Before
<1>2. CASE ~(ns[Here(e)] = "active" \/ <<Here(e), d>> \in stamped)
    BY <1>2, CalmRetry DEF ApplyDocument, Before, nsVars, boundVars
<1> QED BY <1>1, <1>2

\* The other Environments while a pass goes on.
LEMMA CalmOthers ==
    ASSUME Before, NEW e \in Envs, pc[e] # "idle", NEW step, Continue(e, step),
           UNCHANGED <<obj, status, ns, stamped, stack, seen, stale, nsSeen, stackSeen, puts>>,
           step \notin {"idle", "snapshot", "content", "delete", "unfinalize"}, Minded(e)'
    PROVE  Calm'
<1>1. /\ pc'[e] = step /\ \A f \in Envs : f # e => pc'[f] = "idle" /\ pc[f] = "idle"
      /\ UNCHANGED <<view, viewStale, queued>>
    BY Alone, PassOn DEF Before, Continue
<1>2. Kept' /\ Told'
    BY <1>1 DEF Before, Calm, Kept, Told
<1>3. Copies'
    BY <1>1 DEF Before, Calm, Copies, Copy
<1>4. \A f \in Envs : f # e => Minded(f)'
    BY <1>1 DEF Minded
<1>5. \A f \in Envs : Followed(f)' <=> Followed(f)
    BY DEF Followed
<1>6. \A f \in Envs : Deploying(f) => Deploying(f)'
    BY <1>1 DEF Deploying, Says
<1>7. ~Quiet(e)'
    BY <1>1 DEF Quiet
<1>8. \A f \in Envs : f # e => (Quiet(f)' => Quiet(f)) /\ (Deployed(f) => Deployed(f)')
    BY <1>1, <1>5 DEF Quiet, Deployed
<1> QED BY <1>2, <1>3, <1>4, <1>5, <1>6, <1>7, <1>8 DEF Before, Calm

\* The whole baseline.
LEMMA CalmStamped ==
    ASSUME Before, TypeOK', NEW e \in Envs, StampDone(e)
    PROVE  Calm'
<1>1. /\ pc[e] = "baseline" /\ todo = {}
      /\ UNCHANGED <<obj, status, ns, stamped, stack, seen, stale, nsSeen, stackSeen, puts>>
    BY DEF StampDone, apiVars, nsVars, cacheVars, boundVars
<1>2. PICK step \in {"status", "stack"} :
        /\ Continue(e, step)
        /\ step = "stack" => view[e].spec.graph # NoGraph
        /\ step = "status" => view[e].spec.graph = NoGraph
    BY DEF StampDone
<1>3. pc'[e] = step /\ Here(e)' = Here(e) /\ UNCHANGED <<view, viewStale>>
    BY <1>1, <1>2, Alone DEF Before, Continue
<1>4. Minded(e) /\ ns[Here(e)] = "active"
    BY <1>1 DEF Before, Calm, Minded
<1>5. \A d \in Docs : <<Here(e), d>> \in stamped
    BY <1>1, <1>4 DEF Before, Iso, Stamping, Stamped
<1>6. Minded(e)'
    BY <1>1, <1>2, <1>3, <1>4, <1>5 DEF Minded
<1> QED BY <1>1, <1>2, <1>6, CalmOthers

\* The Stack is as the view says, or is found to be.
LEMMA CalmStack ==
    ASSUME Before, TypeOK', NEW e \in Envs, EnsureStack(e)
    PROVE  Calm'
<1> DEFINE n == Here(e)
           same == stackSeen[n] = DesiredStack(e)
           writes == \/ stackSeen[n] = NoStack /\ stack[n] = NoStack /\ ns[n] = "active"
                     \/ stackSeen[n] # NoStack /\ stackSeen[n] = stack[n]
<1>p. pc[e] = "stack" /\ view[e].spec.graph # NoGraph
    BY DEF EnsureStack, Before, Calm, Minded
<1>q. /\ \A f \in Envs : f # e => pc[f] = "idle"
      /\ n \in Namespaces /\ n = NamespaceFor(e, view[e].spec.project)
      /\ view[e].spec.project \in Projects
      /\ obj[e].state = "live" /\ view[e].gen \in 1 .. obj[e].gen /\ obj[e].gen \in Nat
      /\ e \notin viewStale => view[e] = obj[e]
    BY <1>p, PassOn DEF NsOf
<1>s. \A d \in Docs : <<n, d>> \in stamped
    BY <1>p DEF Before, Calm, Minded, Iso, Stamping, Stamped
<1>u. UNCHANGED <<obj, status, ns, stamped, seen, stale, nsSeen, stackSeen, puts>>
    BY DEF EnsureStack, apiVars, cacheVars, boundVars
<1>1. CASE ~same /\ ~writes
    <2>1. Retry(e) /\ UNCHANGED stack
        BY <1>1 DEF EnsureStack
    <2> QED BY <1>p, <2>1, CalmRetry DEF EnsureStack, Before, nsVars, boundVars
<1>2. CASE same
    <2>1. Continue(e, "status") /\ UNCHANGED stack
        BY <1>2 DEF EnsureStack
    <2>2. pc'[e] = "status" /\ Here(e)' = Here(e) /\ UNCHANGED <<view, viewStale>>
        BY <1>p, <2>1, Alone DEF Before, Continue
    <2>3. stackSeen[n].graph = view[e].spec.graph
        BY <1>2 DEF DesiredStack
    <2>4. e \notin viewStale /\ Followed(e) => stack[n].graph = view[e].spec.graph
        BY <1>p, <1>q, <2>3 DEF Before, Calm, Deploying
    <2>5. Minded(e)
        BY DEF Before, Calm
    <2>6. Followed(e)' <=> Followed(e)
        BY <1>u DEF Followed
    <2>7. Minded(e)'
        BY <1>p, <1>s, <1>u, <2>1, <2>2, <2>4, <2>5, <2>6 DEF Minded
    <2> HIDE DEF n
    <2> QED BY <1>p, <1>u, <2>1, <2>7, CalmOthers
<1>3. CASE ~same /\ writes
    <2>1. Continue(e, "status") /\ stack' = [stack EXCEPT ![n] = DesiredStack(e)]
        BY <1>3 DEF EnsureStack
    <2>2. /\ pc'[e] = "status" /\ \A f \in Envs : f # e => pc'[f] = "idle"
          /\ Here(e)' = Here(e) /\ UNCHANGED <<view, viewStale, queued>>
        BY <1>p, <2>1, Alone DEF Before, Continue
    <2>3. /\ stack'[n].graph = view[e].spec.graph
          /\ \A m \in Namespaces : m # n => stack'[m] = stack[m]
        <3>1. stack'[n] = DesiredStack(e)
            BY <1>q, <2>1 DEF Before, TypeOK
        <3> QED BY <2>1, <3>1 DEF DesiredStack, Before, TypeOK
    <2>4. stackSeen[n].graph = NoGraph \/ stackSeen[n] = stack[n]
        BY <1>3 DEF NoStack
    <2> HIDE DEF n, same, writes
    <2>5. Kept' /\ Told'
        BY <1>u, <2>2 DEF Before, Calm, Kept, Told
    <2>6. Copies'
        BY <1>p, <1>u, <2>2 DEF Before, Calm, Copies, Copy
    <2>7. \A f \in Envs : Followed(f)' <=> Followed(f)
        BY <1>u DEF Followed
    <2>8. Minded(e)'
        <3>1. Minded(e)
            BY DEF Before, Calm
        <3> QED BY <1>p, <1>s, <1>u, <2>2, <2>3, <3>1 DEF Minded, n
    <2>9. \A f \in Envs : f # e => Minded(f)'
        BY <2>2 DEF Minded
    <2>10. ASSUME NEW f \in Envs, f # e, Followed(f), NEW p \in Projects
           PROVE  stack'[NamespaceFor(f, p)] = stack[NamespaceFor(f, p)]
        <3>1. NamespaceFor(f, p) # n
            BY <1>q, <2>10 DEF Followed
        <3>2. NamespaceFor(f, p) \in Namespaces
            BY SpecsAssumption DEF NamespaceFor
        <3> QED BY <2>3, <3>1, <3>2
    <2>11. ASSUME NEW f \in Envs, f # e, Followed(f)' PROVE Deploying(f)'
        <3>1. Followed(f) /\ Deploying(f)
            BY <2>7, <2>11 DEF Before, Calm
        <3>2. \A p \in Projects : stack'[NamespaceFor(f, p)] = stack[NamespaceFor(f, p)]
            BY <2>10, <2>11, <3>1
        <3> QED BY <1>u, <2>2, <2>11, <3>1, <3>2 DEF Deploying, Says
    <2>12. ASSUME Followed(e)' PROVE Deploying(e)'
        <3>1. Followed(e) /\ Deploying(e) /\ obj[e].gen <= 2
            BY <2>7, <2>12 DEF Before, Calm, Followed
        <3>2. /\ Copy(e, view[e]) /\ seen[e].state # "absent" /\ Copy(e, seen[e])
              /\ view[e].gen <= seen[e].gen
              /\ view[e].gen = seen[e].gen => view[e].spec = seen[e].spec
            BY <1>p DEF Before, Calm, Copies
        <3>3. seen[e].spec = view[e].spec \/ seen[e].spec = obj[e].spec
            BY <1>q, <3>1, <3>2 DEF Copy
        <3>4. obj[e].gen = 1 => view[e].spec = obj[e].spec
            BY <1>q, <3>2 DEF Copy
        <3>5. view[e].state # "absent"
            BY <1>p DEF Before, Sound, Busy
        <3>6. ASSUME NEW p \in Projects
              PROVE  LET m == NamespaceFor(e, p)
                         g == obj[e].spec.graph
                     IN  /\ stackSeen[m].graph # NoGraph => stack'[m].graph # NoGraph
                         /\ obj[e].gen = 1 => /\ stack'[m].graph \in {NoGraph, g}
                                              /\ stackSeen[m].graph \in {NoGraph, g}
                         /\ g # NoGraph /\ stackSeen[m].graph = g => stack'[m].graph = g
                         /\ g # NoGraph /\ stack'[m].graph = g
                               => Says(seen[e], g) /\ Says(view[e], g)
            <4> DEFINE m == NamespaceFor(e, p)
                       g == obj[e].spec.graph
            <4>1. /\ stackSeen[m].graph # NoGraph => stack[m].graph # NoGraph
                  /\ obj[e].gen = 1 => /\ stack[m].graph \in {NoGraph, g}
                                       /\ stackSeen[m].graph \in {NoGraph, g}
                  /\ g # NoGraph /\ stackSeen[m].graph = g => stack[m].graph = g
                  /\ g # NoGraph /\ stack[m].graph = g => Says(seen[e], g) /\ Says(view[e], g)
                BY <1>p, <1>q, <3>1 DEF Deploying
            <4>2. m \in Namespaces
                BY SpecsAssumption DEF NamespaceFor
            <4>3. CASE m # n
                <5>1. stack'[m] = stack[m]
                    BY <2>3, <4>2, <4>3
                <5> HIDE DEF m, g
                <5> QED BY <4>1, <5>1 DEF m, g
            <4>4. CASE m = n
                <5>1. /\ stack'[m].graph = view[e].spec.graph
                      /\ stackSeen[m].graph = NoGraph \/ stackSeen[m] = stack[m]
                    BY <2>3, <2>4, <4>4
                <5> HIDE DEF m
                <5>2. stackSeen[m].graph # NoGraph => stack'[m].graph # NoGraph
                    BY <1>p, <5>1
                <5>3. obj[e].gen = 1 => /\ stack'[m].graph \in {NoGraph, g}
                                        /\ stackSeen[m].graph \in {NoGraph, g}
                    BY <3>4, <4>1, <5>1
                <5>4. g # NoGraph /\ stackSeen[m].graph = g => stack'[m].graph = g
                    BY <3>5, <4>1, <5>1 DEF Says
                <5>5. g # NoGraph /\ stack'[m].graph = g => Says(seen[e], g) /\ Says(view[e], g)
                    BY <3>3, <5>1 DEF Says
                <5> QED BY <5>2, <5>3, <5>4, <5>5 DEF m
            <4> QED BY <4>3, <4>4
        <3> QED BY <1>p, <1>q, <1>u, <2>2, <3>6 DEF Deploying
    <2>13. ~Quiet(e)'
        BY <2>2 DEF Quiet
    <2>14. ASSUME NEW f \in Envs, f # e, Quiet(f)' PROVE Deployed(f)' /\ obj'[f].final = "yes"
        <3>1. Quiet(f)
            BY <1>q, <1>u, <2>2, <2>14 DEF Quiet
        <3>2. Deployed(f) /\ obj[f].final = "yes"
            BY <3>1 DEF Before, Calm
        <3>3. Followed(f) => stack'[NsOf(f, obj[f].spec)] = stack[NsOf(f, obj[f].spec)]
            <4>1. obj[f].spec.project \in Projects
                BY <3>1, ObjectSpec DEF Quiet, Before, TypeOK
            <4> QED BY <2>10, <2>14, <4>1 DEF NsOf
        <3> QED BY <1>u, <2>7, <3>2, <3>3 DEF Deployed
    <2> QED BY <2>5, <2>6, <2>7, <2>8, <2>9, <2>11, <2>12, <2>13, <2>14 DEF Calm
<1> QED BY <1>1, <1>2, <1>3

\* The status ends the pass: as it was, of a deployed Environment, or new, and an
\* event.
LEMMA CalmStatus ==
    ASSUME Before, TypeOK', NEW e \in Envs, UpdateEnvStatus(e)
    PROVE  Calm'
<1>p. pc[e] = "status"
    BY DEF UpdateEnvStatus
<1>1. CASE e \in viewStale
    BY <1>p, <1>1, CalmRetry DEF UpdateEnvStatus, Before, nsVars, cacheVars, boundVars
<1>2. CASE e \notin viewStale
    <2>1. /\ Done(e)
          /\ UNCHANGED <<queued, ns, stamped, stack, seen, nsSeen, stackSeen, puts>>
          /\ \/ status[e] = NewStatus(e) /\ UNCHANGED <<obj, status, stale>>
             \/ /\ obj' = [obj EXCEPT ![e] = obj[e]]
                /\ status' = [status EXCEPT ![e] = NewStatus(e)] /\ stale' = stale \cup {e}
        BY <1>2 DEF UpdateEnvStatus, Written, apiVars, nsVars, boundVars
    <2>2. /\ \A f \in Envs : f # e => pc[f] = "idle"
          /\ obj[e].state = "live" /\ obj[e].gen \in Nat /\ view[e] = obj[e]
          /\ Here(e) = NsOf(e, obj[e].spec)
        BY <1>p, <1>2, PassOn
    <2>3. /\ \A f \in Envs : pc'[f] = "idle"
          /\ UNCHANGED obj /\ stale \subseteq stale'
          /\ \A f \in Envs : f # e => status'[f] = status[f]
          /\ status'[e] = NewStatus(e)
        BY <2>1, <2>2 DEF Done, Before, TypeOK
    <2>4. /\ ns[Here(e)] = "active" /\ view[e].final = "yes"
          /\ nsSeen[Here(e)] = "none" => status[e].observed # view[e].gen
          /\ \A d \in Docs : <<Here(e), d>> \in stamped
          /\ obj[e].spec.graph # NoGraph /\ Followed(e) => stack[Here(e)].graph = obj[e].spec.graph
        BY <1>p, <1>2, <2>2 DEF Before, Calm, Minded
    <2>5. Kept' /\ Copies'
        BY <2>1, <2>3 DEF Before, Calm, Kept, Copies, Copy
    <2>6. Told'
        <3>1. status'[e].observed = obj[e].gen
            BY <2>2, <2>3 DEF NewStatus
        <3> QED BY <2>1, <2>2, <2>3, <2>4, <3>1 DEF Before, Calm, Told
    <2>7. \A f \in Envs : Followed(f)' <=> Followed(f)
        BY <2>1, <2>3 DEF Followed
    <2>8. \A f \in Envs : Minded(f)'
        BY <2>3 DEF Minded
    <2>9. \A f \in Envs : Deploying(f) => Deploying(f)'
        BY <2>1, <2>3 DEF Deploying
    <2>10. ASSUME NEW f \in Envs, f # e, Quiet(f)' PROVE Deployed(f)' /\ obj'[f].final = "yes"
        <3>1. Quiet(f)
            BY <2>1, <2>2, <2>3, <2>10 DEF Quiet
        <3> QED BY <2>1, <2>3, <2>7, <2>10, <3>1 DEF Before, Calm, Deployed
    <2>11. ASSUME Quiet(e)' PROVE Deployed(e)' /\ obj'[e].final = "yes"
        <3>1. status[e] = NewStatus(e)
            BY <2>1, <2>11 DEF Quiet
        <3>2. nsSeen[Here(e)] # "none"
            BY <2>4, <3>1 DEF NewStatus
        <3>3. status'[e] = [phase |-> "Ready", observed |-> obj[e].gen]
            BY <2>2, <2>3, <3>2 DEF NewStatus
        <3> QED BY <2>1, <2>2, <2>3, <2>4, <2>7, <3>3 DEF Deployed
    <2> QED BY <2>5, <2>6, <2>7, <2>8, <2>9, <2>10, <2>11 DEF Before, Calm
<1> QED BY <1>1, <1>2

\* No step wakes nobody.
LEMMA AwakeStep ==
    ASSUME TypeOK, Sound, Iso, Awake, TypeOK', Sound', [Next]_vars
    PROVE  Awake'
<1> SUFFICES ASSUME deletes' = 0 PROVE Calm'
    BY DEF Awake
<1>d. deletes = 0 /\ \A e \in Envs : ~DeleteEnv(e)
    <2>1. deletes \in Nat
        BY BoundsAssumption DEF TypeOK
    <2>2. \A e \in Envs : ~DeleteEnv(e)
        BY <2>1 DEF DeleteEnv
    <2>3. CASE User
        BY <2>2, <2>3 DEF User, CreateEnv, EditEnv, WriteStack
    <2>4. CASE UNCHANGED vars
        BY <2>2, <2>4 DEF vars, boundVars
    <2>5. ASSUME NEW e \in Envs, Worker(e) PROVE UNCHANGED deletes
        BY <2>5 DEF Worker, StartReconcile, AddFinalizer, EnsureNamespace, ApplyDocument,
           StampDone, EnsureStack, UpdateEnvStatus, GcArtifacts, DeleteNamespace,
           RemoveFinalizer, boundVars
    <2>6. ASSUME NEW n \in Namespaces,
                 \/ NamespaceController(n) \/ DeliverNamespace(n) \/ DeliverStack(n)
                 \/ CloneStep(n)
          PROVE  UNCHANGED deletes
        BY <2>6 DEF NamespaceController, DropContent, DropNamespace, DeliverNamespace,
           DeliverStack, CloneStep, CloneStarts, CloneMakes, CloneEnds, boundVars
    <2>7. ASSUME NEW e \in Envs, DeliverEnv(e) \/ CallFails(e) PROVE UNCHANGED deletes
        BY <2>7 DEF DeliverEnv, CallFails, boundVars
    <2>8. CASE Restart
        BY <2>2, <2>8 DEF Restart
    <2> QED BY <2>2, <2>3, <2>4, <2>5, <2>6, <2>7, <2>8 DEF Next
<1>b. Before
    BY <1>d DEF Awake, Before
<1>1. CASE User
    BY <1>1, <1>b, <1>d, CalmCreate, CalmEdit, CalmPut DEF User
<1>2. ASSUME NEW e \in Envs, Worker(e) PROVE Calm'
    <2>1. ASSUME NEW a \in Artifacts, GcArtifacts(e, a) PROVE FALSE
        BY <1>b, <2>1 DEF GcArtifacts, Artifacts, Before, Calm, Kept
    <2>2. ~DeleteNamespace(e) /\ ~RemoveFinalizer(e)
        BY <1>b DEF DeleteNamespace, RemoveFinalizer, Before, Calm, Kept
    <2> QED BY <1>2, <1>b, <2>1, <2>2, CalmStart, CalmFinalizer, CalmNamespace, CalmDocument,
               CalmStamped, CalmStack, CalmStatus DEF Worker
<1>3. ASSUME NEW e \in Envs, CallFails(e) PROVE Calm'
    BY <1>3, <1>b, CalmRetry DEF CallFails, Before
<1>4. ASSUME NEW n \in Namespaces, NamespaceController(n) PROVE FALSE
    BY <1>4, <1>b DEF NamespaceController, DropContent, DropNamespace, Before, Calm, Kept
<1>5. ASSUME UNCHANGED <<apiVars, nsVars, cacheVars, queued, passVars, puts>> PROVE Calm'
    BY <1>5, <1>b, CalmKept DEF apiVars, nsVars, cacheVars, passVars, Before
<1>6. ASSUME NEW n \in Namespaces, CloneStep(n) PROVE Calm'
    BY <1>5, <1>6 DEF CloneStep, CloneStarts, CloneMakes, CloneEnds, boundVars
<1>7. CASE UNCHANGED vars
    BY <1>5, <1>7 DEF vars, boundVars
<1> QED BY <1>1, <1>2, <1>3, <1>4, <1>6, <1>7, <1>b, CalmHeard, CalmRestart DEF Next

\* As long as no Environment is deleted, one that nobody will look at again has
\* its namespace with the whole baseline, its graph, its finalizer and a status
\* of Ready for its last generation: for any Environments, specs and baseline, any
\* lag of the caches, failed calls and restarts (environment_controller.go:
\* Reconcile, which watches neither namespaces nor Stacks and never polls).
THEOREM NoWakeupLost == Spec => []NothingForgotten
<1>1. Init => Awake
    <2> SUFFICES ASSUME Init PROVE Calm
        BY DEF Awake
    <2>1. \A e \in Envs : /\ obj[e].state = "absent" /\ seen[e].state = "absent"
                          /\ pc[e] = "idle"
        BY DEF Init, Absent
    <2>2. \A n \in Namespaces : /\ ns[n] = "none" /\ nsSeen[n] = "none"
                                /\ stack[n].graph = NoGraph /\ stackSeen[n].graph = NoGraph
        BY DEF Init, NoStack
    <2>3. Kept /\ Copies /\ Told
        BY <2>1, <2>2 DEF Kept, Copies, Told
    <2>4. \A e \in Envs : Minded(e) /\ ~Quiet(e)
        BY <2>1 DEF Minded, Quiet
    <2>5. \A e \in Envs, p \in Projects : NamespaceFor(e, p) \in Namespaces
        BY SpecsAssumption DEF NamespaceFor
    <2>6. \A e \in Envs : Deploying(e)
        BY <2>1, <2>2, <2>5 DEF Deploying
    <2> QED BY <2>3, <2>4, <2>6 DEF Calm
<1>2. TypeOK /\ Sound /\ Iso /\ Awake /\ TypeOK' /\ [Next]_vars => Awake'
    BY AwakeStep, SoundStep
<1>3. Awake => NothingForgotten
    BY DEF Awake, Calm, NothingForgotten
<1> QED BY <1>1, <1>2, <1>3, Reachable, PTL DEF Spec
=============================================================================
