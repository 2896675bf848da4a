------------------------ MODULE VolumeBackingProofs ------------------------
(***************************************************************************)
(* Proofs about VolumeBacking for any Stacks, parents and bounds: types,   *)
(* that the volume of a preview is seeded, that the snapshot its claim     *)
(* template names is there, and that no Stack is forgotten.                *)
(*                                                                         *)
(* None of these is inductive: whether the StatefulSet exists, which       *)
(* snapshot is ready and whether the restore snapshot is bound are found   *)
(* out by three earlier calls of the pass than the one that creates the    *)
(* StatefulSet. PassKnows and Seeded say what is left of that by then, Own *)
(* that nothing of another Stack of the name is around, Awake who will     *)
(* come back to what a pass has left undone.                               *)
(***************************************************************************)
EXTENDS VolumeBacking, TLAPS

LEMMA Constants == /\ NoStack \notin Stacks /\ Uids \subseteq Nat /\ 0 \in Uids
                   /\ \A s \in Stacks : Parent[s] # NoStack => Parent[s] \in Stacks
                   /\ NoSet \in Sets /\ NoVolume \in Volumes
                   /\ NoSnapshot \in Snapshots /\ NoContent \in Contents /\ NoRestore \in Restores
    BY StacksAssumption, BoundsAssumption
    DEF Uids, NoSet, Sets, NoVolume, Volumes, NoSnapshot, Snapshots, NoContent, Contents,
        NoRestore, Restores, Flags

\* Where a pass works.
LEMMA AtType == TypeOK /\ pc # "idle" => at \in Stacks
    BY DEF TypeOK, PassType

CacheType == /\ stackSeen \in [Stacks -> Uids] /\ setSeen \in [Stacks -> Sets]
             /\ volumeSeen \in [Stacks -> Volumes]

-----------------------------------------------------------------------------
\* The end of a pass, whatever becomes of the rest.
LEMMA DoneTyped ==
    ASSUME TypeOK, Done, ApiType', CacheType', queued' \subseteq Stacks,
           edits' \in 0 .. MaxEdits, faults' \in 0 .. MaxFaults
    PROVE  TypeOK'
    BY Constants DEF TypeOK, PassType, CacheType, Done, Steps, Flags

\* A call that leaves the pass alone.
LEMMA OutsideTyped ==
    ASSUME TypeOK, UNCHANGED passVars, ApiType', CacheType', queued' \subseteq Stacks,
           edits' \in 0 .. MaxEdits, faults' \in 0 .. MaxFaults
    PROVE  TypeOK'
    BY DEF TypeOK, PassType, CacheType, passVars

\* A call that goes on with the pass.
LEMMA GoToTyped ==
    ASSUME TypeOK, pc # "idle", NEW step \in Steps \ {"idle"}, GoTo(step), ApiType',
           handle' \in Nat, pending' \in Flags, UNCHANGED cacheVars,
           UNCHANGED edits, faults' \in 0 .. MaxFaults
    PROVE  TypeOK'
    BY DEF TypeOK, PassType, GoTo, cacheVars

-----------------------------------------------------------------------------
\* Users, the other controllers, the caches, failures.
LEMMA OthersTyped ==
    ASSUME TypeOK,
           \/ User \/ CallFails \/ Restart
           \/ \E s \in Stacks : Teardown(s) \/ Informer(s) \/ Collector(s) \/ Operators(s)
    PROVE  TypeOK'
<1> USE BoundsAssumption, Constants
<1>t. ApiType /\ PassType
    BY DEF TypeOK
<1>c. ASSUME UNCHANGED cacheVars PROVE CacheType'
    BY <1>c, <1>t DEF cacheVars, CacheType, PassType
<1>o. ASSUME ApiType', UNCHANGED <<cacheVars, queued, passVars, boundVars>> PROVE TypeOK'
    <2>1. CacheType' /\ queued' \subseteq Stacks
        BY <1>o, <1>c, <1>t DEF PassType
    <2>2. edits' \in 0 .. MaxEdits /\ faults' \in 0 .. MaxFaults
        BY <1>o, <1>t DEF PassType, boundVars
    <2> QED BY <1>o, <2>1, <2>2, OutsideTyped
<1>1. ASSUME NEW s \in Stacks, CreateStack(s) PROVE TypeOK'
    <2>1. uids[s] + 1 \in Uids
        BY <1>1, <1>t DEF CreateStack, ApiType, Uids
    <2>2. ApiType'
        BY <1>1, <1>t, <2>1 DEF CreateStack, ApiType, objVars, cloneVars
    <2> QED BY <1>1, <1>o, <2>2 DEF CreateStack
<1>2. ASSUME NEW s \in Stacks, DeleteStack(s) \/ TearDown(s) PROVE TypeOK'
    <2>1. ApiType'
        BY <1>2, <1>t DEF DeleteStack, TearDown, ApiType, objVars, cloneVars, Phases
    <2>2. edits' \in 0 .. MaxEdits
        BY <1>2, <1>t DEF DeleteStack, TearDown, PassType
    <2>3. UNCHANGED <<cacheVars, queued, passVars, faults>>
        BY <1>2 DEF DeleteStack, TearDown
    <2> QED BY <1>t, <1>c, <2>1, <2>2, <2>3, OutsideTyped DEF PassType
<1>3. ASSUME NEW s \in Stacks, Teardown(s) PROVE TypeOK'
    <2>1. ApiType'
        BY <1>3, <1>t DEF Teardown, CollectSnapshots, CollectContents, TerminateStack,
           TerminateRestore, EndNamespace, ApiType, apiVars, objVars, cloneVars, Phases
    <2>2. UNCHANGED <<cacheVars, queued, passVars, boundVars>>
        BY <1>3 DEF Teardown, CollectSnapshots, CollectContents, TerminateStack,
           TerminateRestore, EndNamespace
    <2> QED BY <1>o, <2>1, <2>2
<1>4. ASSUME NEW s \in Stacks, Collector(s) PROVE TypeOK'
    <2>1. ApiType'
        BY <1>4, <1>t DEF Collector, CollectSet, CollectVolume, CollectSchedule,
           ApiType, apiVars, cloneVars
    <2>2. UNCHANGED <<cacheVars, queued, passVars, boundVars>>
        BY <1>4 DEF Collector, CollectSet, CollectVolume, CollectSchedule
    <2> QED BY <1>o, <2>1, <2>2
<1>5. ASSUME NEW s \in Stacks, Operators(s) PROVE TypeOK'
    <2> DEFINE claimed == [NoVolume EXCEPT !.owner = set[s].owner,
                               !.data  = IF set[s].source = "none" THEN 0 ELSE restore[s].bound]
    <2>1. /\ src[s] \in Snapshots /\ restore[s] \in Restores /\ set[s].owner \in Uids
          /\ content[s] \in Contents /\ content[s].handle \in Nat /\ restore[s].bound \in Nat
        BY <1>t DEF ApiType, Sets, Restores, Contents
    <2>2. /\ [src[s] EXCEPT !.ready = "yes"] \in Snapshots
          /\ [restore[s] EXCEPT !.bound = content[s].handle] \in Restores
          /\ [content[s] EXCEPT !.taken = "yes"] \in Contents
          /\ claimed \in Volumes
        BY <2>1 DEF Snapshots, Restores, Contents, Volumes, NoVolume, Flags
    <2>3. CASE TakeSnapshot(s)
        <3>1. ApiType'
            BY <1>t, <2>2, <2>3 DEF TakeSnapshot, ApiType, apiVars, objVars
        <3> QED BY <1>o, <2>3, <3>1 DEF TakeSnapshot
    <2>4. CASE BindRestore(s)
        <3>1. ApiType'
            BY <1>t, <2>2, <2>4 DEF BindRestore, ApiType, apiVars, objVars
        <3> QED BY <1>o, <2>4, <3>1 DEF BindRestore
    <2>5. CASE ClaimVolume(s)
        <3>1. volume' = [volume EXCEPT ![s] = claimed]
            BY <2>5 DEF ClaimVolume
        <3>2. ApiType'
            BY <1>t, <2>2, <2>5, <3>1 DEF ClaimVolume, ApiType, apiVars, cloneVars
        <3> QED BY <1>o, <2>5, <3>2 DEF ClaimVolume
    <2> QED BY <1>5, <2>3, <2>4, <2>5 DEF Operators
<1>6. ASSUME NEW s \in Stacks, Informer(s) PROVE TypeOK'
    <2>1. UNCHANGED <<apiVars, objVars, cloneVars, passVars, boundVars>>
        BY <1>6 DEF Informer, DeliverStack, DeliverSet, DeliverVolume
    <2>2. ApiType'
        BY <1>t, <2>1 DEF ApiType, apiVars, objVars, cloneVars
    <2>3. Volume(s) \in Volumes
        BY <1>t DEF Volume, ApiType
    <2>4. CacheType' /\ queued' \subseteq Stacks
        BY <1>6, <1>t, <2>3 DEF Informer, DeliverStack, DeliverSet, DeliverVolume,
           ApiType, PassType, CacheType
    <2> QED BY <1>t, <2>1, <2>2, <2>4, OutsideTyped DEF PassType, boundVars
<1>7. CASE CallFails
    <2>1. ApiType'
        BY <1>7, <1>t DEF CallFails, ApiType, apiVars, objVars, cloneVars
    <2>2. at \in Stacks
        BY <1>7, AtType DEF CallFails
    <2>3. faults' \in 0 .. MaxFaults /\ edits' \in 0 .. MaxEdits
        BY <1>7, <1>t DEF CallFails, PassType
    <2> QED BY <1>7, <1>t, <1>c, <2>1, <2>2, <2>3, DoneTyped DEF CallFails, Retry, PassType
<1>8. CASE Restart
    <2>1. ApiType'
        BY <1>8, <1>t DEF Restart, ApiType, apiVars, objVars, cloneVars
    <2>2. \A s \in Stacks : Volume(s) \in Volumes
        BY <1>t DEF Volume, ApiType
    <2>3. CacheType' /\ queued' \subseteq Stacks
        BY <1>8, <1>t, <2>2 DEF Restart, ApiType, CacheType
    <2>4. faults' \in 0 .. MaxFaults /\ edits' \in 0 .. MaxEdits
        BY <1>8, <1>t DEF Restart, PassType
    <2> QED BY <1>8, <2>1, <2>3, <2>4, DoneTyped DEF Restart
<1> QED BY <1>1, <1>2, <1>3, <1>4, <1>5, <1>6, <1>7, <1>8 DEF User

\* The worker.
LEMMA WorkerTyped ==
    ASSUME TypeOK,
           Step \/ CheckSetFails \/ BackupFails \/ \E s \in Stacks : StartReconcile(s)
    PROVE  TypeOK'
<1> USE BoundsAssumption, Constants
<1>t. ApiType /\ PassType /\ (pc # "idle" => at \in Stacks)
    BY AtType DEF TypeOK
<1>h. view \in Uids /\ handle \in Nat /\ pending \in Flags
    BY <1>t DEF PassType
<1>r. ASSUME pc # "idle", Retry, ApiType', UNCHANGED <<cacheVars, boundVars>> PROVE TypeOK'
    BY <1>r, <1>t, DoneTyped DEF Retry, PassType, CacheType, cacheVars, boundVars
\* One step further, with what is handed on.
<1>g. ASSUME pc # "idle", NEW step \in Steps \ {"idle"}, GoTo(step), ApiType',
             handle' \in Nat, pending' \in Flags, UNCHANGED <<cacheVars, boundVars>>
      PROVE  TypeOK'
    BY <1>g, <1>t, GoToTyped DEF PassType, boundVars
<1>w. ASSUME Wait PROVE GoTo("status") /\ handle' \in Nat /\ pending' \in Flags
    BY <1>w, <1>h DEF Wait, Flags
<1>e. \A b \in BOOLEAN : AfterExists(b) \in {"source", "set"}
    BY DEF AfterExists
<1>1. ASSUME NEW s \in Stacks, StartReconcile(s) PROVE TypeOK'
    <2>1. ApiType' /\ queued' \subseteq Stacks
        BY <1>1, <1>t DEF StartReconcile, ApiType, PassType, apiVars, objVars, cloneVars
    <2>2. UNCHANGED <<cacheVars, handle, pending, boundVars>>
        BY <1>1 DEF StartReconcile
    <2>3. \/ UNCHANGED <<at, pc, view>>
          \/ at' = s /\ pc' = "exists" /\ view' = stackSeen[s] /\ view' # 0
        BY <1>1 DEF StartReconcile
    <2> QED BY <1>t, <2>1, <2>2, <2>3 DEF TypeOK, PassType, Steps, cacheVars, boundVars
<1>2. CASE CheckSet \/ CheckSetFails
    <2>1. pc = "exists" /\ UNCHANGED <<apiVars, objVars, cloneVars, cacheVars, handle, pending, edits>>
        BY <1>2 DEF CheckSet, CheckSetFails, boundVars
    <2>2. PICK step \in {"source", "set"} : GoTo(step)
        BY <1>2, <1>e DEF CheckSet, CheckSetFails
    <2>3. faults \in 0 .. MaxFaults
        BY <1>t DEF PassType
    <2>4. faults' \in 0 .. MaxFaults
        <3>1. UNCHANGED faults \/ (faults < MaxFaults /\ faults' = faults + 1)
            BY <1>2 DEF CheckSet, CheckSetFails, boundVars
        <3> QED BY <2>3, <3>1
    <2>5. ApiType'
        BY <1>t, <2>1 DEF ApiType, apiVars, objVars, cloneVars
    <2> QED BY <1>h, <2>1, <2>2, <2>4, <2>5, GoToTyped DEF Steps
<1>3. CASE EnsureSource
    <2> DEFINE now == IF src[at].id = 0 THEN [id |-> shots[at] + 1, ready |-> "no"] ELSE src[at]
    <2>1. /\ pc = "source" /\ src' = [src EXCEPT ![at] = now]
          /\ shots' = IF src[at].id = 0 THEN [shots EXCEPT ![at] = @ + 1] ELSE shots
          /\ UNCHANGED <<apiVars, objVars, content, restore, cacheVars, boundVars>>
        BY <1>3 DEF EnsureSource
    <2>s. shots[at] + 1 \in Nat
        BY <1>t, <2>1 DEF ApiType
    <2>2. now \in Snapshots
        BY <1>t, <2>1, <2>s DEF ApiType, Snapshots, Flags
    <2>3. now.id \in Nat
        BY <2>2 DEF Snapshots
    <2>4. ApiType'
        BY <1>t, <2>1, <2>2, <2>s DEF ApiType, apiVars, objVars
    <2>5. Wait \/ (GoTo("handle") /\ handle' = now.id /\ UNCHANGED pending)
        BY <1>3 DEF EnsureSource
    <2> QED BY <1>g, <1>h, <1>w, <2>1, <2>3, <2>4, <2>5 DEF Steps
<1>4. CASE ReadHandle
    <2>1. ApiType' /\ pc = "handle" /\ UNCHANGED <<cacheVars, boundVars>>
        BY <1>4, <1>t DEF ReadHandle, ApiType, apiVars, objVars, cloneVars
    <2>2. Wait \/ (GoTo("content") /\ UNCHANGED <<handle, pending>>)
        BY <1>4 DEF ReadHandle
    <2> QED BY <1>g, <1>h, <1>w, <2>1, <2>2 DEF Steps
<1>5. CASE EnsureContent
    <2>1. pc = "content" /\ UNCHANGED <<apiVars, objVars, shots, src, restore, cacheVars, boundVars>>
        BY <1>5 DEF EnsureContent
    <2>2. /\ UNCHANGED content \/ content' = [content EXCEPT ![at].handle = handle]
          /\ Retry \/ (GoTo("restore") /\ UNCHANGED <<handle, pending>>)
        BY <1>5 DEF EnsureContent
    <2>3. content[at] \in Contents
        BY <1>t, <2>1 DEF ApiType
    <2>4. [content[at] EXCEPT !.handle = handle] \in Contents
        BY <1>h, <2>3 DEF Contents
    <2>5. ApiType'
        BY <1>t, <2>1, <2>2, <2>4 DEF ApiType, apiVars, objVars
    <2> QED BY <1>g, <1>r, <1>h, <2>1, <2>2, <2>5 DEF Steps
<1>6. CASE EnsureRestore
    <2>1. pc = "restore" /\ UNCHANGED <<apiVars, objVars, shots, src, content, cacheVars, boundVars>>
        BY <1>6 DEF EnsureRestore
    <2>2. restore[at] \in Restores
        BY <1>t, <2>1 DEF ApiType
    <2>3. [restore[at] EXCEPT !.made = "yes"] \in Restores
        BY <2>2 DEF Restores, Flags
    <2>4. ApiType'
        BY <1>6, <1>t, <2>1, <2>3 DEF EnsureRestore, ApiType, apiVars, objVars
    <2>5. Retry \/ Wait \/ (GoTo("set") /\ UNCHANGED <<handle, pending>>)
        BY <1>6 DEF EnsureRestore
    <2> QED BY <1>g, <1>r, <1>h, <1>w, <2>1, <2>4, <2>5 DEF Steps
<1>7. CASE EnsureSet
    <2>1. pc = "set" /\ UNCHANGED <<apiVars, volume, sched, cloneVars, cacheVars, boundVars>>
        BY <1>7 DEF EnsureSet
    <2>2. NewSet \in Sets
        BY <1>h DEF NewSet, Sets
    <2>3. ApiType'
        BY <1>7, <1>t, <2>1, <2>2 DEF EnsureSet, ApiType, apiVars, cloneVars
    <2>4. Retry \/ ((GoTo("label") \/ GoTo("status")) /\ UNCHANGED <<handle, pending>>)
        BY <1>7 DEF EnsureSet, AfterSet
    <2> QED BY <1>g, <1>r, <1>h, <2>1, <2>3, <2>4 DEF Steps
<1>8. CASE LabelVolume \/ EnsureSchedule
    <2>1. pc # "idle" /\ UNCHANGED <<apiVars, set, cloneVars, cacheVars, boundVars, handle, pending>>
        BY <1>8 DEF LabelVolume, EnsureSchedule
    <2>2. volume[at] \in Volumes
        BY <1>t, <2>1 DEF ApiType
    <2>3. [volume[at] EXCEPT !.label = "yes"] \in Volumes
        BY <2>2 DEF Volumes, Flags
    <2>4. ApiType'
        BY <1>8, <1>t, <1>h, <2>1, <2>3
           DEF LabelVolume, EnsureSchedule, ApiType, apiVars, cloneVars
    <2>5. GoTo("schedule") \/ GoTo("status")
        BY <1>8 DEF LabelVolume, EnsureSchedule
    <2> QED BY <1>g, <1>h, <2>1, <2>4, <2>5 DEF Steps
<1>9. CASE BackupFails
    <2>1. pc # "idle" /\ UNCHANGED <<apiVars, objVars, cloneVars, cacheVars, handle, pending, edits>>
        BY <1>9 DEF BackupFails
    <2>2. GoTo("schedule") \/ GoTo("status")
        BY <1>9 DEF BackupFails
    <2>3. faults' \in 0 .. MaxFaults
        BY <1>9, <1>t DEF BackupFails, PassType
    <2>4. ApiType'
        BY <1>t, <2>1 DEF ApiType, apiVars, objVars, cloneVars
    <2> QED BY <1>h, <2>1, <2>2, <2>3, <2>4, GoToTyped DEF Steps
<1>10. CASE EndPass
    <2>1. ApiType' /\ Done /\ UNCHANGED <<cacheVars, boundVars>>
        BY <1>10, <1>t DEF EndPass, ApiType, apiVars, objVars, cloneVars
    <2>2. at \in Stacks /\ queued' \subseteq Stacks
        BY <1>10, <1>t DEF EndPass, PassType
    <2> QED BY <1>t, <2>1, <2>2, DoneTyped DEF PassType, CacheType, cacheVars, boundVars
<1> QED BY <1>1, <1>2, <1>3, <1>4, <1>5, <1>6, <1>7, <1>8, <1>9, <1>10 DEF Step

LEMMA InitTyped == Init => TypeOK
    BY Constants, BoundsAssumption
    DEF Init, TypeOK, ApiType, PassType, Steps, Flags, Phases

LEMMA TypedStep == TypeOK /\ [Next]_vars => TypeOK'
<1>1. ASSUME TypeOK, UNCHANGED vars PROVE TypeOK'
    <2>1. UNCHANGED <<apiVars, objVars, cloneVars, cacheVars, queued, passVars, boundVars>>
        BY <1>1 DEF vars
    <2>2. ApiType'
        BY <1>1, <2>1 DEF TypeOK, ApiType, apiVars, objVars, cloneVars
    <2> QED BY <1>1, <2>1, <2>2, OutsideTyped
            DEF TypeOK, PassType, CacheType, cacheVars, boundVars
<1> QED BY <1>1, OthersTyped, WorkerTyped DEF Next

\* Every variable has its type in every reachable state, a pass is about a
\* Stack exactly while it runs.
THEOREM TypeCorrect == Spec => []TypeOK
    BY InitTyped, TypedStep, PTL DEF Spec

-----------------------------------------------------------------------------
\* While no Stack of that name was deleted there was only one of it, and all
\* that is around of a Stack of that name, or known of one, is its own; of its one
\* source snapshot are the content, the restore snapshot and the handle.
Own(s) ==
    /\ ns[s] = "active"
    /\ stackSeen[s] \in {0, stack[s]} /\ setSeen[s].owner \in {0, stack[s]}
    /\ set[s].owner \in {0, stack[s]} /\ volume[s].owner \in {0, stack[s]}
    /\ content[s].handle \in {0, src[s].id} /\ restore[s].bound \in {0, src[s].id}
    /\ at = s => view = stack[s] /\ handle \in {0, src[s].id}

\* And nothing that is there goes; its pass creates the StatefulSet knowing that
\* the restore snapshot is bound.
Seeded(s) ==
    /\ setSeen[s].owner # 0 => set[s].owner # 0
    /\ set[s].source = "restore" => restore[s].bound # 0
    /\ IsPreview(s) /\ set[s].owner # 0 => set[s].source = "restore"
    /\ IsPreview(s) /\ volume[s].owner # 0 => volume[s].data # 0 /\ volume[s].data = src[s].id
    /\ at = s /\ pc = "set" =>
          /\ handle # 0 => restore[s].bound # 0
          /\ IsPreview(s) => handle # 0 \/ setSeen[s].owner # 0

\* What the steps of a pass take from those before them.
PassKnows ==
    /\ pc # "idle" => view # 0
    /\ pc \in {"idle", "exists", "source"} => handle = 0
    /\ pc \in {"handle", "content", "restore"} => handle # 0

Kept(s) == Own(s) /\ Seeded(s)
Seeding == PassKnows /\ \A s \in Stacks : s \notin deleted => Kept(s)

\* A step of the pass, or one that does not touch the pass, keeps what is known
\* of the Stacks whose objects it leaves alone.
LEMMA KeptByOthers ==
    ASSUME NEW s \in Stacks, Kept(s), pc' = "idle" \/ UNCHANGED <<at, pc, view, handle>>,
           at' # s \/ UNCHANGED <<at, pc, view, handle>>,
           UNCHANGED <<stack[s], ns[s], stackSeen[s], set[s], setSeen[s], volume[s], src[s],
                       content[s], restore[s]>>
    PROVE  Kept(s)'
    BY DEF Kept, Own, Seeded, IsPreview

LEMMA SeedingOthers ==
    ASSUME TypeOK, Seeding,
           \/ User \/ CallFails \/ Restart \/ UNCHANGED vars
           \/ \E s \in Stacks : Teardown(s) \/ Informer(s) \/ Collector(s) \/ Operators(s)
    PROVE  Seeding'
<1> USE Constants
<1>t. ApiType /\ PassType
    BY DEF TypeOK
<1>n. \A s \in Stacks : uids[s] + 1 # 0 /\ stack[s] \in Nat
    BY <1>t DEF ApiType, Uids
<1>p. ASSUME UNCHANGED passVars PROVE PassKnows'
    BY <1>p DEF Seeding, PassKnows, passVars
<1>1. ASSUME NEW s \in Stacks, CreateStack(s) PROVE Seeding'
    <2>1. UNCHANGED <<deleted, ns, objVars, cloneVars, cacheVars, passVars>> /\ stack[s] = 0
          /\ stack' = [stack EXCEPT ![s] = uids[s] + 1]
        BY <1>1 DEF CreateStack
    <2>2. ASSUME NEW t \in Stacks, t \notin deleted' PROVE Kept(t)'
        <3>1. Kept(t) /\ (at = s => pc # "idle")
            BY <1>t, <2>1, <2>2 DEF Seeding, PassType
        <3>2. CASE t = s
            <4>1. at # s
                BY <2>1, <3>1, <3>2 DEF Seeding, PassKnows, Kept, Own
            <4> QED BY <1>t, <2>1, <3>1, <3>2, <4>1
                    DEF Kept, Own, Seeded, IsPreview, objVars, cloneVars, cacheVars, passVars
        <3>3. CASE t # s
            BY <1>t, <2>1, <3>1, <3>3, KeptByOthers
               DEF ApiType, objVars, cloneVars, cacheVars, passVars
        <3> QED BY <3>2, <3>3
    <2> QED BY <1>p, <2>1, <2>2 DEF Seeding
<1>2. ASSUME NEW s \in Stacks, DeleteStack(s) \/ TearDown(s) \/ Teardown(s) PROVE Seeding'
    <2>1. s \in deleted' /\ deleted \subseteq deleted'
        <3>1. CASE DeleteStack(s) \/ TearDown(s)
            BY <3>1 DEF DeleteStack, TearDown
        <3>2. CASE Teardown(s)
            <4>1. ns[s] # "active" /\ UNCHANGED deleted
                BY <3>2 DEF Teardown, CollectSnapshots, CollectContents, TerminateStack,
                   TerminateRestore, EndNamespace, apiVars
            <4> QED BY <4>1 DEF Seeding, Kept, Own
        <3> QED BY <1>2, <3>1, <3>2
    <2>2. UNCHANGED <<objVars, cacheVars, passVars>>
        BY <1>2 DEF DeleteStack, TearDown, Teardown, CollectSnapshots, CollectContents,
           TerminateStack, TerminateRestore, EndNamespace
    <2>3. \A t \in Stacks : t # s => UNCHANGED <<stack[t], ns[t], src[t], content[t], restore[t]>>
        BY <1>2, <1>t DEF DeleteStack, TearDown, Teardown, CollectSnapshots, CollectContents,
           TerminateStack, TerminateRestore, EndNamespace, ApiType, apiVars, cloneVars
    <2>4. ASSUME NEW t \in Stacks, t \notin deleted' PROVE Kept(t)'
        <3>1. t # s /\ Kept(t)
            BY <2>1, <2>4 DEF Seeding
        <3> QED BY <2>2, <2>3, <3>1, KeptByOthers DEF objVars, cacheVars, passVars
    <2> QED BY <1>p, <2>2, <2>4 DEF Seeding
<1>3. ASSUME NEW s \in Stacks, Collector(s) PROVE Seeding'
    <2>1. UNCHANGED <<apiVars, cloneVars, cacheVars, passVars>>
        BY <1>3 DEF Collector, CollectSet, CollectVolume, CollectSchedule
    <2>2. ASSUME NEW t \in Stacks, t \notin deleted' PROVE Kept(t)'
        <3>1. Kept(t)
            BY <2>1, <2>2 DEF Seeding, apiVars
        <3>2. UNCHANGED set[t]
            BY <1>3, <1>t, <3>1
               DEF Collector, CollectSet, CollectVolume, CollectSchedule, Orphan, Kept, Own, ApiType
        <3>3. UNCHANGED volume[t] \/ volume'[t] = NoVolume
            BY <1>3, <1>t
               DEF Collector, CollectSet, CollectVolume, CollectSchedule, ApiType
        <3>4. NoVolume.owner = 0
            BY DEF NoVolume
        <3> QED BY <2>1, <3>1, <3>2, <3>3, <3>4
                DEF Kept, Own, Seeded, IsPreview, apiVars, cloneVars, cacheVars, passVars
    <2> QED BY <1>p, <2>1, <2>2 DEF Seeding
<1>4. ASSUME NEW s \in Stacks, Operators(s) PROVE Seeding'
    <2>1. UNCHANGED <<apiVars, set, cacheVars, passVars>>
        BY <1>4 DEF Operators, TakeSnapshot, BindRestore, ClaimVolume, objVars, cloneVars
    <2>2. \A t \in Stacks : t # s => UNCHANGED <<volume[t], src[t], content[t], restore[t]>>
        BY <1>4, <1>t DEF Operators, TakeSnapshot, BindRestore, ClaimVolume, ApiType, objVars,
           cloneVars
    <2>3. ASSUME NEW t \in Stacks, t \notin deleted', t # s PROVE Kept(t)'
        BY <2>1, <2>2, <2>3, KeptByOthers DEF Seeding, apiVars, cacheVars, passVars
    <2>4. ASSUME s \notin deleted' PROVE Kept(s)'
        <3>1. Kept(s) /\ s \notin deleted
            BY <2>1, <2>4 DEF Seeding, apiVars
        <3>2. CASE TakeSnapshot(s)
            <4>1. src[s] \in Snapshots
                BY <1>t DEF ApiType
            <4>2. src'[s].id = src[s].id /\ UNCHANGED <<volume, content, restore>>
                BY <1>t, <3>2, <4>1 DEF TakeSnapshot, ApiType, Snapshots, objVars
            <4> QED BY <2>1, <3>1, <4>2
                    DEF Kept, Own, Seeded, IsPreview, apiVars, cacheVars, passVars
        <3>3. CASE BindRestore(s)
            <4>1. restore[s] \in Restores /\ content[s] \in Contents
                BY <1>t DEF ApiType
            <4>2. /\ restore'[s].bound = content[s].handle /\ content[s].handle # 0
                  /\ content'[s].handle = content[s].handle /\ UNCHANGED <<volume, src>>
                BY <1>t, <3>3, <4>1 DEF BindRestore, ApiType, Restores, Contents, objVars
            <4> QED BY <2>1, <3>1, <4>2
                    DEF Kept, Own, Seeded, IsPreview, apiVars, cacheVars, passVars
        <3>4. CASE ClaimVolume(s)
            <4> DEFINE claimed == [NoVolume EXCEPT !.owner = set[s].owner,
                               !.data  = IF set[s].source = "none" THEN 0 ELSE restore[s].bound]
            <4>1. volume'[s] = claimed /\ UNCHANGED <<src, content, restore>>
                BY <1>t, <3>4 DEF ClaimVolume, ApiType, cloneVars
            <4>2. /\ claimed.owner = set[s].owner
                  /\ claimed.data = IF set[s].source = "none" THEN 0 ELSE restore[s].bound
                BY DEF NoVolume
            <4>3. set[s].owner # 0
                BY <3>4 DEF ClaimVolume
            <4> QED BY <2>1, <3>1, <4>1, <4>2, <4>3
                    DEF Kept, Own, Seeded, IsPreview, apiVars, cacheVars, passVars
        <3> QED BY <1>4, <3>2, <3>3, <3>4 DEF Operators
    <2> QED BY <1>p, <2>1, <2>3, <2>4 DEF Seeding
<1>5. ASSUME NEW s \in Stacks, Informer(s) PROVE Seeding'
    <2>1. UNCHANGED <<apiVars, objVars, cloneVars, passVars>>
        BY <1>5 DEF Informer, DeliverStack, DeliverSet, DeliverVolume
    <2>2. ASSUME NEW t \in Stacks, t \notin deleted' PROVE Kept(t)'
        <3>1. Kept(t)
            BY <2>1, <2>2 DEF Seeding, apiVars
        <3>2. /\ UNCHANGED stackSeen[t] \/ stackSeen'[t] = stack[t]
              /\ UNCHANGED setSeen[t] \/ setSeen'[t] = set[t]
            BY <1>5, <1>t DEF Informer, DeliverStack, DeliverSet, DeliverVolume, PassType
        <3>3. setSeen[t].owner # 0 => setSeen'[t].owner # 0
            BY <3>1, <3>2 DEF Kept, Seeded
        <3> QED BY <2>1, <3>1, <3>2, <3>3
                DEF Kept, Own, Seeded, IsPreview, apiVars, objVars, cloneVars, passVars
    <2> QED BY <1>p, <2>1, <2>2 DEF Seeding
<1>d. ASSUME Done PROVE PassKnows' /\ at' = NoStack /\ pc' = "idle"
    BY <1>d DEF Done, PassKnows
<1>6. CASE CallFails
    <2>1. Done /\ UNCHANGED <<apiVars, objVars, cloneVars, cacheVars>>
        BY <1>6 DEF CallFails, Retry
    <2>2. ASSUME NEW t \in Stacks, t \notin deleted' PROVE Kept(t)'
        BY <1>d, <2>1, <2>2, KeptByOthers DEF Seeding, apiVars, objVars, cloneVars, cacheVars
    <2> QED BY <1>d, <2>1, <2>2 DEF Seeding
<1>7. CASE Restart
    <2>1. Done /\ UNCHANGED <<apiVars, objVars, cloneVars>> /\ stackSeen' = stack /\ setSeen' = set
        BY <1>7 DEF Restart
    <2>2. ASSUME NEW t \in Stacks, t \notin deleted' PROVE Kept(t)'
        <3>1. Kept(t)
            BY <2>1, <2>2 DEF Seeding, apiVars
        <3> QED BY <1>d, <2>1, <3>1
                DEF Kept, Own, Seeded, IsPreview, apiVars, objVars, cloneVars
    <2> QED BY <1>d, <2>1, <2>2 DEF Seeding
<1>8. CASE UNCHANGED vars
    <2>1. UNCHANGED <<apiVars, objVars, cloneVars, cacheVars, passVars>>
        BY <1>8 DEF vars
    <2>2. ASSUME NEW t \in Stacks, t \notin deleted' PROVE Kept(t)'
        BY <2>1, <2>2, KeptByOthers
           DEF Seeding, apiVars, objVars, cloneVars, cacheVars, passVars
    <2> QED BY <1>p, <2>1, <2>2 DEF Seeding
<1> QED BY <1>1, <1>2, <1>3, <1>4, <1>5, <1>6, <1>7, <1>8 DEF User

LEMMA SeedingWorker ==
    ASSUME TypeOK, Seeding,
           Step \/ CheckSetFails \/ BackupFails \/ \E s \in Stacks : StartReconcile(s)
    PROVE  Seeding'
<1> USE Constants
<1>t. ApiType /\ PassType /\ (pc # "idle" => at \in Stacks)
    BY AtType DEF TypeOK
\* A pass that ends.
<1>d. ASSUME Done, UNCHANGED <<apiVars, set, volume, cloneVars, stackSeen, setSeen>> PROVE Seeding'
    <2>1. PassKnows' /\ at' = NoStack /\ pc' = "idle"
        BY <1>d DEF Done, PassKnows
    <2>2. ASSUME NEW t \in Stacks, t \notin deleted' PROVE Kept(t)'
        BY <1>d, <2>1, <2>2, KeptByOthers DEF Seeding, apiVars, cloneVars
    <2> QED BY <2>1, <2>2 DEF Seeding
\* A pass that goes on: what remains to be shown is about its own Stack.
<1>g. ASSUME NEW step, GoTo(step), pc # "idle", UNCHANGED <<apiVars, stackSeen, setSeen>>,
             PassKnows',
             \A t \in Stacks : t # at =>
                 UNCHANGED <<set[t], volume[t], src[t], content[t], restore[t]>>,
             at \notin deleted => Kept(at)'
      PROVE  Seeding'
    <2>1. at' = at
        BY <1>g DEF GoTo
    <2>2. ASSUME NEW t \in Stacks, t \notin deleted', t # at PROVE Kept(t)'
        BY <1>g, <2>1, <2>2 DEF Seeding, Kept, Own, Seeded, IsPreview, apiVars
    <2>3. at \notin deleted => Kept(at)'
        BY <1>g
    <2> QED BY <1>g, <2>1, <2>2, <2>3 DEF Seeding, Kept, Own, Seeded, apiVars
<1>q. ASSUME NEW step, GoTo(step), step # "set", UNCHANGED <<apiVars, stackSeen, setSeen>>,
             PassKnows', pc # "idle", UNCHANGED handle,
             UNCHANGED <<set, volume, cloneVars>>
      PROVE  Seeding'
    <2>1. at \notin deleted => Kept(at)
        BY <1>q, <1>t DEF Seeding
    <2>2. at' = at /\ view' = view /\ pc' = step
        BY <1>q DEF GoTo
    <2>3. at \notin deleted => Kept(at)'
        BY <1>q, <2>1, <2>2 DEF Kept, Own, Seeded, IsPreview, apiVars, cloneVars
    <2> QED BY <1>g, <1>q, <2>3 DEF cloneVars
<1>1. ASSUME NEW s \in Stacks, StartReconcile(s) PROVE Seeding'
    <2>1. UNCHANGED <<apiVars, objVars, cloneVars, cacheVars, handle>> /\ pc = "idle"
        BY <1>1 DEF StartReconcile
    <2>2. UNCHANGED <<at, pc, view>>
          \/ (at' = s /\ pc' = "exists" /\ view' = stackSeen[s] /\ stackSeen[s] # 0)
        BY <1>1 DEF StartReconcile
    <2>3. handle = 0 /\ PassKnows'
        BY <2>1, <2>2 DEF Seeding, PassKnows
    <2>4. ASSUME NEW t \in Stacks, t \notin deleted' PROVE Kept(t)'
        <3>1. Kept(t)
            BY <2>1, <2>4 DEF Seeding, apiVars
        <3> QED BY <2>1, <2>2, <2>3, <3>1
                DEF Kept, Own, Seeded, IsPreview, apiVars, objVars, cloneVars, cacheVars
    <2> QED BY <2>3, <2>4 DEF Seeding
<1>2. CASE CheckSet \/ CheckSetFails
    <2>1. pc = "exists" /\ UNCHANGED <<apiVars, objVars, cloneVars, cacheVars, handle>>
        BY <1>2 DEF CheckSet, CheckSetFails
    <2>2. PICK b \in BOOLEAN : GoTo(AfterExists(b)) /\ (b => setSeen[at].owner # 0)
        <3>1. CASE CheckSet
            BY <3>1 DEF CheckSet
        <3>2. CASE CheckSetFails
            BY <3>2 DEF CheckSetFails
        <3> QED BY <1>2, <3>1, <3>2
    <2>3. at' = at /\ view' = view /\ pc' = AfterExists(b) /\ handle' = 0 /\ view # 0
        BY <2>1, <2>2 DEF GoTo, Seeding, PassKnows
    <2>4. PassKnows'
        BY <2>3 DEF PassKnows, AfterExists
    <2>5. at \notin deleted => Kept(at)
        BY <2>1, <1>t DEF Seeding
    <2>6. at \notin deleted => Kept(at)'
        BY <2>1, <2>2, <2>3, <2>5
           DEF Kept, Own, Seeded, IsPreview, AfterExists, apiVars, objVars, cloneVars, cacheVars
    <2> QED BY <1>g, <2>1, <2>2, <2>4, <2>6 DEF objVars, cloneVars, cacheVars
<1>3. CASE EnsureSource
    <2> DEFINE now == IF src[at].id = 0 THEN [id |-> shots[at] + 1, ready |-> "no"] ELSE src[at]
    <2>1. pc = "source" /\ src' = [src EXCEPT ![at] = now]
          /\ UNCHANGED <<apiVars, objVars, content, restore, cacheVars>>
        BY <1>3 DEF EnsureSource
    <2>2. PICK step \in {"status", "handle"} :
              GoTo(step) /\ handle' = IF step = "status" THEN handle ELSE now.id
        BY <1>3 DEF EnsureSource, Wait
    <2>3. at' = at /\ view' = view /\ pc' = step /\ view # 0 /\ handle = 0
        BY <2>1, <2>2 DEF GoTo, Seeding, PassKnows
    <2>4. now.id = (IF src[at].id = 0 THEN shots[at] + 1 ELSE src[at].id) /\ now.id # 0
        BY <1>t, <2>1 DEF ApiType
    <2>5. PassKnows'
        BY <2>2, <2>3, <2>4 DEF PassKnows
    <2>6. src'[at].id = now.id /\ \A t \in Stacks : t # at => src'[t] = src[t]
        BY <1>t, <2>1 DEF ApiType
    <2>7. at \notin deleted => Kept(at)
        BY <2>1, <1>t DEF Seeding
    <2>8. at \notin deleted => Kept(at)'
        BY <2>1, <2>2, <2>3, <2>4, <2>6, <2>7
           DEF Kept, Own, Seeded, IsPreview, apiVars, objVars, cacheVars
    <2> QED BY <1>g, <2>1, <2>2, <2>5, <2>6, <2>8 DEF objVars, cacheVars
<1>4. CASE ReadHandle
    <2>1. pc = "handle" /\ UNCHANGED <<apiVars, objVars, cloneVars, cacheVars, handle>>
        BY <1>4 DEF ReadHandle, Wait
    <2>2. PICK step \in {"status", "content"} : GoTo(step)
        BY <1>4 DEF ReadHandle, Wait
    <2>3. PassKnows'
        BY <2>1, <2>2 DEF GoTo, Seeding, PassKnows
    <2> QED BY <1>q, <2>1, <2>2, <2>3 DEF objVars, cacheVars
<1>5. CASE EnsureContent
    <2>1. pc = "content" /\ UNCHANGED <<apiVars, objVars, shots, src, restore, cacheVars>>
        BY <1>5 DEF EnsureContent
    <2>2. CASE Retry /\ UNCHANGED content
        BY <1>d, <2>1, <2>2 DEF Retry, objVars, cloneVars, cacheVars
    <2>3. CASE ~(Retry /\ UNCHANGED content)
        <3>1. content' = [content EXCEPT ![at].handle = handle] /\ GoTo("restore") /\ UNCHANGED handle
            BY <1>5, <2>3 DEF EnsureContent
        <3>2. PassKnows' /\ at' = at /\ view' = view /\ pc' = "restore"
            BY <2>1, <3>1 DEF GoTo, Seeding, PassKnows
        <3>3. at \notin deleted => Kept(at)
            BY <2>1, <1>t DEF Seeding
        <3>4. content[at] \in Contents
            BY <2>1, <1>t DEF ApiType
        <3>5. content'[at].handle = handle /\ \A t \in Stacks : t # at => content'[t] = content[t]
            BY <1>t, <2>1, <3>1, <3>4 DEF ApiType, Contents
        <3>6. at \notin deleted => Kept(at)'
            BY <2>1, <3>1, <3>2, <3>3, <3>5
               DEF Kept, Own, Seeded, IsPreview, apiVars, objVars, cacheVars
        <3> QED BY <1>g, <2>1, <3>1, <3>2, <3>5, <3>6 DEF objVars, cacheVars
    <2> QED BY <2>2, <2>3
<1>6. CASE EnsureRestore
    <2>1. pc = "restore" /\ UNCHANGED <<apiVars, objVars, shots, src, content, cacheVars>>
        BY <1>6 DEF EnsureRestore
    <2>2. CASE Retry /\ UNCHANGED restore
        BY <1>d, <2>1, <2>2 DEF Retry, objVars, cloneVars, cacheVars
    <2>3. CASE ~(Retry /\ UNCHANGED restore)
        <3>1. restore' = [restore EXCEPT ![at].made = "yes"]
            BY <1>6, <2>3 DEF EnsureRestore
        <3>2. PICK step \in {"status", "set"} :
                  /\ GoTo(step) /\ UNCHANGED handle
                  /\ step = "set" => restore[at].bound # 0
            BY <1>6, <2>3 DEF EnsureRestore, Wait, AfterRestore
        <3>3. restore[at] \in Restores
            BY <1>t, <2>1 DEF ApiType
        <3>4. restore'[at].bound = restore[at].bound
              /\ \A t \in Stacks : t # at => restore'[t] = restore[t]
            BY <1>t, <2>1, <3>1, <3>3 DEF ApiType, Restores
        <3>5. at' = at /\ view' = view /\ pc' = step /\ handle # 0 /\ PassKnows'
            BY <2>1, <3>2 DEF GoTo, Seeding, PassKnows
        <3>6. at \notin deleted => Kept(at)
            BY <2>1, <1>t DEF Seeding
        <3>7. at \notin deleted => Kept(at)'
            BY <2>1, <3>2, <3>4, <3>5, <3>6
               DEF Kept, Own, Seeded, IsPreview, apiVars, objVars, cacheVars
        <3> QED BY <1>g, <2>1, <3>2, <3>4, <3>5, <3>7 DEF objVars, cacheVars
    <2> QED BY <2>2, <2>3
<1>7. CASE EnsureSet
    <2>1. pc = "set" /\ UNCHANGED <<apiVars, volume, sched, cloneVars, cacheVars>>
        BY <1>7 DEF EnsureSet
    <2>2. CASE Retry /\ UNCHANGED set
        BY <1>d, <2>1, <2>2 DEF Retry, cacheVars
    <2>3. CASE ~(Retry /\ UNCHANGED set)
        <3>1. /\ GoTo(AfterSet) /\ UNCHANGED handle
              /\ ~Rejected(setSeen[at], set[at])
              /\ set' = IF set[at].owner = 0 THEN [set EXCEPT ![at] = NewSet] ELSE set
            BY <1>7, <2>3 DEF EnsureSet
        <3>2. at' = at /\ view' = view /\ pc' \in {"label", "status"} /\ view # 0
            BY <2>1, <3>1 DEF GoTo, AfterSet, Seeding, PassKnows
        <3>3. PassKnows'
            BY <3>2 DEF PassKnows
        <3>4. \A t \in Stacks : t # at => set'[t] = set[t]
            BY <1>t, <3>1 DEF ApiType
        <3>5. /\ NewSet.owner = view
              /\ NewSet.source = IF handle # 0 THEN "restore" ELSE "none"
            BY DEF NewSet
        <3>6. \/ set'[at] = set[at]
              \/ set'[at] = NewSet /\ setSeen[at].owner = 0
            BY <1>t, <2>1, <3>1 DEF ApiType, Rejected, Refused
        <3>7. at \notin deleted => Kept(at)
            BY <2>1, <1>t DEF Seeding
        <3>8. at \notin deleted => Kept(at)'
            BY <2>1, <3>1, <3>2, <3>5, <3>6, <3>7
               DEF Kept, Own, Seeded, IsPreview, apiVars, cloneVars, cacheVars
        <3> QED BY <1>g, <2>1, <3>1, <3>3, <3>4, <3>8 DEF cloneVars, cacheVars
    <2> QED BY <2>2, <2>3
<1>8. CASE LabelVolume
    <2>1. pc = "label" /\ GoTo("schedule")
          /\ UNCHANGED <<apiVars, set, cloneVars, cacheVars, handle>>
        BY <1>8 DEF LabelVolume
    <2>2. at' = at /\ view' = view /\ pc' = "schedule" /\ PassKnows'
        BY <2>1 DEF GoTo, Seeding, PassKnows
    <2>3. volume[at] \in Volumes
        BY <1>t, <2>1 DEF ApiType
    <2>4. /\ volume'[at].owner = volume[at].owner /\ volume'[at].data = volume[at].data
          /\ \A t \in Stacks : t # at => volume'[t] = volume[t]
        BY <1>8, <1>t, <2>1, <2>3 DEF LabelVolume, ApiType, Volumes
    <2>5. at \notin deleted => Kept(at)
        BY <2>1, <1>t DEF Seeding
    <2>6. at \notin deleted => Kept(at)'
        BY <2>1, <2>2, <2>4, <2>5 DEF Kept, Own, Seeded, IsPreview, apiVars, cloneVars, cacheVars
    <2> QED BY <1>g, <2>1, <2>2, <2>4, <2>6 DEF cloneVars, cacheVars
<1>9. CASE EnsureSchedule \/ BackupFails
    <2>1. pc \in {"label", "schedule"}
          /\ UNCHANGED <<apiVars, set, volume, cloneVars, cacheVars, handle>>
        BY <1>9 DEF EnsureSchedule, BackupFails, objVars
    <2>2. PICK step \in {"schedule", "status"} : GoTo(step)
        BY <1>9 DEF EnsureSchedule, BackupFails
    <2>3. PassKnows'
        BY <2>1, <2>2 DEF GoTo, Seeding, PassKnows
    <2> QED BY <1>q, <2>1, <2>2, <2>3 DEF cacheVars
<1>10. CASE EndPass
    BY <1>10, <1>d DEF EndPass, objVars, cacheVars
<1> QED BY <1>1, <1>2, <1>3, <1>4, <1>5, <1>6, <1>7, <1>8, <1>9, <1>10 DEF Step

LEMMA InitSeeding == Init => Seeding
    BY Constants
    DEF Init, Seeding, PassKnows, Kept, Own, Seeded, NoSet, NoVolume, NoSnapshot, NoContent,
        NoRestore

LEMMA SeedingStep == TypeOK /\ Seeding /\ [Next]_vars => Seeding'
    BY SeedingOthers, SeedingWorker DEF Next

LEMMA AlwaysSeeding == Spec => []Seeding
    BY InitSeeding, SeedingStep, TypeCorrect, PTL DEF Spec

\* The StatefulSet of a preview that was never deleted restores, and its volume
\* holds what was snapshotted for it, for any previews of any parents, whatever
\* fails, lags or is repeated (snapshots.go: prepareCloneRestore).
THEOREM AlwaysSeeded == Spec => []PreviewIsSeeded
<1>1. Seeding => PreviewIsSeeded
    BY DEF Seeding, Kept, Seeded, PreviewIsSeeded
<1> QED BY <1>1, AlwaysSeeding, PTL

\* The restore snapshot is bound before a claim template names it, and stays
\* (stack_controller.go:627, servicedef.go:281).
THEOREM RestoresFirst == Spec => []RestoreFirst
<1>1. Seeding => RestoreFirst
    BY DEF Seeding, Kept, Seeded, RestoreFirst
<1> QED BY <1>1, AlwaysSeeding, PTL

-----------------------------------------------------------------------------
\* That nothing is forgotten. The uids of one name are given in turn.
Fresh == /\ at # NoStack => view <= uids[at]
         /\ \A s \in Stacks : stack[s] <= uids[s] /\ stackSeen[s] <= uids[s]

\* What the cache hears while a pass runs puts its key in the queue, so that a
\* pass whose key is not there has read what is cached.
PassSees == at # NoStack /\ at \notin queued => stackSeen[at] = view

\* Near its end, a pass that asks for no poll has come by the StatefulSet. That
\* of a Stack that is there is not collected.
PassMinded == pc \in {"label", "schedule", "status"} /\ pending = "no" /\ view = stack[at] =>
                  set[at].owner = view

Left(s) == s \notin queued /\ at # s /\ stackSeen[s] # 0 /\ stackSeen[s] = stack[s] =>
               set[s].owner = stack[s]

Awake == Fresh /\ PassSees /\ PassMinded /\ \A s \in Stacks : Left(s)

LEMMA Numbers ==
    ASSUME TypeOK
    PROVE  \A s \in Stacks : uids[s] \in Nat /\ stack[s] \in Nat /\ stackSeen[s] \in Nat
    BY Constants DEF TypeOK, ApiType, PassType

\* The end of a pass that puts its key back.
LEMMA AwakeRetry ==
    ASSUME TypeOK, Awake, Done, queued' = queued \cup {at},
           UNCHANGED <<uids, stack, set, stackSeen>>
    PROVE  Awake'
<1>1. at' = NoStack /\ pc' = "idle"
    BY DEF Done
<1>2. Fresh' /\ PassSees' /\ PassMinded'
    BY <1>1 DEF Awake, Fresh, PassSees, PassMinded
<1>3. \A s \in Stacks : Left(s)'
    BY DEF Awake, Left
<1> QED BY <1>2, <1>3 DEF Awake

\* Users, the other controllers, the caches, failures.
LEMMA AwakeOthers ==
    ASSUME TypeOK, Seeding, Awake,
           \/ User \/ CallFails \/ Restart \/ UNCHANGED vars
           \/ \E s \in Stacks : Teardown(s) \/ Informer(s) \/ Collector(s) \/ Operators(s)
    PROVE  Awake'
<1>t. ApiType /\ PassType
    BY DEF TypeOK
<1>i. pc # "idle" => at \in Stacks /\ view # 0
    BY AtType DEF Seeding, PassKnows
<1>a. at # NoStack => at \in Stacks
    BY <1>t DEF PassType
\* What leaves the pass alone, and of a Stack that is there the StatefulSet.
<1>k. ASSUME UNCHANGED <<at, pc, view, pending>>, queued \subseteq queued',
             \A t \in Stacks :
                /\ uids[t] <= uids'[t]
                /\ \/ UNCHANGED stack[t] \/ stack'[t] = 0
                   \/ stack'[t] = uids[t] + 1 /\ uids'[t] = uids[t] + 1
                /\ UNCHANGED stackSeen[t] \/ (stackSeen'[t] = stack[t] /\ t \in queued')
                /\ set[t].owner = stack[t] => UNCHANGED set[t],
             \A t \in Stacks : uids'[t] \in Nat
      PROVE  Awake'
    <2>1. Fresh'
        <3>1. ASSUME NEW t \in Stacks PROVE stack'[t] <= uids'[t] /\ stackSeen'[t] <= uids'[t]
            <4>1. stack[t] <= uids[t] /\ stackSeen[t] <= uids[t]
                BY DEF Awake, Fresh
            <4>2. stack[t] \in Nat /\ stackSeen[t] \in Nat /\ uids[t] \in Nat /\ uids'[t] \in Nat
                BY <1>k, Numbers
            <4> QED BY <1>k, <4>1, <4>2
        <3>2. at # NoStack => view <= uids'[at]
            <4>1. view \in Nat
                BY <1>t, Constants DEF PassType
            <4> QED BY <1>a, <1>k, <4>1, Numbers DEF Awake, Fresh
        <3> QED BY <1>k, <3>1, <3>2 DEF Fresh
    <2>2. PassSees'
        BY <1>a, <1>k DEF Awake, PassSees
    <2>3. PassMinded'
        <3> SUFFICES ASSUME pc \in {"label", "schedule", "status"}, pending = "no",
                            view = stack'[at]
                     PROVE  set'[at].owner = view
            BY <1>k DEF PassMinded
        <3>1. at \in Stacks /\ view # 0 /\ at # NoStack
            BY <1>i, Constants
        <3>2. view <= uids[at] /\ uids[at] \in Nat
            BY <3>1, Numbers DEF Awake, Fresh
        <3>3. view = stack[at]
            BY <1>k, <3>1, <3>2
        <3> QED BY <1>k, <3>1, <3>3 DEF Awake, PassMinded
    <2>4. ASSUME NEW t \in Stacks PROVE Left(t)'
        <3> SUFFICES ASSUME t \notin queued', at # t, stackSeen'[t] # 0, stackSeen'[t] = stack'[t]
                     PROVE  set'[t].owner = stack'[t]
            BY <1>k DEF Left
        <3>1. stackSeen[t] # 0 /\ stackSeen[t] = stack'[t] /\ t \notin queued
            BY <1>k
        <3>2. stackSeen[t] <= uids[t] /\ uids[t] \in Nat
            BY Numbers DEF Awake, Fresh
        <3>3. stack'[t] = stack[t]
            BY <1>k, <3>1, <3>2
        <3> QED BY <1>k, <3>1, <3>3 DEF Awake, Left
    <2> QED BY <2>1, <2>2, <2>3, <2>4 DEF Awake
<1>n. \A t \in Stacks : uids[t] <= uids[t] /\ uids[t] \in Nat
    BY Numbers
<1>1. ASSUME NEW s \in Stacks, CreateStack(s) PROVE Awake'
    <2>1. /\ UNCHANGED <<set, stackSeen, queued, at, pc, view, pending>>
          /\ uids' = [uids EXCEPT ![s] = @ + 1] /\ stack' = [stack EXCEPT ![s] = uids[s] + 1]
        BY <1>1 DEF CreateStack, objVars, cacheVars, passVars
    <2>2. \A t \in Stacks : \/ t # s /\ UNCHANGED <<uids[t], stack[t]>>
                            \/ uids'[t] = uids[t] + 1 /\ stack'[t] = uids[t] + 1
        BY <1>t, <2>1 DEF ApiType
    <2>3. \A t \in Stacks : uids[t] <= uids'[t] /\ uids'[t] \in Nat
        BY <1>n, <2>2
    <2> QED BY <1>k, <2>1, <2>2, <2>3
<1>2. ASSUME UNCHANGED <<uids, stackSeen, set, queued, at, pc, view, pending>>,
             \A t \in Stacks : UNCHANGED stack[t] \/ stack'[t] = 0
      PROVE  Awake'
    BY <1>2, <1>k, <1>n
<1>3. ASSUME NEW s \in Stacks, DeleteStack(s) \/ TearDown(s) \/ Teardown(s) PROVE Awake'
    BY <1>2, <1>3, <1>t DEF DeleteStack, TearDown, Teardown, CollectSnapshots, CollectContents,
       TerminateStack, TerminateRestore, EndNamespace, apiVars, objVars, cacheVars, passVars,
       ApiType
<1>4. ASSUME NEW s \in Stacks, CollectSet(s) PROVE Awake'
    <2>1. /\ UNCHANGED <<uids, stack, stackSeen, queued, at, pc, view, pending>>
          /\ set[s].owner # stack[s] /\ \A t \in Stacks : t # s => set'[t] = set[t]
        BY <1>4, <1>t DEF CollectSet, Orphan, apiVars, cacheVars, passVars, ApiType
    <2> QED BY <1>k, <1>n, <2>1
<1>5. ASSUME NEW s \in Stacks,
             CollectVolume(s) \/ CollectSchedule(s) \/ Operators(s) \/ DeliverSet(s)
                \/ DeliverVolume(s)
      PROVE  Awake'
    BY <1>2, <1>5 DEF CollectVolume, CollectSchedule, Operators, TakeSnapshot, BindRestore,
       ClaimVolume, DeliverSet, DeliverVolume, apiVars, objVars, cacheVars, passVars
<1>6. ASSUME NEW s \in Stacks, DeliverStack(s) PROVE Awake'
    <2>1. /\ UNCHANGED <<uids, stack, set, at, pc, view, pending>> /\ queued' = queued \cup {s}
          /\ \A t \in Stacks : UNCHANGED stackSeen[t] \/ (stackSeen'[t] = stack[t] /\ t = s)
        BY <1>6, <1>t DEF DeliverStack, apiVars, objVars, passVars, PassType
    <2> QED BY <1>k, <1>n, <2>1
<1>7. CASE CallFails
    BY <1>7, AwakeRetry DEF CallFails, Retry, apiVars, objVars, cacheVars
<1>8. CASE Restart
    <2>1. /\ at' = NoStack /\ pc' = "idle" /\ UNCHANGED <<uids, stack, set>>
          /\ stackSeen' = stack /\ queued' = {s \in Stacks : stack[s] # 0}
        BY <1>8 DEF Restart, Done, apiVars, objVars
    <2>2. Fresh' /\ PassSees' /\ PassMinded'
        BY <2>1 DEF Awake, Fresh, PassSees, PassMinded
    <2>3. \A s \in Stacks : Left(s)'
        BY <2>1 DEF Left
    <2> QED BY <2>2, <2>3 DEF Awake
<1>9. CASE UNCHANGED vars
    BY <1>2, <1>9 DEF vars, apiVars, objVars, cacheVars, passVars
<1> QED BY <1>1, <1>3, <1>4, <1>5, <1>6, <1>7, <1>8, <1>9 DEF User, Informer, Collector

LEMMA AwakeWorker ==
    ASSUME TypeOK, Awake,
           Step \/ CheckSetFails \/ BackupFails \/ \E s \in Stacks : StartReconcile(s)
    PROVE  Awake'
<1>t. ApiType /\ PassType /\ (pc # "idle" => at \in Stacks)
    BY AtType DEF TypeOK
<1>i. (pc = "idle" <=> at = NoStack) /\ NoStack \notin Stacks
    BY <1>t, Constants DEF PassType
<1>r. ASSUME Retry, UNCHANGED <<uids, stack, set, stackSeen>> PROVE Awake'
    BY <1>r, AwakeRetry DEF Retry
\* A step that goes on with the pass and writes at most its own StatefulSet.
<1>g. ASSUME NEW step, GoTo(step), UNCHANGED <<uids, stack, stackSeen>>, PassMinded',
             \A t \in Stacks : t # at => UNCHANGED set[t]
      PROVE  Awake'
    BY <1>g DEF GoTo, Awake, Fresh, PassSees, Left
<1>e. ASSUME NEW step, GoTo(step), UNCHANGED <<uids, stack, stackSeen, set>>,
             \/ step \notin {"label", "schedule", "status"} \/ pending' = "yes"
             \/ pc \in {"label", "schedule", "status"} /\ UNCHANGED pending
      PROVE  Awake'
    <2>1. PassMinded'
        BY <1>e DEF GoTo, Awake, PassMinded
    <2> QED BY <1>e, <1>g, <2>1
<1>1. ASSUME NEW s \in Stacks, StartReconcile(s) PROVE Awake'
    <2>1. /\ UNCHANGED <<uids, stack, set, stackSeen, pending>>
          /\ pc = "idle" /\ at = NoStack /\ queued' = queued \ {s}
        BY <1>1, <1>i DEF StartReconcile, apiVars, objVars, cacheVars
    <2>2. \/ UNCHANGED <<at, pc, view>> /\ stackSeen[s] = 0
          \/ at' = s /\ pc' = "exists" /\ view' = stackSeen[s]
        BY <1>1 DEF StartReconcile
    <2>3. Fresh' /\ PassSees' /\ PassMinded'
        BY <1>i, <2>1, <2>2 DEF Awake, Fresh, PassSees, PassMinded
    <2>4. ASSUME NEW t \in Stacks PROVE Left(t)'
        BY <1>i, <2>1, <2>2 DEF Awake, Left
    <2> QED BY <2>3, <2>4 DEF Awake
<1>2. CASE CheckSet \/ CheckSetFails
    <2>1. PICK b \in BOOLEAN : GoTo(AfterExists(b))
        BY <1>2 DEF CheckSet, CheckSetFails
    <2>2. AfterExists(b) \notin {"label", "schedule", "status"}
        BY DEF AfterExists
    <2>3. UNCHANGED <<uids, stack, stackSeen, set>>
        BY <1>2 DEF CheckSet, CheckSetFails, apiVars, objVars, cacheVars
    <2> QED BY <1>e, <2>1, <2>2, <2>3
<1>3. CASE EnsureSource \/ ReadHandle \/ EnsureContent
    <2>1. UNCHANGED <<uids, stack, stackSeen, set>>
        BY <1>3 DEF EnsureSource, ReadHandle, EnsureContent, apiVars, objVars, cacheVars
    <2>2. CASE Retry
        BY <1>r, <2>1, <2>2
    <2>3. CASE ~Retry
        <3>1. PICK step : /\ GoTo(step)
                          /\ step \notin {"label", "schedule", "status"} \/ pending' = "yes"
            BY <1>3, <2>3 DEF EnsureSource, ReadHandle, EnsureContent, Wait
        <3> QED BY <1>e, <2>1, <3>1
    <2> QED BY <2>2, <2>3
<1>4. CASE EnsureRestore
    <2>1. UNCHANGED <<uids, stack, stackSeen, set>>
        BY <1>4 DEF EnsureRestore, apiVars, objVars, cacheVars
    <2>2. CASE Retry
        BY <1>r, <2>1, <2>2
    <2>3. CASE ~Retry
        <3>1. PICK step : /\ GoTo(step)
                          /\ step \notin {"label", "schedule", "status"} \/ pending' = "yes"
            BY <1>4, <2>3 DEF EnsureRestore, Wait
        <3> QED BY <1>e, <2>1, <3>1
    <2> QED BY <2>2, <2>3
<1>5. CASE EnsureSet
    <2>1. pc = "set" /\ UNCHANGED <<uids, stack, stackSeen>> /\ at \in Stacks
        BY <1>5, <1>t DEF EnsureSet, apiVars, cacheVars
    <2>2. CASE Retry /\ UNCHANGED set
        BY <1>r, <2>1, <2>2
    <2>3. CASE ~(Retry /\ UNCHANGED set)
        <3>1. /\ GoTo(AfterSet) /\ ~Rejected(setSeen[at], set[at])
              /\ set' = IF set[at].owner = 0 THEN [set EXCEPT ![at] = NewSet] ELSE set
            BY <1>5, <2>3 DEF EnsureSet
        <3>2. set[at].owner \in {0, view}
            BY <3>1 DEF Rejected, Refused
        <3>3. NewSet.owner = view
            BY DEF NewSet
        <3>4. set'[at].owner = view /\ \A t \in Stacks : t # at => set'[t] = set[t]
            BY <1>t, <2>1, <3>1, <3>2, <3>3 DEF ApiType
        <3>5. PassMinded'
            BY <3>1, <3>4 DEF GoTo, PassMinded
        <3> QED BY <1>g, <2>1, <3>1, <3>4, <3>5
    <2> QED BY <2>2, <2>3
<1>6. CASE LabelVolume \/ EnsureSchedule \/ BackupFails
    <2>1. /\ pc \in {"label", "schedule", "status"}
          /\ UNCHANGED <<uids, stack, stackSeen, set, pending>>
        BY <1>6 DEF LabelVolume, EnsureSchedule, BackupFails, apiVars, objVars, cacheVars
    <2>2. PICK step : GoTo(step)
        BY <1>6 DEF LabelVolume, EnsureSchedule, BackupFails
    <2> QED BY <1>e, <2>1, <2>2
<1>7. CASE EndPass
    <2>1. pc = "status" /\ Done /\ at \in Stacks /\ UNCHANGED <<uids, stack, stackSeen, set>>
        BY <1>7, <1>t DEF EndPass, apiVars, objVars, cacheVars
    <2>2. CASE pending = "yes" \/ stack[at] # view
        BY <1>7, <2>1, <2>2, AwakeRetry DEF EndPass
    <2>3. CASE ~(pending = "yes" \/ stack[at] # view)
        <3>1. queued' = queued /\ pending = "no" /\ stack[at] = view
            BY <1>7, <1>t, <2>3 DEF EndPass, PassType, Flags
        <3>2. at' = NoStack /\ pc' = "idle" /\ set[at].owner = view
            BY <2>1, <3>1 DEF Done, Awake, PassMinded
        <3>3. Fresh' /\ PassSees' /\ PassMinded'
            BY <2>1, <3>2 DEF Awake, Fresh, PassSees, PassMinded
        <3>4. ASSUME NEW t \in Stacks PROVE Left(t)'
            BY <2>1, <3>1, <3>2 DEF Awake, Left
        <3> QED BY <3>3, <3>4 DEF Awake
    <2> QED BY <2>2, <2>3
<1> QED BY <1>1, <1>2, <1>3, <1>4, <1>5, <1>6, <1>7 DEF Step

LEMMA InitAwake == Init => Awake
    BY Constants DEF Init, Awake, Fresh, PassSees, PassMinded, Left

\* A Stack that is in no queue and no pass and of which the cache has the last
\* version has its StatefulSet, although nothing watches the snapshots that one
\* may wait for: who finds one missing or not ready asked to be polled
\* (stack_controller.go: Reconcile; snapshots.go: prepareCloneRestore).
THEOREM NoWakeupLost == Spec => []NothingForgotten
<1>1. Awake => NothingForgotten
    BY DEF Awake, Left, NothingForgotten, Quiet
<1>2. TypeOK /\ Seeding /\ Awake /\ [Next]_vars => Awake'
    BY AwakeOthers, AwakeWorker DEF Next
<1> QED BY <1>1, <1>2, InitAwake, AlwaysSeeding, TypeCorrect, PTL DEF Spec
=============================================================================
