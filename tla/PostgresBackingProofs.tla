----------------------- MODULE PostgresBackingProofs -----------------------
(***************************************************************************)
(* Proofs about PostgresBacking for any Stacks, origins and bounds: types, *)
(* that the Cluster of a clone is seeded, that the Secret it recovers with *)
(* is there, that archives do not mix, and that no Stack is forgotten.     *)
(*                                                                         *)
(* None of these is inductive: a pass carries what an earlier call found   *)
(* out to the call that creates the Cluster. Seeding says what it still    *)
(* means by then, Fresh that uids are never given again, Copied what is    *)
(* known of the Secret, Apart that no two names ever have a uid in common, *)
(* Lineage that a clone stays one, Awake who will come back to what a pass *)
(* has left undone.                                                        *)
(***************************************************************************)
EXTENDS PostgresBacking, TLAPS

\* Only a pass of a clone looks for a parent.
OnClone == pc \in {"parent", "source", "creds"} => IsClone(view)

Typed == TypeOK /\ OnClone

\* A Stack of the name is edited.
Edited(s) == \E b \in Flags, p \in Origins[s] \cup {NoStack} : EditStack(s, b, p)

LEMMA Constants == /\ NoStack \notin Stacks /\ Uids \subseteq Nat /\ 0 \in Uids
                   /\ \A s \in Stacks : Origins[s] \subseteq Stacks
                   /\ Born \subseteq Flags
                   /\ Gone \in StackState /\ Gone.uid = 0
                   /\ NoClaim \in Claims /\ NoSecret \in Secrets
                   /\ NoCluster \in Clusters
    BY StacksAssumption, BoundsAssumption
    DEF Uids, Gone, StackState, NoClaim, Claims, NoSecret, Secrets, NoCluster, Clusters, Flags

\* Where a pass works.
LEMMA AtType == TypeOK /\ pc # "idle" => at \in Stacks
    BY DEF TypeOK, PassType

\* An edit leaves the uid, and makes no clone a Stack of its own.
LEMMA EditKeeps ==
    ASSUME stack \in [Stacks -> StackState], NEW s \in Stacks, Edited(s)
    PROVE  /\ stack' \in [Stacks -> StackState]
           /\ \A t \in Stacks : t # s => stack'[t] = stack[t]
           /\ \A t \in Stacks : stack'[t].uid = stack[t].uid
           /\ stack[s].from # NoStack => stack'[s].from # NoStack
<1>1. PICK b \in Flags, p \in Origins[s] \cup {NoStack} : EditStack(s, b, p)
    BY DEF Edited
<1> DEFINE o == [stack[s] EXCEPT !.backup = b, !.from = p]
<1>2. stack[s] \in StackState
    OBVIOUS
<1>3. stack' = [stack EXCEPT ![s] = o]
    BY <1>1 DEF EditStack
<1>4. o \in StackState /\ o.uid = stack[s].uid /\ o.from = p
    BY <1>2, Constants DEF StackState
<1>5. stack[s].from # NoStack => p # NoStack
    BY <1>1, Constants DEF EditStack
<1> HIDE DEF o
<1>6. stack'[s] = o /\ \A t \in Stacks : t # s => stack'[t] = stack[t]
    BY <1>3
<1>7. stack' \in [Stacks -> StackState]
    BY <1>3, <1>4
<1>8. \A t \in Stacks : stack'[t].uid = stack[t].uid
    BY <1>4, <1>6
<1> QED BY <1>4, <1>5, <1>6, <1>7, <1>8

-----------------------------------------------------------------------------
\* The end of a pass, whatever becomes of the rest.
LEMMA DoneTyped ==
    ASSUME Typed, Done, ApiType', stackSeen' \in [Stacks -> StackState],
           publishedSeen' \in [Stacks -> Uids], credsSeen' \in [Stacks -> Secrets],
           queued' \subseteq Stacks, edits' \in 0 .. MaxEdits, faults' \in 0 .. MaxFaults
    PROVE  Typed'
    BY Constants DEF Typed, TypeOK, PassType, OnClone, Done, Steps, Flags

\* A call that leaves the pass alone.
LEMMA OutsideTyped ==
    ASSUME Typed, UNCHANGED passVars, ApiType', stackSeen' \in [Stacks -> StackState],
           publishedSeen' \in [Stacks -> Uids], credsSeen' \in [Stacks -> Secrets],
           queued' \subseteq Stacks, edits' \in 0 .. MaxEdits, faults' \in 0 .. MaxFaults
    PROVE  Typed'
    BY DEF Typed, TypeOK, PassType, OnClone, IsClone, passVars

\* A call that goes on with the pass.
LEMMA GoToTyped ==
    ASSUME Typed, pc # "idle", NEW step \in Steps \ {"idle"}, GoTo(step), ApiType',
           step \in {"parent", "source", "creds"} => IsClone(view),
           source' \in Uids, archive' \in Uids, pending' \in Flags,
           UNCHANGED <<cacheVars, boundVars>>
    PROVE  Typed'
    BY DEF Typed, TypeOK, PassType, OnClone, IsClone, GoTo, cacheVars, boundVars

-----------------------------------------------------------------------------
\* Users, the other controllers, the caches, failures.
LEMMA OthersTyped ==
    ASSUME Typed,
           \/ User \/ CallFails \/ Restart
           \/ \E s \in Stacks : Informer(s) \/ Collector(s) \/ Operators(s)
    PROVE  Typed'
<1> USE BoundsAssumption, Constants
<1>t. ApiType /\ PassType
    BY DEF Typed, TypeOK
<1>1. ASSUME NEW s \in Stacks, NEW b \in Born, NEW p \in Origins[s] \cup {NoStack},
             CreateStack(s, b, p)
      PROVE  Typed'
    <2>1. uids + 1 \in Uids /\ [uid |-> uids + 1, backup |-> b, from |-> p] \in StackState
        BY <1>1, <1>t DEF CreateStack, ApiType, StackState, Uids, Flags
    <2>2. ApiType'
        BY <1>1, <1>t, <2>1 DEF CreateStack, ApiType, objVars
    <2> QED BY <1>1, <1>t, <2>2, OutsideTyped DEF CreateStack, PassType, cacheVars, boundVars
<1>2. ASSUME NEW s \in Stacks, Edited(s) \/ DeleteStack(s) PROVE Typed'
    <2>1. stack' \in [Stacks -> StackState] /\ UNCHANGED <<uids, objVars>>
        <3>1. CASE Edited(s)
            BY <1>t, <3>1, EditKeeps DEF Edited, EditStack, ApiType
        <3>2. CASE DeleteStack(s)
            BY <1>t, <3>2 DEF DeleteStack, ApiType
        <3> QED BY <1>2, <3>1, <3>2
    <2>2. deleted' \subseteq Stacks
        BY <1>2, <1>t DEF Edited, EditStack, DeleteStack, ApiType
    <2>3. ApiType'
        BY <1>t, <2>1, <2>2 DEF ApiType, objVars
    <2>4. edits' \in 0 .. MaxEdits
        <3>1. edits < MaxEdits /\ edits' = edits + 1
            BY <1>2 DEF Edited, EditStack, DeleteStack
        <3>2. edits \in 0 .. MaxEdits
            BY <1>t DEF PassType
        <3> QED BY <3>1, <3>2
    <2> QED BY <1>2, <1>t, <2>3, <2>4, OutsideTyped
            DEF Edited, EditStack, DeleteStack, PassType, cacheVars
<1>3. ASSUME NEW s \in Stacks, Collector(s) PROVE Typed'
    <2>1. ApiType'
        BY <1>3, <1>t DEF Collector, CollectCluster, CollectClaim, CollectCreds,
           CollectSchedule, ApiType, apiVars
    <2>2. UNCHANGED <<cacheVars, queued, passVars, boundVars>>
        BY <1>3 DEF Collector, CollectCluster, CollectClaim, CollectCreds, CollectSchedule
    <2> QED BY <1>t, <2>1, <2>2, OutsideTyped DEF PassType, cacheVars, boundVars
<1>4. ASSUME NEW s \in Stacks, Operators(s) PROVE Typed'
    <2>1. /\ claim[s] \in Claims /\ claim[s].owner \in Uids
          /\ cluster[s] \in Clusters /\ cluster[s].archive \in Uids
        BY <1>t DEF ApiType, Claims, Clusters
    <2>2. /\ [claim[s] EXCEPT !.phase = "bound"] \in Claims
          /\ [cluster[s] EXCEPT !.base = cluster[s].archive] \in Clusters
        BY <2>1 DEF Claims, Clusters
    <2>3. ApiType'
        BY <1>4, <1>t, <2>1, <2>2 DEF Operators, BindClaim, TakeBaseBackup, ApiType, apiVars
    <2>4. UNCHANGED <<cacheVars, queued, passVars, boundVars>>
        BY <1>4 DEF Operators, BindClaim, TakeBaseBackup
    <2> QED BY <1>t, <2>3, <2>4, OutsideTyped DEF PassType, cacheVars, boundVars
<1>5. ASSUME NEW s \in Stacks, Informer(s) PROVE Typed'
    <2>1. UNCHANGED <<apiVars, objVars, passVars, boundVars>>
        BY <1>5 DEF Informer, DeliverStack, DeliverPublished, DeliverCreds
    <2>2. ApiType'
        BY <1>t, <2>1 DEF ApiType, apiVars, objVars
    <2>3. /\ stackSeen' \in [Stacks -> StackState] /\ publishedSeen' \in [Stacks -> Uids]
          /\ credsSeen' \in [Stacks -> Secrets] /\ queued' \subseteq Stacks
        BY <1>5, <1>t DEF Informer, DeliverStack, DeliverPublished, DeliverCreds, ApiType, PassType
    <2> QED BY <1>t, <2>1, <2>2, <2>3, OutsideTyped DEF PassType, boundVars
<1>6. CASE CallFails
    <2>1. ApiType'
        BY <1>6, <1>t DEF CallFails, ApiType, apiVars, objVars
    <2>2. at \in Stacks
        BY <1>6, AtType DEF CallFails, Typed
    <2> QED BY <1>6, <1>t, <2>1, <2>2, DoneTyped DEF CallFails, Retry, PassType, cacheVars
<1>7. CASE Restart
    <2>1. ApiType'
        BY <1>7, <1>t DEF Restart, ApiType, apiVars, objVars
    <2> QED BY <1>7, <1>t, <2>1, DoneTyped DEF Restart, ApiType, PassType
<1> QED BY <1>1, <1>2, <1>3, <1>4, <1>5, <1>6, <1>7 DEF User, Edited

\* The worker.
LEMMA WorkerTyped ==
    ASSUME Typed, Step \/ ProbeFails \/ \E s \in Stacks : StartReconcile(s)
    PROVE  Typed'
<1> USE BoundsAssumption, Constants
<1>t. ApiType /\ PassType /\ (pc # "idle" => at \in Stacks)
    BY AtType DEF Typed, TypeOK
<1>r. ASSUME pc # "idle", Retry, ApiType', UNCHANGED <<cacheVars, boundVars>> PROVE Typed'
    BY <1>r, <1>t, DoneTyped DEF Retry, PassType, cacheVars, boundVars
<1>v. view.uid \in Uids /\ source \in Uids /\ archive \in Uids
    BY <1>t DEF PassType, StackState
<1>p. AfterProbe(TRUE) \in {"bucket", "cluster"}
      /\ AfterProbe(FALSE) \in {"parent", "bucket", "cluster"}
      /\ (AfterProbe(FALSE) = "parent" => IsClone(view))
    BY DEF AfterProbe
<1>1. ASSUME NEW s \in Stacks, StartReconcile(s) PROVE Typed'
    <2>1. CASE stackSeen[s].uid = 0
        <3>1. UNCHANGED <<apiVars, objVars, passVars, cacheVars, boundVars>>
            BY <1>1, <2>1 DEF StartReconcile, passVars
        <3>2. ApiType' /\ queued' \subseteq Stacks
            BY <1>1, <1>t, <3>1 DEF StartReconcile, ApiType, PassType, apiVars, objVars
        <3> QED BY <1>t, <3>1, <3>2, OutsideTyped DEF PassType, cacheVars, boundVars
    <2>2. CASE stackSeen[s].uid # 0
        <3>1. at' = s /\ pc' = "probe" /\ view' = stackSeen[s] /\ queued' = queued \ {s}
              /\ UNCHANGED <<apiVars, objVars, cacheVars, source, archive, pending, boundVars>>
            BY <1>1, <2>2 DEF StartReconcile
        <3>2. ApiType'
            BY <1>t, <3>1 DEF ApiType, apiVars, objVars
        <3>3. PassType' /\ OnClone'
            BY <1>t, <2>2, <3>1 DEF PassType, OnClone, Steps, cacheVars, boundVars
        <3> QED BY <3>2, <3>3 DEF Typed, TypeOK
    <2> QED BY <2>1, <2>2
<1>2. CASE Probe \/ ProbeFails
    <2>1. PICK step \in {AfterProbe(TRUE), AfterProbe(FALSE)} : GoTo(step)
        BY <1>2 DEF Probe, ProbeFails, AfterProbe
    <2>2. faults' \in 0 .. MaxFaults
        <3>1. faults \in 0 .. MaxFaults
            BY <1>t DEF PassType
        <3>2. UNCHANGED faults \/ (faults < MaxFaults /\ faults' = faults + 1)
            BY <1>2 DEF Probe, ProbeFails, boundVars
        <3> QED BY <3>1, <3>2
    <2>3. step \in {"parent", "bucket", "cluster"} /\ (step = "parent" => IsClone(view))
        BY <1>p, <2>1
    <2>4. UNCHANGED <<apiVars, objVars, cacheVars, source, archive, pending, edits>>
          /\ pc = "probe"
        BY <1>2 DEF Probe, ProbeFails, boundVars
    <2>5. ApiType'
        BY <1>t, <2>4 DEF ApiType, apiVars, objVars
    <2>6. PassType' /\ OnClone'
        BY <1>t, <2>1, <2>2, <2>3, <2>4 DEF PassType, OnClone, IsClone, GoTo, Steps, cacheVars
    <2> QED BY <2>5, <2>6 DEF Typed, TypeOK
<1>3. CASE ReadParent
    <2>1. ApiType' /\ UNCHANGED <<cacheVars, source, archive, boundVars>>
        BY <1>3, <1>t DEF ReadParent, ApiType, apiVars, objVars
    <2>2. pending' \in Flags /\ (GoTo("status") \/ GoTo("source")) /\ pc = "parent"
        BY <1>3, <1>t DEF ReadParent, Wait, Flags, PassType
    <2>3. IsClone(view)
        BY <2>2 DEF Typed, OnClone
    <2> QED BY <1>v, <2>1, <2>2, <2>3, GoToTyped DEF Steps
<1>4. CASE ReadSource
    <2>1. ApiType' /\ UNCHANGED <<cacheVars, archive, boundVars>>
        BY <1>4, <1>t DEF ReadSource, ApiType, apiVars, objVars
    <2>2. pending' \in Flags /\ (GoTo("status") \/ GoTo("creds")) /\ pc = "source"
        BY <1>4, <1>t DEF ReadSource, Wait, AfterSource, Flags, PassType
    <2>3. IsClone(view) /\ view.from \in Stacks
        BY <1>t, <2>2 DEF Typed, OnClone, IsClone, PassType, StackState
    <2>4. source' \in Uids
        BY <1>4, <1>t, <1>v, <2>3 DEF ReadSource, PassType
    <2> QED BY <1>v, <2>1, <2>2, <2>3, <2>4, GoToTyped DEF Steps
<1>5. CASE CopyCreds
    <2>1. pc = "creds" /\ UNCHANGED <<cacheVars, boundVars, apiVars>>
        BY <1>5 DEF CopyCreds
    <2>2. view.from \in Stacks
        BY <1>t, <2>1 DEF Typed, OnClone, IsClone, PassType, StackState
    <2> DEFINE copy == [owner |-> view.uid, bucket |-> publishedSeen[view.from]]
    <2>3. copy \in Secrets
        BY <1>t, <1>v, <2>2 DEF PassType, Secrets
    <2>4. creds' = creds \/ creds' = [creds EXCEPT ![at] = copy]
        BY <1>5 DEF CopyCreds
    <2>5. ApiType'
        BY <1>5, <1>t, <2>1, <2>3, <2>4 DEF CopyCreds, ApiType, apiVars
    <2>6. Retry \/ (GoTo("cluster") /\ UNCHANGED <<source, archive, pending>>)
        BY <1>5 DEF CopyCreds
    <2>7. pending \in Flags
        BY <1>t DEF PassType
    <2> QED BY <1>r, <1>v, <2>1, <2>5, <2>6, <2>7, GoToTyped DEF Steps
<1>6. CASE EnsureClaim
    <2>1. pc = "bucket" /\ UNCHANGED <<cacheVars, boundVars, apiVars>>
        BY <1>6 DEF EnsureClaim
    <2>2. claim[at] \in Claims
        BY <1>t, <2>1 DEF ApiType
    <2>3. [claim[at] EXCEPT !.owner = view.uid] \in Claims
        BY <1>v, <2>2 DEF Claims
    <2>4. ApiType'
        BY <1>6, <1>t, <2>1, <2>3 DEF EnsureClaim, ApiType, apiVars
    <2>5. Retry \/ ((GoTo("config") \/ GoTo("cluster")) /\ UNCHANGED <<source, archive, pending>>)
        BY <1>6 DEF EnsureClaim
    <2>6. pending \in Flags
        BY <1>t DEF PassType
    <2> QED BY <1>r, <1>v, <2>1, <2>4, <2>5, <2>6, GoToTyped DEF Steps
<1>7. CASE ReadBucketName
    <2>1. ApiType' /\ pc = "config" /\ archive' \in Uids /\ pending \in Flags
        BY <1>7, <1>t DEF ReadBucketName, ApiType, apiVars, objVars, PassType
    <2> QED BY <1>7, <1>v, <2>1, GoToTyped DEF ReadBucketName, Steps
<1>8. CASE EnsureCluster
    <2>1. pc = "cluster" /\ UNCHANGED <<cacheVars, boundVars, apiVars>>
        BY <1>8 DEF EnsureCluster
    <2>2. cluster[at] \in Clusters
        BY <1>t, <2>1 DEF ApiType
    <2>3. [cluster[at] EXCEPT !.archive = archive] \in Clusters
        BY <1>v, <2>2 DEF Clusters
    <2>4. NewCluster \in Clusters
        BY <1>v DEF NewCluster, NoCluster, Clusters
    <2>5. ApiType'
        BY <1>8, <1>t, <2>1, <2>2, <2>3, <2>4 DEF EnsureCluster, ApiType, apiVars
    <2>6. Retry \/ ((GoTo("schedule") \/ GoTo("status")) /\ pending' \in Flags
                    /\ UNCHANGED <<source, archive>>)
        BY <1>8 DEF EnsureCluster, AfterCluster, Flags
    <2> QED BY <1>r, <1>v, <2>1, <2>5, <2>6, GoToTyped DEF Steps
<1>9. CASE EnsureSchedule
    <2>1. pc = "schedule" /\ UNCHANGED <<cacheVars, boundVars, apiVars>>
        BY <1>9 DEF EnsureSchedule
    <2>2. ApiType'
        BY <1>9, <1>t, <1>v, <2>1 DEF EnsureSchedule, ApiType, apiVars
    <2>3. Retry \/ (GoTo("status") /\ UNCHANGED <<source, archive, pending>>)
        BY <1>9 DEF EnsureSchedule
    <2>4. pending \in Flags
        BY <1>t DEF PassType
    <2> QED BY <1>r, <1>v, <2>1, <2>2, <2>3, <2>4, GoToTyped DEF Steps
<1>10. CASE EndPass
    <2>1. ApiType' /\ Done /\ UNCHANGED <<cacheVars, boundVars>>
        BY <1>10, <1>t DEF EndPass, ApiType, apiVars, objVars
    <2>2. queued' \subseteq Stacks
        BY <1>10, <1>t DEF EndPass, PassType
    <2> QED BY <1>t, <2>1, <2>2, DoneTyped DEF PassType, cacheVars, boundVars
<1> QED BY <1>1, <1>2, <1>3, <1>4, <1>5, <1>6, <1>7, <1>8, <1>9, <1>10 DEF Step

LEMMA InitTyped == Init => Typed
    BY Constants, BoundsAssumption DEF Init, Typed, TypeOK, ApiType, PassType, OnClone, Steps, Flags

LEMMA TypedStep == Typed /\ [Next]_vars => Typed'
<1>1. ASSUME Typed, UNCHANGED vars PROVE Typed'
    <2>1. UNCHANGED <<apiVars, objVars, cacheVars, queued, passVars, boundVars>>
        BY <1>1 DEF vars
    <2>2. ApiType'
        BY <1>1, <2>1 DEF Typed, TypeOK, ApiType, apiVars, objVars
    <2> QED BY <1>1, <2>1, <2>2, OutsideTyped DEF Typed, TypeOK, PassType, cacheVars, boundVars
<1> QED BY <1>1, OthersTyped, WorkerTyped DEF Next

LEMMA AlwaysTyped == Spec => []Typed
    BY InitTyped, TypedStep, PTL DEF Spec

\* Every variable has its type in every reachable state, a pass is about a
\* Stack exactly while it runs.
THEOREM TypeCorrect == Spec => []TypeOK
    BY AlwaysTyped, PTL DEF Typed

-----------------------------------------------------------------------------
\* What is known of a Stack that was never deleted: there was only one of its
\* name, the caches and the running pass know no other, its Cluster is its own.
Undeleted(s) ==
    /\ stackSeen[s].uid # 0 => stackSeen[s].uid = stack[s].uid
    /\ cluster[s].owner # 0 => cluster[s].owner = stack[s].uid
    /\ at = s => view.uid = stack[s].uid
    /\ cluster[s].made = "clone" => cluster[s].boot = "recovery"
    \* Its pass creates the Cluster of a clone only with a source.
    /\ at = s /\ pc = "cluster" /\ IsClone(view) /\ cluster[s].owner = 0 => source # 0

\* What the steps of a pass take from those before them.
PassKnows ==
    /\ pc # "idle" => view.uid # 0
    /\ pc = "creds" => source # 0
    /\ pc \in {"bucket", "config"} => OwnBackup(view)

Seeding == PassKnows /\ \A s \in Stacks : s \notin deleted => Undeleted(s)

LEMMA SeedingOthers ==
    ASSUME Typed, Seeding,
           \/ User \/ CallFails \/ Restart \/ UNCHANGED vars
           \/ \E s \in Stacks : Informer(s) \/ Collector(s) \/ Operators(s)
    PROVE  Seeding'
<1>t. ApiType /\ PassType
    BY DEF Typed, TypeOK
<1>i. (pc = "idle" <=> at = NoStack) /\ NoStack \notin Stacks
    BY <1>t, Constants DEF PassType
\* A step that leaves the pass, the Clusters, the Stacks and their cache alone.
<1>k. ASSUME UNCHANGED <<stack, deleted, cluster, stackSeen, passVars>> PROVE Seeding'
    BY <1>k DEF Seeding, PassKnows, Undeleted, IsClone, OwnBackup, passVars
<1>1. ASSUME NEW s \in Stacks, NEW b \in Born, NEW p \in Origins[s] \cup {NoStack},
             CreateStack(s, b, p)
      PROVE  Seeding'
    <2>1. /\ stack[s].uid = 0 /\ stack' = [stack EXCEPT ![s] = [uid |-> uids + 1, backup |-> b, from |-> p]]
          /\ UNCHANGED <<deleted, cluster, stackSeen, at, pc, view, source>>
        BY <1>1 DEF CreateStack, objVars, cacheVars, passVars
    <2>2. PassKnows'
        BY <2>1 DEF Seeding, PassKnows, OwnBackup
    <2>3. \A t \in Stacks : t # s => stack'[t] = stack[t]
        BY <1>t, <2>1 DEF ApiType
    <2>4. s \notin deleted => stackSeen[s].uid = 0 /\ cluster[s].owner = 0 /\ at # s
        BY <1>i, <2>1 DEF Seeding, PassKnows, Undeleted
    <2> QED BY <2>1, <2>2, <2>3, <2>4 DEF Seeding, Undeleted, IsClone
<1>2. ASSUME NEW s \in Stacks, Edited(s) PROVE Seeding'
    <2>1. UNCHANGED <<deleted, cluster, stackSeen, at, pc, view, source>>
        BY <1>2 DEF Edited, EditStack, objVars, cacheVars, passVars
    <2>3. \A t \in Stacks : stack'[t].uid = stack[t].uid
        BY <1>2, <1>t, EditKeeps DEF ApiType
    <2> QED BY <2>1, <2>3 DEF Seeding, PassKnows, Undeleted, IsClone, OwnBackup
<1>3. ASSUME NEW s \in Stacks, DeleteStack(s) PROVE Seeding'
    <2>1. /\ UNCHANGED <<cluster, stackSeen, at, pc, view, source>>
          /\ deleted' = deleted \cup {s}
          /\ \A t \in Stacks : t # s => stack'[t] = stack[t]
        BY <1>3, <1>t DEF DeleteStack, objVars, cacheVars, passVars, ApiType
    <2> QED BY <2>1 DEF Seeding, PassKnows, Undeleted, IsClone, OwnBackup
<1>4. ASSUME NEW s \in Stacks, CollectCluster(s) PROVE Seeding'
    <2>1. /\ UNCHANGED <<stack, deleted, stackSeen, at, pc, view, source>>
          /\ cluster' = [cluster EXCEPT ![s] = NoCluster]
          /\ cluster[s].owner # 0 /\ cluster[s].owner # stack[s].uid
        BY <1>4 DEF CollectCluster, Orphan, apiVars, cacheVars, passVars
    <2>2. s \in deleted
        BY <2>1 DEF Seeding, Undeleted
    <2>3. \A t \in Stacks : t # s => cluster'[t] = cluster[t]
        BY <1>t, <2>1 DEF ApiType
    <2> QED BY <2>1, <2>2, <2>3 DEF Seeding, PassKnows, Undeleted, IsClone, OwnBackup
<1>5. ASSUME NEW s \in Stacks, TakeBaseBackup(s) PROVE Seeding'
    <2>1. /\ UNCHANGED <<stack, deleted, stackSeen, at, pc, view, source>>
          /\ cluster' = [cluster EXCEPT ![s].base = cluster[s].archive]
        BY <1>5 DEF TakeBaseBackup, apiVars, cacheVars, passVars
    <2>2. cluster[s] \in Clusters
        BY <1>t DEF ApiType
    <2>3. \A t \in Stacks : /\ cluster'[t].owner = cluster[t].owner
                             /\ cluster'[t].made = cluster[t].made
                             /\ cluster'[t].boot = cluster[t].boot
        BY <1>t, <2>1, <2>2 DEF ApiType, Clusters
    <2> QED BY <2>1, <2>3 DEF Seeding, PassKnows, Undeleted, IsClone, OwnBackup
<1>6. ASSUME NEW s \in Stacks, DeliverStack(s) PROVE Seeding'
    <2>1. /\ UNCHANGED <<stack, deleted, cluster, at, pc, view, source>>
          /\ \A t \in Stacks : stackSeen'[t] \in {stackSeen[t], stack[t]}
        BY <1>6, <1>t DEF DeliverStack, apiVars, objVars, passVars, PassType
    <2> QED BY <2>1 DEF Seeding, PassKnows, Undeleted, IsClone, OwnBackup
<1>7. CASE CallFails \/ Restart
    <2>1. Done /\ UNCHANGED <<stack, deleted, cluster>> /\ stackSeen' \in {stackSeen, stack}
        BY <1>7 DEF CallFails, Retry, Restart, apiVars, objVars, cacheVars
    <2>2. at' = NoStack /\ pc' = "idle"
        BY <2>1 DEF Done
    <2> QED BY <1>i, <2>1, <2>2 DEF Seeding, PassKnows, Undeleted
<1>8. CASE User
    BY <1>1, <1>2, <1>3, <1>8 DEF User, Edited
<1>9. ASSUME NEW s \in Stacks, Informer(s) PROVE Seeding'
    BY <1>6, <1>9, <1>k DEF Informer, DeliverPublished, DeliverCreds, apiVars, objVars
<1>10. ASSUME NEW s \in Stacks, Collector(s) \/ Operators(s) PROVE Seeding'
    BY <1>4, <1>5, <1>10, <1>k DEF Collector, Operators, CollectClaim, CollectCreds,
       CollectSchedule, BindClaim, apiVars, cacheVars
<1>11. CASE UNCHANGED vars
    BY <1>11, <1>k DEF vars, apiVars, objVars, cacheVars
<1> QED BY <1>7, <1>8, <1>9, <1>10, <1>11

LEMMA SeedingWorker ==
    ASSUME Typed, Seeding, Step \/ ProbeFails \/ \E s \in Stacks : StartReconcile(s)
    PROVE  Seeding'
<1>t. ApiType /\ PassType /\ (pc # "idle" => at \in Stacks)
    BY AtType DEF Typed, TypeOK
<1>i. NoStack \notin Stacks
    BY Constants
\* A step that ends the pass.
<1>d. ASSUME Done, UNCHANGED <<stack, deleted, cluster, stackSeen>> PROVE Seeding'
    BY <1>d, <1>i DEF Done, Seeding, PassKnows, Undeleted
\* A step that goes on with it and leaves the Clusters alone.
<1>g. ASSUME pc # "idle", NEW step, GoTo(step), UNCHANGED <<stack, deleted, cluster, stackSeen>>,
             step = "creds" => source' # 0,
             step \in {"bucket", "config"} => OwnBackup(view),
             step = "cluster" =>
                ~IsClone(view) \/ source' # 0 \/ cluster[at].owner # 0
      PROVE  Seeding'
    BY <1>g DEF GoTo, Seeding, PassKnows, Undeleted, OwnBackup, IsClone
<1>b. OwnBackup(view) => ~IsClone(view)
    BY DEF OwnBackup, IsClone
<1>1. ASSUME NEW s \in Stacks, StartReconcile(s) PROVE Seeding'
    <2>1. UNCHANGED <<stack, deleted, cluster, stackSeen, source>> /\ pc = "idle"
        BY <1>1 DEF StartReconcile, apiVars, objVars, cacheVars
    <2>2. CASE stackSeen[s].uid = 0
        <3>1. UNCHANGED <<at, pc, view>>
            BY <1>1, <2>2 DEF StartReconcile
        <3> QED BY <2>1, <3>1 DEF Seeding, PassKnows, Undeleted, OwnBackup, IsClone
    <2>3. CASE stackSeen[s].uid # 0
        <3>1. at' = s /\ pc' = "probe" /\ view' = stackSeen[s]
            BY <1>1, <2>3 DEF StartReconcile
        <3> QED BY <2>1, <2>3, <3>1 DEF Seeding, PassKnows, Undeleted
    <2> QED BY <2>2, <2>3
<1>2. CASE Probe
    <2>1. GoTo(AfterProbe(cluster[at].owner # 0)) /\ pc = "probe"
          /\ UNCHANGED <<stack, deleted, cluster, stackSeen, source>>
        BY <1>2 DEF Probe, apiVars, objVars, cacheVars
    <2> QED BY <1>b, <1>g, <2>1 DEF AfterProbe
<1>3. CASE ProbeFails
    <2>1. GoTo(AfterProbe(FALSE)) /\ pc = "probe"
          /\ UNCHANGED <<stack, deleted, cluster, stackSeen, source>>
        BY <1>3 DEF ProbeFails, apiVars, objVars, cacheVars
    <2> QED BY <1>b, <1>g, <2>1 DEF AfterProbe
<1>4. CASE ReadParent
    <2>1. (GoTo("status") \/ GoTo("source")) /\ pc = "parent"
          /\ UNCHANGED <<stack, deleted, cluster, stackSeen>>
        BY <1>4 DEF ReadParent, Wait, apiVars, objVars, cacheVars
    <2> QED BY <1>g, <2>1
<1>5. CASE ReadSource
    <2>1. pc = "source" /\ UNCHANGED <<stack, deleted, cluster, stackSeen>>
        BY <1>5 DEF ReadSource, apiVars, objVars, cacheVars
    <2>2. GoTo("status") \/ (GoTo("creds") /\ source' # 0)
        BY <1>5 DEF ReadSource, Wait, AfterSource
    <2> QED BY <1>g, <2>1, <2>2
<1>6. CASE CopyCreds
    <2>1. pc = "creds" /\ UNCHANGED <<stack, deleted, cluster, stackSeen>>
        BY <1>6 DEF CopyCreds, apiVars, cacheVars
    <2>2. Retry \/ (GoTo("cluster") /\ UNCHANGED source)
        BY <1>6 DEF CopyCreds
    <2>3. source # 0
        BY <2>1 DEF Seeding, PassKnows
    <2> QED BY <1>d, <1>g, <2>1, <2>2, <2>3 DEF Retry
<1>7. CASE EnsureClaim
    <2>1. pc = "bucket" /\ UNCHANGED <<stack, deleted, cluster, stackSeen>>
        BY <1>7 DEF EnsureClaim, apiVars, cacheVars
    <2>2. OwnBackup(view)
        BY <2>1 DEF Seeding, PassKnows
    <2>3. Retry \/ GoTo("config") \/ GoTo("cluster")
        BY <1>7 DEF EnsureClaim
    <2> QED BY <1>b, <1>d, <1>g, <2>1, <2>2, <2>3 DEF Retry
<1>8. CASE ReadBucketName
    <2>1. pc = "config" /\ GoTo("cluster") /\ UNCHANGED <<stack, deleted, cluster, stackSeen>>
        BY <1>8 DEF ReadBucketName, apiVars, objVars, cacheVars
    <2>2. OwnBackup(view)
        BY <2>1 DEF Seeding, PassKnows
    <2> QED BY <1>b, <1>g, <2>1, <2>2
<1>9. CASE EnsureCluster
    <2>1. pc = "cluster" /\ UNCHANGED <<stack, deleted, stackSeen>>
        BY <1>9 DEF EnsureCluster, apiVars, cacheVars
    <2>2. CASE Refused(cluster[at].owner)
        BY <1>9, <1>d, <2>1, <2>2 DEF EnsureCluster, Retry
    <2>3. CASE ~Refused(cluster[at].owner)
        <3> DEFINE wired == [cluster[at] EXCEPT !.archive = archive]
        <3>1. GoTo(AfterCluster) /\ UNCHANGED source
              /\ cluster' = [cluster EXCEPT ![at] =
                     IF cluster[at].owner = 0 THEN NewCluster
                     ELSE IF archive # 0 THEN wired ELSE cluster[at]]
            BY <1>9, <2>3 DEF EnsureCluster
        <3>2. at' = at /\ view' = view /\ pc' \in {"schedule", "status"}
            BY <3>1 DEF GoTo, AfterCluster
        <3>3. at \in Stacks /\ cluster[at] \in Clusters
            BY <1>t, <2>1 DEF ApiType
        <3>4. wired.owner = cluster[at].owner /\ wired.made = cluster[at].made
              /\ wired.boot = cluster[at].boot
            BY <3>3 DEF Clusters
        <3>5. /\ \A t \in Stacks : t # at => cluster'[t] = cluster[t]
              /\ cluster'[at] = IF cluster[at].owner = 0 THEN NewCluster
                                ELSE IF archive # 0 THEN wired ELSE cluster[at]
            BY <1>t, <3>1, <3>3 DEF ApiType
        <3>6. /\ NewCluster.owner = view.uid
              /\ NewCluster.boot = IF source # 0 THEN "recovery" ELSE "initdb"
              /\ NewCluster.made = IF IsClone(view) THEN "clone" ELSE "own"
            BY DEF NewCluster, NoCluster
        <3>7. PassKnows'
            BY <2>1, <3>2 DEF Seeding, PassKnows
        <3>8. ASSUME at \notin deleted PROVE Undeleted(at)'
            BY <2>1, <3>2, <3>3, <3>4, <3>5, <3>6, <3>8 DEF Seeding, Undeleted
        <3>9. ASSUME NEW t \in Stacks, t # at, t \notin deleted PROVE Undeleted(t)'
            BY <2>1, <3>2, <3>5, <3>9 DEF Seeding, Undeleted
        <3> QED BY <2>1, <3>2, <3>7, <3>8, <3>9 DEF Seeding
    <2> QED BY <2>2, <2>3
<1>10. CASE EnsureSchedule
    <2>1. pc = "schedule" /\ UNCHANGED <<stack, deleted, cluster, stackSeen>>
        BY <1>10 DEF EnsureSchedule, apiVars, cacheVars
    <2>2. Retry \/ GoTo("status")
        BY <1>10 DEF EnsureSchedule
    <2> QED BY <1>d, <1>g, <2>1, <2>2 DEF Retry
<1>11. CASE EndPass
    BY <1>11, <1>d DEF EndPass, apiVars, objVars, cacheVars
<1> QED BY <1>1, <1>2, <1>3, <1>4, <1>5, <1>6, <1>7, <1>8, <1>9, <1>10, <1>11 DEF Step

LEMMA InitSeeding == Init => Seeding
    BY Constants DEF Init, Seeding, PassKnows, Undeleted, Gone, NoCluster

LEMMA AlwaysSeeding == Spec => [](Typed /\ Seeding)
<1>1. Typed /\ Seeding /\ [Next]_vars => Seeding'
    BY SeedingOthers, SeedingWorker DEF Next
<1> QED BY <1>1, InitTyped, InitSeeding, TypedStep, PTL DEF Spec

\* A clone's Cluster is bootstrapped from the backup of its parent, whatever is
\* edited, lost or repeated and whether or not the pre-Get is answered, as long
\* as no Stack of its name was deleted (stack_controller.go: reconcilePostgres).
THEOREM SeededOnce == Spec => []CloneIsSeededOnce
<1>1. Seeding => CloneIsSeededOnce
    BY DEF Seeding, Undeleted, CloneIsSeededOnce
<1> QED BY <1>1, AlwaysSeeding, PTL

-----------------------------------------------------------------------------
\* Uids are not given again.
Fresh ==
    /\ view.uid <= uids
    /\ \A s \in Stacks :
          /\ stack[s].uid <= uids /\ stackSeen[s].uid <= uids
          /\ cluster[s].owner <= uids /\ creds[s].owner <= uids /\ credsSeen[s].owner <= uids

\* A Secret of the present Stack in the cache is there; one is there when the
\* Cluster that needs it is about to be created, and when it has been.
CopyKept(s) ==
    /\ credsSeen[s].owner = stack[s].uid /\ stack[s].uid # 0 => creds[s].owner = stack[s].uid
    /\ at = s /\ pc = "cluster" /\ source # 0 /\ view.uid = stack[s].uid
          => creds[s].owner = view.uid
    /\ cluster[s].owner # 0 /\ cluster[s].owner = stack[s].uid /\ cluster[s].boot = "recovery"
          => creds[s].owner = stack[s].uid

\* Only a pass that has found a source has one.
NoSourceYet == pc \notin {"creds", "cluster", "schedule", "status"} => source = 0

Copied == Fresh /\ NoSourceYet /\ \A s \in Stacks : CopyKept(s)

\* Owners and uids are numbers.
LEMMA Numbers ==
    ASSUME Typed
    PROVE  /\ uids \in Nat /\ view.uid \in Nat /\ source \in Nat
           /\ \A s \in Stacks :
                 /\ stack[s].uid \in Nat /\ stackSeen[s].uid \in Nat
                 /\ cluster[s].owner \in Nat /\ creds[s].owner \in Nat
                 /\ credsSeen[s].owner \in Nat
    BY Constants DEF Typed, TypeOK, ApiType, PassType, StackState, Clusters, Secrets

LEMMA CopiedOthers ==
    ASSUME Typed, Seeding, Copied,
           \/ User \/ CallFails \/ Restart \/ UNCHANGED vars
           \/ \E s \in Stacks : Informer(s) \/ Collector(s) \/ Operators(s)
    PROVE  Copied'
<1>t. ApiType /\ PassType
    BY DEF Typed, TypeOK
<1>i. (pc = "idle" <=> at = NoStack) /\ NoStack \notin Stacks
    BY <1>t, Constants DEF PassType
<1>k. ASSUME UNCHANGED <<uids, stack, cluster, creds, stackSeen, credsSeen, passVars>>
      PROVE  Copied'
    BY <1>k DEF Copied, Fresh, NoSourceYet, CopyKept, passVars
<1>1. ASSUME NEW s \in Stacks, NEW b \in Born, NEW p \in Origins[s] \cup {NoStack},
             CreateStack(s, b, p)
      PROVE  Copied'
    <2>1. /\ stack[s].uid = 0 /\ stack' = [stack EXCEPT ![s] = [uid |-> uids + 1, backup |-> b, from |-> p]]
          /\ uids' = uids + 1
          /\ UNCHANGED <<cluster, creds, stackSeen, credsSeen, at, pc, view, source>>
        BY <1>1 DEF CreateStack, objVars, cacheVars, passVars
    <2>2. \A t \in Stacks : stack'[t].uid = IF t = s THEN uids + 1 ELSE stack[t].uid
        BY <1>t, <2>1 DEF ApiType
    <2>3. Fresh' /\ NoSourceYet'
        BY <2>1, <2>2, Numbers DEF Copied, Fresh, NoSourceYet
    <2>4. view.uid # uids + 1 /\ cluster[s].owner # uids + 1 /\ credsSeen[s].owner # uids + 1
        BY Numbers DEF Copied, Fresh
    <2>5. ASSUME NEW t \in Stacks PROVE CopyKept(t)'
        BY <2>1, <2>2, <2>4 DEF Copied, CopyKept
    <2> QED BY <2>3, <2>5 DEF Copied
<1>2. ASSUME NEW s \in Stacks, Edited(s) PROVE Copied'
    <2>1. UNCHANGED <<uids, cluster, creds, stackSeen, credsSeen, at, pc, view, source>>
        BY <1>2 DEF Edited, EditStack, objVars, cacheVars, passVars
    <2>3. \A t \in Stacks : stack'[t].uid = stack[t].uid
        BY <1>2, <1>t, EditKeeps DEF ApiType
    <2> QED BY <2>1, <2>3 DEF Copied, Fresh, NoSourceYet, CopyKept
<1>3. ASSUME NEW s \in Stacks, DeleteStack(s) PROVE Copied'
    <2>1. UNCHANGED <<uids, cluster, creds, stackSeen, credsSeen, at, pc, view, source>>
        BY <1>3 DEF DeleteStack, objVars, cacheVars, passVars
    <2>2. \A t \in Stacks : stack'[t].uid = IF t = s THEN 0 ELSE stack[t].uid
        BY <1>3, <1>t DEF DeleteStack, ApiType, Gone
    <2>3. at = s => view.uid # 0
        BY <1>i DEF Seeding, PassKnows
    <2> QED BY <2>1, <2>2, <2>3, Numbers DEF Copied, Fresh, NoSourceYet, CopyKept
<1>4. ASSUME NEW s \in Stacks, CollectCluster(s) PROVE Copied'
    <2>1. /\ UNCHANGED <<uids, stack, creds, stackSeen, credsSeen, at, pc, view, source>>
          /\ cluster' = [cluster EXCEPT ![s] = NoCluster]
        BY <1>4 DEF CollectCluster, apiVars, cacheVars, passVars
    <2>2. /\ \A t \in Stacks : t # s => cluster'[t] = cluster[t]
          /\ cluster'[s].owner = 0
        BY <1>t, <2>1 DEF ApiType, NoCluster
    <2> QED BY <2>1, <2>2, Numbers DEF Copied, Fresh, NoSourceYet, CopyKept
<1>5. ASSUME NEW s \in Stacks, CollectCreds(s) PROVE Copied'
    <2>1. /\ UNCHANGED <<uids, stack, cluster, stackSeen, credsSeen, at, pc, view, source>>
          /\ creds' = [creds EXCEPT ![s] = NoSecret] /\ creds[s].owner # stack[s].uid
        BY <1>5 DEF CollectCreds, Orphan, apiVars, cacheVars, passVars
    <2>2. /\ \A t \in Stacks : t # s => creds'[t] = creds[t]
          /\ creds'[s].owner = 0
        BY <1>t, <2>1 DEF ApiType, NoSecret
    <2> QED BY <2>1, <2>2, Numbers DEF Copied, Fresh, NoSourceYet, CopyKept
<1>6. ASSUME NEW s \in Stacks, TakeBaseBackup(s) PROVE Copied'
    <2>1. /\ UNCHANGED <<uids, stack, creds, stackSeen, credsSeen, at, pc, view, source>>
          /\ cluster' = [cluster EXCEPT ![s].base = cluster[s].archive]
        BY <1>6 DEF TakeBaseBackup, apiVars, cacheVars, passVars
    <2>2. cluster[s] \in Clusters
        BY <1>t DEF ApiType
    <2>3. \A t \in Stacks : /\ cluster'[t].owner = cluster[t].owner
                             /\ cluster'[t].boot = cluster[t].boot
        BY <1>t, <2>1, <2>2 DEF ApiType, Clusters
    <2> QED BY <2>1, <2>3 DEF Copied, Fresh, NoSourceYet, CopyKept
<1>7. ASSUME NEW s \in Stacks, Informer(s) PROVE Copied'
    <2>1. /\ UNCHANGED <<uids, stack, cluster, creds, at, pc, view, source>>
          /\ \A t \in Stacks : /\ stackSeen'[t] \in {stackSeen[t], stack[t]}
                               /\ credsSeen'[t] \in {credsSeen[t], creds[t]}
        BY <1>7, <1>t DEF Informer, DeliverStack, DeliverPublished, DeliverCreds, apiVars,
           objVars, passVars, PassType
    <2> QED BY <2>1 DEF Copied, Fresh, NoSourceYet, CopyKept
<1>8. CASE CallFails \/ Restart
    <2>1. /\ Done /\ UNCHANGED <<uids, stack, cluster, creds>>
          /\ stackSeen' \in {stackSeen, stack} /\ credsSeen' \in {credsSeen, creds}
        BY <1>8 DEF CallFails, Retry, Restart, apiVars, objVars, cacheVars
    <2>2. at' = NoStack /\ source' = 0 /\ view'.uid = 0
        BY <2>1 DEF Done, Gone
    <2> QED BY <1>i, <2>1, <2>2, Numbers DEF Copied, Fresh, NoSourceYet, CopyKept
<1>9. CASE User
    BY <1>1, <1>2, <1>3, <1>9 DEF User, Edited
<1>10. ASSUME NEW s \in Stacks, Collector(s) \/ Operators(s) PROVE Copied'
    BY <1>4, <1>5, <1>6, <1>10, <1>k DEF Collector, Operators, CollectClaim, CollectSchedule,
       BindClaim, apiVars, cacheVars
<1>11. CASE UNCHANGED vars
    BY <1>11, <1>k DEF vars, apiVars, objVars, cacheVars
<1> QED BY <1>7, <1>8, <1>9, <1>10, <1>11

LEMMA CopiedWorker ==
    ASSUME Typed, Seeding, Copied, Step \/ ProbeFails \/ \E s \in Stacks : StartReconcile(s)
    PROVE  Copied'
<1>t. ApiType /\ PassType /\ (pc # "idle" => at \in Stacks)
    BY AtType DEF Typed, TypeOK
<1>i. NoStack \notin Stacks
    BY Constants
<1>d. ASSUME Done, UNCHANGED <<uids, stack, cluster, creds, stackSeen, credsSeen>> PROVE Copied'
    <2>1. at' = NoStack /\ source' = 0 /\ view'.uid = 0
        BY <1>d DEF Done, Gone
    <2> QED BY <1>d, <1>i, <2>1, Numbers DEF Copied, Fresh, NoSourceYet, CopyKept
\* A step that writes neither Clusters nor Secrets.
<1>g. ASSUME NEW step, GoTo(step),
             UNCHANGED <<uids, stack, cluster, creds, stackSeen, credsSeen>>,
             \/ source' = 0
             \/ step \in {"creds", "schedule", "status"}
      PROVE  Copied'
    BY <1>g DEF GoTo, Copied, Fresh, NoSourceYet, CopyKept
<1>1. ASSUME NEW s \in Stacks, StartReconcile(s) PROVE Copied'
    <2>1. UNCHANGED <<uids, stack, cluster, creds, stackSeen, credsSeen, source>> /\ pc = "idle"
        BY <1>1 DEF StartReconcile, apiVars, objVars, cacheVars
    <2>2. \/ UNCHANGED <<at, pc, view>>
          \/ at' = s /\ pc' = "probe" /\ view' = stackSeen[s]
        BY <1>1 DEF StartReconcile
    <2> QED BY <2>1, <2>2 DEF Copied, Fresh, NoSourceYet, CopyKept
<1>2. CASE Probe \/ ProbeFails
    <2>1. PICK step : GoTo(step)
        BY <1>2 DEF Probe, ProbeFails
    <2>2. pc = "probe"
          /\ UNCHANGED <<uids, stack, cluster, creds, stackSeen, credsSeen, source>>
        BY <1>2 DEF Probe, ProbeFails, apiVars, objVars, cacheVars
    <2> QED BY <1>g, <2>1, <2>2 DEF Copied, NoSourceYet
<1>3. CASE ReadParent
    <2>1. PICK step : GoTo(step)
        BY <1>3 DEF ReadParent, Wait
    <2>2. pc = "parent"
          /\ UNCHANGED <<uids, stack, cluster, creds, stackSeen, credsSeen, source>>
        BY <1>3 DEF ReadParent, apiVars, objVars, cacheVars
    <2> QED BY <1>g, <2>1, <2>2 DEF Copied, NoSourceYet
<1>4. CASE ReadSource
    <2>1. UNCHANGED <<uids, stack, cluster, creds, stackSeen, credsSeen>>
        BY <1>4 DEF ReadSource, apiVars, objVars, cacheVars
    <2>2. GoTo("status") \/ GoTo("creds")
        BY <1>4 DEF ReadSource, Wait, AfterSource
    <2> QED BY <1>g, <2>1, <2>2
<1>5. CASE CopyCreds
    <2>1. pc = "creds" /\ UNCHANGED <<uids, stack, cluster, stackSeen, credsSeen>>
        BY <1>5 DEF CopyCreds, apiVars, cacheVars
    <2>2. CASE Retry /\ UNCHANGED creds
        BY <1>d, <2>1, <2>2 DEF Retry
    <2>3. CASE ~(Retry /\ UNCHANGED creds)
        <3> DEFINE copy == [owner |-> view.uid, bucket |-> publishedSeen[view.from]]
        <3>1. /\ ~Refused(credsSeen[at].owner)
              /\ credsSeen[at] = copy \/ credsSeen[at] = creds[at]
              /\ creds' = IF credsSeen[at] = copy THEN creds ELSE [creds EXCEPT ![at] = copy]
              /\ GoTo("cluster") /\ UNCHANGED source
            BY <1>5, <2>3 DEF CopyCreds
        <3>2. at' = at /\ view' = view /\ pc' = "cluster"
            BY <3>1 DEF GoTo
        <3>3. at \in Stacks /\ view.uid # 0
            BY <1>t, <2>1 DEF Seeding, PassKnows
        <3>4. copy.owner = view.uid
            OBVIOUS
        <3>5. credsSeen[at].owner \in {0, view.uid}
            BY <3>1 DEF Refused
        <3>6. \A t \in Stacks : t # at => creds'[t] = creds[t]
            BY <1>t, <3>1 DEF ApiType
        <3>7. \/ creds' = creds /\ credsSeen[at].owner = view.uid
              \/ creds'[at].owner = view.uid /\ creds[at].owner \in {0, view.uid}
            BY <1>t, <3>1, <3>3, <3>4, <3>5 DEF ApiType
        <3>8. Fresh' /\ NoSourceYet'
            BY <2>1, <3>1, <3>2, <3>6, <3>7 DEF Copied, Fresh, NoSourceYet
        <3>9. CopyKept(at)'
            BY <2>1, <3>1, <3>2, <3>3, <3>7 DEF Copied, CopyKept
        <3>10. ASSUME NEW t \in Stacks, t # at PROVE CopyKept(t)'
            BY <2>1, <3>2, <3>6, <3>10 DEF Copied, CopyKept
        <3> QED BY <3>2, <3>8, <3>9, <3>10 DEF Copied
    <2> QED BY <2>2, <2>3
<1>6. CASE EnsureClaim \/ ReadBucketName
    <2>1. pc \in {"bucket", "config"}
          /\ UNCHANGED <<uids, stack, cluster, creds, stackSeen, credsSeen>>
        BY <1>6 DEF EnsureClaim, ReadBucketName, apiVars, objVars, cacheVars
    <2>2. Retry \/ ((GoTo("config") \/ GoTo("cluster")) /\ UNCHANGED source)
        BY <1>6 DEF EnsureClaim, ReadBucketName
    <2> QED BY <1>d, <1>g, <2>1, <2>2 DEF Retry, Copied, NoSourceYet
<1>7. CASE EnsureCluster
    <2>1. pc = "cluster" /\ UNCHANGED <<uids, stack, creds, stackSeen, credsSeen>>
        BY <1>7 DEF EnsureCluster, apiVars, cacheVars
    <2>2. CASE Refused(cluster[at].owner)
        BY <1>7, <1>d, <2>1, <2>2 DEF EnsureCluster, Retry
    <2>3. CASE ~Refused(cluster[at].owner)
        <3> DEFINE wired == [cluster[at] EXCEPT !.archive = archive]
        <3>1. GoTo(AfterCluster) /\ UNCHANGED source
              /\ cluster' = [cluster EXCEPT ![at] =
                     IF cluster[at].owner = 0 THEN NewCluster
                     ELSE IF archive # 0 THEN wired ELSE cluster[at]]
            BY <1>7, <2>3 DEF EnsureCluster
        <3>2. at' = at /\ view' = view /\ pc' \in {"schedule", "status"}
            BY <3>1 DEF GoTo, AfterCluster
        <3>3. at \in Stacks /\ cluster[at] \in Clusters
            BY <1>t, <2>1 DEF ApiType
        <3>4. wired.owner = cluster[at].owner /\ wired.boot = cluster[at].boot
            BY <3>3 DEF Clusters
        <3>5. /\ \A t \in Stacks : t # at => cluster'[t] = cluster[t]
              /\ cluster'[at] = IF cluster[at].owner = 0 THEN NewCluster
                                ELSE IF archive # 0 THEN wired ELSE cluster[at]
            BY <1>t, <3>1, <3>3 DEF ApiType
        <3>6. /\ NewCluster.owner = view.uid
              /\ NewCluster.boot = "recovery" => source # 0
            BY DEF NewCluster, NoCluster
        <3>7. Fresh' /\ NoSourceYet'
            BY <2>1, <3>2, <3>3, <3>4, <3>5, <3>6 DEF Copied, Fresh, NoSourceYet
        <3>8. CopyKept(at)'
            BY <2>1, <3>2, <3>3, <3>4, <3>5, <3>6 DEF Copied, CopyKept
        <3>9. ASSUME NEW t \in Stacks, t # at PROVE CopyKept(t)'
            BY <2>1, <3>2, <3>5, <3>9 DEF Copied, CopyKept
        <3> QED BY <3>2, <3>7, <3>8, <3>9 DEF Copied
    <2> QED BY <2>2, <2>3
<1>8. CASE EnsureSchedule
    <2>1. UNCHANGED <<uids, stack, cluster, creds, stackSeen, credsSeen>>
        BY <1>8 DEF EnsureSchedule, apiVars, cacheVars
    <2>2. Retry \/ GoTo("status")
        BY <1>8 DEF EnsureSchedule
    <2> QED BY <1>d, <1>g, <2>1, <2>2 DEF Retry
<1>9. CASE EndPass
    BY <1>9, <1>d DEF EndPass, apiVars, objVars, cacheVars
<1> QED BY <1>1, <1>2, <1>3, <1>4, <1>5, <1>6, <1>7, <1>8, <1>9 DEF Step

LEMMA InitCopied == Init => Copied
    BY Constants DEF Init, Copied, Fresh, NoSourceYet, CopyKept, Gone, NoCluster, NoSecret

LEMMA AlwaysCopied == Spec => [](Typed /\ Seeding /\ Copied)
<1>1. Typed /\ Seeding /\ Copied /\ [Next]_vars => Copied'
    BY CopiedOthers, CopiedWorker DEF Next
<1> QED BY <1>1, InitCopied, AlwaysSeeding, PTL DEF Spec

\* A recovering Cluster of a Stack that is there finds the Secret that was
\* copied for it, however stale the caches from which and into which it was
\* copied, and although the Stack may be deleted and made again in between
\* (stack_controller.go: copyBackupCreds).
THEOREM SourceIsReadable == Spec => []SourceReadable
<1>1. Copied => SourceReadable
    BY DEF Copied, CopyKept, SourceReadable
<1> QED BY <1>1, AlwaysCopied, PTL

-----------------------------------------------------------------------------
\* Buckets bear the uid of the Stack that claimed them. All that is known or
\* made under one name is of uids that no other name has had.
Held(s) ==
    ({stack[s].uid, stackSeen[s].uid, claim[s].owner, published[s], publishedSeen[s],
      cluster[s].archive} \cup (IF at = s THEN {view.uid, archive} ELSE {})) \ {0}

Apart == \A s \in Stacks : /\ \A u \in Held(s) : u <= uids
                           /\ \A t \in Stacks \ {s} : Held(s) \cap Held(t) = {}

\* What has been a clone stays one: caches and passes know no annotation that
\* the Stack of that uid has not.
Lineage(s) ==
    /\ stackSeen[s].uid # 0 /\ stackSeen[s].uid = stack[s].uid /\ stackSeen[s].from # NoStack
          => stack[s].from # NoStack
    /\ at = s /\ view.from # NoStack =>
          /\ view.uid = stack[s].uid => stack[s].from # NoStack
          /\ view.uid = stackSeen[s].uid => stackSeen[s].from # NoStack

\* A Cluster that was recovered does not archive, and whoever knows its Stack
\* knows it as a clone.
Role(s) ==
    cluster[s].source # 0 =>
        /\ cluster[s].archive = 0 /\ cluster[s].owner # 0
        /\ stack[s].uid = cluster[s].owner => stack[s].from # NoStack
        /\ stackSeen[s].uid = cluster[s].owner => stackSeen[s].from # NoStack
        /\ at = s /\ view.uid = cluster[s].owner => view.from # NoStack

PassRole == /\ archive # 0 => view.from = NoStack /\ pc \in {"cluster", "schedule", "status"}
            /\ source # 0 => view.from # NoStack

Archiving == NoSourceYet /\ PassRole /\ \A s \in Stacks : Lineage(s) /\ Role(s)

\* A pass that is not refused writes to its own Cluster only, and what it carries.
LEMMA WiredOr ==
    ASSUME Typed, EnsureCluster, ~Refused(cluster[at].owner)
    PROVE  \A s \in Stacks :
               /\ cluster'[s].archive # cluster[s].archive =>
                      s = at /\ cluster'[s].archive = archive
               /\ cluster'[s].source # cluster[s].source =>
                      s = at /\ cluster'[s].source = source
<1> DEFINE wired == [cluster[at] EXCEPT !.archive = archive]
<1>1. at \in Stacks /\ cluster[at] \in Clusters /\ cluster \in [Stacks -> Clusters]
    BY AtType DEF Typed, TypeOK, ApiType, EnsureCluster
<1>2. cluster' = [cluster EXCEPT ![at] =
            IF cluster[at].owner = 0 THEN NewCluster
            ELSE IF archive # 0 THEN wired ELSE cluster[at]]
    BY DEF EnsureCluster
<1>3. /\ wired.archive = archive /\ wired.source = cluster[at].source
    BY <1>1 DEF Clusters
<1>4. NewCluster.archive = archive /\ NewCluster.source = source
    BY DEF NewCluster, NoCluster
<1> QED BY <1>1, <1>2, <1>3, <1>4

\* What leaves the uids and puts nothing under a name that was not there keeps
\* the names apart.
LEMMA ApartKept ==
    ASSUME Apart, uids' = uids, \A s \in Stacks : Held(s)' \subseteq Held(s)
    PROVE  Apart'
    BY DEF Apart

\* Users, the other controllers, the caches, failures.
LEMMA ApartOthers ==
    ASSUME Typed, Seeding, Apart,
           \/ User \/ CallFails \/ Restart \/ UNCHANGED vars
           \/ \E s \in Stacks : Informer(s) \/ Collector(s) \/ Operators(s)
    PROVE  Apart'
<1>t. ApiType /\ PassType
    BY DEF Typed, TypeOK
<1>i. NoStack \notin Stacks
    BY Constants
<1>1. ASSUME NEW s \in Stacks, NEW b \in Born, NEW p \in Origins[s] \cup {NoStack},
             CreateStack(s, b, p)
      PROVE  Apart'
    <2>1. /\ stack' = [stack EXCEPT ![s] = [uid |-> uids + 1, backup |-> b, from |-> p]]
          /\ uids' = uids + 1 /\ uids \in Nat
          /\ UNCHANGED <<cluster, claim, published, stackSeen, publishedSeen, at, view, archive>>
        BY <1>1, Numbers DEF CreateStack, objVars, cacheVars, passVars
    <2>2. /\ stack'[s].uid = uids + 1
          /\ \A t \in Stacks : t # s => stack'[t] = stack[t]
        BY <1>t, <2>1 DEF ApiType
    <2>3. Held(s)' \subseteq Held(s) \cup {uids + 1}
        BY <2>1, <2>2 DEF Held
    <2>4. \A t \in Stacks : t # s => Held(t)' = Held(t)
        BY <2>1, <2>2 DEF Held
    <2>5. \A t \in Stacks : Held(t) \subseteq Nat
        <3>1. /\ \A t \in Stacks : cluster[t].archive \in Uids /\ claim[t].owner \in Uids
              /\ \A t \in Stacks : published[t] \in Uids /\ publishedSeen[t] \in Uids
              /\ archive \in Uids
            BY <1>t DEF ApiType, PassType, Claims, Clusters
        <3> QED BY <3>1, Constants, Numbers DEF Held
    <2>6. \A t \in Stacks : uids + 1 \notin Held(t)
        BY <2>1, <2>5 DEF Apart
    <2>7. ASSUME NEW t \in Stacks, NEW u \in Held(t)' PROVE u <= uids'
        BY <2>1, <2>3, <2>4, <2>5 DEF Apart
    <2>8. ASSUME NEW t \in Stacks, NEW o \in Stacks \ {t} PROVE Held(t)' \cap Held(o)' = {}
        BY <2>3, <2>4, <2>6 DEF Apart
    <2> QED BY <2>7, <2>8 DEF Apart
<1>2. ASSUME NEW s \in Stacks, Edited(s) \/ DeleteStack(s) PROVE Apart'
    <2>1. UNCHANGED <<uids, cluster, claim, published, stackSeen, publishedSeen, at, view,
                      archive>>
        BY <1>2 DEF Edited, EditStack, DeleteStack, objVars, cacheVars, passVars
    <2>3. \A t \in Stacks : stack'[t].uid \in {0, stack[t].uid}
        <3>1. CASE Edited(s)
            BY <1>t, <3>1, EditKeeps DEF ApiType
        <3>2. CASE DeleteStack(s)
            BY <1>t, <3>2, Constants DEF DeleteStack, ApiType
        <3> QED BY <1>2, <3>1, <3>2
    <2>4. \A t \in Stacks : Held(t)' \subseteq Held(t)
        BY <2>1, <2>3 DEF Held
    <2> QED BY <2>1, <2>4, ApartKept
<1>3. ASSUME NEW s \in Stacks, Informer(s) PROVE Apart'
    <2>1. /\ UNCHANGED <<uids, stack, cluster, claim, published, at, view, archive>>
          /\ \A t \in Stacks : /\ stackSeen'[t] \in {stackSeen[t], stack[t]}
                               /\ publishedSeen'[t] \in {publishedSeen[t], published[t]}
        BY <1>3, <1>t DEF Informer, DeliverStack, DeliverPublished, DeliverCreds, apiVars,
           objVars, passVars, PassType
    <2>2. \A t \in Stacks : Held(t)' \subseteq Held(t)
        BY <2>1 DEF Held
    <2> QED BY <2>1, <2>2, ApartKept
<1>4. ASSUME NEW s \in Stacks, Collector(s) \/ Operators(s) PROVE Apart'
    <2>1. UNCHANGED <<uids, stack, stackSeen, publishedSeen, at, view, archive>>
        BY <1>4 DEF Collector, Operators, CollectCluster, CollectClaim, CollectCreds,
           CollectSchedule, BindClaim, TakeBaseBackup, apiVars, cacheVars, passVars
    <2>2. /\ cluster[s] \in Clusters /\ claim[s] \in Claims
        BY <1>t DEF ApiType
    <2>3. /\ \A t \in Stacks : cluster'[t].archive \in {0, cluster[t].archive}
          /\ \A t \in Stacks : claim'[t].owner \in {0, claim[t].owner}
          /\ \A t \in Stacks : published'[t] \in {0, published[t], claim[t].owner}
        <3>1. CASE CollectCluster(s) \/ TakeBaseBackup(s)
            BY <1>t, <2>2, <3>1 DEF CollectCluster, TakeBaseBackup, NoCluster, Clusters, ApiType
        <3>2. CASE CollectClaim(s) \/ BindClaim(s)
            BY <1>t, <2>2, <3>2 DEF CollectClaim, BindClaim, NoClaim, Claims, ApiType
        <3>3. CASE CollectCreds(s) \/ CollectSchedule(s)
            BY <3>3 DEF CollectCreds, CollectSchedule
        <3> QED BY <1>4, <3>1, <3>2, <3>3 DEF Collector, Operators
    <2>4. \A t \in Stacks : Held(t)' \subseteq Held(t)
        BY <2>1, <2>3 DEF Held
    <2> QED BY <2>1, <2>4, ApartKept
<1>5. CASE CallFails \/ Restart
    <2>1. /\ Done /\ UNCHANGED <<uids, stack, cluster, claim, published>>
          /\ stackSeen' \in {stackSeen, stack} /\ publishedSeen' \in {publishedSeen, published}
        BY <1>5 DEF CallFails, Retry, Restart, apiVars, objVars, cacheVars
    <2>2. \A t \in Stacks : Held(t)' \subseteq Held(t)
        BY <1>i, <2>1 DEF Held, Done
    <2> QED BY <2>1, <2>2, ApartKept
<1>6. CASE UNCHANGED vars
    <2>1. UNCHANGED <<uids, stack, stackSeen, claim, published, publishedSeen, cluster, at, view,
                      archive>>
        BY <1>6 DEF vars, apiVars, objVars, cacheVars, passVars
    <2>2. \A t \in Stacks : Held(t)' \subseteq Held(t)
        BY <2>1 DEF Held
    <2> QED BY <2>1, <2>2, ApartKept
<1> QED BY <1>1, <1>2, <1>3, <1>4, <1>5, <1>6 DEF User, Edited

LEMMA ApartWorker ==
    ASSUME Typed, Seeding, Archiving, Apart,
           Step \/ ProbeFails \/ \E s \in Stacks : StartReconcile(s)
    PROVE  Apart'
<1>t. ApiType /\ PassType /\ (pc # "idle" => at \in Stacks)
    BY AtType DEF Typed, TypeOK
<1>i. NoStack \notin Stacks
    BY Constants
<1>u. UNCHANGED <<uids, stack, stackSeen, published, publishedSeen>>
    BY DEF Step, Probe, ReadParent, ReadSource, CopyCreds, EnsureClaim, ReadBucketName,
       EnsureCluster, EnsureSchedule, EndPass, ProbeFails, StartReconcile, apiVars, objVars,
       cacheVars
\* A step that ends the pass.
<1>d. ASSUME Done, UNCHANGED <<cluster, claim>> PROVE Apart'
    <2>1. \A s \in Stacks : Held(s)' \subseteq Held(s)
        BY <1>d, <1>i, <1>u DEF Done, Held
    <2> QED BY <1>u, <2>1, ApartKept
\* A step that goes on with it, and puts nowhere but under its own name what it
\* carries or has read there.
<1>g. ASSUME at \in Stacks, UNCHANGED <<at, view>>, archive' \in {archive, publishedSeen[at]},
             \A s \in Stacks : cluster'[s].archive # cluster[s].archive =>
                                    s = at /\ cluster'[s].archive = archive,
             \A s \in Stacks : claim'[s].owner # claim[s].owner =>
                                    s = at /\ claim'[s].owner = view.uid
      PROVE  Apart'
    <2>1. \A s \in Stacks : Held(s)' \subseteq Held(s)
        BY <1>g, <1>u DEF Held
    <2> QED BY <1>u, <2>1, ApartKept
<1>1. ASSUME NEW s \in Stacks, StartReconcile(s) PROVE Apart'
    <2>1. UNCHANGED <<cluster, claim, archive>> /\ pc = "idle" /\ archive = 0 /\ at = NoStack
        BY <1>1, <1>t DEF StartReconcile, objVars, Archiving, PassRole, PassType
    <2>2. at' = NoStack \/ (at' = s /\ view' = stackSeen[s])
        BY <1>1, <2>1 DEF StartReconcile
    <2>3. \A t \in Stacks : Held(t)' \subseteq Held(t)
        BY <1>i, <1>u, <2>1, <2>2 DEF Held
    <2> QED BY <1>u, <2>3, ApartKept
<1>2. CASE Probe \/ ProbeFails \/ ReadParent \/ ReadSource \/ ReadBucketName
    <2>1. UNCHANGED <<at, view, cluster, claim>> /\ pc # "idle"
          /\ archive' \in {archive, publishedSeen[at]}
        BY <1>2 DEF Probe, ProbeFails, ReadParent, ReadSource, ReadBucketName, GoTo, Wait,
           objVars
    <2> QED BY <1>t, <1>g, <2>1
<1>3. CASE CopyCreds \/ EnsureSchedule
    <2>1. UNCHANGED <<cluster, claim>> /\ pc # "idle"
          /\ (Done \/ UNCHANGED <<at, view, archive>>)
        BY <1>3 DEF CopyCreds, EnsureSchedule, Retry, GoTo
    <2> QED BY <1>t, <1>d, <1>g, <2>1
<1>4. CASE EnsureClaim
    <2>1. UNCHANGED cluster /\ pc # "idle"
        BY <1>4 DEF EnsureClaim
    <2>2. CASE Refused(claim[at].owner)
        BY <1>4, <1>d, <2>1, <2>2 DEF EnsureClaim, Retry
    <2>3. CASE ~Refused(claim[at].owner)
        <3>1. UNCHANGED <<at, view, archive>>
              /\ claim' = [claim EXCEPT ![at].owner = view.uid]
            BY <1>4, <2>3 DEF EnsureClaim, GoTo
        <3>2. claim[at] \in Claims
            BY <1>t, <2>1 DEF ApiType
        <3>3. \A s \in Stacks : claim'[s].owner = IF s = at THEN view.uid ELSE claim[s].owner
            BY <1>t, <3>1, <3>2 DEF ApiType, Claims
        <3> QED BY <1>t, <1>g, <2>1, <3>1, <3>3
    <2> QED BY <2>2, <2>3
<1>5. CASE EnsureCluster
    <2>1. UNCHANGED claim /\ pc # "idle"
        BY <1>5 DEF EnsureCluster
    <2>2. CASE Refused(cluster[at].owner)
        BY <1>5, <1>d, <2>1, <2>2 DEF EnsureCluster, Retry
    <2>3. CASE ~Refused(cluster[at].owner)
        <3>1. UNCHANGED <<at, view, archive>>
            BY <1>5, <2>3 DEF EnsureCluster, GoTo
        <3>2. \A s \in Stacks : cluster'[s].archive # cluster[s].archive =>
                                    s = at /\ cluster'[s].archive = archive
            BY <1>t, <1>5, <2>1, <2>3, WiredOr DEF ApiType
        <3> QED BY <1>t, <1>g, <2>1, <3>1, <3>2
    <2> QED BY <2>2, <2>3
<1>6. CASE EndPass
    BY <1>6, <1>d DEF EndPass, objVars
<1> QED BY <1>1, <1>2, <1>3, <1>4, <1>5, <1>6 DEF Step

\* Who archives and who recovers.
LEMMA ArchivingStep ==
    ASSUME Typed, Seeding, Copied, Archiving, [Next]_vars PROVE Archiving'
<1>t. ApiType /\ PassType /\ OnClone /\ (pc # "idle" => at \in Stacks)
    BY AtType DEF Typed, TypeOK
<1>s. (pc = "idle" <=> at = NoStack) /\ (pc = "idle" <=> view.uid = 0) /\ NoStack \notin Stacks
    BY <1>t, Constants DEF PassType
<1>f. /\ uids \in Nat
      /\ \A s \in Stacks : /\ cluster[s].owner \in Nat /\ cluster[s].owner <= uids
                            /\ stackSeen[s].uid \in Nat /\ stackSeen[s].uid <= uids
      /\ view.uid \in Nat /\ view.uid <= uids
    BY Numbers DEF Copied, Fresh
<1>k. ASSUME UNCHANGED <<at, pc, view, source, archive, cluster, stack, stackSeen>>
      PROVE  Archiving'
    BY <1>k DEF Archiving, NoSourceYet, PassRole, Lineage, Role
\* The Stacks change, and perhaps what the cache has of them.
<1>w. ASSUME UNCHANGED <<at, pc, view, source, archive, cluster>>,
             \A s \in Stacks : Lineage(s)' /\ Role(s)'
      PROVE  Archiving'
    BY <1>w DEF Archiving, NoSourceYet, PassRole
<1>d. ASSUME Done, UNCHANGED <<cluster, stack>>, stackSeen' \in {stackSeen, stack}
      PROVE  Archiving'
    <2>1. /\ pc' = "idle" /\ at' = NoStack /\ source' = 0 /\ archive' = 0
          /\ cluster' = cluster /\ stack' = stack
        BY <1>d DEF Done
    <2>2. ASSUME NEW s \in Stacks PROVE Lineage(s)' /\ Role(s)'
        <3>1. at' # s
            BY <1>s, <2>1
        <3>2. CASE stackSeen' = stackSeen
            BY <2>1, <3>1, <3>2 DEF Archiving, Lineage, Role
        <3>3. CASE stackSeen' = stack
            BY <2>1, <3>1, <3>3 DEF Archiving, Lineage, Role
        <3> QED BY <1>d, <3>2, <3>3
    <2> QED BY <2>1, <2>2 DEF Archiving, NoSourceYet, PassRole
<1>g. ASSUME NEW step, GoTo(step), UNCHANGED <<cluster, stack, stackSeen>>,
             archive' # 0 => view.from = NoStack /\ step \in {"cluster", "schedule", "status"},
             source' # 0 => /\ view.from # NoStack
                            /\ step \in {"creds", "cluster", "schedule", "status"}
      PROVE  Archiving'
    BY <1>g DEF GoTo, Archiving, NoSourceYet, PassRole, Lineage, Role
<1>n. pc \notin {"creds", "cluster", "schedule", "status"} => source = 0
    BY DEF Archiving, NoSourceYet
<1>a. pc \notin {"cluster", "schedule", "status"} => archive = 0
    BY DEF Archiving, PassRole
\* Most steps leave the Stacks and their cache alone.
<1>o. ASSUME Step \/ ProbeFails \/ CallFails \/ \E s \in Stacks :
                    StartReconcile(s) \/ Collector(s) \/ Operators(s)
      PROVE  UNCHANGED <<stack, stackSeen>>
    BY <1>o DEF Step, Probe, ReadParent, ReadSource, CopyCreds, EnsureClaim, ReadBucketName,
       EnsureCluster, EnsureSchedule, EndPass, ProbeFails, CallFails, StartReconcile, Collector,
       CollectCluster, CollectClaim, CollectCreds, CollectSchedule, Operators, BindClaim,
       TakeBaseBackup, apiVars, objVars, cacheVars
<1>1. CASE User
    <2>1. UNCHANGED <<at, pc, view, source, archive, cluster, stackSeen>>
        BY <1>1 DEF User, CreateStack, EditStack, DeleteStack, objVars, cacheVars, passVars
    <2>2. ASSUME NEW s \in Stacks, NEW b \in Born, NEW p \in Origins[s] \cup {NoStack},
                 CreateStack(s, b, p)
          PROVE  Archiving'
        <3>1. stack' = [stack EXCEPT ![s] = [uid |-> uids + 1, backup |-> b, from |-> p]]
            BY <2>2 DEF CreateStack
        <3>2. /\ stack'[s].uid = uids + 1
              /\ \A t \in Stacks : t # s => stack'[t] = stack[t]
            BY <1>t, <3>1 DEF ApiType
        <3>3. \A t \in Stacks : t # s => Lineage(t)' /\ Role(t)'
            BY <2>1, <3>2 DEF Archiving, Lineage, Role
        <3>4. uids + 1 # view.uid /\ uids + 1 # stackSeen[s].uid /\ uids + 1 # cluster[s].owner
            BY <1>f
        <3>5. Lineage(s)' /\ Role(s)'
            BY <2>1, <3>2, <3>4 DEF Archiving, Lineage, Role
        <3> QED BY <1>w, <2>1, <3>3, <3>5
    <2>3. ASSUME NEW s \in Stacks, Edited(s) PROVE Archiving'
        <3>4. /\ \A t \in Stacks : stack'[t].uid = stack[t].uid
              /\ \A t \in Stacks : stack[t].from # NoStack => stack'[t].from # NoStack
            BY <1>t, <2>3, EditKeeps DEF ApiType
        <3>5. \A t \in Stacks : Lineage(t)' /\ Role(t)'
            BY <2>1, <3>4 DEF Archiving, Lineage, Role
        <3> QED BY <1>w, <2>1, <3>5
    <2>4. ASSUME NEW s \in Stacks, DeleteStack(s) PROVE Archiving'
        <3>1. /\ \A t \in Stacks : t # s => stack'[t] = stack[t]
              /\ stack'[s].uid = 0
            BY <1>t, <2>4 DEF DeleteStack, ApiType, Gone
        <3>2. at = s => view.uid # 0
            BY <1>s
        <3>3. \A t \in Stacks : Lineage(t)' /\ Role(t)'
            BY <2>1, <3>1, <3>2 DEF Archiving, Lineage, Role
        <3> QED BY <1>w, <2>1, <3>3
    <2> QED BY <1>1, <2>2, <2>3, <2>4 DEF User, Edited
<1>11. ASSUME NEW s \in Stacks, Informer(s) PROVE Archiving'
    <2>1. /\ UNCHANGED <<at, pc, view, source, archive, cluster, stack>>
          /\ \A t \in Stacks : stackSeen'[t] \in {stackSeen[t], stack[t]}
        BY <1>11, <1>t DEF Informer, DeliverStack, DeliverPublished, DeliverCreds, apiVars,
           objVars, passVars, PassType
    <2>2. \A t \in Stacks : Lineage(t)' /\ Role(t)'
        BY <2>1 DEF Archiving, Lineage, Role
    <2> QED BY <1>w, <2>1, <2>2
<1>12. CASE UNCHANGED vars
    BY <1>12, <1>k DEF vars, apiVars, objVars, cacheVars, passVars
<1>2. ASSUME NEW s \in Stacks, Collector(s) \/ Operators(s) PROVE Archiving'
    <2>1. UNCHANGED <<at, pc, view, source, archive>>
        BY <1>2 DEF Collector, Operators, CollectCluster, CollectClaim, CollectCreds,
           CollectSchedule, BindClaim, TakeBaseBackup, passVars
    <2>2. cluster[s] \in Clusters
        BY <1>t DEF ApiType
    <2>3. \A t \in Stacks : /\ cluster'[t].archive \in {0, cluster[t].archive}
                            /\ \/ cluster'[t].source = 0
                               \/ /\ cluster'[t].source = cluster[t].source
                                  /\ cluster'[t].owner = cluster[t].owner
        <3>1. CASE CollectCluster(s) \/ TakeBaseBackup(s)
            BY <1>t, <2>2, <3>1 DEF CollectCluster, TakeBaseBackup, NoCluster, Clusters, ApiType
        <3>2. CASE ~(CollectCluster(s) \/ TakeBaseBackup(s))
            BY <1>2, <3>2 DEF Collector, Operators, CollectClaim, CollectCreds,
               CollectSchedule, BindClaim
        <3> QED BY <3>1, <3>2
    <2>4. \A t \in Stacks : Lineage(t)' /\ Role(t)'
        BY <1>2, <1>o, <2>1, <2>3 DEF Archiving, Lineage, Role
    <2> QED BY <2>1, <2>4 DEF Archiving, NoSourceYet, PassRole
<1>3. CASE CallFails \/ Restart \/ EndPass
    BY <1>3, <1>d DEF CallFails, Retry, Restart, EndPass, apiVars, objVars, cacheVars
<1>4. ASSUME NEW s \in Stacks, StartReconcile(s) PROVE Archiving'
    <2>1. pc = "idle" /\ UNCHANGED <<source, archive, cluster, stack, stackSeen>>
        BY <1>4, <1>o DEF StartReconcile, objVars
    <2>2. UNCHANGED <<at, pc, view>> \/ (at' = s /\ pc' = "probe" /\ view' = stackSeen[s])
        BY <1>4 DEF StartReconcile
    <2>3. CASE UNCHANGED <<at, pc, view>>
        BY <1>k, <2>1, <2>3
    <2>4. CASE at' = s /\ pc' = "probe" /\ view' = stackSeen[s]
        <3>1. stackSeen[s].uid # 0
            BY <1>4, <1>s, <2>1, <2>4 DEF StartReconcile
        <3>2. \A t \in Stacks : Lineage(t)' /\ Role(t)'
            BY <2>1, <2>4, <3>1 DEF Archiving, Lineage, Role
        <3> QED BY <1>n, <1>a, <2>1, <2>4, <3>2 DEF Archiving, NoSourceYet, PassRole
    <2> QED BY <2>2, <2>3, <2>4
<1>5. CASE Probe \/ ProbeFails \/ ReadParent
    <2>1. PICK step : GoTo(step)
        BY <1>5 DEF Probe, ProbeFails, ReadParent, Wait
    <2>2. pc \in {"probe", "parent"} /\ UNCHANGED <<source, archive, cluster>>
        BY <1>5 DEF Probe, ProbeFails, ReadParent, objVars
    <2> QED BY <1>5, <1>g, <1>n, <1>a, <1>o, <2>1, <2>2 DEF Step
<1>6. CASE ReadSource
    <2>1. pc = "source" /\ UNCHANGED <<archive, cluster>> /\ (GoTo("status") \/ GoTo("creds"))
        BY <1>6 DEF ReadSource, Wait, AfterSource, objVars
    <2>2. view.from # NoStack
        BY <1>t, <2>1 DEF OnClone, IsClone
    <2> QED BY <1>6, <1>g, <1>a, <1>o, <2>1, <2>2 DEF Step
<1>7. CASE CopyCreds
    <2>1. pc = "creds" /\ UNCHANGED cluster
          /\ (Done \/ (GoTo("cluster") /\ UNCHANGED <<source, archive>>))
        BY <1>7 DEF CopyCreds, Retry
    <2>2. view.from # NoStack
        BY <1>t, <2>1 DEF OnClone, IsClone
    <2> QED BY <1>7, <1>d, <1>g, <1>a, <1>o, <2>1, <2>2 DEF Step
<1>8. CASE EnsureClaim \/ ReadBucketName
    <2>1. /\ pc \in {"bucket", "config"} /\ UNCHANGED cluster
          /\ \/ Done
             \/ (GoTo("config") \/ GoTo("cluster")) /\ UNCHANGED <<source, archive>>
             \/ GoTo("cluster") /\ UNCHANGED source
        BY <1>8 DEF EnsureClaim, ReadBucketName, Retry, objVars
    <2>2. view.from = NoStack
        BY <2>1 DEF Seeding, PassKnows, OwnBackup
    <2> QED BY <1>8, <1>d, <1>g, <1>n, <1>a, <1>o, <2>1, <2>2 DEF Step
<1>9. CASE EnsureCluster
    <2>0. at \in Stacks /\ cluster[at] \in Clusters /\ UNCHANGED <<stack, stackSeen>>
        BY <1>9, <1>o, <1>t DEF Step, EnsureCluster, ApiType
    <2>1. CASE Refused(cluster[at].owner)
        BY <1>9, <1>d, <2>0, <2>1 DEF EnsureCluster, Retry
    <2>2. CASE ~Refused(cluster[at].owner)
        <3> DEFINE wired == [cluster[at] EXCEPT !.archive = archive]
                   made  == IF cluster[at].owner = 0 THEN NewCluster
                            ELSE IF archive # 0 THEN wired ELSE cluster[at]
        <3>1. /\ pc = "cluster" /\ at' = at /\ view' = view /\ pc' \in {"schedule", "status"}
              /\ UNCHANGED <<source, archive>> /\ cluster' = [cluster EXCEPT ![at] = made]
            BY <1>9, <2>2 DEF EnsureCluster, GoTo, AfterCluster
        <3>2. /\ wired.archive = archive /\ wired.source = cluster[at].source
              /\ wired.owner = cluster[at].owner
            BY <2>0 DEF Clusters
        <3>3. NewCluster.archive = archive /\ NewCluster.source = source
              /\ NewCluster.owner = view.uid
            BY DEF NewCluster, NoCluster
        <3> HIDE DEF wired
        <3>4. (\A s \in Stacks : s # at => cluster'[s] = cluster[s]) /\ cluster'[at] = made
            BY <1>t, <2>0, <3>1 DEF ApiType
        <3>5. \A s \in Stacks : Lineage(s)'
            BY <2>0, <3>1 DEF Archiving, Lineage
        <3>6. \A s \in Stacks : s # at => Role(s)'
            BY <2>0, <3>1, <3>4 DEF Archiving, Role
        <3>7. Role(at)'
            <4>1. CASE cluster[at].owner = 0
                <5>1. cluster'[at] = NewCluster /\ view.uid # 0
                    BY <1>s, <3>1, <3>4, <4>1
                <5>2. source # 0 => archive = 0 /\ view.from # NoStack
                    BY DEF Archiving, PassRole
                <5> QED BY <2>0, <3>1, <3>3, <5>1, <5>2 DEF Archiving, Lineage, Role
            <4>2. CASE cluster[at].owner # 0
                <5>1. cluster[at].owner = view.uid
                    BY <2>2, <4>2 DEF Refused
                <5>2. cluster'[at] = (IF archive # 0 THEN wired ELSE cluster[at])
                    BY <3>4, <4>2
                <5>3. cluster[at].source # 0 => archive = 0
                    BY <2>0, <5>1 DEF Archiving, Role, PassRole
                <5> QED BY <2>0, <3>1, <3>2, <5>1, <5>2, <5>3 DEF Archiving, Role
            <4> QED BY <4>1, <4>2
        <3> QED BY <3>1, <3>5, <3>6, <3>7 DEF Archiving, NoSourceYet, PassRole
    <2> QED BY <2>1, <2>2
<1>10. CASE EnsureSchedule
    <2>1. pc = "schedule" /\ UNCHANGED cluster
          /\ (Done \/ (GoTo("status") /\ UNCHANGED <<source, archive>>))
        BY <1>10 DEF EnsureSchedule, Retry
    <2> QED BY <1>10, <1>d, <1>g, <1>o, <2>1 DEF Step, Archiving, PassRole
<1> QED BY <1>1, <1>2, <1>3, <1>4, <1>5, <1>6, <1>7, <1>8, <1>9, <1>10, <1>11, <1>12 DEF Next, Step

LEMMA InitArchiving == Init => Archiving /\ Apart
    BY Constants DEF Init, Archiving, NoSourceYet, PassRole, Lineage, Role, Apart, Held, Gone, NoCluster,
       NoClaim

\* No Cluster that was recovered archives and no two archive to one bucket,
\* although a Stack may be made a clone at any time and the name of a bucket
\* comes from a cache that may be of a deleted Stack of that name
\* (stack_controller.go: reconcilePostgres, ensureBucket).
THEOREM ArchivesDoNotMix == Spec => []OwnArchive
<1>1. Archiving /\ Apart => OwnArchive
    <2> SUFFICES ASSUME Archiving, Apart, NEW s \in Stacks, cluster[s].archive # 0
                 PROVE  /\ cluster[s].source = 0
                        /\ \A t \in Stacks \ {s} : cluster[t].archive # cluster[s].archive
        BY DEF OwnArchive
    <2>1. cluster[s].source = 0
        BY DEF Archiving, Role
    <2>2. \A t \in Stacks : cluster[t].archive # 0 => cluster[t].archive \in Held(t)
        BY DEF Held
    <2> QED BY <2>1, <2>2 DEF Apart
<1>2. Typed /\ Seeding /\ Copied /\ Archiving /\ Apart /\ [Next]_vars => Archiving' /\ Apart'
    BY ArchivingStep, ApartOthers, ApartWorker DEF Next
<1> QED BY <1>1, <1>2, InitArchiving, AlwaysCopied, PTL DEF Spec

-----------------------------------------------------------------------------
\* That nothing is forgotten. What the cache hears while a pass runs puts its key
\* in the queue, so that a pass whose key is not there has read what is cached.
PassSees == at # NoStack /\ at \notin queued => stackSeen[at] = view

\* Near its end, a pass that asks for no poll has made what there is to be made.
\* What is of a Stack that is there is not collected.
Made(s, o) == /\ cluster[s].owner = o.uid
              /\ OwnBackup(o) => cluster[s].archive # 0
Scheduled(s, o) == OwnBackup(o) => sched[s] = o.uid

PassMinded ==
    pc \in {"schedule", "status"} /\ pending = "no" /\ view.uid = stack[at].uid =>
        Made(at, view) /\ (pc = "status" => Scheduled(at, view))

Left(s) ==
    s \notin queued /\ at # s /\ stackSeen[s].uid # 0 /\ stackSeen[s].uid = stack[s].uid =>
        Made(s, stackSeen[s]) /\ Scheduled(s, stackSeen[s])

\* The buckets of a Stack that was never deleted are its own.
OwnBucket(s) ==
    /\ claim[s].owner \in {0, stack[s].uid} /\ published[s] \in {0, stack[s].uid}
    /\ publishedSeen[s] \in {0, stack[s].uid} /\ cluster[s].archive \in {0, stack[s].uid}
    /\ at = s => archive \in {0, stack[s].uid}

Awake == /\ PassSees /\ PassMinded
         /\ \A s \in Stacks : Left(s) /\ (s \notin deleted => OwnBucket(s))

\* Users and the other controllers.
LEMMA AwakeObjects ==
    ASSUME Typed, Seeding, Copied, Awake,
           User \/ \E s \in Stacks : Collector(s) \/ Operators(s)
    PROVE  Awake'
<1>t. ApiType /\ PassType
    BY DEF Typed, TypeOK
<1>i. pc # "idle" => at \in Stacks /\ view.uid # 0
    BY AtType DEF Typed, Seeding, PassKnows
<1>p. (pc = "idle" <=> at = NoStack) /\ NoStack \notin Stacks
    BY <1>t, Constants DEF PassType
<1>q. UNCHANGED <<stackSeen, publishedSeen, queued, at, pc, view, archive, pending>>
    <2>1. CASE User
        BY <2>1 DEF User, CreateStack, EditStack, DeleteStack, cacheVars, passVars
    <2>2. ASSUME NEW s \in Stacks, Collector(s) \/ Operators(s)
          PROVE  UNCHANGED <<cacheVars, queued, passVars>>
        BY <2>2 DEF Collector, CollectCluster, CollectClaim, CollectCreds, CollectSchedule,
           Operators, BindClaim, TakeBaseBackup
    <2> QED BY <2>1, <2>2 DEF cacheVars, passVars
<1>s. PassSees'
    BY <1>q DEF Awake, PassSees
\* A user's write: the uid stays, is a new one, or goes.
<1>1. ASSUME NEW s \in Stacks, NEW o \in StackState, stack' = [stack EXCEPT ![s] = o],
             UNCHANGED objVars,
             \/ o.uid = stack[s].uid /\ UNCHANGED deleted
             \/ stack[s].uid = 0 /\ o.uid = uids + 1 /\ UNCHANGED deleted
             \/ o.uid = 0 /\ deleted' = deleted \cup {s}
      PROVE  Awake'
    <2>1. /\ UNCHANGED <<cluster, claim, published, sched>>
          /\ stack'[s] = o /\ \A t \in Stacks : t # s => stack'[t] = stack[t]
        BY <1>1, <1>t DEF objVars, ApiType
    <2>2. /\ o.uid = uids + 1 => view.uid # o.uid /\ stackSeen[s].uid # o.uid
          /\ uids + 1 # 0
        BY Numbers DEF Copied, Fresh
    <2>3. PassMinded'
        <3> SUFFICES ASSUME pc \in {"schedule", "status"}, pending = "no",
                            view.uid = stack'[at].uid
                     PROVE  Made(at, view)' /\ (pc = "status" => Scheduled(at, view)')
            BY <1>q DEF PassMinded
        <3>1. at \in Stacks /\ view.uid # 0
            BY <1>i
        <3>2. view.uid = stack[at].uid
            BY <1>1, <2>1, <2>2, <3>1
        <3> QED BY <1>q, <2>1, <3>2 DEF Awake, PassMinded, Made, Scheduled, OwnBackup
    <2>4. ASSUME NEW t \in Stacks PROVE Left(t)'
        <3> SUFFICES ASSUME t \notin queued, at # t, stackSeen[t].uid # 0,
                            stackSeen[t].uid = stack'[t].uid
                     PROVE  Made(t, stackSeen[t])' /\ Scheduled(t, stackSeen[t])'
            BY <1>q DEF Left
        <3>1. stackSeen[t].uid = stack[t].uid
            BY <1>1, <2>1, <2>2
        <3> QED BY <1>q, <2>1, <3>1 DEF Awake, Left, Made, Scheduled, OwnBackup
    <2>5. ASSUME NEW t \in Stacks, t \notin deleted' PROVE OwnBucket(t)'
        <3>1. t \notin deleted /\ OwnBucket(t)
            BY <1>1, <2>5 DEF Awake
        <3>2. CASE stack'[t].uid = stack[t].uid
            BY <1>q, <2>1, <3>1, <3>2 DEF OwnBucket
        <3>3. CASE stack'[t].uid # stack[t].uid
            <4>1. t = s /\ stack[s].uid = 0
                BY <1>1, <2>1, <2>5, <3>3
            <4>2. at # s
                BY <1>i, <1>p, <3>1, <4>1 DEF Seeding, Undeleted
            <4> QED BY <1>q, <2>1, <3>1, <4>1, <4>2 DEF OwnBucket
        <3> QED BY <3>2, <3>3
    <2> QED BY <1>s, <2>3, <2>4, <2>5 DEF Awake
<1>2. ASSUME NEW s \in Stacks, NEW b \in Born, NEW p \in Origins[s] \cup {NoStack},
             CreateStack(s, b, p)
      PROVE  Awake'
    <2> DEFINE o == [uid |-> uids + 1, backup |-> b, from |-> p]
    <2>1. o \in StackState /\ o.uid = uids + 1
        <3>1. uids + 1 \in Uids
            BY <1>2, <1>t, BoundsAssumption DEF CreateStack, ApiType, Uids
        <3> QED BY <3>1, Constants DEF StackState, Flags
    <2>2. stack' = [stack EXCEPT ![s] = o] /\ stack[s].uid = 0 /\ UNCHANGED <<objVars, deleted>>
        BY <1>2 DEF CreateStack
    <2> HIDE DEF o
    <2> QED BY <1>1, <2>1, <2>2
<1>3. ASSUME NEW s \in Stacks, Edited(s) PROVE Awake'
    <2>0. PICK b \in Flags, p \in Origins[s] \cup {NoStack} : EditStack(s, b, p)
        BY <1>3 DEF Edited
    <2> DEFINE o == [stack[s] EXCEPT !.backup = b, !.from = p]
    <2>1. stack[s] \in StackState
        BY <1>t DEF ApiType
    <2>2. o \in StackState /\ o.uid = stack[s].uid
        BY <2>1, Constants DEF StackState
    <2>3. stack' = [stack EXCEPT ![s] = o] /\ UNCHANGED <<objVars, deleted>>
        BY <1>t, <2>0 DEF EditStack, ApiType
    <2> HIDE DEF o
    <2> QED BY <1>1, <2>2, <2>3
<1>4. ASSUME NEW s \in Stacks, DeleteStack(s) PROVE Awake'
    <2>1. Gone \in StackState /\ Gone.uid = 0
        BY Constants DEF Gone
    <2> QED BY <1>1, <1>4, <2>1 DEF DeleteStack
\* What the other controllers do leaves what is of a Stack that is there.
<1>5. ASSUME UNCHANGED <<stack, deleted>>,
             \A t \in Stacks :
                /\ cluster[t].owner = stack[t].uid => UNCHANGED <<cluster[t].owner, cluster[t].archive>>
                /\ sched[t] = stack[t].uid => UNCHANGED sched[t]
                /\ t \notin deleted /\ OwnBucket(t) => OwnBucket(t)'
      PROVE  Awake'
    <2>1. PassMinded'
        BY <1>5, <1>i, <1>q DEF Awake, PassMinded, Made, Scheduled, OwnBackup
    <2>2. \A t \in Stacks : Left(t)'
        BY <1>5, <1>q DEF Awake, Left, Made, Scheduled, OwnBackup
    <2>3. \A t \in Stacks : t \notin deleted' => OwnBucket(t)'
        BY <1>5 DEF Awake
    <2> QED BY <1>s, <2>1, <2>2, <2>3 DEF Awake
<1>6. ASSUME NEW s \in Stacks, CollectCluster(s) PROVE Awake'
    <2>1. /\ cluster[s].owner # stack[s].uid
          /\ UNCHANGED <<stack, deleted, claim, published, sched>>
          /\ cluster'[s].archive = 0 /\ \A t \in Stacks : t # s => cluster'[t] = cluster[t]
        BY <1>6, <1>t DEF CollectCluster, Orphan, apiVars, ApiType, NoCluster
    <2>2. \A t \in Stacks : OwnBucket(t) => OwnBucket(t)'
        BY <1>q, <2>1 DEF OwnBucket
    <2> QED BY <1>5, <2>1, <2>2
<1>7. ASSUME NEW s \in Stacks, CollectSchedule(s) PROVE Awake'
    <2>1. /\ sched[s] # stack[s].uid /\ UNCHANGED <<stack, deleted, claim, published, cluster>>
          /\ \A t \in Stacks : t # s => sched'[t] = sched[t]
        BY <1>7, <1>t DEF CollectSchedule, Orphan, apiVars, ApiType
    <2> QED BY <1>5, <1>q, <2>1 DEF OwnBucket
<1>8. ASSUME NEW s \in Stacks, CollectClaim(s) \/ CollectCreds(s) \/ BindClaim(s)
      PROVE  Awake'
    <2>1. UNCHANGED <<stack, deleted, cluster, sched>>
        BY <1>8 DEF CollectClaim, CollectCreds, BindClaim, apiVars
    <2>2. \A t \in Stacks : /\ claim'[t].owner \in {0, claim[t].owner}
                            /\ published'[t] \in {0, published[t], claim[t].owner}
        <3>1. \A t \in Stacks : claim[t] \in Claims
            BY <1>t DEF ApiType
        <3> QED BY <1>8, <1>t, <3>1 DEF CollectClaim, CollectCreds, BindClaim, ApiType,
                Claims, NoClaim
    <2>3. \A t \in Stacks : OwnBucket(t) => OwnBucket(t)'
        BY <1>q, <2>1, <2>2 DEF OwnBucket
    <2> QED BY <1>5, <2>1, <2>3
<1>9. ASSUME NEW s \in Stacks, TakeBaseBackup(s) PROVE Awake'
    <2>1. UNCHANGED <<stack, deleted, sched, claim, published>>
        BY <1>9 DEF TakeBaseBackup, apiVars
    <2>2. \A t \in Stacks : UNCHANGED <<cluster[t].owner, cluster[t].archive>>
        <3>1. cluster \in [Stacks -> Clusters]
            BY <1>t DEF ApiType
        <3>2. cluster' = [cluster EXCEPT ![s] = [cluster[s] EXCEPT !.base = cluster[s].archive]]
            BY <1>9 DEF TakeBaseBackup
        <3>3. cluster[s] \in Clusters
            BY <3>1
        <3> QED BY <3>1, <3>2, <3>3 DEF Clusters
    <2> QED BY <1>5, <1>q, <2>1, <2>2 DEF OwnBucket
<1> QED BY <1>2, <1>3, <1>4, <1>6, <1>7, <1>8, <1>9 DEF User, Edited, Collector, Operators

\* The end of a pass that puts its key back.
LEMMA AwakeRetry ==
    ASSUME Typed, Awake, Done, queued' = queued \cup {at},
           UNCHANGED <<stack, deleted, cluster, claim, published, sched, stackSeen, publishedSeen>>
    PROVE  Awake'
<1>1. at' = NoStack /\ pc' = "idle" /\ NoStack \notin Stacks
    BY Constants DEF Done
<1>2. PassSees' /\ PassMinded'
    BY <1>1 DEF PassSees, PassMinded
<1>3. \A s \in Stacks : Left(s)'
    BY DEF Awake, Left, Made, Scheduled, OwnBackup
<1>4. ASSUME NEW s \in Stacks, s \notin deleted' PROVE OwnBucket(s)'
    BY <1>1, <1>4 DEF Awake, OwnBucket
<1> QED BY <1>2, <1>3, <1>4 DEF Awake

\* The caches, failures, stuttering.
LEMMA AwakeCaches ==
    ASSUME Typed, Awake,
           CallFails \/ Restart \/ UNCHANGED vars \/ \E s \in Stacks : Informer(s)
    PROVE  Awake'
<1>t. ApiType /\ PassType
    BY DEF Typed, TypeOK
<1>k. ASSUME UNCHANGED <<stack, deleted, cluster, claim, published, sched, at, pc, view,
                         archive, pending>>,
             queued \subseteq queued',
             \A t \in Stacks : /\ stackSeen'[t] = stackSeen[t] \/ t \in queued'
                               /\ publishedSeen'[t] \in {publishedSeen[t], published[t]}
      PROVE  Awake'
    <2>1. PassSees'
        BY <1>k, <1>t DEF Awake, PassSees, PassType
    <2>2. PassMinded'
        BY <1>k DEF Awake, PassMinded, Made, Scheduled, OwnBackup
    <2>3. ASSUME NEW t \in Stacks PROVE Left(t)'
        BY <1>k DEF Awake, Left, Made, Scheduled, OwnBackup
    <2>4. ASSUME NEW t \in Stacks, t \notin deleted' PROVE OwnBucket(t)'
        BY <1>k, <2>4 DEF Awake, OwnBucket
    <2> QED BY <2>1, <2>2, <2>3, <2>4 DEF Awake
<1>1. ASSUME NEW s \in Stacks, DeliverStack(s) PROVE Awake'
    BY <1>1, <1>k, <1>t DEF DeliverStack, apiVars, objVars, passVars, PassType
<1>2. ASSUME NEW s \in Stacks, DeliverPublished(s) PROVE Awake'
    BY <1>2, <1>k, <1>t DEF DeliverPublished, apiVars, objVars, passVars, PassType
<1>3. ASSUME (\E s \in Stacks : DeliverCreds(s)) \/ UNCHANGED vars PROVE Awake'
    <2>1. UNCHANGED <<apiVars, objVars, stackSeen, publishedSeen, queued, passVars>>
        BY <1>3 DEF DeliverCreds, vars, cacheVars
    <2> QED BY <1>k, <2>1 DEF apiVars, objVars, passVars
<1>4. CASE CallFails
    BY <1>4, AwakeRetry DEF CallFails, Retry, apiVars, objVars, cacheVars
<1>5. CASE Restart
    <2>1. /\ at' = NoStack /\ pc' = "idle" /\ NoStack \notin Stacks
          /\ UNCHANGED <<stack, deleted, cluster, claim, published, sched>>
          /\ stackSeen' = stack /\ publishedSeen' = published
          /\ queued' = {s \in Stacks : stack[s].uid # 0}
        BY <1>5, Constants DEF Restart, Done, apiVars, objVars
    <2>2. PassSees' /\ PassMinded' /\ \A s \in Stacks : Left(s)'
        BY <2>1 DEF PassSees, PassMinded, Left
    <2>3. ASSUME NEW s \in Stacks, s \notin deleted' PROVE OwnBucket(s)'
        BY <2>1, <2>3 DEF Awake, OwnBucket
    <2> QED BY <2>2, <2>3 DEF Awake
<1> QED BY <1>1, <1>2, <1>3, <1>4, <1>5 DEF Informer

\* What a pass that is not refused makes of the Cluster.
LEMMA ClusterMade ==
    ASSUME Typed, EnsureCluster, ~Refused(cluster[at].owner)
    PROVE  /\ cluster'[at].owner = view.uid
           /\ cluster'[at].archive = archive \/ (archive = 0 /\ cluster'[at].archive = cluster[at].archive)
           /\ \A s \in Stacks : s # at => cluster'[s] = cluster[s]
<1> DEFINE wired == [cluster[at] EXCEPT !.archive = archive]
<1>1. at \in Stacks /\ cluster[at] \in Clusters /\ cluster \in [Stacks -> Clusters]
    BY AtType DEF Typed, TypeOK, ApiType, EnsureCluster
<1>2. cluster' = [cluster EXCEPT ![at] =
            IF cluster[at].owner = 0 THEN NewCluster
            ELSE IF archive # 0 THEN wired ELSE cluster[at]]
    BY DEF EnsureCluster
<1>3. wired.archive = archive /\ wired.owner = cluster[at].owner
    BY <1>1 DEF Clusters
<1>4. NewCluster.archive = archive /\ NewCluster.owner = view.uid
    BY DEF NewCluster, NoCluster
<1>5. cluster[at].owner \in {0, view.uid}
    BY DEF Refused
<1> HIDE DEF wired
<1> QED BY <1>1, <1>2, <1>3, <1>4, <1>5

LEMMA AwakeWorker ==
    ASSUME Typed, Seeding, Archiving, Awake,
           Step \/ ProbeFails \/ \E s \in Stacks : StartReconcile(s)
    PROVE  Awake'
<1>t. ApiType /\ PassType /\ (pc # "idle" => at \in Stacks)
    BY AtType DEF Typed, TypeOK
<1>i. (pc = "idle" <=> at = NoStack) /\ NoStack \notin Stacks
    BY <1>t, Constants DEF PassType
<1>r. ASSUME Retry,
             UNCHANGED <<stack, deleted, cluster, claim, published, sched, stackSeen, publishedSeen>>
      PROVE  Awake'
    BY <1>r, AwakeRetry DEF Retry
\* A step that goes on with the pass and writes at most what is of its Stack.
<1>g. ASSUME NEW step, GoTo(step), UNCHANGED <<stack, deleted, published, stackSeen, publishedSeen>>,
             \A t \in Stacks : t # at =>
                 UNCHANGED <<cluster[t].owner, cluster[t].archive, claim[t].owner, sched[t]>>,
             PassMinded',
             at \in Stacks \ deleted => OwnBucket(at)'
      PROVE  Awake'
    <2>1. UNCHANGED <<at, view, queued>>
        BY <1>g DEF GoTo
    <2>2. PassSees'
        BY <1>g, <2>1 DEF Awake, PassSees
    <2>3. ASSUME NEW t \in Stacks PROVE Left(t)'
        BY <1>g, <2>1 DEF Awake, Left, Made, Scheduled, OwnBackup
    <2>4. ASSUME NEW t \in Stacks, t \notin deleted' PROVE OwnBucket(t)'
        <3>1. CASE t = at
            BY <1>g, <2>1, <2>4, <3>1 DEF OwnBucket
        <3>2. CASE t # at
            BY <1>g, <2>1, <2>4, <3>2 DEF Awake, OwnBucket
        <3> QED BY <3>1, <3>2
    <2> QED BY <1>g, <2>2, <2>3, <2>4 DEF Awake
\* One that writes nothing and is not near the end, or leaves a poll behind.
<1>e. ASSUME NEW step, GoTo(step),
             UNCHANGED <<stack, deleted, cluster, claim, published, sched, stackSeen, publishedSeen>>,
             step \notin {"schedule", "status"} \/ pending' = "yes",
             at \in Stacks \ deleted => archive' \in {0, archive, publishedSeen[at]}
      PROVE  Awake'
    <2>1. PassMinded'
        BY <1>e DEF GoTo, PassMinded
    <2>2. at \in Stacks \ deleted => OwnBucket(at)'
        BY <1>e DEF GoTo, Awake, OwnBucket
    <2> QED BY <1>e, <1>g, <2>1, <2>2
<1>1. ASSUME NEW s \in Stacks, StartReconcile(s) PROVE Awake'
    <2>1. /\ UNCHANGED <<stack, deleted, cluster, claim, published, sched, stackSeen,
                         publishedSeen, archive, pending>>
          /\ pc = "idle" /\ at = NoStack /\ queued' = queued \ {s} /\ s \in queued
        BY <1>1, <1>i DEF StartReconcile, apiVars, objVars, cacheVars
    <2>2. archive = 0
        BY <2>1 DEF Archiving, PassRole
    <2>3. CASE stackSeen[s].uid = 0
        <3>1. UNCHANGED <<at, pc, view>>
            BY <1>1, <2>3 DEF StartReconcile
        <3>2. PassSees' /\ PassMinded'
            BY <2>1, <3>1 DEF PassSees, PassMinded
        <3>3. ASSUME NEW t \in Stacks PROVE Left(t)'
            BY <2>1, <2>3, <3>1 DEF Awake, Left, Made, Scheduled, OwnBackup
        <3>4. ASSUME NEW t \in Stacks, t \notin deleted' PROVE OwnBucket(t)'
            BY <2>1, <3>1, <3>4 DEF Awake, OwnBucket
        <3> QED BY <3>2, <3>3, <3>4 DEF Awake
    <2>4. CASE stackSeen[s].uid # 0
        <3>1. at' = s /\ pc' = "probe" /\ view' = stackSeen[s]
            BY <1>1, <2>4 DEF StartReconcile
        <3>2. PassSees' /\ PassMinded'
            BY <2>1, <3>1 DEF PassSees, PassMinded
        <3>3. ASSUME NEW t \in Stacks PROVE Left(t)'
            BY <1>i, <2>1, <3>1 DEF Awake, Left, Made, Scheduled, OwnBackup
        <3>4. ASSUME NEW t \in Stacks, t \notin deleted' PROVE OwnBucket(t)'
            BY <2>1, <2>2, <3>1, <3>4 DEF Awake, OwnBucket
        <3> QED BY <3>2, <3>3, <3>4 DEF Awake
    <2> QED BY <2>3, <2>4
<1>2. CASE Probe \/ ProbeFails
    <2>1. PICK step \in {AfterProbe(TRUE), AfterProbe(FALSE)} : GoTo(step)
        BY <1>2 DEF Probe, ProbeFails, AfterProbe
    <2>2. step \notin {"schedule", "status"}
        BY <2>1 DEF AfterProbe
    <2>3. UNCHANGED <<stack, deleted, cluster, claim, published, sched, stackSeen, publishedSeen,
                      archive>>
        BY <1>2 DEF Probe, ProbeFails, apiVars, objVars, cacheVars
    <2> QED BY <1>e, <2>1, <2>2, <2>3
<1>3. CASE ReadParent \/ ReadSource
    <2>1. UNCHANGED <<stack, deleted, cluster, claim, published, sched, stackSeen, publishedSeen,
                      archive>>
        BY <1>3 DEF ReadParent, ReadSource, apiVars, objVars, cacheVars
    <2>2. PICK step : GoTo(step) /\ (step \notin {"schedule", "status"} \/ pending' = "yes")
        BY <1>3 DEF ReadParent, ReadSource, Wait, AfterSource
    <2> QED BY <1>e, <2>1, <2>2
<1>4. CASE CopyCreds
    <2>1. UNCHANGED <<stack, deleted, cluster, claim, published, sched, stackSeen, publishedSeen>>
        BY <1>4 DEF CopyCreds, apiVars, cacheVars
    <2>2. Retry \/ (GoTo("cluster") /\ UNCHANGED archive)
        BY <1>4 DEF CopyCreds
    <2> QED BY <1>e, <1>r, <2>1, <2>2
<1>5. CASE EnsureClaim
    <2>1. /\ pc = "bucket"
          /\ UNCHANGED <<stack, deleted, cluster, published, sched, stackSeen, publishedSeen>>
        BY <1>5 DEF EnsureClaim, apiVars, cacheVars
    <2>2. CASE Retry /\ UNCHANGED claim
        BY <1>r, <2>1, <2>2
    <2>3. CASE ~(Retry /\ UNCHANGED claim)
        <3>1. /\ claim' = [claim EXCEPT ![at].owner = view.uid]
              /\ UNCHANGED archive
            BY <1>5, <2>3 DEF EnsureClaim
        <3>2. PICK step \in {"config", "cluster"} : GoTo(step)
            BY <1>5, <2>3 DEF EnsureClaim
        <3>3. at \in Stacks /\ claim \in [Stacks -> Claims] /\ claim[at] \in Claims
            BY <1>t, <2>1 DEF ApiType
        <3>4. claim'[at].owner = view.uid /\ \A t \in Stacks : t # at => claim'[t] = claim[t]
            BY <3>1, <3>3 DEF Claims
        <3>5. PassMinded'
            BY <3>2 DEF GoTo, PassMinded
        <3>6. at \in Stacks \ deleted => OwnBucket(at)'
            BY <2>1, <3>1, <3>2, <3>4 DEF GoTo, Awake, OwnBucket, Seeding, Undeleted
        <3> QED BY <1>g, <2>1, <3>2, <3>4, <3>5, <3>6
    <2> QED BY <2>2, <2>3
<1>6. CASE ReadBucketName
    <2>1. /\ GoTo("cluster") /\ archive' = publishedSeen[at]
          /\ UNCHANGED <<stack, deleted, cluster, claim, published, sched, stackSeen, publishedSeen>>
        BY <1>6 DEF ReadBucketName, apiVars, objVars, cacheVars
    <2> QED BY <1>e, <2>1
<1>7. CASE EnsureCluster
    <2>1. /\ pc = "cluster"
          /\ UNCHANGED <<stack, deleted, claim, published, sched, stackSeen, publishedSeen>>
        BY <1>7 DEF EnsureCluster, apiVars, cacheVars
    <2>2. CASE Refused(cluster[at].owner)
        BY <1>7, <1>r, <2>1, <2>2 DEF EnsureCluster
    <2>3. CASE ~Refused(cluster[at].owner)
        <3>1. /\ GoTo(AfterCluster) /\ UNCHANGED archive
              /\ pending' = IF OwnBackup(view) /\ archive = 0 THEN "yes" ELSE "no"
            BY <1>7, <2>3 DEF EnsureCluster
        <3>2. /\ cluster'[at].owner = view.uid
              /\ cluster'[at].archive = archive
                 \/ (archive = 0 /\ cluster'[at].archive = cluster[at].archive)
              /\ \A t \in Stacks : t # at => cluster'[t] = cluster[t]
            BY <1>7, <2>3, ClusterMade
        <3>3. PassMinded'
            <4> SUFFICES ASSUME pending' = "no"
                         PROVE  Made(at, view)' /\ (pc' = "status" => Scheduled(at, view)')
                BY DEF PassMinded
            <4>1. UNCHANGED <<at, view>> /\ pc' = AfterCluster
                BY <3>1 DEF GoTo
            <4>2. OwnBackup(view) => archive # 0 /\ pc' = "schedule"
                BY <3>1, <4>1 DEF AfterCluster
            <4> QED BY <3>2, <4>1, <4>2 DEF Made, Scheduled, OwnBackup
        <3>4. at \in Stacks \ deleted => OwnBucket(at)'
            BY <2>1, <3>1, <3>2 DEF GoTo, Awake, OwnBucket
        <3> QED BY <1>g, <2>1, <3>1, <3>2, <3>3, <3>4
    <2> QED BY <2>2, <2>3
<1>8. CASE EnsureSchedule
    <2>1. /\ pc = "schedule"
          /\ UNCHANGED <<stack, deleted, cluster, claim, published, stackSeen, publishedSeen>>
        BY <1>8 DEF EnsureSchedule, apiVars, cacheVars
    <2>2. CASE Retry /\ UNCHANGED sched
        BY <1>r, <2>1, <2>2
    <2>3. CASE ~(Retry /\ UNCHANGED sched)
        <3>1. /\ sched' = [sched EXCEPT ![at] = view.uid]
              /\ GoTo("status") /\ UNCHANGED <<archive, pending>>
            BY <1>8, <2>3 DEF EnsureSchedule
        <3>2. at \in Stacks /\ sched'[at] = view.uid
              /\ \A t \in Stacks : t # at => sched'[t] = sched[t]
            BY <1>t, <2>1, <3>1 DEF ApiType
        <3>3. PassMinded'
            BY <2>1, <3>1, <3>2 DEF GoTo, Awake, PassMinded, Made, Scheduled, OwnBackup
        <3>4. at \in Stacks \ deleted => OwnBucket(at)'
            BY <2>1, <3>1 DEF GoTo, Awake, OwnBucket
        <3> QED BY <1>g, <2>1, <3>1, <3>2, <3>3, <3>4
    <2> QED BY <2>2, <2>3
<1>9. CASE EndPass
    <2>1. /\ pc = "status" /\ Done /\ at \in Stacks
          /\ UNCHANGED <<stack, deleted, cluster, claim, published, sched, stackSeen, publishedSeen>>
        BY <1>9, <1>t DEF EndPass, apiVars, objVars, cacheVars
    <2>2. CASE pending = "yes" \/ stack[at] # view
        BY <1>9, <2>1, <2>2, AwakeRetry DEF EndPass
    <2>3. CASE ~(pending = "yes" \/ stack[at] # view)
        <3>1. queued' = queued /\ pending = "no" /\ stack[at] = view
            BY <1>9, <1>t, <2>3 DEF EndPass, PassType, Flags
        <3>2. at' = NoStack /\ pc' = "idle"
            BY <2>1 DEF Done
        <3>3. PassSees' /\ PassMinded'
            BY <3>2 DEF PassSees, PassMinded
        <3>4. Made(at, view) /\ Scheduled(at, view)
            BY <2>1, <3>1 DEF Awake, PassMinded
        <3>5. ASSUME NEW t \in Stacks PROVE Left(t)'
            <4>1. CASE t = at
                BY <1>i, <2>1, <3>1, <3>4, <4>1 DEF Awake, PassSees, Left, Made, Scheduled,
                   OwnBackup
            <4>2. CASE t # at
                BY <2>1, <3>1, <4>2 DEF Awake, Left, Made, Scheduled, OwnBackup
            <4> QED BY <4>1, <4>2
        <3>6. ASSUME NEW t \in Stacks, t \notin deleted' PROVE OwnBucket(t)'
            BY <1>i, <2>1, <3>2, <3>6 DEF Awake, OwnBucket
        <3> QED BY <3>3, <3>5, <3>6 DEF Awake
    <2> QED BY <2>2, <2>3
<1> QED BY <1>1, <1>2, <1>3, <1>4, <1>5, <1>6, <1>7, <1>8, <1>9 DEF Step

LEMMA InitAwake == Init => Awake
    BY Constants DEF Init, Awake, PassSees, PassMinded, Left, OwnBucket, Gone, NoCluster, NoClaim

\* A Stack that is in no queue and no pass and of which the cache has the last
\* version has what it is to have, although nothing watches Clusters, claims and
\* ConfigMaps: every pass that left something undone asked to be polled, and
\* every version that a pass did not read puts its key back
\* (stack_controller.go: reconcilePostgres, ensureBucket, Reconcile).
THEOREM NoWakeupLost == Spec => []NothingForgotten
<1>1. Awake => NothingForgotten
    <2> SUFFICES ASSUME Awake, NEW s \in Stacks, Quiet(s)
                 PROVE  /\ cluster[s].owner = stack[s].uid
                        /\ OwnBackup(stack[s]) =>
                              /\ cluster[s].archive # 0 /\ sched[s] = stack[s].uid
                              /\ s \notin deleted => cluster[s].archive = stack[s].uid
        BY DEF NothingForgotten
    <2>1. Made(s, stack[s]) /\ Scheduled(s, stack[s])
        BY DEF Awake, Left, Quiet
    <2>2. s \notin deleted => cluster[s].archive \in {0, stack[s].uid}
        BY DEF Awake, OwnBucket
    <2> QED BY <2>1, <2>2 DEF Made, Scheduled
<1>2. Typed /\ Seeding /\ Copied /\ Archiving /\ Awake /\ [Next]_vars => Archiving' /\ Awake'
    <2>1. Typed /\ Seeding /\ Copied /\ Archiving /\ [Next]_vars => Archiving'
        BY ArchivingStep
    <2>2. Typed /\ Seeding /\ Copied /\ Archiving /\ Awake /\ [Next]_vars => Awake'
        BY AwakeObjects, AwakeCaches, AwakeWorker DEF Next
    <2> QED BY <2>1, <2>2
<1> QED BY <1>1, <1>2, InitArchiving, InitAwake, AlwaysCopied, PTL DEF Spec
=============================================================================
