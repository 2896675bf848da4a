--------------------------- MODULE VolumeBacking ---------------------------
(***************************************************************************)
(* A volume-backed backing service of each of several Stacks: template or  *)
(* fallback tier (internal/controller/servicedef.go: reconcileTemplated;   *)
(* stack_controller.go: reconcileFallback), and the hand-over of a volume  *)
(* to a preview of another namespace (snapshots.go).                       *)
(*                                                                         *)
(* A preview restores its volume from a snapshot of its parent's volume:   *)
(* source snapshot in the namespace of the parent, a static content of the *)
(* cluster that shares its handle, restore snapshot in the namespace of    *)
(* the preview, and only then the StatefulSet, whose claim template names  *)
(* the restore snapshot and never changes.                                 *)
(*                                                                         *)
(* The handle of a content never changes, and a content is bound once: one *)
(* that a teardown missed is in the way of the next preview of the         *)
(* namespace.                                                              *)
(*                                                                         *)
(* Snapshots, contents and schedules are unstructured and read live;       *)
(* Stacks, Secrets, StatefulSets and claims come from caches that lag.     *)
(* Neither StatefulSets nor claims are watched. Every Stack has a          *)
(* namespace of its own.                                                   *)
(***************************************************************************)
EXTENDS Naturals

CONSTANTS
    Stacks,      \* names of Stacks, each with one volume-backed backing
    NoStack,
    Parent,      \* the Stack that the annotations of a preview name, or NoStack
    Backups,     \* Stacks whose backing asks for backups
    MaxUid,      \* bound: Stacks created under each name
    Editable,    \* bound: names under which Stacks are deleted and torn down
    MaxEdits,    \* bound: ... how often
    MaxFaults    \* bound: failed calls and crashes

ASSUME StacksAssumption ==
    /\ NoStack \notin Stacks /\ Parent \in [Stacks -> Stacks \cup {NoStack}]
    /\ Backups \subseteq Stacks
ASSUME BoundsAssumption ==
    Editable \subseteq Stacks /\ MaxUid \in Nat /\ MaxEdits \in Nat /\ MaxFaults \in Nat

VARIABLES
    \* The API server. Owners are uids of Stacks, 0 for none. Source snapshots
    \* are numbered by Stack: their number is their handle, and that of the data
    \* in a volume that was restored from it.
    uids,        \* uids given so far, told apart within a name
    stack,       \* uids of the Stacks
    deleted,     \* names under which a Stack was deleted or torn down
    ns,          \* namespaces: active, or being torn down and how far
    set,         \* StatefulSets
    volume,      \* their claims and volumes
    shots,       \* source snapshots made so far
    src,         \* source snapshots
    content,     \* static contents
    restore,     \* restore snapshots
    sched,       \* owners of the SnapshotSchedules
    \* The operator's caches and work queue.
    stackSeen, setSeen, volumeSeen,
    queued,      \* keys in the work queue, or about to be added
    \* The pass that is running.
    at,          \* the Stack it is about, or NoStack
    pc,          \* its next call
    view,        \* the Stack it read
    handle,      \* the snapshot it hands over, or 0
    pending,     \* to be polled
    \* Bounds.
    edits, faults

apiVars   == <<uids, stack, deleted, ns>>
objVars   == <<set, volume, sched>>
cloneVars == <<shots, src, content, restore>>
cacheVars == <<stackSeen, setSeen, volumeSeen>>
passVars  == <<at, pc, view, handle, pending>>
boundVars == <<edits, faults>>
vars == <<apiVars, objVars, cloneVars, cacheVars, queued, passVars, boundVars>>

-----------------------------------------------------------------------------
Flags == {"no", "yes"}
Uids  == 0 .. MaxUid
Steps == {"idle", "exists", "source", "handle", "content", "restore", "set",
          "label", "schedule", "status"}
Phases == {"active", "snapshots", "contents", "terminating"}

\* source: what its claim template restores from.
Sets       == [owner : Uids, source : {"none", "restore"}]
NoSet      == [owner |-> 0, source |-> "none"]
Volumes    == [owner : Uids, data : Nat, label : Flags]
NoVolume   == [owner |-> 0, data |-> 0, label |-> "no"]
\* ready: readyToUse, with its content.
Snapshots  == [id : Nat, ready : Flags]
NoSnapshot == [id |-> 0, ready |-> "no"]
\* taken: its volumeSnapshotRef has the uid of the restore snapshot it is bound to.
Contents   == [handle : Nat, taken : Flags]
NoContent  == [handle |-> 0, taken |-> "no"]
\* bound: the handle of the content it is bound to.
Restores   == [made : Flags, bound : Nat]
NoRestore  == [made |-> "no", bound |-> 0]

Init ==
    /\ uids = [s \in Stacks |-> 0] /\ stack = [s \in Stacks |-> 0] /\ deleted = {}
    /\ ns = [s \in Stacks |-> "active"]
    /\ set = [s \in Stacks |-> NoSet] /\ volume = [s \in Stacks |-> NoVolume]
    /\ sched = [s \in Stacks |-> 0]
    /\ shots = [s \in Stacks |-> 0]
    /\ src = [s \in Stacks |-> NoSnapshot] /\ content = [s \in Stacks |-> NoContent]
    /\ restore = [s \in Stacks |-> NoRestore]
    /\ stackSeen = stack /\ setSeen = set /\ volumeSeen = volume
    /\ queued = {}
    /\ at = NoStack /\ pc = "idle" /\ view = 0 /\ handle = 0 /\ pending = "no"
    /\ edits = 0 /\ faults = 0

\* isPreviewClone
IsPreview(s) == Parent[s] # NoStack
\* The claim of a preview is read by nothing, and left out of the cache.
Volume(s) == IF IsPreview(s) THEN NoVolume ELSE volume[s]
\* Backed up by a snapshot schedule.
BackedUp(s) == s \in Backups /\ ~IsPreview(s)

-----------------------------------------------------------------------------
(* Users, and the Environment controller                                   *)

CreateStack(s) ==
    /\ stack[s] = 0 /\ ns[s] = "active" /\ uids[s] < MaxUid
    /\ uids' = [uids EXCEPT ![s] = @ + 1]
    /\ stack' = [stack EXCEPT ![s] = uids[s] + 1]
    /\ UNCHANGED <<deleted, ns, objVars, cloneVars, cacheVars, queued, passVars, boundVars>>

DeleteStack(s) ==
    /\ stack[s] # 0 /\ s \in Editable /\ edits < MaxEdits
    /\ edits' = edits + 1
    /\ stack' = [stack EXCEPT ![s] = 0] /\ deleted' = deleted \cup {s}
    /\ UNCHANGED <<uids, ns, objVars, cloneVars, cacheVars, queued, passVars, faults>>

\* The Environment of a preview is deleted: gcCloneArtifacts, one kind after
\* the other, then the namespace.
TearDown(s) ==
    /\ IsPreview(s) /\ stack[s] # 0 /\ ns[s] = "active" /\ s \in Editable /\ edits < MaxEdits
    /\ edits' = edits + 1
    /\ ns' = [ns EXCEPT ![s] = "snapshots"] /\ deleted' = deleted \cup {s}
    /\ UNCHANGED <<uids, stack, objVars, cloneVars, cacheVars, queued, passVars, faults>>

CollectSnapshots(s) ==
    /\ ns[s] = "snapshots"
    /\ src' = [src EXCEPT ![s] = NoSnapshot] /\ restore' = [restore EXCEPT ![s] = NoRestore]
    /\ ns' = [ns EXCEPT ![s] = "contents"]
    /\ UNCHANGED <<uids, stack, deleted, objVars, shots, content, cacheVars, queued, passVars, boundVars>>

CollectContents(s) ==
    /\ ns[s] = "contents"
    /\ content' = [content EXCEPT ![s] = NoContent]
    /\ ns' = [ns EXCEPT ![s] = "terminating"]
    /\ UNCHANGED <<uids, stack, deleted, objVars, shots, src, restore, cacheVars, queued, passVars, boundVars>>

-----------------------------------------------------------------------------
(* The cluster: namespaces, garbage collection, the snapshot and           *)
(* StatefulSet controllers                                                 *)

\* What no Stack owns goes with the namespace, what one owns after the Stack.
TerminateStack(s) ==
    /\ ns[s] = "terminating" /\ stack[s] # 0
    /\ stack' = [stack EXCEPT ![s] = 0]
    /\ UNCHANGED <<uids, deleted, ns, objVars, cloneVars, cacheVars, queued, passVars, boundVars>>

TerminateRestore(s) ==
    /\ ns[s] = "terminating" /\ restore[s] # NoRestore
    /\ restore' = [restore EXCEPT ![s] = NoRestore]
    /\ UNCHANGED <<apiVars, objVars, shots, src, content, cacheVars, queued, passVars, boundVars>>

EndNamespace(s) ==
    /\ ns[s] = "terminating" /\ stack[s] = 0 /\ restore[s] = NoRestore
    /\ set[s].owner = 0 /\ volume[s].owner = 0 /\ sched[s] = 0
    /\ ns' = [ns EXCEPT ![s] = "active"]
    /\ UNCHANGED <<uids, stack, deleted, objVars, cloneVars, cacheVars, queued, passVars, boundVars>>

Orphan(owner, of) == owner # 0 /\ owner # of

CollectSet(s) ==
    /\ Orphan(set[s].owner, stack[s])
    /\ set' = [set EXCEPT ![s] = NoSet]
    /\ UNCHANGED <<apiVars, volume, sched, cloneVars, cacheVars, queued, passVars, boundVars>>

\* PersistentVolumeClaimRetentionPolicy: the claims go after their StatefulSet.
CollectVolume(s) ==
    /\ Orphan(volume[s].owner, set[s].owner)
    /\ volume' = [volume EXCEPT ![s] = NoVolume]
    /\ UNCHANGED <<apiVars, set, sched, cloneVars, cacheVars, queued, passVars, boundVars>>

CollectSchedule(s) ==
    /\ Orphan(sched[s], stack[s])
    /\ sched' = [sched EXCEPT ![s] = 0]
    /\ UNCHANGED <<apiVars, set, volume, cloneVars, cacheVars, queued, passVars, boundVars>>

\* A snapshot needs the volume it is to be taken of.
TakeSnapshot(s) ==
    /\ src[s].id # 0 /\ src[s].ready = "no" /\ volume[Parent[s]].owner # 0
    /\ src' = [src EXCEPT ![s].ready = "yes"]
    /\ UNCHANGED <<apiVars, objVars, shots, content, restore, cacheVars, queued, passVars, boundVars>>

BindRestore(s) ==
    /\ restore[s] = [made |-> "yes", bound |-> 0]
    /\ content[s].handle # 0 /\ content[s].taken = "no"
    /\ restore' = [restore EXCEPT ![s].bound = content[s].handle]
    /\ content' = [content EXCEPT ![s].taken = "yes"]
    /\ UNCHANGED <<apiVars, objVars, shots, src, cacheVars, queued, passVars, boundVars>>

\* A claim of the name that is there already is taken as it is.
ClaimVolume(s) ==
    /\ set[s].owner # 0 /\ volume[s].owner = 0 /\ ns[s] # "terminating"
    /\ set[s].source = "restore" => restore[s].bound # 0
    /\ volume' = [volume EXCEPT ![s] =
           [NoVolume EXCEPT !.owner = set[s].owner,
                            !.data  = IF set[s].source = "none" THEN 0 ELSE restore[s].bound]]
    /\ UNCHANGED <<apiVars, set, sched, cloneVars, cacheVars, queued, passVars, boundVars>>

-----------------------------------------------------------------------------
(* Informers                                                               *)

DeliverStack(s) ==
    /\ stackSeen[s] # stack[s]
    /\ stackSeen' = [stackSeen EXCEPT ![s] = stack[s]] /\ queued' = queued \cup {s}
    /\ UNCHANGED <<apiVars, objVars, cloneVars, setSeen, volumeSeen, passVars, boundVars>>

DeliverSet(s) ==
    /\ setSeen[s] # set[s]
    /\ setSeen' = [setSeen EXCEPT ![s] = set[s]]
    /\ UNCHANGED <<apiVars, objVars, cloneVars, stackSeen, volumeSeen, queued, passVars, boundVars>>

DeliverVolume(s) ==
    /\ volumeSeen[s] # Volume(s)
    /\ volumeSeen' = [volumeSeen EXCEPT ![s] = Volume(s)]
    /\ UNCHANGED <<apiVars, objVars, cloneVars, stackSeen, setSeen, queued, passVars, boundVars>>

-----------------------------------------------------------------------------
(* The pass                                                                *)

StartReconcile_Gone(s) ==                                  \* mutant
    /\ pc = "idle" /\ s \in queued
    /\ queued' = queued \ {s}
    /\ at' = s /\ pc' = "exists" /\ view' = stackSeen[s]
    /\ UNCHANGED <<apiVars, objVars, cloneVars, cacheVars, handle, pending, boundVars>>
StartReconcile(s) ==
    /\ pc = "idle" /\ s \in queued
    /\ queued' = queued \ {s}
    /\ IF stackSeen[s] = 0
       THEN UNCHANGED <<at, pc, view>>
       ELSE at' = s /\ pc' = "exists" /\ view' = stackSeen[s]
    /\ UNCHANGED <<apiVars, objVars, cloneVars, cacheVars, handle, pending, boundVars>>

Done ==
    /\ at' = NoStack /\ pc' = "idle" /\ view' = 0
    /\ handle' = 0 /\ pending' = "no"

\* An error: the key comes back after a back-off.
Retry == Done /\ queued' = queued \cup {at}

GoTo(step) == pc' = step /\ UNCHANGED <<at, view, queued>>

\* SetControllerReference refuses what belongs to another Stack.
Refused(owner) == owner \notin {0, view}

\* A namespace that is being deleted takes nothing new.
Closed(s) == ns[s] = "terminating"

\* What CreateOrUpdate is refused for: another owner, a copy in the cache that
\* is not the present one, a new object in a namespace on its way out. It always
\* writes: the template it makes lacks the defaults of the API server.
Rejected(seen, now) ==
    Refused(seen.owner) \/ seen # now \/ (now.owner = 0 /\ Closed(at))

\* statefulSetExists: only a StatefulSet that is not there has to be seeded.
AfterExists(exists) == IF IsPreview(at) /\ ~exists THEN "source" ELSE "set"

CheckSet ==
    /\ pc = "exists" /\ GoTo(AfterExists(setSeen[at].owner # 0))
    /\ UNCHANGED <<apiVars, objVars, cloneVars, cacheVars, handle, pending, boundVars>>

\* Any error is an answer: it does not exist.
CheckSetFails ==
    /\ pc = "exists" /\ faults < MaxFaults /\ faults' = faults + 1
    /\ GoTo(AfterExists(FALSE))
    /\ UNCHANGED <<apiVars, objVars, cloneVars, cacheVars, handle, pending, edits>>

\* prepareCloneRestore. What is not ready is waited for, without StatefulSet.
Wait_Proceeds == GoTo("set") /\ pending' = "yes" /\ UNCHANGED handle      \* mutant
Wait_Once == GoTo("status") /\ UNCHANGED <<handle, pending>>              \* mutant
Wait == GoTo("status") /\ pending' = "yes" /\ UNCHANGED handle

EnsureSource ==
    LET new == src[at].id = 0
        now == IF new THEN [id |-> shots[at] + 1, ready |-> "no"] ELSE src[at]
    IN
    /\ pc = "source"
    /\ src' = [src EXCEPT ![at] = now] /\ shots' = IF new THEN [shots EXCEPT ![at] = @ + 1] ELSE shots
    /\ IF now.ready = "no"
       THEN Wait
       ELSE GoTo("handle") /\ handle' = now.id /\ UNCHANGED pending
    /\ UNCHANGED <<apiVars, objVars, content, restore, cacheVars, boundVars>>

\* The content of the source snapshot may be gone by now, with the snapshot.
ReadHandle ==
    /\ pc = "handle"
    /\ \/ GoTo("content") /\ UNCHANGED <<handle, pending>>
       \/ src[at] # [id |-> handle, ready |-> "yes"] /\ Wait
    /\ UNCHANGED <<apiVars, objVars, cloneVars, cacheVars, boundVars>>

\* The API server refuses to change the handle of a content that is there.
EnsureContent ==
    /\ pc = "content"
    /\ IF content[at].handle \notin {0, handle}
       THEN Retry /\ UNCHANGED content
       ELSE /\ content' = [content EXCEPT ![at].handle = handle]
            /\ GoTo("restore") /\ UNCHANGED <<handle, pending>>
    /\ UNCHANGED <<apiVars, objVars, shots, src, restore, cacheVars, boundVars>>

AfterRestore_NotReady(r) == TRUE                           \* mutant
AfterRestore(r) == r.bound # 0

EnsureRestore ==
    /\ pc = "restore"
    /\ IF Closed(at) /\ restore[at].made = "no"
       THEN Retry /\ UNCHANGED restore
       ELSE /\ restore' = [restore EXCEPT ![at].made = "yes"]
            /\ IF AfterRestore(restore[at])
               THEN GoTo("set") /\ UNCHANGED <<handle, pending>>
               ELSE Wait
    /\ UNCHANGED <<apiVars, objVars, shots, src, content, cacheVars, boundVars>>

\* The StatefulSet; an existing one keeps its claim template.
NewSet ==
    [owner |-> view, source |-> IF handle # 0 THEN "restore" ELSE "none"]

AfterSet == IF BackedUp(at) THEN "label" ELSE "status"

EnsureSet ==
    /\ pc = "set"
    /\ IF Rejected(setSeen[at], set[at])
       THEN Retry /\ UNCHANGED set
       ELSE /\ set' = IF set[at].owner = 0 THEN [set EXCEPT ![at] = NewSet] ELSE set
            /\ GoTo(AfterSet) /\ UNCHANGED <<handle, pending>>
    /\ UNCHANGED <<apiVars, volume, sched, cloneVars, cacheVars, boundVars>>

\* labelBackupPVC: a claim that is not in the cache is left to the next pass;
\* an update that is refused is logged.
LabelVolume ==
    LET seen == volumeSeen[at] IN
    /\ pc = "label"
    /\ volume' = IF seen.owner # 0 /\ seen.label = "no" /\ seen = volume[at]
                 THEN [volume EXCEPT ![at].label = "yes"] ELSE volume
    /\ GoTo("schedule") /\ UNCHANGED <<handle, pending>>
    /\ UNCHANGED <<apiVars, set, sched, cloneVars, cacheVars, boundVars>>

\* ensureBackupSchedule; another error that is only logged.
EnsureSchedule ==
    /\ pc = "schedule"
    /\ sched' = IF Refused(sched[at]) \/ Closed(at) THEN sched
                ELSE [sched EXCEPT ![at] = view]
    /\ GoTo("status") /\ UNCHANGED <<handle, pending>>
    /\ UNCHANGED <<apiVars, set, volume, cloneVars, cacheVars, boundVars>>

\* Those two calls fail.
BackupFails ==
    /\ pc \in {"label", "schedule"} /\ faults < MaxFaults /\ faults' = faults + 1
    /\ GoTo(IF pc = "label" THEN "schedule" ELSE "status") /\ UNCHANGED <<handle, pending>>
    /\ UNCHANGED <<apiVars, objVars, cloneVars, cacheVars, edits>>

\* updateStatus: refused if the Stack has changed, else the poll it asks for.
EndPass ==
    /\ pc = "status" /\ Done
    /\ queued' = IF pending = "yes" \/ stack[at] # view THEN queued \cup {at} ELSE queued
    /\ UNCHANGED <<apiVars, objVars, cloneVars, cacheVars, boundVars>>

-----------------------------------------------------------------------------
(* Failures                                                                *)

\* The next call fails, of those whose errors end the pass.
CallFails ==
    /\ pc \in Steps \ {"idle", "exists", "label", "schedule"}
    /\ faults < MaxFaults /\ faults' = faults + 1
    /\ Retry
    /\ UNCHANGED <<apiVars, objVars, cloneVars, cacheVars, edits>>

Restart ==
    /\ faults < MaxFaults /\ faults' = faults + 1
    /\ Done
    /\ stackSeen' = stack /\ setSeen' = set
    /\ volumeSeen' = [s \in Stacks |-> Volume(s)]
    /\ queued' = {s \in Stacks : stack[s] # 0}
    /\ UNCHANGED <<apiVars, objVars, cloneVars, edits>>

-----------------------------------------------------------------------------
User == \E s \in Stacks : CreateStack(s) \/ DeleteStack(s) \/ TearDown(s)

Teardown(s) == \/ CollectSnapshots(s) \/ CollectContents(s)
               \/ TerminateStack(s) \/ TerminateRestore(s) \/ EndNamespace(s)

Informer(s) == DeliverStack(s) \/ DeliverSet(s) \/ DeliverVolume(s)

Collector(s) == CollectSet(s) \/ CollectVolume(s) \/ CollectSchedule(s)

Operators(s) == TakeSnapshot(s) \/ BindRestore(s) \/ ClaimVolume(s)

Step == \/ CheckSet \/ EnsureSource \/ ReadHandle \/ EnsureContent
        \/ EnsureRestore \/ EnsureSet \/ LabelVolume \/ EnsureSchedule \/ EndPass

Next ==
    \/ User
    \/ \E s \in Stacks : Teardown(s) \/ Informer(s) \/ Collector(s) \/ Operators(s)
                         \/ StartReconcile(s)
    \/ Step \/ CheckSetFails \/ BackupFails \/ CallFails \/ Restart

Spec == Init /\ [][Next]_vars

\* A pass goes on, every key is served, informers deliver, a teardown that has
\* begun is retried to its end, and the other controllers do their work.
FairSpec ==
    /\ Spec /\ WF_vars(Step)
    /\ \A s \in Stacks :
          /\ SF_vars(StartReconcile(s))
          /\ WF_vars(Teardown(s))
          /\ WF_vars(DeliverStack(s)) /\ WF_vars(DeliverSet(s))
          /\ WF_vars(Collector(s)) /\ WF_vars(Operators(s))

-----------------------------------------------------------------------------
(* Properties                                                              *)

ApiType ==
    /\ uids \in [Stacks -> Uids] /\ stack \in [Stacks -> Uids] /\ deleted \subseteq Stacks
    /\ ns \in [Stacks -> Phases]
    /\ set \in [Stacks -> Sets]
    /\ volume \in [Stacks -> Volumes] /\ sched \in [Stacks -> Uids]
    /\ shots \in [Stacks -> Nat]
    /\ src \in [Stacks -> Snapshots] /\ content \in [Stacks -> Contents]
    /\ restore \in [Stacks -> Restores]

PassType ==
    /\ stackSeen \in [Stacks -> Uids] /\ setSeen \in [Stacks -> Sets] /\ volumeSeen \in [Stacks -> Volumes]
    /\ queued \subseteq Stacks
    /\ at \in Stacks \cup {NoStack} /\ pc \in Steps
    /\ (pc = "idle" <=> at = NoStack) /\ (pc = "idle" <=> view = 0)
    /\ view \in Uids /\ handle \in Nat /\ pending \in Flags
    /\ edits \in 0 .. MaxEdits /\ faults \in 0 .. MaxFaults

\* Type invariant; a pass is about a Stack, and one that has been there.
TypeOK == ApiType /\ PassType

\* Until a preview is deleted: its StatefulSet was created to restore, and its
\* volume holds what the snapshot holds that was taken for it, whatever fails or
\* is repeated on the way (snapshots.go: prepareCloneRestore).
PreviewIsSeeded ==
    \A s \in Stacks : IsPreview(s) /\ s \notin deleted =>
        /\ set[s].owner # 0 => set[s].source = "restore"
        /\ volume[s].owner # 0 => volume[s].data # 0 /\ volume[s].data = src[s].id

\* "the restore source must exist first": the restore snapshot that a claim
\* template names is there and bound as long as the StatefulSet is the Stack's
\* own, although nothing but the namespace holds it.
RestoreFirst ==
    \A s \in Stacks :
        set[s].source = "restore" /\ set[s].owner = stack[s] /\ s \notin deleted
        => restore[s].bound # 0

\* Nothing is forgotten: a Stack whose key is in no queue and no pass, and of
\* which the cache has the last version, has its StatefulSet.
Quiet(s) == stack[s] # 0 /\ stackSeen[s] = stack[s] /\ s \notin queued /\ at # s

NothingForgotten ==
    \A s \in Stacks : Quiet(s) => set[s].owner = stack[s]

\* The content that is there cannot be made that of the present snapshots: it
\* shares another handle, or was bound to a restore snapshot that is gone.
Leftover(s) ==
    /\ content[s].handle # 0
    /\ content[s].handle # src[s].id \/ (content[s].taken = "yes" /\ restore[s].bound = 0)

\* Every Stack that is left alone ends up with its backing running on a volume
\* of its own, a preview if its parent is there too, although nothing but the
\* poll watches the snapshots, and whatever was deleted and created again; but
\* for a preview whose namespace was torn down before, and left it a content.
Settles ==
    <>[](\A s \in Stacks :
            stack[s] # 0 /\ (IsPreview(s) => stack[Parent[s]] # 0 /\ ~Leftover(s)) =>
                set[s].owner = stack[s] /\ volume[s].owner = stack[s])
=============================================================================
