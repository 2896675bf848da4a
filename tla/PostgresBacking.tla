-------------------------- MODULE PostgresBacking --------------------------
(***************************************************************************)
(* A postgres backing service of each of several Stacks (internal/         *)
(* controller/stack_controller.go: reconcilePostgres and what it calls).   *)
(*                                                                         *)
(* A Stack that keeps backups gets a bucket, a Cluster that archives to it *)
(* and a ScheduledBackup. A Stack that is a clone gets none of these: its  *)
(* Cluster is to be recovered from the backups of its parent, for which it *)
(* waits. How a Cluster is bootstrapped is decided once, at its creation.  *)
(*                                                                         *)
(* Cluster, bucket claim and ScheduledBackup are unstructured and read     *)
(* live, Stacks, ConfigMaps and Secrets from caches that lag. Of these     *)
(* only Stacks bring the controller back; for the rest it polls. The       *)
(* ConfigMap and the Secret a provisioner writes for a claim are one       *)
(* ("published") here, and name the bucket they open. No service connects  *)
(* to the backing: one that did would only add passes.                     *)
(*                                                                         *)
(* Whether a Stack is a clone is not settled once: the Environment         *)
(* controller stamps the annotations that say so on a Stack that is there  *)
(* when its Environment is made a preview, and never takes them off.       *)
(***************************************************************************)
EXTENDS Naturals

CONSTANTS
    Stacks,      \* names of Stacks, each with one postgres backing
    NoStack,
    Origins,     \* the Stacks that each may be made a clone of
    Born,        \* bound: the Backup that Stacks are created with
    MaxUid,      \* bound: Stacks created, under any name
    MaxEdits,    \* bound: edits and deletions of Stacks
    MaxFaults    \* bound: failed calls and crashes

ASSUME StacksAssumption ==
    /\ NoStack \notin Stacks /\ Origins \in [Stacks -> SUBSET Stacks]
    /\ Born \subseteq {"no", "yes"}
ASSUME BoundsAssumption ==
    MaxUid \in Nat /\ MaxEdits \in Nat /\ MaxFaults \in Nat

VARIABLES
    \* The API server. Owners and buckets are uids of Stacks, 0 for none: a
    \* claim has a bucket of its own, and a Stack has one claim.
    uids,        \* uids given so far
    stack,       \* the Stacks: uid, Backup of the backing, clone-from annotations
    deleted,     \* names under which a Stack was deleted
    cluster,     \* the Clusters
    claim,       \* ObjectBucketClaims for backups: owner and phase
    published,   \* the bucket that the ConfigMap and Secret of a claim open
    creds,       \* the copied Secrets: owner and the bucket they open
    sched,       \* owners of the ScheduledBackups
    \* The operator's caches and work queue.
    stackSeen, publishedSeen, credsSeen,
    queued,      \* keys in the work queue, or about to be added
    \* The pass that is running.
    at,          \* the Stack it is about, or NoStack
    pc,          \* its next call
    view,        \* the Stack it read
    source,      \* the bucket to recover from, or 0
    archive,     \* the bucket to archive to, or 0
    pending,     \* to be polled
    \* Bounds.
    edits, faults

apiVars   == <<uids, stack, deleted>>
objVars   == <<cluster, claim, published, creds, sched>>
cacheVars == <<stackSeen, publishedSeen, credsSeen>>
passVars  == <<at, pc, view, source, archive, pending>>
boundVars == <<edits, faults>>
vars == <<apiVars, objVars, cacheVars, queued, passVars, boundVars>>

-----------------------------------------------------------------------------
Flags == {"no", "yes"}
Uids  == 0 .. MaxUid
Steps == {"idle", "probe", "parent", "source", "creds", "bucket", "config", "cluster",
          "schedule", "status"}

StackState == [uid : Uids, backup : Flags, from : Stacks \cup {NoStack}]
Gone       == [uid |-> 0, backup |-> "no", from |-> NoStack]
\* base: the bucket that holds a base backup of it, as its status says.
\* made: what the pass that created it took the Stack for.
Clusters   == [owner : Uids, boot : {"initdb", "recovery"}, source : Uids, archive : Uids,
               base : Uids, made : {"own", "clone"}]
NoCluster  == [owner |-> 0, boot |-> "initdb", source |-> 0, archive |-> 0, base |-> 0,
               made |-> "own"]
Claims     == [owner : Uids, phase : {"pending", "bound"}]
NoClaim    == [owner |-> 0, phase |-> "pending"]
Secrets    == [owner : Uids, bucket : Uids]
NoSecret   == [owner |-> 0, bucket |-> 0]

Init ==
    /\ uids = 0 /\ stack = [s \in Stacks |-> Gone] /\ deleted = {}
    /\ cluster = [s \in Stacks |-> NoCluster] /\ claim = [s \in Stacks |-> NoClaim]
    /\ published = [s \in Stacks |-> 0] /\ creds = [s \in Stacks |-> NoSecret]
    /\ sched = [s \in Stacks |-> 0]
    /\ stackSeen = stack /\ publishedSeen = published /\ credsSeen = creds
    /\ queued = {}
    /\ at = NoStack /\ pc = "idle" /\ view = Gone /\ source = 0 /\ archive = 0
    /\ pending = "no"
    /\ edits = 0 /\ faults = 0

\* cloneSource
IsClone(o) == o.backup = "yes" /\ o.from # NoStack
\* wantOwnBackup
OwnBackup_Clones(o) == o.backup = "yes"                    \* mutant
OwnBackup(o) == o.backup = "yes" /\ o.from = NoStack

-----------------------------------------------------------------------------
(* Users, and the Environment controller for them                          *)

CreateStack(s, b, p) ==
    /\ stack[s].uid = 0 /\ uids < MaxUid
    /\ uids' = uids + 1
    /\ stack' = [stack EXCEPT ![s] = [uid |-> uids + 1, backup |-> b, from |-> p]]
    /\ UNCHANGED <<deleted, objVars, cacheVars, queued, passVars, boundVars>>

\* The graph is put as it is wished for, the annotations are only added.
EditStack(s, b, p) ==
    /\ stack[s].uid # 0 /\ edits < MaxEdits
    /\ p \in Origins[s] \/ p = stack[s].from
    /\ b # stack[s].backup \/ p # stack[s].from
    /\ edits' = edits + 1
    /\ stack' = [stack EXCEPT ![s].backup = b, ![s].from = p]
    /\ UNCHANGED <<uids, deleted, objVars, cacheVars, queued, passVars, faults>>

DeleteStack(s) ==
    /\ stack[s].uid # 0 /\ edits < MaxEdits
    /\ edits' = edits + 1
    /\ stack' = [stack EXCEPT ![s] = Gone] /\ deleted' = deleted \cup {s}
    /\ UNCHANGED <<uids, objVars, cacheVars, queued, passVars, faults>>

-----------------------------------------------------------------------------
(* The cluster: garbage collection, the bucket provisioner, CNPG           *)

Orphan(s, owner) == owner # 0 /\ owner # stack[s].uid

CollectCluster(s) ==
    /\ Orphan(s, cluster[s].owner)
    /\ cluster' = [cluster EXCEPT ![s] = NoCluster]
    /\ UNCHANGED <<apiVars, claim, published, creds, sched, cacheVars, queued, passVars, boundVars>>

\* What the provisioner published goes with the claim.
CollectClaim(s) ==
    /\ Orphan(s, claim[s].owner)
    /\ claim' = [claim EXCEPT ![s] = NoClaim] /\ published' = [published EXCEPT ![s] = 0]
    /\ UNCHANGED <<apiVars, cluster, creds, sched, cacheVars, queued, passVars, boundVars>>

CollectCreds(s) ==
    /\ Orphan(s, creds[s].owner)
    /\ creds' = [creds EXCEPT ![s] = NoSecret]
    /\ UNCHANGED <<apiVars, cluster, claim, published, sched, cacheVars, queued, passVars, boundVars>>

CollectSchedule(s) ==
    /\ Orphan(s, sched[s])
    /\ sched' = [sched EXCEPT ![s] = 0]
    /\ UNCHANGED <<apiVars, cluster, claim, published, creds, cacheVars, queued, passVars, boundVars>>

\* "it lands right after the OBC binds": that the ConfigMap and the Secret are
\* there and that the cache has heard of them is one.
BindClaim(s) ==
    /\ claim[s].owner # 0 /\ claim[s].phase = "pending"
    /\ claim' = [claim EXCEPT ![s].phase = "bound"]
    /\ published' = [published EXCEPT ![s] = claim[s].owner]
    /\ UNCHANGED <<apiVars, cluster, creds, sched, cacheVars, queued, passVars, boundVars>>

\* The scheduled base backup, for which bucket and Secret must agree.
TakeBaseBackup(s) ==
    /\ cluster[s].archive # 0 /\ cluster[s].archive = published[s]
    /\ sched[s] # 0 /\ cluster[s].base # cluster[s].archive
    /\ cluster' = [cluster EXCEPT ![s].base = cluster[s].archive]
    /\ UNCHANGED <<apiVars, claim, published, creds, sched, cacheVars, queued, passVars, boundVars>>

-----------------------------------------------------------------------------
(* Informers                                                               *)

DeliverStack(s) ==
    /\ stackSeen[s] # stack[s]
    /\ stackSeen' = [stackSeen EXCEPT ![s] = stack[s]] /\ queued' = queued \cup {s}
    /\ UNCHANGED <<apiVars, objVars, publishedSeen, credsSeen, passVars, boundVars>>

DeliverPublished(s) ==
    /\ publishedSeen[s] # published[s]
    /\ publishedSeen' = [publishedSeen EXCEPT ![s] = published[s]]
    /\ UNCHANGED <<apiVars, objVars, stackSeen, credsSeen, queued, passVars, boundVars>>

DeliverCreds(s) ==
    /\ credsSeen[s] # creds[s]
    /\ credsSeen' = [credsSeen EXCEPT ![s] = creds[s]]
    /\ UNCHANGED <<apiVars, objVars, stackSeen, publishedSeen, queued, passVars, boundVars>>

-----------------------------------------------------------------------------
(* The pass                                                                *)

\* One worker. What a pass has found out ends with it.
StartReconcile_Gone(s) ==                                  \* mutant
    /\ pc = "idle" /\ s \in queued
    /\ queued' = queued \ {s}
    /\ at' = s /\ pc' = "probe" /\ view' = stackSeen[s]
    /\ UNCHANGED <<apiVars, objVars, cacheVars, source, archive, pending, boundVars>>
StartReconcile(s) ==
    /\ pc = "idle" /\ s \in queued
    /\ queued' = queued \ {s}
    /\ IF stackSeen[s].uid = 0
       THEN UNCHANGED <<at, pc, view>>
       ELSE at' = s /\ pc' = "probe" /\ view' = stackSeen[s]
    /\ UNCHANGED <<apiVars, objVars, cacheVars, source, archive, pending, boundVars>>

Done ==
    /\ at' = NoStack /\ pc' = "idle" /\ view' = Gone
    /\ source' = 0 /\ archive' = 0 /\ pending' = "no"

\* An error: the key comes back after a back-off.
Retry == Done /\ queued' = queued \cup {at}

GoTo(step) == pc' = step /\ UNCHANGED <<at, view, queued>>

\* The pre-Get. Only a Cluster that is not there has to be seeded.
AfterProbe(exists) ==
    IF IsClone(view) /\ ~exists THEN "parent"
    ELSE IF OwnBackup(view) THEN "bucket" ELSE "cluster"

Probe ==
    /\ pc = "probe" /\ GoTo(AfterProbe(cluster[at].owner # 0))
    /\ UNCHANGED <<apiVars, objVars, cacheVars, source, archive, pending, boundVars>>

\* Whatever error the pre-Get returns means that there is no Cluster.
ProbeFails ==
    /\ pc = "probe" /\ faults < MaxFaults /\ faults' = faults + 1
    /\ GoTo(AfterProbe(FALSE))
    /\ UNCHANGED <<apiVars, objVars, cacheVars, source, archive, pending, edits>>

\* parentRecoverable, its two reads; what is not there is waited for.
Wait_Proceeds == GoTo("cluster") /\ pending' = "yes"        \* mutant
Wait_Once == GoTo("status") /\ UNCHANGED pending           \* mutant
Wait == GoTo("status") /\ pending' = "yes"

ReadParent ==
    /\ pc = "parent"
    /\ IF cluster[view.from].base = 0
       THEN Wait
       ELSE GoTo("source") /\ UNCHANGED pending
    /\ UNCHANGED <<apiVars, objVars, cacheVars, source, archive, boundVars>>

AfterSource_NoCopy == "cluster"                            \* mutant
AfterSource == "creds"

ReadSource ==
    /\ pc = "source"
    /\ IF publishedSeen[view.from] = 0
       THEN Wait /\ UNCHANGED source
       ELSE GoTo(AfterSource) /\ source' = publishedSeen[view.from] /\ UNCHANGED pending
    /\ UNCHANGED <<apiVars, objVars, cacheVars, archive, boundVars>>

\* SetControllerReference refuses what belongs to another Stack.
Refused(owner) == owner \notin {0, view.uid}

\* copyBackupCreds, from the cached Secret into the one that is cached too; a
\* copy that is there but not in the cache, or not as in the cache, refuses it.
CopyCreds ==
    LET seen == credsSeen[at]
        copy == [owner |-> view.uid, bucket |-> publishedSeen[view.from]]
    IN
    /\ pc = "creds"
    /\ IF copy.bucket = 0 \/ Refused(seen.owner) \/ (seen # copy /\ seen # creds[at])
       THEN Retry /\ UNCHANGED creds
       ELSE /\ creds' = IF seen = copy THEN creds ELSE [creds EXCEPT ![at] = copy]
            /\ GoTo("cluster") /\ UNCHANGED <<source, archive, pending>>
    /\ UNCHANGED <<apiVars, cluster, claim, published, sched, cacheVars, boundVars>>

\* ensureBucket: the claim, and once it is bound the name of the bucket.
EnsureClaim ==
    /\ pc = "bucket"
    /\ IF Refused(claim[at].owner)
       THEN Retry /\ UNCHANGED claim
       ELSE /\ claim' = [claim EXCEPT ![at].owner = view.uid]
            /\ GoTo(IF claim[at].phase = "bound" THEN "config" ELSE "cluster")
            /\ UNCHANGED <<source, archive, pending>>
    /\ UNCHANGED <<apiVars, cluster, published, creds, sched, cacheVars, boundVars>>

ReadBucketName ==
    /\ pc = "config"
    /\ archive' = publishedSeen[at] /\ GoTo("cluster")
    /\ UNCHANGED <<apiVars, objVars, cacheVars, source, pending, boundVars>>

\* The Cluster: bootstrapped as it is created, wired to the bucket when there
\* is one, refused when it is another Stack's.
NewCluster ==
    [NoCluster EXCEPT !.owner   = view.uid,
                      !.boot    = IF source # 0 THEN "recovery" ELSE "initdb",
                      !.source  = source,
                      !.archive = archive,
                      !.made    = IF IsClone(view) THEN "clone" ELSE "own"]

AfterCluster == IF archive # 0 THEN "schedule" ELSE "status"

EnsureCluster ==
    /\ pc = "cluster"
    /\ IF Refused(cluster[at].owner)
       THEN Retry /\ UNCHANGED cluster
       ELSE /\ cluster' = [cluster EXCEPT ![at] =
                    IF @.owner = 0 THEN NewCluster
                    ELSE IF archive # 0 THEN [@ EXCEPT !.archive = archive] ELSE @]
            /\ GoTo(AfterCluster)
            /\ pending' = IF OwnBackup(view) /\ archive = 0 THEN "yes" ELSE "no"
            /\ UNCHANGED <<source, archive>>
    /\ UNCHANGED <<apiVars, claim, published, creds, sched, cacheVars, boundVars>>

EnsureSchedule ==
    /\ pc = "schedule"
    /\ IF Refused(sched[at])
       THEN Retry /\ UNCHANGED sched
       ELSE /\ sched' = [sched EXCEPT ![at] = view.uid]
            /\ GoTo("status") /\ UNCHANGED <<source, archive, pending>>
    /\ UNCHANGED <<apiVars, cluster, claim, published, creds, cacheVars, boundVars>>

\* updateStatus: refused if the Stack has changed, else the poll it asks for.
EndPass ==
    /\ pc = "status" /\ Done
    /\ queued' = IF pending = "yes" \/ stack[at] # view THEN queued \cup {at} ELSE queued
    /\ UNCHANGED <<apiVars, objVars, cacheVars, boundVars>>

-----------------------------------------------------------------------------
(* Failures                                                                *)

\* The next call fails (the pre-Get: ProbeFails).
CallFails ==
    /\ pc \notin {"idle", "probe"} /\ faults < MaxFaults /\ faults' = faults + 1
    /\ Retry
    /\ UNCHANGED <<apiVars, objVars, cacheVars, edits>>

Restart ==
    /\ faults < MaxFaults /\ faults' = faults + 1
    /\ Done
    /\ stackSeen' = stack /\ publishedSeen' = published /\ credsSeen' = creds
    /\ queued' = {s \in Stacks : stack[s].uid # 0}
    /\ UNCHANGED <<apiVars, objVars, edits>>

-----------------------------------------------------------------------------
User == \E s \in Stacks :
    \/ \E b \in Born, p \in Origins[s] \cup {NoStack} : CreateStack(s, b, p)
    \/ \E b \in Flags, p \in Origins[s] \cup {NoStack} : EditStack(s, b, p)
    \/ DeleteStack(s)

Informer(s) == DeliverStack(s) \/ DeliverPublished(s) \/ DeliverCreds(s)

Collector(s) == CollectCluster(s) \/ CollectClaim(s) \/ CollectCreds(s) \/ CollectSchedule(s)

Operators(s) == BindClaim(s) \/ TakeBaseBackup(s)

Step == \/ Probe \/ ReadParent \/ ReadSource \/ CopyCreds \/ EnsureClaim \/ ReadBucketName
        \/ EnsureCluster \/ EnsureSchedule \/ EndPass

Next ==
    \/ User
    \/ \E s \in Stacks : Informer(s) \/ Collector(s) \/ Operators(s) \/ StartReconcile(s)
    \/ Step \/ ProbeFails \/ CallFails \/ Restart

Spec == Init /\ [][Next]_vars

\* A pass goes on, every key is served (the queue is first in, first out),
\* informers deliver, and the other controllers do their work.
FairSpec ==
    /\ Spec /\ WF_vars(Step)
    /\ \A s \in Stacks : SF_vars(StartReconcile(s))
    /\ WF_vars(\E s \in Stacks : Informer(s))
    /\ WF_vars(\E s \in Stacks : Collector(s))
    /\ WF_vars(\E s \in Stacks : Operators(s))

-----------------------------------------------------------------------------
(* Properties                                                              *)

ApiType ==
    /\ uids \in Uids /\ stack \in [Stacks -> StackState] /\ deleted \subseteq Stacks
    /\ cluster \in [Stacks -> Clusters] /\ claim \in [Stacks -> Claims]
    /\ published \in [Stacks -> Uids] /\ creds \in [Stacks -> Secrets]
    /\ sched \in [Stacks -> Uids]

PassType ==
    /\ stackSeen \in [Stacks -> StackState] /\ publishedSeen \in [Stacks -> Uids]
    /\ credsSeen \in [Stacks -> Secrets] /\ queued \subseteq Stacks
    /\ at \in Stacks \cup {NoStack} /\ pc \in Steps
    /\ (pc = "idle" <=> at = NoStack) /\ (pc = "idle" <=> view.uid = 0)
    /\ view \in StackState /\ source \in Uids /\ archive \in Uids /\ pending \in Flags
    /\ edits \in 0 .. MaxEdits /\ faults \in 0 .. MaxFaults

\* Type invariant; a pass is about a Stack, and one that has been there.
TypeOK == ApiType /\ PassType

\* A clone "actually seeds rather than racing to an empty database": a Cluster
\* made for a clone was bootstrapped by recovery from its parent's backup
\* (stack_controller.go: reconcilePostgres), whatever is edited, lost or repeated,
\* and whether or not the pre-Get could be answered, as long as the Stack was not
\* deleted: the Cluster of a deleted one may go between the pre-Get and the create.
CloneIsSeededOnce ==
    \A s \in Stacks : s \notin deleted /\ cluster[s].made = "clone" =>
        cluster[s].boot = "recovery"

\* A recovering Cluster of a Stack that is still there finds the copied Secret
\* in its namespace, although the Secret is written by an earlier call, from
\* caches, and collected with its owner (stack_controller.go: copyBackupCreds).
SourceReadable ==
    \A s \in Stacks :
        cluster[s].owner # 0 /\ cluster[s].owner = stack[s].uid /\ cluster[s].boot = "recovery"
        => creds[s].owner = stack[s].uid

\* Archives do not mix: no two Clusters ever archive to one bucket, nor does one
\* that was recovered archive at all, although a Stack may be made a clone after
\* its Cluster was wired, the bucket is looked up in a cache and names are given
\* again (stack_controller.go: reconcilePostgres, wantOwnBackup).
OwnArchive ==
    \A s \in Stacks : LET c == cluster[s] IN
        c.archive # 0 => /\ c.source = 0
                         /\ \A t \in Stacks \ {s} : cluster[t].archive # c.archive

\* Nothing is forgotten: a Stack whose key is in no queue and no pass, and of
\* which the cache has the last version, has its Cluster; and one that keeps
\* backups has the Cluster wired to a bucket, its own unless a Stack of the name
\* was deleted, and a schedule. Neither Cluster, claim nor ConfigMap is watched:
\* whoever finds one missing must have asked to be polled.
Quiet(s) == stack[s].uid # 0 /\ stackSeen[s] = stack[s] /\ s \notin queued /\ at # s

NothingForgotten ==
    \A s \in Stacks : Quiet(s) =>
        /\ cluster[s].owner = stack[s].uid
        /\ OwnBackup(stack[s]) =>
              /\ cluster[s].archive # 0 /\ sched[s] = stack[s].uid
              /\ s \notin deleted => cluster[s].archive = stack[s].uid

\* "A preview clone is ephemeral: it does not archive, it only reads the parent
\* bucket" (stack_controller.go:310), at the latest when the controller has
\* nothing more to do about it.
CloneDoesNotArchive ==
    \A s \in Stacks : Quiet(s) /\ IsClone(stack[s]) => cluster[s].archive = 0

\* While nothing is deleted: a Stack that keeps backups ends up with a Cluster
\* that archives to its own bucket and has a base backup there, although
\* nothing but the poll watches the bucket; and a clone with its Cluster, if its
\* parent keeps backups.
Settles ==
    <>[](deleted = {} => \A s \in Stacks : stack[s].uid # 0 =>
            /\ OwnBackup(stack[s]) =>
                    cluster[s].archive = stack[s].uid /\ cluster[s].base = stack[s].uid
            /\ IsClone(stack[s]) /\ OwnBackup(stack[stack[s].from]) =>
                    cluster[s].owner = stack[s].uid)
=============================================================================
