# Verification of the PaaS control plane

TLA+ models of the control-plane operator under `src/`, the TLC runs that check them
on small instances, and TLAPS proofs of the properties that matter most.

    tlc -workers 2 -config StackRollout_rollout.cfg MCStackRollout.tla
    tlapm StackRolloutProofs.tla

`PROJECT.json` lists the components, the runs, a mutation of the code for every
property that the property catches, the source lines of every definition, the
findings, the hazards and the theorems.

## 1. The system

One process (`main.go`) runs three controllers, the canvas API server and the
informer caches that they share. It keeps nothing: all durable state is in the
Kubernetes API server. Each controller has one worker and a work queue of keys.

| component | state it keeps | operations | made correct by |
|---|---|---|---|
| Stack controller, `stack_controller.go` | Deployments, Services, release Jobs, Stack status | `Reconcile`: backing services, then per service its release Job and its processes, then the status | no process before its migration or its database; status true; everything accepted is rolled out |
| postgres backing services, `reconcilePostgres` | CNPG Cluster, bucket claim, ScheduledBackup, copied Secret | create, wire the backup once the bucket is bound, recover a clone from its parent | clones are seeded and can read their source; archives do not mix; backups come to be |
| volume backing services, `reconcileTemplated`, `reconcileFallback` | Secret, headless Service, StatefulSet | create; password once; claim template once | a clone starts from its parent's volume |
| object backing services, `reconcileObject` | bucket claim | ensure, ready when Bound | - |
| snapshots, `snapshots.go` | VolumeSnapshots, their contents, SnapshotSchedule, label on claims | `prepareCloneRestore`, `labelBackupPVC`, `ensureBackupSchedule`, `gcCloneArtifacts` | backed-up claims are found; nothing of a clone is left over |
| Environment controller, `environment_controller.go` | namespace, baseline, Stack of an Environment; finalizer; status | `Reconcile`, teardown | it deploys no graph before the baseline; teardown complete; Ready means it |
| App controller, `app_controller.go` | a Deployment and a Service per App, App status | newest Release wins; Deployment, Service, status | the newest Release is what runs, never an earlier one again |
| catalog, `servicedef.go`, `catalog_api.go` | definitions built in, overlaid by a ConfigMap | register, lookup, overlay, list | overlay wins, aliases agree |
| canvas API, `internal/api/server.go` | - | list, get, put, delete of Stacks; environments; catalog | a save is not lost |
| twin stream, `internal/api/server.go` | subscribers, one-slot channels, dirty token, timer | hub, `handleEvents`, `twins` | nothing lost, no panic, no stall |
| overcommit, `overcommit.go` | - | requests from limits, by tier | a node takes the multiple that its tier names, and what is asked is accepted |

How they interact. The controllers do not call one another; each writes objects that
another one watches: the canvas and the Environment controller write Stacks, the
Stack controller reads the clone annotations that the Environment controller
stamped, the Environment controller collects what clones made outside their
namespace. The Stack controller watches Stacks and the Deployments, Services and
Jobs it owns (`SetupWithManager`), nothing else; the Environment controller only
Environments; the App controller Apps, their Deployments and Services, and Releases,
which it maps to the App they name. CNPG, the bucket provisioner (Rook), the Job,
StatefulSet and namespace controllers and the garbage collector do the rest.

What is hard. A pass is a series of API calls that starts from one copy of its
object: edits, deletions, re-creations, failures and crashes happen between any two
calls. Typed objects are read from caches that lag; unstructured ones (Clusters,
claims, snapshots) are read live but not watched, so that polls have to bring the
controller back. Names are reused, uids are not; what has no owner is collected by
hand, once. In the API server, goroutines share channels that are closed while
others send.

## 2. Plan

Order of the modules, the most important behaviour first. All of these are here:

1. `StackRollout` - one Stack, its roll-out, gates and status, and `StackRelease`,
   what it promises of a release, which it implements.
2. `TwinHub` - the concurrent part of the API server, and `TwinStream`, what it
   promises to a connection, which it implements.
3. `EnvLifecycle` - Environments, namespaces, baseline, teardown, clone artifacts.
4. `PostgresBacking` - bootstrap, recovery and backup of postgres.
5. `VolumeBacking` - StatefulSet and claim, the three objects that hand a volume to
   a preview, backup label and schedule, teardown of a preview's namespace.
6. `Overcommit` - the tiers, as operators.
7. `AppRelease` - Releases with equal creation times, the App's Deployment, and a
   node whose scheduler adds up what `Overcommit` requests.

What could follow: the overlay of the catalog as operators, so that a type can be
unknown for a pass (`servicedef.go` 191) and `StackRollout` gates on it; a second
operator process (no leader election) as a second pass in `StackRollout`; several
Stacks in a namespace in `VolumeBacking`.

## 3. What is modelled

### StackRollout (`stack_controller.go` 96-176, 726-888)

State: the API server's Stack (all specs ever accepted, `revs`; the uid that is
live; the status), the Jobs by name (`job`), Deployments (`dep` is the revision they
were made from), Services, backing services; the caches; whether the key is queued;
and the local variables of the one running pass (`view` is what it read, `fresh`
whether its resource version still is the latest).

Every API call of `Reconcile` is an action: `ReconcileBacking` (a backing service is
reduced to existing, being owned and being ready), `SkipService`,
`CreateReleaseJob`, `RollService`, `ApplyProcess`, `ExposeProcess`, `UpdateStatus`.
Any may fail (`CallFails`), the process may die (`Restart`).

- The Deployment is read from the cache and always updated, because the mutate
  function drops fields the API server defaults; so a stale copy is refused
  (Conflict) even when nothing would change. Same content leaves the revision.
- A cache that passes through older versions is an early delivery followed by more
  writes; periodic resync is left out, it only adds passes.
- That a Deployment becomes ready and that the cache has heard of it are one step.
- The timers (10 s poll, back-off) are folded into `queued`.
- The Services are read as they are: nothing but the controller writes them.
- A release Job has no TTL (`buildReleaseJob`): only the garbage collector removes
  it.

`StackRelease` has no Jobs, Deployments, caches, queue or passes: the specs that were
accepted, which spec each process runs, the hooks that ended and the backing
services that came up. Its steps are those of the user (`Create`, `Edit`, `Delete`),
`ComesUp`, `HookEnds`, `Roll` - a process goes to a spec that is not older than the
one it runs, through the gates of that spec - and `Stop`, of what a Stack that is
gone has left. The mapping (`Release`) is by name; every other step of
`StackRollout`, and an update that changes no pods, is a stutter.

### TwinHub (`server.go` 277-562)

State: the versions of what is watched and of the backing services, the token in
`dirty`, the timer, the program counter and payload of `hub.run`, the subscriber
map, the one-slot channels, and for every connection what its handler does and
shows. A snapshot is the triple of versions it was computed from, in the order
`twins` reads them; a backing service whose read fails is reported as version 0. The
mutex is held in `send` (broadcast) and `close` (unsubscribe); other critical
sections are one step. `panicked` is set by a send on a closed channel.

`TwinStream` is the same as a connection sees it, without hub, token, timer, locks
or channels: versions, who is connected and what it was shown, and who is owed a
kind. The refinement mapping (`Stream`) computes `owed` from what is in flight: a
connection is owed what it does not show and `OnItsWay` holds. The abstract steps
are `Change`, `Connect`, `Update` and `Disconnect`; everything else the hub does is
a stutter, so that a step that dropped a debt would not be allowed. Only Stacks and
Deployments are in it: backing services are polled, and nobody owes them.

### EnvLifecycle (`environment_controller.go`, `snapshots.go` 204-231)

State: Environments with finalizer and generation, namespaces and their phases,
which baseline documents each one has, the Stack in it, clone artifacts; caches; the
pass; and the Stack controller's passes over clones, which go on from their copy.
The function `NamespaceOf` is a constant: nothing is assumed about it. The labels of
a namespace are folded into its existence. An Environment can be edited until it is
gone, also while it is being deleted. The documents of the baseline are applied in
their order in the file. The canvas (`WriteStack`) makes the Stack, replaces its
graph or deletes it, as `handlePutStack` and `handleDeleteStack` do: a PUT goes by the
cached Stack and creates one where the cache has none, so that it is refused when
the cache is behind, and creates wherever a namespace is active, baseline or not.
Deletion of a namespace that is going already is a no-op. The namespace controller
removes contents in any order and then the namespace; an object cannot be created in
a namespace that is going, one that is there can be updated.

### PostgresBacking (`stack_controller.go` 262-505)

State: Stacks with a uid, whether their backing keeps backups and which Stack their
annotations name as the one they are cloned from (`from`), Clusters (how
bootstrapped, from which bucket, archiving to which), claims, what the provisioner
publishes for them, copied Secrets, ScheduledBackups; caches of Stacks, ConfigMaps
and Secrets; the pass with what it carries from call to call (`source`, `archive`).
A bucket is named by the uid of the Stack that claimed it. ConfigMap and Secret of a
claim are one; they are there when it is bound, and `ensureBucket` misses them while
the cache has not heard of them. The events of status writes and of the services are
left out: they only add passes, and `Settles` holds without them. The history field
`made` of a Cluster is what its creator took the Stack for.

Whether a Stack is a clone is part of its state, since `ensureStack` stamps the
annotations on a Stack that is already there when its Environment is made a preview,
and never takes them off (`EditStack`). `Origins` says which Stacks each may be made
a clone of; the theorems ask nothing of it.

### VolumeBacking (`stack_controller.go` 601-690, `servicedef.go` 260-405, `snapshots.go`)

State: Stacks by uid, namespaces and how far their teardown is, StatefulSets (owner,
and what the claim template restores from), claims (owner, whose data, label),
source snapshots, static contents, restore snapshots, schedules; caches of Stacks,
StatefulSets and claims; the pass with the handle it carries from the source
snapshot to the static content. The source snapshots of a Stack are numbered
(`shots`), and the number is the handle. Which Stacks are previews is a constant
(`Parent`), unlike in `PostgresBacking`: a volume is seeded when its StatefulSet is
made and never again, so that the code promises nothing to a Stack that becomes a
preview later. Both tiers make the same StatefulSet in the same
order and are one. Every Stack has a namespace of its own.

- `CheckSet` is `statefulSetExists` by cache, and any error is a "no";
  `EnsureSource`, `ReadHandle`, `EnsureContent`, `EnsureRestore` are
  `prepareCloneRestore` call by call; `EnsureSet` is the CreateOrUpdate, which
  always writes, since the template it makes lacks the API server's defaults, and
  whose claim template is set only on a new object; `LabelVolume` and
  `EnsureSchedule` log their errors and go on.
- The handle of a content is immutable: `EnsureContent` is refused, on every pass, when
  the content that is there has another one. A content is bound once, to the first
  restore snapshot that takes it (`taken`).
- The Secret, minted once, and the headless Service are conditions of nothing here.
- Teardown is `gcCloneArtifacts`, first snapshots, then contents, and then the end
  of the namespace in any order. Claims go after their StatefulSet by its retention
  policy.
- Informers' periodic resync (10 h) is left out.

### AppRelease and Overcommit (`app_controller.go`, `overcommit.go`)

State: Apps with uid and status, Releases numbered in order of creation with the
second they were made in and the App they name (which need not be there),
Deployments described by the Release whose image they run, owners of Services, pods
that the node has taken; caches; the pass. `PickRelease` takes any Release of the
last second in the cache: the list is in no order, and only a later time replaces a
candidate. `ApplyDep` always writes, as the template lacks the API server's
defaults, and is refused a stale copy, another owner, or a request above its limit.
An update keeps the old replica until the new one is ready. `Overcommit` has tiers,
floors and the division of `requestsFromLimits`, with memory in bytes and CPU in
thousandths; the scheduler (`Place`, external) adds up requests. Ports, environment
and URL are payload.

## 4. Runs

States and minutes with two workers.

| run | instance | shows |
|---|---|---|
| `rollout` | two services, one migrates and then both, with a database, one fault; 1.6 M states, 1.5 | `ReleaseGate`, `BackingGate`, `StatusTrue` when the Stack is not deleted; `NothingForgotten` |
| `converge` | three specs (no image, with database, with migration), one deletion and re-creation, fair; 137 k, 1 | `BackingGate` and `NothingForgotten` across a deletion, `ImplementsRelease`, `Converges`, `StatusSettles`, `NothingLeft` |
| `stale_job` | one migrating service, one deletion and re-creation | `ReleaseGate` fails (finding) |
| `twin_safety` | two connections, one change of each kind, one failed read; 1.6 M, 2.2 | `NoPanic`, `NoLostUpdate`, `ImplementsStream` |
| `twin_live` | one connection, fair; 83 k, 0.3 | `EventuallyCurrent`, `HeartbeatHeals`, `HubNeverStalls` |
| `env` | bare and preview as edits of one another, two baseline documents, one deletion and re-creation, one canvas write, one fault, fair; 684 k, 2.7 | `Isolated`, `NothingForgotten`, `FinalizerLast`, `Converges`, `TornDown` |
| `env_artifacts` | a preview, one deletion, fair; 12 k | `ArtifactsCollected` fails (finding) |
| `postgres` | a Stack, and one that is or becomes a preview of it, three uids, one edit or deletion, one fault, fair; 677 k, 2.6 | `CloneIsSeededOnce`, `SourceReadable`, `OwnArchive`, `NothingForgotten`, `Settles` |
| `postgres_preview` | the same, two uids, one edit, no fault | `CloneDoesNotArchive` fails (finding) |
| `volumes` | a Stack and a preview of it, both with backups, two uids each, one deletion or teardown of either, one fault, fair; 679 k, 2.5 | `PreviewIsSeeded`, `RestoreFirst`, `NothingForgotten`, `Settles` |
| `app` | an App with two replicas, two Releases of it or of an App that is not there, one deletion, one fault, fair; 367 k, 2.3 | `NeverBack`, `Overcommitted`, `NothingForgotten`, `Settles` |
| `app_tie` | an App and two Releases; 1.4 k | `NeverEarlier` fails (finding) |

**Bounds and why they are enough.** Every bound is a constant (`MaxRevision`,
`MaxDeletes`, `MaxFaults`, `MaxVersion`, `MaxFails`, `MaxGen`, `MaxPuts`, `MaxUid`,
`MaxEdits`, `Editable`, `Born`, `MaxReleases`). Two revisions make one pass old while
another spec is accepted, which is all that a single worker can confuse; a further
one repeats it. One deletion and re-creation makes names meet that have other
owners. One fault at any call is what separates "retried" from "lost"; faults are
bounded so that liveness may be asked. In `TwinHub` one change per kind
distinguishes every order of the three reads, and two connections are what a map
iteration and an unsubscription need. In `PostgresBacking`
three uids are parent, clone, and one of them again, and all are created with
backups on (`Born`), an edit may switch them off; `VolumeBacking` compares uids only
within a name and counts them by name. In
`AppRelease` two Releases are enough for one to be older, of the same second, or of
another App, and the App's limits are such that one of its two pods fits the node
and the division cuts off a byte: the sum that `Overcommitted` bounds is reached to
the last unit. The theorems of section 6 do not depend on any bound.

Deadlock is not checked in the controllers' runs: a cluster where nothing changes
rests. In `TwinHub` it is checked, the heartbeat never ends.

## 5. Fairness

- Informers, the worker and the other controllers are goroutines or processes that
  are scheduled: weak fairness each. In `AppRelease` the delivery of an App and of
  its Deployment is strongly fair: what is to be delivered may for a moment be equal
  to what was, when an object is deleted and created again or a pod fails and comes
  back, and the watch still delivers.
- Keys leave a work queue first in, first out, so that every queued key is served
  although its turn may come between others: strong fairness of `StartReconcile(s)`
  and `Worker(e)`, the worker being busy with another key in between.
- Go's mutex hands over to waiters that starve: strong fairness where the hub takes
  the lock.
- A teardown that has begun is retried by its finalizer: weak fairness of
  `Teardown(s)`.
- In `PostgresBacking` the deliveries of all Stacks are under one weak fairness, and so
  are the garbage collector and the other operators: that some go on is enough there.
  In `VolumeBacking` it is not, each Stack has its own.
- Users, failed calls and crashes owe nothing, and a label (`DeliverVolume`) is not
  waited for. Connections need not read: that they do (`ClientsRead`) and that the
  ticker fires (`HeartBeats`) are hypotheses of the properties that need them.

What liveness leaves out is named in the property: `Converges` of `EnvLifecycle`
speaks of runs without deletion, and of the graph only where the Stack is not
overwritten, the spec was edited once at most and the namespace is not shared
(`Followed`; section 7 says why), `Settles` of
`PostgresBacking` of runs without deletion (section 7 says why), `Settles` of
`VolumeBacking` of previews whose parent is there and whose namespace holds no content
of an earlier snapshot (`Leftover`; section 7), `Settles` of `AppRelease` of Apps
whose limits are not below the floors.

## 6. What is proved

TLAPS checks these for all constants that satisfy the named assumptions
(`SpecsAssumption`, `BoundsAssumption`, `StacksAssumption`, `ClientsAssumption`,
`BoundAssumption`, `AppsAssumption`); TLC evaluates these on every run.

`StackRolloutProofs`
- `TypeCorrect`: types, and that what refers to a revision refers to an accepted
  one.
- `GateByName`: the gate as far as names go: behind each Deployment of a hooked
  service is a completed hook of that generation, of some Stack of the name.
- `StrictGate`: the gate in full as long as the Stack is not deleted (`MaxDeletes =
  0`).
- `BackingGated`: the backing gate, deletions included.
- `StatusIsTrue`: `StatusTrue`, as long as the Stack is not deleted.
- `ReleaseImplemented`: `ImplementsRelease`, deletions included.

The gates are not inductive:
a pass decides first and writes later, so that the invariant says what the pass's
decisions mean - that a "complete" in the cache was a completed run of that name,
that `pend` holds processes of services whose gate was open, that `ready` holds
what was ready for the Stack that the pass read. Nor is the truth of the status: it
needs that the flags of a pass, and what it has ticked off while it has none, are
true of the revision it reads (`PassTrue`); that a "failed" in the cache is a failed
hook (`FailuresTold`); and, for it to stay true, that no later pass reads an older
revision than the one the status speaks of (`Order`), so that what a revision had
had applied and exposed is only ever replaced by the same or by newer (`AppliedKept`).
The refinement needs, on top of the gates' invariants, that what is about to be
applied, was made or is awaited is listed by the revision it is made from
(`AsListed`), and that no pass and no cached Stack is older than a Deployment
(`Forward`), although the cache may lose the Stack and find it again.

`StackWakeProofs`
- `NoWakeupLost`: `NothingForgotten`, deletions and faults included. It is the safe
  part of `Converges` and `StatusSettles`: a state from which nothing would start
  another pass has nothing left to do, so that all that liveness adds is that
  queued keys are served and watched objects get on.

Every delivery to a cache queues the key; so while it is not queued the caches hold
what the pass has read (`QueueFrame`). What the pass ticked off is then done, and
stays done while the Stack is there (`Through`), or it waits for a Job that the cache
has as running, or that it has not heard of yet (`Made`), which is an event still to
come, or for a backing service, and then it will poll (`Ticked`). What holds when
the pass ends (`PassMinded`) holds until the key is queued again (`LeftMinded`);
where the status was refused or the copy is stale (`FreshOK`), the key is queued or
a delivery is due.

`TwinHubProofs`
- `TypeCorrect`: types and the agreement of subscriber map, channels and handlers.
- `NeverPanics`: the hub sends only to channels that are open, since what it still
  has to send to are subscribers, and none leaves while it holds the lock.
- `NothingLost`: what a connection does not show is on its way. That alone is not
  inductive, a connection can be up to date while an older snapshot is about to
  reach it: `Fresh` says of every snapshot between the caches and the screen, parts
  of one and the priming ones included, that it is current or that another will
  follow.
- `StreamImplemented`: `ImplementsStream`. By `NothingLost` the mapped debt is
  simply what a connection does not show (`OwedIsBehind`); with `NotAhead`, no
  snapshot in flight is ahead of the cluster, each step is then an abstract one (a
  receipt or the end of a priming is `Connect` or `Update`) or leaves the mapped
  state alone.

`EnvLifecycleProofs`
- `TypeCorrect`.
- `Isolation`: `Isolated`, an action property: what the controller puts into a live
  namespace it puts over the whole baseline; what the canvas puts waits for nothing
  (section 7). Needs that there is one pass (`Single`) and that it has stamped what it
  is no longer to do (`Stamping`).
- `TeardownBeforeRelease`: `FinalizerLast`. Needs that a copy that is not stale is
  the object (`ViewOK`), and that the namespace is not active before the finalizer
  goes (`Gone`). Both hold for any number of Environments, whether or not they share
  namespaces; TLC has one Environment, two are too many for a run with faults.
- `NoWakeupLost`: `NothingForgotten`, the safe part of `Converges`, with faults,
  canvas writes and any number of Environments. Without a deletion namespaces stay
  (`Kept`); a pass at its end has found or made all that `Deployed` asks for, and if
  the cache is still without the namespace, the pass made it itself and has a new
  status to write, which is the event that brings the next one (`Minded`, `Told`).
  That the graph is in place needs the order of the copies (`Copies`) and, for a Stack
  that is taken for up to date on the word of the cache, `Deploying`.

The last one was found by proving: with generations bounded by two, `Converges` held
without `Followed`. The proof stopped where a cached Stack equals the wanted one and
the Stack does not, and three generations in TLC then gave the run of section 7.

`PostgresBackingProofs`
- `TypeCorrect`, with `OnClone`: only passes of clones look for parents.
- `SeededOnce`: `CloneIsSeededOnce`. `Seeding` says that of a name that was not
  deleted there has been one uid, so that a Cluster found by the pre-Get is still
  there when it is created, and that otherwise the pass has a source.
- `SourceIsReadable`: `SourceReadable`. `Copied` adds that uids are fresh, and that
  a Secret of the present Stack, once copied or in the cache, stays.
- `ArchivesDoNotMix`: `OwnArchive`. What is known or made under one name - by the
  Stack and its cached copy, the claim, the ConfigMap and its cached copy, the
  Cluster, the pass at work (`Held`) - is of uids that no other name has had
  (`Apart`), though it need not be of the present Stack. A Cluster that was recovered
  is known as that of a clone by whoever knows its Stack (`Role`), since annotations
  are never taken off and no copy has any that the Stack lacks (`Lineage`), so no pass
  comes to wire it (`Archiving`). The converse does not hold, see section 7.
- `NoWakeupLost`: `NothingForgotten`, the safe part of `Settles`, with deletions and
  faults. A pass whose key is not queued has read what is cached (`PassSees`); one
  near its end that asks for no poll has made what that version is to have
  (`PassMinded`); so has every Stack that is left (`Left`). That the archive is the
  Stack's own holds as long as none of the name was deleted (`OwnBucket`; section 7
  says why).

`VolumeBackingProofs`
- `TypeCorrect`.
- `AlwaysSeeded`: `PreviewIsSeeded`, and `RestoresFirst`: `RestoreFirst`, both from
  one invariant (`Seeding`) over names that were never deleted: all of the
  hand-over, from the content to the bound restore snapshot and the handle in the
  pass, is of the one source snapshot (`Own`), whose data the volume holds; a "yes" of
  the cached StatefulSet is right, and a pass that is at the StatefulSet without one
  has a handle and a bound restore snapshot (`Seeded`).
- `NoWakeupLost`: `NothingForgotten`, along the same argument and with no exception
  for what was deleted: uids of one name are never given again (`Fresh`), so a pass or
  a cache of an earlier Stack never passes for one of the present.

`AppReleaseProofs`
- `TypeCorrect`.
- `ForwardOnly`: `NeverBack`. While no Release is deleted the cache only grows
  (`SeenGrows`) and holds what each Deployment runs (`Ran`), so that the Release a
  pass takes from it to the Deployment is no earlier (`Picked`).
- `LimitIsCovered`, `FloorIsLowest`: for every limit and every tier name, known or
  not, what a request covers, and which limits are accepted.
- `TakesNoMore`: `Overcommitted`, for any finite set of Apps. That what the scheduler
  has added up fits the node (`Fits`) is inductive, `LimitIsCovered` bounds each
  summand, and the lemmas of `Sums` add the bounds up.
- `NoWakeupLost`: `NothingForgotten`. As for Stacks: a key that is not queued belongs
  to a pass that has in hand what the caches hold (`InHand`), or to an App that is
  right by the caches (`RightBySeen`), or whose own delivery is due (`Left`).

`Sums` has what is needed of sums over finite sets. The community modules define them
by recursion over the set; induction over it cannot be cited, but a least
counterexample can be had: strict inclusion is well-founded on the subsets of a finite
set, so that among those for which the recursion has no value, or the bound fails,
there would be a smallest (`MinimalSet`), and taking one member from it gives a
contradiction.

**Only model-checked:** liveness under fairness, which is out of the prover's reach:
`Converges` of both controllers, `StatusSettles`, `NothingLeft`, `TornDown`, the three
`Settles`, `EventuallyCurrent`, `HeartbeatHeals` and `HubNeverStalls`. Every
invariant and every action property of a passing run has its theorem.

## 7. Findings and divergences

With a run (see `findings` in `PROJECT.json`):

- `stale_job`: a Stack created again takes the completed release Job of the deleted
  one for its own (same generation, no owner check), and rolls without migration.
- `env_artifacts`: clone artifacts made after their one collection stay for good.
- `postgres_preview`: a Stack whose Environment is made a preview after its Cluster was
  wired goes on archiving, although a preview "does not archive"
  (`stack_controller.go` 310): the annotations come later than the wiring, and
  nothing removes that (367).
- `app_tie`: of two Releases of one second, a Deployment goes back to the older.

Seen while modelling, evident from the lines, without a run of their own (they are
`hazards` with a note, or excluded by name in a property): a canvas PUT between the
creation of a namespace and the end of `stampBaseline` deploys a graph into a
namespace that lacks some or all of the baseline (`server.go` 217-225), which is why
`Isolated` speaks of the controller; what the services and processes that an edit
drops had, Deployment and Service, stays until the Stack is deleted, since `Reconcile`
looks only at what the spec lists (`stack_controller.go` 113); a content that a
teardown missed (the finding of `env_artifacts`) holds up the next preview of that
namespace for good, as its handle cannot be changed and the update of `snapshots.go`
163 is refused on every pass; the status of the release
hook is left from the previous generation while a backing service is awaited (861),
and the migrations of two generations may run at once (726); the Cluster of a
re-created preview can be bootstrapped empty, when the one of its predecessor is
found first and gone when it is to be created (`stack_controller.go` 287); an
Environment created again during the teardown of its predecessor is Ready without a
namespace until the informers' resync; requests are cut off by the division, so that
"Σrequests ≤ allocatable ⟺ Σlimits ≤ allocatable×ratio" (`overcommit.go` 11) is off by
less than the ratio per container, and an App with a limit below the floor is
refused on every pass; an edited project leaves the old namespace behind
(`environment_controller.go` 110); an Environment that is edited and put back while
the cache still has the Stack of before the first edit keeps the graph of that edit,
with a status of Ready for its last generation, since `CreateOrUpdate` compares with
the cached Stack, finds nothing to write, and neither the Stack nor time brings
another pass (163); two Environments may share a namespace, and the
teardown of one takes it from the other (111); a canvas save of an Environment's
Stack is not "reverted within seconds" (`server.go` 117), since the Environment
controller does not watch Stacks; a preview that is promoted keeps its clone
annotations and so has no backups (175); a label that waits for "the next reconcile"
(`snapshots.go` 80) may wait
for the informers' resync; `Backup` is no "no-op for template/fallback
engines" (`stack_types.go` 94), it labels the claim and makes a schedule.

## 8. What is not modelled

- The catalog: built once from embedded descriptors and read again with an overlay
  on each use, a table without steps; the models' constants say what type is what.
  Two operator processes: section 2.
- Saves of the canvas beyond what they do to a Stack (`Edit`, `WriteStack`): one
  call of the API server each; the document that a browser sends has no version.
- What the twin says of a Stack (`processStatuses`, `backingStatuses`): reading and
  counting, without an order of events to check; TwinHub has the versions read.
- Pod templates beyond image and connections, env names, Quantities, HTTP encoding:
  data that no property distinguishes.
- Generated deep copies, CRD manifests, samples, boilerplate, the contents of the
  baseline and of the built-in definitions: data.
- The error paths of `twins()`: a list that fails leaves its part of the snapshot
  empty; TwinHub has the failed read of a backing service only. The lists come from
  caches in the process.
- Edits of an App's spec: name, tier and limits of `AppRelease` are constants.
- A restart whose first lists are behind the API server: `Restart` fills every cache
  with what is there, and they lag from then on.
- `server_test.go` was read for what it promises; it tests handlers one at a time.
