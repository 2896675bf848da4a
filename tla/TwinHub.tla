------------------------------ MODULE TwinHub ------------------------------
(***************************************************************************)
(* The digital-twin stream of the canvas API (internal/api/server.go): the *)
(* hub goroutine that coalesces cluster changes into snapshots, and the    *)
(* server-sent-event handlers that subscribe to it.                        *)
(*                                                                         *)
(* The content of a snapshot is abstracted to the version of what it was   *)
(* computed from: twins() lists the Stacks first, the Deployments after    *)
(* that and then gets the backing services, so the three can be of         *)
(* different moments. Only the first two are watched. A backing service    *)
(* that cannot be read is reported not ready, which is version 0.          *)
(*                                                                         *)
(* The hub's mutex is held by the hub in "send" and by a client in         *)
(* "close"; the other critical sections are single steps. A variable of a  *)
(* goroutine or channel that is gone is set back to Zero.                  *)
(***************************************************************************)
EXTENDS Naturals, FiniteSets

CONSTANTS
    Clients,      \* connections to /events
    MaxVersion,   \* bound: changes of each kind
    MaxFails      \* bound: failed reads of a backing service

ASSUME ClientsAssumption == IsFiniteSet(Clients)
ASSUME BoundAssumption == MaxVersion \in Nat /\ MaxFails \in Nat

Kinds     == {"stacks", "deployments", "backing"}
Watched   == {"stacks", "deployments"}
Versions  == 0 .. MaxVersion
Snapshots == [Kinds -> Versions]

VARIABLES
    ver,      \* version of the informers' caches and of the backing services
    fails,    \* failed reads so far
    notify,   \* informers with an event their handler has not run for
    dirty,    \* hub.dirty holds a token
    timer,    \* the debounce timer is armed
    pc,       \* what hub.run does next
    payload,  \* the snapshot it computes
    toSend,   \* subscribers the broadcast has not come to yet
    subs,     \* hub.subs
    full,     \* subscribers whose channel holds a snapshot
    buf,      \* ... and that snapshot
    open,     \* channels that are not closed
    st,       \* what the handler of each client does next
    shown,    \* the snapshot it primes the connection with, then the last it wrote
    panicked  \* a send on a closed channel

cacheVars  == <<ver, notify, fails>>
hubVars    == <<timer, pc, payload, toSend>>
chanVars   == <<subs, full, buf, open>>
clientVars == <<st, shown>>
vars == <<cacheVars, dirty, hubVars, chanVars, clientVars, panicked>>

Zero == [k \in Kinds |-> 0]

Init ==
    /\ ver = Zero /\ notify = {} /\ fails = 0
    /\ dirty = FALSE /\ timer = FALSE /\ pc = "select"
    /\ payload = Zero /\ toSend = {}
    /\ subs = {} /\ full = {} /\ buf = [c \in Clients |-> Zero] /\ open = {}
    /\ st = [c \in Clients |-> "off"] /\ shown = [c \in Clients |-> Zero]
    /\ panicked = FALSE

Unlocked == pc # "send" /\ \A c \in Clients : st[c] # "close"

-----------------------------------------------------------------------------
(* The informers: the cache changes first, the handler runs later. The     *)
(* backing services change with no informer.                               *)

Change(k) ==
    /\ ver[k] < MaxVersion
    /\ ver' = [ver EXCEPT ![k] = @ + 1]
    /\ notify' = notify \cup ({k} \cap Watched)
    /\ UNCHANGED <<fails, dirty, hubVars, chanVars, clientVars, panicked>>

\* markDirty; a second token is dropped.
MarkDirty(k) ==
    /\ k \in notify
    /\ notify' = notify \ {k}
    /\ dirty' = TRUE
    /\ UNCHANGED <<ver, fails, hubVars, chanVars, clientVars, panicked>>

-----------------------------------------------------------------------------
(* hub.run                                                                 *)

\* A token arms the timer, unless it is armed already.
TakeDirty ==
    /\ pc = "select" /\ dirty
    /\ dirty' = FALSE /\ timer' = TRUE
    /\ UNCHANGED <<cacheVars, pc, payload, toSend, chanVars, clientVars, panicked>>

TimerFires ==
    /\ pc = "select" /\ timer
    /\ timer' = FALSE /\ pc' = "count"
    /\ UNCHANGED <<cacheVars, dirty, payload, toSend, chanVars, clientVars, panicked>>

\* mutant: a beat with nothing to report is skipped.
Heartbeat_OnlyDirty ==
    /\ pc = "select" /\ dirty
    /\ pc' = "count"
    /\ UNCHANGED <<cacheVars, dirty, timer, payload, toSend, chanVars, clientVars, panicked>>

Heartbeat ==
    /\ pc = "select"
    /\ pc' = "count"
    /\ UNCHANGED <<cacheVars, dirty, timer, payload, toSend, chanVars, clientVars, panicked>>

\* broadcast: nobody watching, nothing to compute.
CountSubscribers ==
    /\ pc = "count" /\ Unlocked
    /\ pc' = IF subs = {} THEN "select" ELSE "stacks"
    /\ UNCHANGED <<cacheVars, dirty, timer, payload, toSend, chanVars, clientVars, panicked>>

\* One of the three reads of twins(), with its result v.
Read(k, v) ==
    \/ v = ver[k] /\ UNCHANGED cacheVars
    \/ /\ k = "backing" /\ fails < MaxFails /\ v = 0
       /\ fails' = fails + 1
       /\ UNCHANGED <<ver, notify>>

After(k, done) ==
    CASE k = "stacks" -> "deployments" [] k = "deployments" -> "backing" [] OTHER -> done

\* twins(), outside the lock.
Snapshot(k, v) ==
    /\ pc = k
    /\ Read(k, v)
    /\ payload' = [payload EXCEPT ![k] = v]
    /\ pc' = After(k, "lock")
    /\ UNCHANGED <<dirty, timer, toSend, chanVars, clientVars, panicked>>

LockSubscribers ==
    /\ pc = "lock" /\ Unlocked
    /\ pc' = "send" /\ toSend' = subs
    /\ UNCHANGED <<cacheVars, dirty, timer, payload, chanVars, clientVars, panicked>>

\* mutants of SendTo: the older snapshot is kept; the send blocks.
SendTo_KeepsOld(c) ==
    /\ pc = "send" /\ c \in toSend
    /\ toSend' = toSend \ {c}
    /\ full' = full \cup {c}
    /\ buf' = IF c \in full THEN buf ELSE [buf EXCEPT ![c] = payload]
    /\ panicked' = (panicked \/ c \notin open)
    /\ UNCHANGED <<cacheVars, dirty, timer, pc, payload, subs, open, clientVars>>

SendTo_Blocks(c) ==
    /\ pc = "send" /\ c \in toSend /\ c \notin full
    /\ toSend' = toSend \ {c}
    /\ full' = full \cup {c}
    /\ buf' = [buf EXCEPT ![c] = payload]
    /\ panicked' = (panicked \/ c \notin open)
    /\ UNCHANGED <<cacheVars, dirty, timer, pc, payload, subs, open, clientVars>>

\* A full channel is emptied first; its reader may have done that already,
\* which comes to the same: nobody else sends.
SendTo(c) ==
    /\ pc = "send" /\ c \in toSend
    /\ toSend' = toSend \ {c}
    /\ full' = full \cup {c}
    /\ buf' = [buf EXCEPT ![c] = payload]
    /\ panicked' = (panicked \/ c \notin open)
    /\ UNCHANGED <<cacheVars, dirty, timer, pc, payload, subs, open, clientVars>>

\* mutant: a token that came during the broadcast is dropped.
Unlock_Drains ==
    /\ pc = "send" /\ toSend = {}
    /\ pc' = "select" /\ payload' = Zero /\ dirty' = FALSE
    /\ UNCHANGED <<cacheVars, timer, toSend, chanVars, clientVars, panicked>>

Unlock ==
    /\ pc = "send" /\ toSend = {}
    /\ pc' = "select" /\ payload' = Zero
    /\ UNCHANGED <<cacheVars, dirty, timer, toSend, chanVars, clientVars, panicked>>

-----------------------------------------------------------------------------
(* handleEvents, one per connection                                        *)

Subscribe(c) ==
    /\ st[c] = "off" /\ Unlocked
    /\ subs' = subs \cup {c} /\ open' = open \cup {c}
    /\ st' = [st EXCEPT ![c] = "stacks"]
    /\ UNCHANGED <<cacheVars, dirty, hubVars, full, buf, shown, panicked>>

\* The snapshot the connection is primed with; after it the handler listens.
Prime(c, k, v) ==
    /\ st[c] = k
    /\ Read(k, v)
    /\ shown' = [shown EXCEPT ![c][k] = v]
    /\ st' = [st EXCEPT ![c] = After(k, "loop")]
    /\ UNCHANGED <<dirty, hubVars, chanVars, panicked>>

Receive(c) ==
    /\ st[c] = "loop" /\ c \in full
    /\ shown' = [shown EXCEPT ![c] = buf[c]]
    /\ full' = full \ {c} /\ buf' = [buf EXCEPT ![c] = Zero]
    /\ UNCHANGED <<cacheVars, dirty, hubVars, subs, open, st, panicked>>

\* mutants: the channel is closed but stays subscribed; unsubscribing does
\* not wait for the lock.
Leave_KeepsSub(c) ==
    /\ st[c] = "loop" /\ Unlocked
    /\ st' = [st EXCEPT ![c] = "close"]
    /\ UNCHANGED <<cacheVars, dirty, hubVars, chanVars, shown, panicked>>

Leave_NoLock(c) ==
    /\ st[c] = "loop"
    /\ st' = [st EXCEPT ![c] = "close"]
    /\ subs' = subs \ {c}
    /\ UNCHANGED <<cacheVars, dirty, hubVars, full, buf, open, shown, panicked>>

\* The client is gone: unsubscribe deletes and closes under the lock.
Leave(c) ==
    /\ st[c] = "loop" /\ Unlocked
    /\ st' = [st EXCEPT ![c] = "close"]
    /\ subs' = subs \ {c}
    /\ UNCHANGED <<cacheVars, dirty, hubVars, full, buf, open, shown, panicked>>

CloseChannel(c) ==
    /\ st[c] = "close"
    /\ open' = open \ {c}
    /\ st' = [st EXCEPT ![c] = "off"]
    /\ full' = full \ {c} /\ buf' = [buf EXCEPT ![c] = Zero]
    /\ shown' = [shown EXCEPT ![c] = Zero]
    /\ UNCHANGED <<cacheVars, dirty, hubVars, subs, panicked>>

-----------------------------------------------------------------------------
Hub == \/ TakeDirty \/ TimerFires \/ CountSubscribers \/ LockSubscribers \/ Unlock
       \/ \E k \in Kinds, v \in Versions : Snapshot(k, v)
       \/ \E c \in Clients : SendTo(c)

Handler(c) == \/ \E k \in Kinds, v \in Versions : Prime(c, k, v)
              \/ Receive(c)
              \/ CloseChannel(c)

Next == \/ \E k \in Kinds : Change(k) \/ MarkDirty(k)
        \/ Hub \/ Heartbeat
        \/ \E c \in Clients : Subscribe(c) \/ Handler(c) \/ Leave(c)

Spec == Init /\ [][Next]_vars

\* The hub, the informers' handlers and a handler inside its critical section
\* run on; nothing is assumed of clients, nor of the heartbeat. Go's mutex lets
\* nobody wait for ever, however often connections come and go.
HubFairness ==
    /\ WF_vars(Hub) /\ SF_vars(CountSubscribers) /\ SF_vars(LockSubscribers)
    /\ WF_vars(\E k \in Kinds : MarkDirty(k))
    /\ \A c \in Clients : WF_vars(CloseChannel(c))

FairSpec == Spec /\ HubFairness

\* What properties assume of clients and of the heartbeat where they need it.
ClientsRead == \A c \in Clients : WF_vars(Handler(c))
HeartBeats  == WF_vars(Heartbeat)

-----------------------------------------------------------------------------
(* Properties                                                              *)

HubPcs    == Kinds \cup {"select", "count", "lock", "send"}
ClientPcs == Kinds \cup {"off", "loop", "close"}

Types ==
    /\ ver \in Snapshots /\ notify \subseteq Watched /\ fails \in 0 .. MaxFails
    /\ dirty \in BOOLEAN /\ timer \in BOOLEAN /\ pc \in HubPcs
    /\ payload \in Snapshots /\ toSend \subseteq Clients
    /\ subs \subseteq Clients /\ full \subseteq Clients /\ open \subseteq Clients
    /\ buf \in [Clients -> Snapshots]
    /\ st \in [Clients -> ClientPcs] /\ shown \in [Clients -> Snapshots]
    /\ panicked \in BOOLEAN

\* What the hub holds of its subscribers agrees with the handlers.
Books ==
    /\ subs = {c \in Clients : st[c] \in Kinds \cup {"loop"}}
    /\ open = {c \in Clients : st[c] # "off"}
    /\ full \subseteq open
    /\ toSend \subseteq subs
    /\ pc # "send" => toSend = {}
    /\ \A c \in Clients : st[c] = "close" => pc # "send"

\* Type invariant of the hub, its channels and the handlers: it sends to
\* nobody but subscribers, and while it does so none of them leaves.
TypeOK == Types /\ Books

\* hub.run never sends on a channel that unsubscribe has closed, which would
\* bring the whole control plane down (server.go: run, subscribe).
NoPanic == ~panicked

\* What hub.run still has to do brings kind k to client c.
OnItsWay(c, k) ==
    \/ k \in notify \/ dirty \/ timer
    \/ pc \in {"count", "stacks"}
    \/ pc = "deployments" /\ (k = "deployments" \/ payload[k] = ver[k])
    \/ pc \in {"backing", "lock"} /\ payload[k] = ver[k]
    \/ pc = "send" /\ c \in toSend /\ payload[k] = ver[k]
    \/ c \in full /\ buf[c][k] = ver[k]

\* A connection that shows something older than the cache will be told: the
\* event, the token, the timer, the broadcast or the channel still holds it,
\* whatever tokens, ticks and snapshots were coalesced or dropped on the way
\* (server.go: markDirty, run, subscribe before the priming snapshot).
NoLostUpdate ==
    \A c \in Clients, k \in Watched :
        st[c] = "loop" => shown[c][k] = ver[k] \/ OnItsWay(c, k)

\* The stream as its connections see it: owed is what a connection is behind
\* with and the hub has on its way.
Listening == {c \in Clients : st[c] = "loop"}
Now  == [k \in Watched |-> ver[k]]
View == [c \in Clients |-> [k \in Watched |-> IF c \in Listening THEN shown[c][k] ELSE 0]]
Owed == [k \in Watched |-> {c \in Listening : shown[c][k] # ver[k] /\ OnItsWay(c, k)}]

Stream == INSTANCE TwinStream
          WITH Kinds <- Watched, now <- Now, watching <- Listening, view <- View, owed <- Owed

\* The hub and its handlers implement the stream: no step of theirs drops what a
\* connection is owed, none shows it what has not been, and all that coalesces,
\* computes and sends is invisible to connections (server.go: run, handleEvents).
ImplementsStream == Stream!Spec

Shows(k) == \A c \in Clients : st[c] = "loop" => shown[c][k] = ver[k]

\* When the cluster stops changing, every connection that reads ends up showing
\* the present Stacks and Deployments, without help from the heartbeat.
EventuallyCurrent == ClientsRead => <>[](\A k \in Watched : Shows(k))

\* With the heartbeat also the backing services, which nothing watches and
\* whose reads may fail.
HeartbeatHeals == ClientsRead /\ HeartBeats => <>[](\A k \in Kinds : Shows(k))

\* Subscribers that do not read never stall the hub ("a slow reader drops
\* stale snapshots instead of stalling the hub").
HubNeverStalls == []<>(pc = "select")
=============================================================================
