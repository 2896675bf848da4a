--------------------------- MODULE TwinHubProofs ---------------------------
(***************************************************************************)
(* Proofs about TwinHub, for any number of connections and any bounds:     *)
(* the types and the hub's books, that a closed channel is never sent to,  *)
(* and that no change of a watched kind is lost on its way to a client.    *)
(*                                                                         *)
(* NoLostUpdate is not inductive: what a client shows can be current while *)
(* an older snapshot is still in its channel or about to be sent to it.    *)
(* Fresh says of every snapshot between the caches and the screen that it  *)
(* is current or that another one will follow.                             *)
(***************************************************************************)
EXTENDS TwinHub, TLAPS

Signalled(k) == k \in notify \/ dirty \/ timer

\* The snapshot under way has its part k.
HasPart(k) == \/ pc \in {"backing", "lock", "send"}
              \/ pc = "deployments" /\ k = "stacks"

Computing == pc \in {"count", "stacks", "deployments", "backing", "lock"}

\* A snapshot that is yet to be sent to c.
Coming(c) == Computing \/ (pc = "send" /\ c \in toSend)

\* The handler of c has read part k of what it primes the connection with.
Primed(c, k) == \/ st[c] \in {"backing", "loop"}
                \/ st[c] = "deployments" /\ k = "stacks"

PayloadFresh == \A k \in Watched : HasPart(k) => payload[k] = ver[k] \/ Signalled(k)

BufferFresh == \A c \in Clients, k \in Watched :
    c \in subs /\ c \in full => buf[c][k] = ver[k] \/ Signalled(k) \/ Coming(c)

ShownFresh == \A c \in Clients, k \in Watched :
    c \in subs /\ Primed(c, k) =>
        shown[c][k] = ver[k] \/ c \in full \/ Signalled(k) \/ Coming(c)

Fresh == PayloadFresh /\ BufferFresh /\ ShownFresh

-----------------------------------------------------------------------------
\* Reading a part of the overlay yields a version and changes no version.
LEMMA ReadType ==
    ASSUME Types, NEW k \in Kinds, NEW v \in Versions, Read(k, v)
    PROVE  /\ ver' = ver /\ notify' = notify
           /\ fails' \in 0 .. MaxFails
           /\ k \in Watched => v = ver[k]
    BY BoundAssumption, SMT DEF Read, Types, Kinds, Watched, cacheVars

\* Every step keeps the types.
LEMMA TypesStep == Types /\ [Next]_vars => Types'
<1> SUFFICES ASSUME Types, [Next]_vars PROVE Types'
    OBVIOUS
<1> USE BoundAssumption
<1>1. ASSUME NEW k \in Kinds, Change(k) PROVE Types'
    BY <1>1 DEF Types, Change, hubVars, chanVars, clientVars, Snapshots, Versions
<1>2. ASSUME NEW k \in Kinds, MarkDirty(k) PROVE Types'
    BY <1>2 DEF Types, MarkDirty, hubVars, chanVars, clientVars
<1>3. CASE TakeDirty
    BY <1>3 DEF Types, TakeDirty, cacheVars, chanVars, clientVars
<1>4. CASE TimerFires
    BY <1>4 DEF Types, TimerFires, cacheVars, chanVars, clientVars, HubPcs
<1>5. CASE CountSubscribers
    BY <1>5 DEF Types, CountSubscribers, cacheVars, chanVars, clientVars, HubPcs, Kinds
<1>6. CASE LockSubscribers
    BY <1>6 DEF Types, LockSubscribers, cacheVars, chanVars, clientVars, HubPcs
<1>7. CASE Unlock
    BY <1>7 DEF Types, Unlock, cacheVars, chanVars, clientVars, HubPcs, Snapshots, Zero, Versions
<1>8. ASSUME NEW k \in Kinds, NEW v \in Versions, Snapshot(k, v) PROVE Types'
    <2>1. ver' = ver /\ notify' = notify /\ fails' \in 0 .. MaxFails
        BY <1>8, ReadType DEF Snapshot
    <2>2. pc' \in HubPcs
        BY <1>8 DEF Snapshot, After, HubPcs, Kinds
    <2> QED BY <1>8, <2>1, <2>2 DEF Types, Snapshot, chanVars, clientVars, Snapshots
<1>9. ASSUME NEW c \in Clients, SendTo(c) PROVE Types'
    <2>1. panicked' \in BOOLEAN
        BY <1>9 DEF SendTo
    <2> QED BY <1>9, <2>1 DEF Types, SendTo, cacheVars, clientVars
<1>10. CASE Heartbeat
    BY <1>10 DEF Types, Heartbeat, cacheVars, chanVars, clientVars, HubPcs
<1>11. ASSUME NEW c \in Clients, Subscribe(c) PROVE Types'
    BY <1>11 DEF Types, Subscribe, cacheVars, hubVars, ClientPcs, Kinds
<1>12. ASSUME NEW c \in Clients, NEW k \in Kinds, NEW v \in Versions, Prime(c, k, v)
       PROVE Types'
    <2>1. ver' = ver /\ notify' = notify /\ fails' \in 0 .. MaxFails
        BY <1>12, ReadType DEF Prime
    <2>2. st' \in [Clients -> ClientPcs]
        BY <1>12 DEF Types, Prime, After, ClientPcs, Kinds
    <2>3. shown' \in [Clients -> Snapshots]
        BY <1>12 DEF Types, Prime, Snapshots
    <2> QED BY <1>12, <2>1, <2>2, <2>3 DEF Types, Prime, hubVars, chanVars
<1>13. ASSUME NEW c \in Clients, Receive(c) PROVE Types'
    BY <1>13 DEF Types, Receive, cacheVars, hubVars, Snapshots, Zero, Versions
<1>14. ASSUME NEW c \in Clients, CloseChannel(c) PROVE Types'
    BY <1>14 DEF Types, CloseChannel, cacheVars, hubVars, ClientPcs, Snapshots, Zero, Versions
<1>15. ASSUME NEW c \in Clients, Leave(c) PROVE Types'
    BY <1>15 DEF Types, Leave, cacheVars, hubVars, ClientPcs
<1>16. CASE UNCHANGED vars
    BY <1>16 DEF Types, vars, cacheVars, hubVars, chanVars, clientVars
<1> QED BY <1>1, <1>2, <1>3, <1>4, <1>5, <1>6, <1>7, <1>8, <1>9, <1>10, <1>11, <1>12,
           <1>13, <1>14, <1>15, <1>16 DEF Next, Hub, Handler

-----------------------------------------------------------------------------
\* Every step keeps the books: the hub's lock makes unsubscribing exclude a
\* broadcast.
LEMMA BooksStep == Types /\ Books /\ [Next]_vars => Books'
<1> SUFFICES ASSUME Types, Books, [Next]_vars PROVE Books'
    OBVIOUS
<1> USE DEF Types, Books
<1>1. ASSUME NEW k \in Kinds, Change(k) \/ MarkDirty(k) PROVE Books'
    BY <1>1 DEF Change, MarkDirty, hubVars, chanVars, clientVars
<1>2. CASE TakeDirty \/ TimerFires \/ Heartbeat
    BY <1>2 DEF TakeDirty, TimerFires, Heartbeat, chanVars, clientVars
<1>3. CASE CountSubscribers
    BY <1>3 DEF CountSubscribers, chanVars, clientVars
<1>4. CASE LockSubscribers
    BY <1>4 DEF LockSubscribers, Unlocked, chanVars, clientVars
<1>5. CASE Unlock
    BY <1>5 DEF Unlock, chanVars, clientVars
<1>6. ASSUME NEW k \in Kinds, NEW v \in Versions, Snapshot(k, v) PROVE Books'
    <2>1. pc' # "send" /\ pc # "send"
        BY <1>6 DEF Snapshot, After, Kinds
    <2> QED BY <1>6, <2>1 DEF Snapshot, chanVars, clientVars
<1>7. ASSUME NEW c \in Clients, SendTo(c) PROVE Books'
    <2>1. /\ UNCHANGED <<pc, subs, open, st>>
          /\ toSend' \subseteq toSend /\ full' = full \cup {c} /\ pc = "send"
        BY <1>7 DEF SendTo, clientVars
    <2>2. c \in open
        BY <1>7 DEF SendTo, Kinds
    <2> QED BY <2>1, <2>2
<1>8. ASSUME NEW c \in Clients, Subscribe(c) PROVE Books'
    BY <1>8 DEF Subscribe, Unlocked, hubVars, Kinds
<1>9. ASSUME NEW c \in Clients, NEW k \in Kinds, NEW v \in Versions, Prime(c, k, v)
      PROVE Books'
    <2>1. st[c] \in Kinds /\ st'[c] \in Kinds \cup {"loop"}
        BY <1>9 DEF Prime, After, Kinds
    <2>2. \A d \in Clients : d # c => st'[d] = st[d]
        BY <1>9 DEF Prime
    <2>3. UNCHANGED <<pc, toSend, subs, full, open>>
        BY <1>9 DEF Prime, hubVars, chanVars
    <2> QED BY <2>1, <2>2, <2>3 DEF Kinds
<1>10. ASSUME NEW c \in Clients, Receive(c) PROVE Books'
    BY <1>10 DEF Receive, hubVars
<1>11. ASSUME NEW c \in Clients, Leave(c) PROVE Books'
    BY <1>11 DEF Leave, Unlocked, hubVars, Kinds
<1>12. ASSUME NEW c \in Clients, CloseChannel(c) PROVE Books'
    BY <1>12 DEF CloseChannel, hubVars, Kinds
<1>13. CASE UNCHANGED vars
    BY <1>13 DEF vars, hubVars, chanVars, clientVars
<1> QED BY <1>1, <1>2, <1>3, <1>4, <1>5, <1>6, <1>7, <1>8, <1>9, <1>10, <1>11, <1>12,
           <1>13 DEF Next, Hub, Handler

\* The hub of every reachable state has its types and books: whatever the
\* number of connections, it sends to subscribers only and none of them leaves
\* while it sends (server.go: run, subscribe).
THEOREM TypeCorrect == Spec => []TypeOK
<1>1. Init => TypeOK
    <2> SUFFICES ASSUME Init PROVE Types /\ Books
        BY DEF TypeOK
    <2>1. Zero \in Snapshots
        BY BoundAssumption DEF Zero, Snapshots, Versions
    <2>a. dirty \in BOOLEAN /\ timer \in BOOLEAN /\ panicked \in BOOLEAN
        BY DEF Init
    <2>b. /\ buf \in [Clients -> Snapshots] /\ shown \in [Clients -> Snapshots]
          /\ st \in [Clients -> ClientPcs]
        BY <2>1 DEF Init, ClientPcs
    <2>2. Types
        BY <2>1, <2>a, <2>b, BoundAssumption DEF Init, Types, HubPcs
    <2>3. \A c \in Clients : st[c] = "off"
        BY DEF Init
    <2>4. Books
        BY <2>3 DEF Init, Books, Kinds
    <2> QED BY <2>2, <2>4
<1>2. TypeOK /\ [Next]_vars => TypeOK'
    BY TypesStep, BooksStep DEF TypeOK
<1> QED BY <1>1, <1>2, PTL DEF Spec

\* No step of a hub that keeps its books sends on a closed channel.
LEMMA NoPanicStep == TypeOK /\ NoPanic /\ [Next]_vars => NoPanic'
<1> SUFFICES ASSUME TypeOK, NoPanic, [Next]_vars PROVE NoPanic'
    OBVIOUS
<1>1. ASSUME NEW c \in Clients, SendTo(c) PROVE NoPanic'
    <2>1. c \in open
        BY <1>1 DEF SendTo, TypeOK, Types, Books, Kinds
    <2> QED BY <1>1, <2>1 DEF SendTo, NoPanic
<1>2. CASE UNCHANGED panicked
    BY <1>2 DEF NoPanic
<1> QED BY <1>1, <1>2 DEF Next, Hub, Handler, Change, MarkDirty, TakeDirty, TimerFires,
        CountSubscribers, LockSubscribers, Unlock, Snapshot, Heartbeat, Subscribe, Prime,
        Receive, Leave, CloseChannel, vars

\* hub.run never sends on a channel that its unsubscribe has closed.
THEOREM NeverPanics == Spec => []NoPanic
<1>1. Init => NoPanic
    BY DEF Init, NoPanic
<1> QED BY <1>1, TypeCorrect, NoPanicStep, PTL DEF Spec

-----------------------------------------------------------------------------
\* A snapshot under way stays current or is followed by another.
LEMMA PayloadStep == Types /\ PayloadFresh /\ [Next]_vars => PayloadFresh'
<1> SUFFICES ASSUME Types, PayloadFresh, [Next]_vars, NEW j \in Watched, HasPart(j)',
                    ~Signalled(j)'
             PROVE  payload'[j] = ver'[j]
    BY DEF PayloadFresh
<1> USE DEF HasPart, Signalled
<1>0. j \in Kinds
    BY DEF Watched, Kinds
<1>1. ASSUME NEW k \in Kinds, Change(k) PROVE payload'[j] = ver'[j]
    <2>1. j # k
        BY <1>1 DEF Change
    <2> QED BY <1>0, <1>1, <2>1 DEF Change, Types, PayloadFresh, hubVars, Snapshots
<1>2. CASE \E k \in Kinds : MarkDirty(k)
    BY <1>2 DEF MarkDirty
<1>3. CASE TakeDirty
    BY <1>3 DEF TakeDirty
<1>4. CASE TimerFires \/ CountSubscribers \/ Unlock \/ Heartbeat
    BY <1>4 DEF TimerFires, CountSubscribers, Unlock, Heartbeat
<1>5. CASE LockSubscribers
    BY <1>5 DEF LockSubscribers, PayloadFresh, cacheVars
<1>6. ASSUME NEW k \in Kinds, NEW v \in Versions, Snapshot(k, v)
      PROVE  payload'[j] = ver'[j]
    <2>1. ver' = ver /\ notify' = notify /\ (k = j => v = ver[j])
        BY <1>6, ReadType DEF Snapshot
    <2>2. payload' = [payload EXCEPT ![k] = v] /\ pc = k /\ pc' = After(k, "lock")
          /\ UNCHANGED <<dirty, timer>>
        BY <1>6 DEF Snapshot
    <2>3. k = j \/ HasPart(j)
        BY <2>2 DEF After, Kinds, Watched
    <2> QED BY <1>0, <2>1, <2>2, <2>3 DEF PayloadFresh, Types, Snapshots
<1>7. CASE \E c \in Clients : SendTo(c)
    BY <1>7 DEF SendTo, PayloadFresh, cacheVars
<1>8. CASE \E c \in Clients : Subscribe(c) \/ Receive(c) \/ Leave(c) \/ CloseChannel(c)
    BY <1>8 DEF Subscribe, Receive, Leave, CloseChannel, PayloadFresh, cacheVars, hubVars
<1>9. ASSUME NEW c \in Clients, NEW k \in Kinds, NEW v \in Versions, Prime(c, k, v)
      PROVE  payload'[j] = ver'[j]
    <2>1. ver' = ver /\ notify' = notify
        BY <1>9, ReadType DEF Prime
    <2> QED BY <1>9, <2>1 DEF Prime, PayloadFresh, hubVars
<1>10. CASE UNCHANGED vars
    BY <1>10 DEF vars, PayloadFresh, cacheVars, hubVars
<1> QED BY <1>1, <1>2, <1>3, <1>4, <1>5, <1>6, <1>7, <1>8, <1>9, <1>10 DEF Next, Hub, Handler

\* A snapshot in a channel stays current or another one comes.
LEMMA BufferStep ==
    TypeOK /\ PayloadFresh /\ BufferFresh /\ [Next]_vars => BufferFresh'
<1> SUFFICES ASSUME TypeOK, PayloadFresh, BufferFresh, [Next]_vars,
                    NEW d \in Clients, NEW j \in Watched,
                    d \in subs', d \in full', ~Signalled(j)', ~Coming(d)'
             PROVE  buf'[d][j] = ver'[j]
    BY DEF BufferFresh
<1> USE DEF Signalled, Coming, Computing
<1>0. j \in Kinds /\ Types /\ Books
    BY DEF Watched, Kinds, TypeOK
<1>1. ASSUME NEW k \in Kinds, Change(k) PROVE buf'[d][j] = ver'[j]
    <2>1. j # k
        BY <1>1 DEF Change
    <2> QED BY <1>0, <1>1, <2>1 DEF Change, Types, BufferFresh, hubVars, chanVars, Snapshots
<1>2. CASE \E k \in Kinds : MarkDirty(k)
    BY <1>2 DEF MarkDirty
<1>3. CASE TakeDirty \/ TimerFires \/ Heartbeat
    BY <1>3 DEF TakeDirty, TimerFires, Heartbeat
<1>4. CASE CountSubscribers
    BY <1>4 DEF CountSubscribers, chanVars
<1>5. CASE LockSubscribers
    BY <1>5 DEF LockSubscribers, chanVars
<1>6. CASE Unlock
    BY <1>6 DEF Unlock, BufferFresh, cacheVars, chanVars
<1>7. ASSUME NEW k \in Kinds, NEW v \in Versions, Snapshot(k, v)
      PROVE  buf'[d][j] = ver'[j]
    BY <1>7 DEF Snapshot, After, Kinds
<1>8. ASSUME NEW c \in Clients, SendTo(c) PROVE buf'[d][j] = ver'[j]
    <2>1. UNCHANGED <<ver, notify, dirty, timer, pc, payload, subs>>
          /\ pc = "send" /\ toSend' = toSend \ {c} /\ full' = full \cup {c}
          /\ buf' = [buf EXCEPT ![c] = payload]
        BY <1>8 DEF SendTo, cacheVars
    <2>2. CASE d = c
        <3>1. payload[j] = ver[j]
            BY <2>1 DEF PayloadFresh, HasPart
        <3> QED BY <1>0, <2>1, <2>2, <3>1 DEF Types
    <2>3. CASE d # c
        BY <1>0, <2>1, <2>3 DEF Types, BufferFresh
    <2> QED BY <2>2, <2>3
<1>9. ASSUME NEW c \in Clients, Subscribe(c) PROVE buf'[d][j] = ver'[j]
    <2>1. d # c
        BY <1>0, <1>9 DEF Subscribe, Books, Kinds
    <2> QED BY <1>9, <2>1 DEF Subscribe, BufferFresh, cacheVars, hubVars
<1>10. ASSUME NEW c \in Clients, NEW k \in Kinds, NEW v \in Versions, Prime(c, k, v)
       PROVE  buf'[d][j] = ver'[j]
    <2>1. ver' = ver /\ notify' = notify
        BY <1>0, <1>10, ReadType DEF Prime
    <2> QED BY <1>10, <2>1 DEF Prime, BufferFresh, hubVars, chanVars
<1>11. ASSUME NEW c \in Clients, Receive(c) \/ CloseChannel(c)
       PROVE  buf'[d][j] = ver'[j]
    <2>1. d # c
        BY <1>11 DEF Receive, CloseChannel
    <2>2. UNCHANGED <<cacheVars, dirty, hubVars, subs>> /\ d \in full
          /\ buf' = [buf EXCEPT ![c] = Zero]
        BY <1>11 DEF Receive, CloseChannel
    <2> QED BY <1>0, <2>1, <2>2 DEF Types, BufferFresh, cacheVars, hubVars
<1>12. CASE \E c \in Clients : Leave(c)
    BY <1>12 DEF Leave, BufferFresh, cacheVars, hubVars
<1>13. CASE UNCHANGED vars
    BY <1>13 DEF vars, BufferFresh, cacheVars, hubVars, chanVars
<1> QED BY <1>1, <1>2, <1>3, <1>4, <1>5, <1>6, <1>7, <1>8, <1>9, <1>10, <1>11, <1>12,
           <1>13 DEF Next, Hub, Handler

\* What a client shows stays current or a snapshot comes.
LEMMA ShownStep == TypeOK /\ Fresh /\ [Next]_vars => ShownFresh'
<1> SUFFICES ASSUME TypeOK, Fresh, [Next]_vars,
                    NEW d \in Clients, NEW j \in Watched,
                    d \in subs', Primed(d, j)', d \notin full', ~Signalled(j)', ~Coming(d)'
             PROVE  shown'[d][j] = ver'[j]
    BY DEF ShownFresh
<1> USE DEF Signalled, Coming, Computing, Primed
<1>0. j \in Kinds /\ Types /\ Books /\ ShownFresh
    BY DEF Watched, Kinds, TypeOK, Fresh
<1>1. ASSUME NEW k \in Kinds, Change(k) PROVE shown'[d][j] = ver'[j]
    <2>1. j # k
        BY <1>1 DEF Change
    <2> QED BY <1>0, <1>1, <2>1
            DEF Change, Types, ShownFresh, hubVars, chanVars, clientVars, Snapshots
<1>2. CASE \E k \in Kinds : MarkDirty(k)
    BY <1>2 DEF MarkDirty
<1>3. CASE TakeDirty \/ TimerFires \/ Heartbeat
    BY <1>3 DEF TakeDirty, TimerFires, Heartbeat
<1>4. CASE CountSubscribers \/ LockSubscribers
    BY <1>4 DEF CountSubscribers, LockSubscribers, chanVars
<1>5. CASE Unlock
    BY <1>0, <1>5 DEF Unlock, ShownFresh, cacheVars, chanVars, clientVars
<1>6. ASSUME NEW k \in Kinds, NEW v \in Versions, Snapshot(k, v)
      PROVE  shown'[d][j] = ver'[j]
    BY <1>6 DEF Snapshot, After, Kinds
<1>7. ASSUME NEW c \in Clients, SendTo(c) PROVE shown'[d][j] = ver'[j]
    <2>1. d # c
        BY <1>7 DEF SendTo
    <2> QED BY <1>0, <1>7, <2>1 DEF SendTo, ShownFresh, cacheVars, clientVars
<1>8. ASSUME NEW c \in Clients, Subscribe(c) PROVE shown'[d][j] = ver'[j]
    <2>1. d # c
        BY <1>0, <1>8 DEF Subscribe, Types, Watched
    <2> QED BY <1>0, <1>8, <2>1 DEF Subscribe, Types, ShownFresh, cacheVars, hubVars
<1>9. ASSUME NEW c \in Clients, NEW k \in Kinds, NEW v \in Versions, Prime(c, k, v)
      PROVE  shown'[d][j] = ver'[j]
    <2>1. ver' = ver /\ notify' = notify /\ (k = j => v = ver[j])
        BY <1>0, <1>9, ReadType DEF Prime
    <2>2. /\ UNCHANGED <<dirty, hubVars, chanVars>>
          /\ st[c] = k /\ st' = [st EXCEPT ![c] = After(k, "loop")]
          /\ shown' = [shown EXCEPT ![c][k] = v]
        BY <1>9 DEF Prime
    <2>3. CASE d = c /\ k = j
        BY <1>0, <2>1, <2>2, <2>3 DEF Types, Snapshots
    <2>4. CASE d = c /\ k # j
        <3>1. Primed(d, j)
            BY <1>0, <2>2, <2>4 DEF Types, After, Kinds, Watched
        <3>2. shown'[d][j] = shown[d][j]
            BY <1>0, <2>2, <2>4 DEF Types, Snapshots
        <3> QED BY <1>0, <2>1, <2>2, <3>1, <3>2 DEF ShownFresh, hubVars, chanVars
    <2>5. CASE d # c
        BY <1>0, <2>1, <2>2, <2>5 DEF Types, ShownFresh, hubVars, chanVars
    <2> QED BY <2>3, <2>4, <2>5
<1>10. ASSUME NEW c \in Clients, Receive(c) PROVE shown'[d][j] = ver'[j]
    <2>1. /\ UNCHANGED <<ver, notify, dirty, timer, pc, toSend, subs, st>>
          /\ c \in full /\ full' = full \ {c} /\ shown' = [shown EXCEPT ![c] = buf[c]]
        BY <1>10 DEF Receive, cacheVars, hubVars
    <2>2. CASE d = c
        <3>1. buf[d][j] = ver[j]
            BY <2>1, <2>2 DEF Fresh, BufferFresh
        <3> QED BY <1>0, <2>1, <2>2, <3>1 DEF Types
    <2>3. CASE d # c
        BY <1>0, <2>1, <2>3 DEF Types, ShownFresh
    <2> QED BY <2>2, <2>3
<1>11. ASSUME NEW c \in Clients, Leave(c) PROVE shown'[d][j] = ver'[j]
    <2>1. d # c
        BY <1>11 DEF Leave
    <2> QED BY <1>0, <1>11, <2>1 DEF Leave, Types, ShownFresh, cacheVars, hubVars
<1>12. ASSUME NEW c \in Clients, CloseChannel(c) PROVE shown'[d][j] = ver'[j]
    <2>1. d # c
        BY <1>0, <1>12 DEF CloseChannel, Books, Kinds
    <2> QED BY <1>0, <1>12, <2>1 DEF CloseChannel, Types, ShownFresh, cacheVars, hubVars
<1>13. CASE UNCHANGED vars
    BY <1>0, <1>13 DEF vars, ShownFresh, cacheVars, hubVars, chanVars, clientVars
<1> QED BY <1>1, <1>2, <1>3, <1>4, <1>5, <1>6, <1>7, <1>8, <1>9, <1>10, <1>11, <1>12,
           <1>13 DEF Next, Hub, Handler

\* A client that shows something out of date still has the news coming.
LEMMA FreshSuffices == TypeOK /\ Fresh => NoLostUpdate
<1> SUFFICES ASSUME TypeOK, Fresh, NEW c \in Clients, NEW k \in Watched,
                    st[c] = "loop", shown[c][k] # ver[k]
             PROVE  OnItsWay(c, k)
    BY DEF NoLostUpdate
<1>1. c \in subs
    BY DEF TypeOK, Books, Kinds
<1>2. c \in full \/ Signalled(k) \/ Coming(c)
    BY <1>1 DEF Fresh, ShownFresh, Primed
<1>3. CASE Signalled(k)
    BY <1>3 DEF Signalled, OnItsWay
<1>4. CASE Coming(c)
    BY <1>4 DEF Coming, Computing, Fresh, PayloadFresh, HasPart, Signalled, OnItsWay, Watched
<1>5. CASE c \in full /\ ~Signalled(k) /\ ~Coming(c)
    BY <1>1, <1>5 DEF Fresh, BufferFresh, OnItsWay
<1> QED BY <1>2, <1>3, <1>4, <1>5

\* No change of a Stack or Deployment is lost between the cache and the screen:
\* for every number of connections, each that lags behind is still to be told
\* (server.go: markDirty, run, subscribe, handleEvents).
THEOREM NothingLost == Spec => []NoLostUpdate
<1>1. Init => Fresh
    BY DEF Init, Fresh, PayloadFresh, BufferFresh, ShownFresh, HasPart
<1>2. TypeOK /\ Fresh /\ [Next]_vars => Fresh'
    BY PayloadStep, BufferStep, ShownStep DEF Fresh, TypeOK
<1> QED BY <1>1, <1>2, TypeCorrect, FreshSuffices, PTL DEF Spec

-----------------------------------------------------------------------------
\* No snapshot is ahead of what it was read from.
NotAhead == \A k \in Watched :
    /\ payload[k] <= ver[k]
    /\ \A c \in Clients : buf[c][k] <= ver[k] /\ shown[c][k] <= ver[k]

LEMMA NotAheadStep == Types /\ Types' /\ NotAhead /\ [Next]_vars => NotAhead'
<1> SUFFICES ASSUME Types, Types', NotAhead, [Next]_vars, NEW j \in Watched
             PROVE  /\ payload'[j] <= ver'[j]
                    /\ \A d \in Clients : buf'[d][j] <= ver'[j] /\ shown'[d][j] <= ver'[j]
    BY DEF NotAhead
<1> DEFINE Goal == /\ payload'[j] <= ver'[j]
                   /\ \A d \in Clients : buf'[d][j] <= ver'[j] /\ shown'[d][j] <= ver'[j]
<1>0. /\ j \in Kinds /\ ver[j] \in Nat /\ ver'[j] \in Nat /\ payload[j] <= ver[j]
      /\ \A d \in Clients : buf[d][j] <= ver[j] /\ shown[d][j] <= ver[j]
    BY BoundAssumption DEF NotAhead, Types, Snapshots, Versions, Watched, Kinds
<1>t. /\ payload[j] \in Nat /\ \A d \in Clients : buf[d][j] \in Nat /\ shown[d][j] \in Nat
    BY <1>0, BoundAssumption DEF Types, Snapshots, Versions
<1>z. Zero[j] <= ver[j]
    BY <1>0 DEF Zero
<1>1. ASSUME NEW k \in Kinds, Change(k) PROVE Goal
    <2>1. ver'[j] \in {ver[j], ver[j] + 1} /\ UNCHANGED <<payload, buf, shown>>
        BY <1>0, <1>1 DEF Change, Types, Snapshots, hubVars, chanVars, clientVars
    <2> QED BY <1>0, <1>t, <2>1
<1>2. CASE /\ UNCHANGED ver /\ payload' \in {payload, Zero}
           /\ UNCHANGED <<buf, shown>>
    BY <1>0, <1>z, <1>2
<1>3. ASSUME NEW k \in Kinds, NEW v \in Versions, Snapshot(k, v) PROVE Goal
    <2>1. ver' = ver /\ (k = j => v = ver[j])
        BY <1>3, ReadType DEF Snapshot
    <2>2. payload' = [payload EXCEPT ![k] = v] /\ UNCHANGED <<buf, shown>>
        BY <1>3 DEF Snapshot, chanVars, clientVars
    <2> QED BY <1>0, <2>1, <2>2 DEF Types, Snapshots
<1>4. ASSUME NEW c \in Clients, SendTo(c) PROVE Goal
    <2>1. UNCHANGED <<ver, payload, shown>> /\ buf' = [buf EXCEPT ![c] = payload]
        BY <1>4 DEF SendTo, cacheVars, clientVars
    <2> QED BY <1>0, <2>1 DEF Types
<1>5. ASSUME NEW c \in Clients, NEW k \in Kinds, NEW v \in Versions, Prime(c, k, v)
      PROVE  Goal
    <2>1. ver' = ver /\ (k = j => v = ver[j])
        BY <1>5, ReadType DEF Prime
    <2>2. UNCHANGED <<payload, buf>> /\ shown' = [shown EXCEPT ![c][k] = v]
        BY <1>5 DEF Prime, hubVars, chanVars
    <2> QED BY <1>0, <2>1, <2>2 DEF Types, Snapshots
<1>6. ASSUME NEW c \in Clients, Receive(c) \/ CloseChannel(c) PROVE Goal
    <2>1. /\ UNCHANGED <<ver, payload>> /\ buf' = [buf EXCEPT ![c] = Zero]
          /\ \/ shown' = [shown EXCEPT ![c] = buf[c]]
             \/ shown' = [shown EXCEPT ![c] = Zero]
        BY <1>6 DEF Receive, CloseChannel, cacheVars, hubVars
    <2> QED BY <1>0, <1>z, <2>1 DEF Types
<1>7. CASE \/ \E k \in Kinds : MarkDirty(k)
           \/ TakeDirty \/ TimerFires \/ Heartbeat \/ CountSubscribers \/ LockSubscribers
           \/ Unlock \/ (\E c \in Clients : Subscribe(c) \/ Leave(c)) \/ UNCHANGED vars
    <2>1. UNCHANGED ver /\ payload' \in {payload, Zero} /\ UNCHANGED <<buf, shown>>
        BY <1>7 DEF MarkDirty, TakeDirty, TimerFires, Heartbeat, CountSubscribers,
           LockSubscribers, Unlock, Subscribe, Leave, vars, cacheVars, hubVars, chanVars,
           clientVars
    <2> QED BY <1>2, <2>1
<1> QED BY <1>1, <1>3, <1>4, <1>5, <1>6, <1>7 DEF Next, Hub, Handler

-----------------------------------------------------------------------------
\* The refinement. As nothing is lost, what is owed is what a connection is
\* behind with.
Behind == [k \in Watched |-> {c \in Listening : shown[c][k] # ver[k]}]

LEMMA OwedIsBehind == /\ NoLostUpdate => Owed = Behind
                      /\ NoLostUpdate' => Owed' = Behind'
<1>1. NoLostUpdate => Owed = Behind
    BY DEF NoLostUpdate, Owed, Behind, Listening
<1>2. NoLostUpdate' => Owed' = Behind'
    BY DEF NoLostUpdate, Owed, Behind, Listening
<1> QED BY <1>1, <1>2

\* A step that only changes what a connection that does not listen is shown.
LEMMA Stutter ==
    ASSUME \A k \in Watched : ver'[k] = ver[k],
           \A c \in Clients : st'[c] = "loop" <=> st[c] = "loop",
           \A c \in Clients : st[c] = "loop" => shown'[c] = shown[c],
           Owed = Behind, Owed' = Behind'
    PROVE  UNCHANGED <<Now, Listening, View, Owed>>
<1>1. Listening' = Listening
    BY DEF Listening
<1>2. Now' = Now
    BY DEF Now
<1>3. View' = View
    BY <1>1 DEF View, Listening
<1>4. Behind' = Behind
    BY <1>1 DEF Behind, Listening
<1> QED BY <1>1, <1>2, <1>3, <1>4

\* A step after which connection c has been shown one more snapshot.
LEMMA Shown ==
    ASSUME Types, Types', NotAhead', NEW c \in Clients, st'[c] = "loop",
           ver' = ver,
           \A d \in Clients \ {c} : st'[d] = st[d] /\ shown'[d] = shown[d],
           Owed = Behind, Owed' = Behind'
    PROVE  Stream!Show(c) /\ Listening' = Listening \cup {c}
<1>1. Listening' = Listening \cup {c} /\ c \in Listening'
    BY DEF Listening
<1>2. Now' = Now
    BY DEF Now
<1>3. \A k \in Watched : View'[c][k] = shown'[c][k] /\ Now[k] = ver[k]
    BY <1>1 DEF View, Now
<1>4. \A k \in Watched : View'[c][k] <= Now[k]
    BY <1>3 DEF NotAhead
<1>5. View' = [View EXCEPT ![c] = View'[c]]
    <2>1. ASSUME NEW d \in Clients, d # c PROVE View'[d] = View[d]
        BY <2>1, <1>1 DEF View
    <2> QED BY <2>1 DEF View
<1>6. Owed' = [k \in Watched |-> IF View'[c][k] = Now[k] THEN Owed[k] \ {c}
                                                        ELSE Owed[k] \cup {c}]
    <2>1. ASSUME NEW k \in Watched
          PROVE  Behind'[k] = IF shown'[c][k] = ver[k] THEN Behind[k] \ {c}
                                                       ELSE Behind[k] \cup {c}
        BY <1>1 DEF Behind, Listening
    <2> QED BY <2>1, <1>3 DEF Behind
<1> QED BY <1>1, <1>2, <1>4, <1>5, <1>6 DEF Stream!Show

\* Every step of the hub and of the handlers is one of the stream, or none.
LEMMA StreamStep ==
    ASSUME TypeOK, TypeOK', NoLostUpdate, NoLostUpdate', NotAhead, NotAhead', [Next]_vars
    PROVE  [Stream!Next]_Stream!vars
<1>0. /\ Types /\ Types' /\ Books /\ Owed = Behind /\ Owed' = Behind'
    BY OwedIsBehind DEF TypeOK
<1> DEFINE Same == UNCHANGED <<Now, Listening, View, Owed>>
<1>s. Same => [Stream!Next]_Stream!vars
    BY DEF Stream!vars
<1>1. ASSUME NEW k \in Kinds, Change(k) PROVE [Stream!Next]_Stream!vars
    <2>1. UNCHANGED <<st, shown>> /\ ver' = [ver EXCEPT ![k] = @ + 1]
        BY <1>1 DEF Change, clientVars
    <2>2. CASE k \notin Watched
        <3>1. \A j \in Watched : ver'[j] = ver[j]
            BY <1>0, <2>1, <2>2 DEF Types, Snapshots, Watched, Kinds
        <3> QED BY <1>0, <1>s, <2>1, <3>1, Stutter
    <2>3. CASE k \in Watched
        <3>1. Listening' = Listening /\ View' = View
            BY <2>1 DEF Listening, View
        <3>2. ver'[k] = ver[k] + 1 /\ \A j \in Watched \ {k} : ver'[j] = ver[j]
            BY <1>0, <2>1, <2>3 DEF Types, Snapshots, Watched, Kinds
        <3>3. Now' = [Now EXCEPT ![k] = @ + 1]
            BY <2>3, <3>2 DEF Now
        <3>4. \A c \in Listening : shown[c][k] # ver'[k]
            <4>1. \A c \in Clients : shown[c][k] <= ver[k] /\ shown[c][k] \in Nat /\ ver[k] \in Nat
                BY <1>0, <2>3, BoundAssumption DEF NotAhead, Types, Snapshots, Versions
            <4> QED BY <3>2, <4>1 DEF Listening
        <3>5. Behind' = [Behind EXCEPT ![k] = Listening]
            <4>1. \A j \in Watched \ {k} : Behind'[j] = Behind[j]
                BY <2>1, <3>1, <3>2 DEF Behind
            <4>2. Behind'[k] = Listening
                BY <2>1, <2>3, <3>1, <3>4 DEF Behind
            <4>3. /\ Behind = [j \in Watched |-> Behind[j]]
                  /\ Behind' = [j \in Watched |-> Behind'[j]]
                BY DEF Behind
            <4> QED BY <2>3, <4>1, <4>2, <4>3
        <3>6. Stream!Change(k)
            BY <1>0, <3>1, <3>3, <3>5 DEF Stream!Change
        <3> QED BY <2>3, <3>6 DEF Stream!Next
    <2> QED BY <2>2, <2>3
<1>2. CASE UNCHANGED <<ver, st, shown>>
    BY <1>0, <1>2, <1>s, Stutter
<1>3. ASSUME NEW c \in Clients, NEW k \in Kinds, NEW v \in Versions, Prime(c, k, v)
      PROVE  [Stream!Next]_Stream!vars
    <2>1. /\ ver' = ver /\ st[c] = k /\ st' = [st EXCEPT ![c] = After(k, "loop")]
          /\ shown' = [shown EXCEPT ![c][k] = v]
        BY <1>0, <1>3, ReadType DEF Prime
    <2>2. /\ \A d \in Clients \ {c} : st'[d] = st[d] /\ shown'[d] = shown[d]
          /\ st'[c] = After(k, "loop")
        BY <1>0, <2>1 DEF Types
    <2>3. st[c] # "loop"
        BY <2>1 DEF Kinds
    <2>4. CASE k = "backing"
        <3>1. st'[c] = "loop" /\ c \notin Listening
            BY <2>2, <2>3, <2>4 DEF After, Listening
        <3>2. Stream!Connect(c)
            BY <1>0, <2>1, <2>2, <3>1, Shown DEF Stream!Connect
        <3> QED BY <3>2 DEF Stream!Next
    <2>5. CASE k # "backing"
        <3>1. st'[c] # "loop"
            BY <2>2, <2>5 DEF After, Kinds
        <3>2. \A d \in Clients : /\ st'[d] = "loop" <=> st[d] = "loop"
                                 /\ st[d] = "loop" => shown'[d] = shown[d]
            BY <2>2, <2>3, <3>1
        <3> QED BY <1>0, <1>s, <2>1, <3>2, Stutter
    <2> QED BY <2>4, <2>5
<1>4. ASSUME NEW c \in Clients, Receive(c) PROVE [Stream!Next]_Stream!vars
    <2>1. /\ UNCHANGED <<ver, st>> /\ st[c] = "loop" /\ c \in Listening
          /\ \A d \in Clients \ {c} : shown'[d] = shown[d]
        BY <1>0, <1>4 DEF Receive, cacheVars, Listening, Types
    <2>2. Stream!Show(c) /\ Listening' = Listening \cup {c}
        BY <1>0, <2>1, Shown
    <2>3. Stream!Update(c)
        BY <2>1, <2>2 DEF Stream!Update
    <2> QED BY <2>3 DEF Stream!Next
<1>5. ASSUME NEW c \in Clients, Leave(c) PROVE [Stream!Next]_Stream!vars
    <2>1. /\ UNCHANGED <<ver, shown>> /\ st[c] = "loop" /\ st'[c] = "close"
          /\ \A d \in Clients \ {c} : st'[d] = st[d]
        BY <1>0, <1>5 DEF Leave, cacheVars, Types
    <2>2. c \in Listening /\ Listening' = Listening \ {c} /\ Now' = Now
        BY <2>1 DEF Listening, Now
    <2>3. View' = [View EXCEPT ![c] = [k \in Watched |-> 0]]
        BY <2>1, <2>2 DEF View
    <2>4. Behind' = [k \in Watched |-> Behind[k] \ {c}]
        BY <2>1, <2>2 DEF Behind
    <2>5. Stream!Disconnect(c)
        BY <1>0, <2>2, <2>3, <2>4 DEF Stream!Disconnect, Stream!Zero, Behind
    <2> QED BY <2>5 DEF Stream!Next
<1>6. ASSUME NEW c \in Clients, Subscribe(c) \/ CloseChannel(c)
      PROVE  [Stream!Next]_Stream!vars
    <2>1. /\ ver' = ver /\ st[c] # "loop" /\ st'[c] # "loop"
          /\ \A d \in Clients \ {c} : st'[d] = st[d] /\ shown'[d] = shown[d]
        BY <1>0, <1>6 DEF Subscribe, CloseChannel, cacheVars, Types
    <2>2. \A d \in Clients : /\ st'[d] = "loop" <=> st[d] = "loop"
                             /\ st[d] = "loop" => shown'[d] = shown[d]
        BY <2>1
    <2> QED BY <1>0, <1>s, <2>1, <2>2, Stutter
<1>7. ASSUME NEW k \in Kinds, NEW v \in Versions, Snapshot(k, v) PROVE [Stream!Next]_Stream!vars
    <2>1. ver' = ver
        BY <1>0, <1>7, ReadType DEF Snapshot
    <2> QED BY <1>2, <1>7, <2>1 DEF Snapshot, clientVars
<1>8. CASE \/ \E k \in Kinds : MarkDirty(k)
           \/ TakeDirty \/ TimerFires \/ Heartbeat \/ CountSubscribers \/ LockSubscribers
           \/ Unlock \/ (\E c \in Clients : SendTo(c)) \/ UNCHANGED vars
    <2>1. UNCHANGED <<ver, st, shown>>
        BY <1>8 DEF MarkDirty, TakeDirty, TimerFires, Heartbeat, CountSubscribers,
           LockSubscribers, Unlock, SendTo, vars, cacheVars, clientVars
    <2> QED BY <1>2, <2>1
<1> QED BY <1>1, <1>3, <1>4, <1>5, <1>6, <1>7, <1>8 DEF Next, Hub, Handler

\* The hub and its handlers implement the stream, for any number of connections:
\* what a connection is owed leaves the books only when it has been shown.
THEOREM StreamImplemented == Spec => ImplementsStream
<1>1. Init => Stream!Init
    <2> SUFFICES ASSUME Init PROVE Stream!Init
        OBVIOUS
    <2>1. Listening = {}
        BY DEF Init, Listening
    <2>2. \A k \in Watched : ver[k] = 0
        BY DEF Init, Zero, Watched, Kinds
    <2> QED BY <2>1, <2>2 DEF Stream!Init, Stream!Zero, Now, View, Owed
<1>2. Init => NotAhead
    BY DEF Init, NotAhead, Zero, Watched, Kinds
<1>3. TypeOK /\ TypeOK' /\ NotAhead /\ [Next]_vars => NotAhead'
    BY NotAheadStep DEF TypeOK
<1>4. TypeOK /\ TypeOK' /\ NoLostUpdate /\ NoLostUpdate' /\ NotAhead /\ NotAhead' /\ [Next]_vars
        => [Stream!Next]_Stream!vars
    BY StreamStep
<1> QED BY <1>1, <1>2, <1>3, <1>4, TypeCorrect, NothingLost, PTL
        DEF Spec, ImplementsStream, Stream!Spec
=============================================================================
