----------------------------- MODULE TwinStream -----------------------------
(***************************************************************************)
(* What the digital-twin stream promises of the kinds of object that the   *)
(* hub watches (internal/api/server.go): a connection is shown nothing     *)
(* that has not been, and whatever it is behind with is owed to it until   *)
(* it has been shown. TwinHub implements this with an informer's event, a  *)
(* token, a timer, a broadcast and a channel of one snapshot.              *)
(***************************************************************************)
EXTENDS Naturals

CONSTANTS Clients, Kinds

VARIABLES
    now,       \* version of each kind in the cluster
    watching,  \* connections that have been shown something
    view,      \* what they were shown last
    owed       \* of each kind, who is still to be told

vars == <<now, watching, view, owed>>

Zero == [k \in Kinds |-> 0]

Init ==
    /\ now = Zero /\ watching = {} /\ view = [c \in Clients |-> Zero]
    /\ owed = [k \in Kinds |-> {}]

Change(k) ==
    /\ now' = [now EXCEPT ![k] = @ + 1]
    /\ owed' = [owed EXCEPT ![k] = watching]
    /\ UNCHANGED <<watching, view>>

\* One snapshot, which may mix moments and may be older than the last.
Show(c) ==
    /\ \A k \in Kinds : view'[c][k] <= now[k]
    /\ view' = [view EXCEPT ![c] = view'[c]]
    /\ owed' = [k \in Kinds |-> IF view'[c][k] = now[k] THEN owed[k] \ {c}
                                                      ELSE owed[k] \cup {c}]
    /\ UNCHANGED now

Connect(c) == c \notin watching /\ watching' = watching \cup {c} /\ Show(c)

Update(c) == c \in watching /\ Show(c) /\ UNCHANGED watching

Disconnect(c) ==
    /\ c \in watching /\ watching' = watching \ {c}
    /\ view' = [view EXCEPT ![c] = Zero]
    /\ owed' = [k \in Kinds |-> owed[k] \ {c}]
    /\ UNCHANGED now

Next == \/ \E k \in Kinds : Change(k)
        \/ \E c \in Clients : Connect(c) \/ Update(c) \/ Disconnect(c)

Spec == Init /\ [][Next]_vars
=============================================================================
