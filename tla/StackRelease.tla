----------------------------- MODULE StackRelease -----------------------------
(***************************************************************************)
(* What the Stack controller promises of a release                         *)
(* (internal/controller/stack_controller.go), with nothing of how it keeps *)
(* the promise: the specs that were accepted, the outcomes of release      *)
(* hooks, the backing services that came up, and which spec each process   *)
(* runs. A process moves to a newer spec, through its gates, and stops     *)
(* only when the Stack it was made for is gone. StackRollout implements    *)
(* this with Jobs, Deployments, caches that lag, and passes that fail.     *)
(***************************************************************************)
EXTENDS Naturals, Sequences

CONSTANTS Services, Processes, Backings, NoImage, Specs

VARIABLES
    asked,   \* every accepted spec, with uid and generation, oldest first
    alive,   \* uid of the Stack that exists, 0 if none does
    runs,    \* the spec each process runs, an index into asked, or 0
    hooks,   \* <<service, spec, outcome>> of every release hook that ended
    served   \* <<backing, uid>> of every backing service that came up

vars == <<asked, alive, runs, hooks, served>>

Of(r, s) == asked[r].spec.svc[s]

\* What the service connects to is up, as the backing of this very Stack.
Backed(r, s) ==
    \A b \in Of(r, s).needs \cap asked[r].spec.backing : <<b, asked[r].uid>> \in served

\* Its hook completed, or that of a Stack of this name with as many specs.
Migrated(r, s) ==
    Of(r, s).hook => \E q \in 1 .. Len(asked) :
                        asked[q].gen = asked[r].gen /\ <<s, q, "complete">> \in hooks

Init ==
    /\ asked = <<>> /\ alive = 0 /\ hooks = {} /\ served = {}
    /\ runs = [k \in Services \X Processes |-> 0]

Create(spec) ==
    /\ alive = 0
    /\ alive' = IF asked = <<>> THEN 1 ELSE asked[Len(asked)].uid + 1
    /\ asked' = Append(asked, [uid |-> alive', gen |-> 1, spec |-> spec])
    /\ UNCHANGED <<runs, hooks, served>>

Edit(spec) ==
    /\ alive # 0
    /\ asked' = Append(asked, [uid  |-> alive, gen |-> asked[Len(asked)].gen + 1,
                               spec |-> spec])
    /\ UNCHANGED <<alive, runs, hooks, served>>

Delete == alive # 0 /\ alive' = 0 /\ UNCHANGED <<asked, runs, hooks, served>>

ComesUp(b, r) ==
    /\ b \in asked[r].spec.backing
    /\ served' = served \cup {<<b, asked[r].uid>>}
    /\ UNCHANGED <<asked, alive, runs, hooks>>

HookEnds(s, r, outcome) ==
    /\ Of(r, s).image # NoImage /\ Of(r, s).hook /\ Backed(r, s)
    /\ hooks' = hooks \cup {<<s, r, outcome>>}
    /\ UNCHANGED <<asked, alive, runs, served>>

Roll(s, p, r) ==
    /\ Of(r, s).image # NoImage /\ p \in Of(r, s).procs
    /\ Backed(r, s) /\ Migrated(r, s)
    /\ runs[<<s, p>>] <= r
    /\ runs' = [runs EXCEPT ![<<s, p>>] = r]
    /\ UNCHANGED <<asked, alive, hooks, served>>

Stop(k) ==
    /\ runs[k] # 0 /\ asked[runs[k]].uid # alive
    /\ runs' = [runs EXCEPT ![k] = 0]
    /\ UNCHANGED <<asked, alive, hooks, served>>

Next ==
    \/ Delete \/ \E spec \in Specs : Create(spec) \/ Edit(spec)
    \/ \E r \in 1 .. Len(asked) :
          \/ \E b \in Backings : ComesUp(b, r)
          \/ \E s \in Services, o \in {"complete", "failed"} : HookEnds(s, r, o)
          \/ \E s \in Services, p \in Processes : Roll(s, p, r)
    \/ \E k \in Services \X Processes : Stop(k)

Spec == Init /\ [][Next]_vars
=============================================================================
