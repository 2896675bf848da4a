----------------------------- MODULE Overcommit -----------------------------
(***************************************************************************)
(* Overcommit tiers (internal/controller/overcommit.go): the request of a  *)
(* container is derived from its limit, so that a node whose scheduler     *)
(* adds up requests takes a multiple of what it has. CPU is counted in     *)
(* thousandths of a core, memory in bytes.                                 *)
(***************************************************************************)
EXTENDS Naturals

Kinds  == {"cpu", "mem"}
Counts == [Kinds -> Nat]

\* overcommitTiers
Tiers == [dev        |-> [cpu |-> 15, mem |-> 2],
          prod       |-> [cpu |-> 7,  mem |-> 2],
          build      |-> [cpu |-> 2,  mem |-> 2],
          enterprise |-> [cpu |-> 1,  mem |-> 1]]

ResolveTier(name) == IF name \in DOMAIN Tiers THEN Tiers[name] ELSE Tiers.dev

\* The floors: 1m of CPU and 4Mi of memory.
Floors == [cpu |-> 1, mem |-> 4 * 1024 * 1024]

AtLeast(n, floor) == IF n < floor THEN floor ELSE n

\* mutant: the memory is divided by the ratio of the CPU.
Requests_ByCPU(limits, tier) ==
    [k \in Kinds |-> AtLeast(limits[k] \div tier.cpu, Floors[k])]

\* requestsFromLimits
Requests(limits, tier) ==
    [k \in Kinds |-> AtLeast(limits[k] \div tier[k], Floors[k])]

\* What the API server asks of a container.
Valid(limits, tier) == \A k \in Kinds : Requests(limits, tier)[k] <= limits[k]
=============================================================================
