---------------------------- MODULE MCAppRelease ----------------------------
(***************************************************************************)
(* Instances of AppRelease for TLC.                                        *)
(***************************************************************************)
EXTENDS AppRelease

CONSTANTS a, other

Mi == 1024 * 1024

\* One pod fits: the byte that the division cuts off is over twice the node.
Odd  == [x \in Apps |-> [cpu |-> 29, mem |-> 20 * Mi + 1]]
Two  == [x \in Apps |-> 2]
Node == [cpu |-> 2, mem |-> 10 * Mi]
=============================================================================
