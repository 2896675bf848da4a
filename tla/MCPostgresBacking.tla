------------------------- MODULE MCPostgresBacking -------------------------
(***************************************************************************)
(* Instances of PostgresBacking for TLC: a Stack and one that is, or is    *)
(* made, a preview cloned from it.                                         *)
(***************************************************************************)
EXTENDS PostgresBacking

CONSTANTS main, preview

OfMain == [s \in Stacks |-> IF s = preview THEN {main} ELSE {}]
=============================================================================
