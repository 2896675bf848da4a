-------------------------- MODULE MCVolumeBacking --------------------------
(***************************************************************************)
(* Instances of VolumeBacking for TLC: a Stack and a preview of it.        *)
(***************************************************************************)
EXTENDS VolumeBacking

CONSTANTS main, preview

OfMain == [s \in Stacks |-> IF s = preview THEN main ELSE NoStack]
=============================================================================
