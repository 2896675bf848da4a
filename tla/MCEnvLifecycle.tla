--------------------------- MODULE MCEnvLifecycle ---------------------------
(***************************************************************************)
(* Instances of EnvLifecycle for TLC.                                      *)
(***************************************************************************)
EXTENDS EnvLifecycle

CONSTANTS e1, shop, n1, g1, g2, main

OneNamespace == [k \in Envs \X Projects |-> n1]

Spec1(t, f, g) == [project |-> shop, type |-> t, from |-> f, graph |-> g]

\* A preview cloned from main, alone or as an edit of a bare namespace.
Preview == {Spec1("preview", main, g1)}
Mixed   == Preview \cup {Spec1("persistent", NoParent, NoGraph)}
=============================================================================
