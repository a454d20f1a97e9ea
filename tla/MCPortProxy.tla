----------------------------- MODULE MCPortProxy -----------------------------
(* Instances of PortProxy: one proxy per isolate. *)
EXTENDS PortProxy, TLC

CONSTANTS i1, i2, p1, p2

MCOwner == (p1 :> i1) @@ (p2 :> i2)

MCOwner1 == p1 :> i1

Symmetry == Permutations(Call)
=============================================================================
