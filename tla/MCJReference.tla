----------------------------- MODULE MCJReference -----------------------------
(* Instances of JReference. *)
EXTENDS JReference, TLC

CONSTANTS o1, o2, k1, l1

\* Two objects and a class.
MCKind == (o1 :> "object") @@ (o2 :> "object") @@ (k1 :> "class")

\* A final string, and an object to cast it to.
MCKindLazy == (o1 :> "object") @@ (k1 :> "class") @@ (l1 :> "lazy")

MCKindAll == MCKind @@ (l1 :> "lazy")

Symmetry == Permutations(Ref)

\* The two objects of MCKindAll are alike as well.
SymmetryAll == Symmetry \cup Permutations({o1, o2})
=============================================================================
