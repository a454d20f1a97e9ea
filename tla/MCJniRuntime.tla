----------------------------- MODULE MCJniRuntime -----------------------------
(* Instances of JniRuntime. *)
EXTENDS JniRuntime, TLC

Symmetry == Permutations(Isolate) \cup Permutations(Thread)
=============================================================================
