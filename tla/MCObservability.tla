-------------------------- MODULE MCObservability --------------------------
(***************************************************************************)
(* Observability on small instances.  Naturals are bounded by the Budget.  *)
(***************************************************************************)
EXTENDS Observability, TLC

CONSTANTS p1, p2, r1, r2

MCSymmetry == Permutations(Pods) \union Permutations(Lanes)
=============================================================================
