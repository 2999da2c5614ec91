----------------------------- MODULE MCCompute -----------------------------
(* Small instances of Compute for TLC. *)
EXTENDS Compute, TLC

MCSymmetry == Permutations(Inst) \cup Permutations(Vol) \cup Permutations(Req)

=============================================================================
