------------------------------- MODULE MCQueue -------------------------------
(* Small instances of Queue for TLC. *)
EXTENDS Queue, TLC

CONSTANTS p1, p2

(* A clock that agrees with the database's beside one that is ahead of it,  *)
(* and one that is behind it.                                               *)
MCAhead  == [p \in Server |-> IF p = p1 THEN 1 ELSE 0]
MCBehind == [p \in Server |-> IF p = p1 THEN -1 ELSE 0]

MCLimits == {-1, 3}

MCSymmetry == Permutations(Msg)

=============================================================================
