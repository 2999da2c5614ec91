--------------------------- MODULE MCLoadBalancer ---------------------------
(* Small instances of LoadBalancer for TLC. *)
EXTENDS LoadBalancer, TLC

CONSTANTS i1, i2, v1

MCVpcOf == [i \in Instance |-> IF i = i1 THEN v1 ELSE NoVpc]

MCSymmetry == Permutations(LB) \cup Permutations(Worker) \cup Permutations(Client)

=============================================================================
