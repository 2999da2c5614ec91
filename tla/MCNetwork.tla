------------------------------ MODULE MCNetwork ------------------------------
(* Small instances of Network for TLC. *)
EXTENDS Network, TLC

Block(b, n) == [base |-> b, len |-> n]

(* A VPC of half the address space; subnets inside it, one of a single      *)
(* address and one with a single host address.                              *)
MCVpcCidrs    == {Block(0, 1)}
MCSubnetCidrs == {Block(0, Width - 1), Block(2, Width)}

MCSymmetry == Permutations(Vpc) \cup Permutations(Subnet) \cup Permutations(Inst)
                \cup Permutations(Req)

=============================================================================
