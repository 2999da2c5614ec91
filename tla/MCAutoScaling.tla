---------------------------- MODULE MCAutoScaling ----------------------------
(* Small instances of AutoScaling. *)
EXTENDS AutoScaling

CONSTANTS g1, w1, c1

MCGroup    == {g1}
MCInst     == 1..5
MCWorker   == {w1}
MCClient   == {c1}
MCSizes    == {1, 2}
=============================================================================
