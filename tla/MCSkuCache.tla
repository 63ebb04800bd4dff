----------------------------- MODULE MCSkuCache -----------------------------
(* Instances of SkuCache for TLC: one worker of each controller. *)
EXTENDS SkuCache

CONSTANTS machine, machineset, c1, c2, c3

Controllers == {machine, machineset}
ThreeCaches == {c1, c2, c3}
=============================================================================
