---------------------------- MODULE MCPlacement ----------------------------
(***************************************************************************)
(* Slices for Placement: small ones in which every byte may be a hole, and *)
(* larger ones with two system calls and holes of whole instructions.      *)
(***************************************************************************)
EXTENDS Placement

MCShapes == { [lastPn |-> 3, sites |-> 1, grain |-> 1],
              [lastPn |-> 4, sites |-> 2, grain |-> 2] }
=============================================================================
