---------------------------- MODULE MCReplayable ----------------------------
(***************************************************************************)
(* The programs of MCReplay that meet the conditions under which a slice   *)
(* can be replayed.                                                        *)
(***************************************************************************)
EXTENDS MCReplay, ReplayInvariant

ASSUME ProgramIsReplayable == Replayable
=============================================================================
