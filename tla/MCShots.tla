------------------------------ MODULE MCShots ------------------------------
(***************************************************************************)
(* ShotStore for TLC: enough ids for every shot, so that the bound on them *)
(* never refuses one.                                                      *)
(***************************************************************************)
EXTENDS ShotStore

ASSUME EnoughIds == MaxShots <= MaxId
=============================================================================
