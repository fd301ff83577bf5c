------------------------------- MODULE MCBrew -------------------------------
(* Small instances of BrewController: what a rig can be.                   *)
EXTENDS BrewController

(* A rig without paddle hardware has no wiring to choose.                  *)
ASSUME RigAssumption == Wirings # {} /\ (~HasPaddle => Wirings = {"Cable"})
=============================================================================
