------------------------------ MODULE MCRadio ------------------------------
(***************************************************************************)
(* RadioLinks for TLC: the slots by their enum names and numbers.          *)
(***************************************************************************)
EXTENDS RadioLinks

kMicra         == 0
kScaleEspresso == 1
kScaleBench    == 2

ASSUME EnumAssumption == Scales \subseteq {kScaleEspresso, kScaleBench}
                         /\ Slots \subseteq Scales \cup {kMicra}
=============================================================================
