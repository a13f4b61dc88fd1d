----------------------------- MODULE MCTraining -----------------------------
(***************************************************************************)
(* Instances of TrainingArms for TLC.                                      *)
(***************************************************************************)
EXTENDS TrainingProperties

CONSTANTS a1, a2

BothArms == <<a1, a2>>

AllOrSecond == {BothArms, <<a2>>}
=============================================================================
