---------------------------- MODULE MCAssetIntake ----------------------------
(* Small instances of AssetIntake: two processes whose loops have the one name
   that cookies-api gives them. *)
EXTENDS AssetIntake

CONSTANTS w1, w2, generatedIntake

OneName == [w \in Workers |-> generatedIntake]
=============================================================================
