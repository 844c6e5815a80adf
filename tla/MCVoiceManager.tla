--------------------------- MODULE MCVoiceManager ---------------------------
(* Values for the constants of VoiceManager.                               *)
EXTENDS VoiceManager, TLC

MCKeyGroup == [r \in Regions |-> IF r = "drum" THEN 1 ELSE 0]
MCSymmetry == Permutations(Voices)
=============================================================================
