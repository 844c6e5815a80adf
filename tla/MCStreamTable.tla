---------------------------- MODULE MCStreamTable ----------------------------
(* Instances of StreamTable for TLC: a song of two tracks, and containers   *)
(* of one track with a collection of their own.                             *)
EXTENDS StreamTable, TLC

Song == [format |-> "smf", tracks |-> 2, dls |-> FALSE]
Container(format) == [format |-> format, tracks |-> 1, dls |-> TRUE]

MCFiles == {Song, Container("xmf"), Container("rmid")}
MCSymmetry == Permutations(Collections)
=============================================================================
