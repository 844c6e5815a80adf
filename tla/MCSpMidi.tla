------------------------------ MODULE MCSpMidi ------------------------------
(* Instances of SpMidi for TLC.                                            *)
EXTENDS SpMidi, TLC

MCSymmetry == Permutations(Voices)
MCView == <<voice, chan, pedal, poolCount, IF inForce = "all" THEN poolAlloc ELSE <<>>,
            spMidi, resetReq, limits, entries, inForce>>
=============================================================================
