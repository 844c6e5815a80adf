---------------------------- MODULE MCJetSegments ----------------------------
(* Instances of JetSegments for TLC.                                       *)
EXTENDS JetSegments, TLC

Muting   == {{}, {"track"}}
None     == {{}}
=============================================================================
