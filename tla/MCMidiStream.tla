---------------------------- MODULE MCMidiStream ----------------------------
(* Bytes of every kind for TLC: notes on two channels, messages of one and  *)
(* two data bytes, system messages, and the data of the system exclusive   *)
(* messages the decoder knows.                                             *)
EXTENDS MidiStream

SomeBytes == {0, 1, 4, 9, 11, 126, 127,
              128, 145, 193, 240, 242, 247, 248}
=============================================================================
