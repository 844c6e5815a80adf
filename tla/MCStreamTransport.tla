------------------------- MODULE MCStreamTransport -------------------------
(* Instances of StreamTransport for TLC: short songs for its constants.    *)
EXTENDS StreamTransport, TLC

Note(t)     == [tick |-> t, kind |-> "note", tempo |-> 0]
Other(t)    == [tick |-> t, kind |-> "other", tempo |-> 0]
Bad(t)      == [tick |-> t, kind |-> "bad", tempo |-> 0]
Tempo(t, n) == [tick |-> t, kind |-> "other", tempo |-> n]

One  == [s \in Streams |-> <<Tempo(0, 2000), Note(0), Note(2), Other(5)>>]

\* One file cannot be read, the other one can.
Broken == (0 :> <<Bad(3)>>) @@ (1 :> <<Note(0), Note(3)>>)

\* The first event is not at the start of the file.
Late == [s \in Streams |-> <<Note(3), Other(5)>>]

MCRepeats == {0, 1, -1}

OnceOrForever == {1, -1}
=============================================================================
