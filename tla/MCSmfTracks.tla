---------------------------- MODULE MCSmfTracks ----------------------------
(* Songs of two tracks for TLC: the first may begin with a setup bar.      *)
EXTENDS SmfTracks

Ev(d, k)   == [delta |-> d, kind |-> k, tempo |-> 20]

Bar        == <<Ev(0, "gm"), Ev(0, "tempo"), Ev(0, "timesig")>>
Starts     == {<<>>, Bar, <<Ev(0, "sysex")>>}
Plain      == {Ev(d, k) : d \in {0, 1, 6}, k \in {"note", "tempo"}}
Bodies     == UNION {[1 .. n -> Plain] : n \in 0 .. 2}
Ends       == {<<>>, <<Ev(1, "eot")>>, <<Ev(0, "eot")>>, <<Ev(2, "cut")>>, <<Ev(1, "bad")>>}
ShortEnds  == {<<>>, <<Ev(1, "eot")>>}
First      == {s \o b \o e : s \in Starts, b \in Bodies, e \in Ends}
Second     == {b \o e : b \in {c \in Bodies : Len(c) < 2}, e \in ShortEnds}

\* A delta time that does not fit into the ticks of its track.
Long       == {<<Ev(1, "note"), Ev(U32 - 1, "note")>>}

\* Events of both tracks at the last tick that the search looks at.
Late       == {<<Ev(1, "note"), Ev(SearchLimit - 2, "note")>>}
Latest     == {<<Ev(SearchLimit - 1, "note"), Ev(0, "note")>>}

AllSongs   == {<<a, b>> : a \in First, b \in Second} \union {<<b>> : b \in Long}
              \union {<<a, b>> : a \in Late, b \in Latest}
                 \union {<<b, a>> : a \in Late, b \in Latest}
=============================================================================
