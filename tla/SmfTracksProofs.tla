-------------------------- MODULE SmfTracksProofs --------------------------
(***************************************************************************)
(* Proofs about SmfTracks, for all songs, tempos and widths of integers.   *)
(***************************************************************************)
EXTENDS SmfTracks, WellFoundedInduction, FiniteSetTheorems, TLAPS

\* A set of natural numbers has a least one.
LEMMA LeastExists ==
    ASSUME NEW S, S \subseteq Nat, S # {}
    PROVE  \E x \in S : \A y \in S : x <= y
<1>1. \E x \in S : \A y \in S : ~ (<<y, x>> \in OpToRel(<, Nat))
  BY NatLessThanWellFounded, WFMin
<1>2. PICK x \in S : \A y \in S : ~ (<<y, x>> \in OpToRel(<, Nat))
  BY <1>1
<1>3. ASSUME NEW y \in S PROVE x <= y
  <2>1. ~ (<<y, x>> \in OpToRel(<, Nat))
    BY <1>2
  <2>2. ~ (y < x)
    BY <2>1 DEF OpToRel
  <2>. QED BY <2>2
<1>. QED BY <1>3

LEMMA MinIsLeast ==
    ASSUME NEW S, S \subseteq Nat, S # {}
    PROVE  Min(S) \in S /\ \A y \in S : Min(S) <= y
BY LeastExists DEF Min

\* The search finds the first of the tracks that are due the earliest, or 0 when
\* none is below the limit.
LEMMA EarliestFirst ==
    ASSUME NEW n \in Nat, NEW due \in [1 .. n -> Nat], NEW limit \in Nat
    PROVE  \/ Earliest(due, limit) = 0 /\ \A t \in 1 .. n : ~ (due[t] < limit)
           \/ /\ Earliest(due, limit) \in 1 .. n
              /\ due[Earliest(due, limit)] < limit
              /\ \A t \in 1 .. n : /\ due[Earliest(due, limit)] <= due[t]
                                   /\ due[Earliest(due, limit)] = due[t] => Earliest(due, limit) <= t
<1> DEFINE Seen  == {t \in 1 .. n : due[t] < limit}
           First == {t \in Seen : \A u \in Seen : due[t] <= due[u]}
<1>1. CASE Seen = {}
  BY <1>1 DEF Earliest
<1>2. CASE Seen # {}
  <2>1. Earliest(due, limit) = Min(First)
    BY <1>2 DEF Earliest
  <2>2. First # {}
    <3> DEFINE Ticks == {due[t] : t \in Seen}
    <3>1. PICK x \in Ticks : \A y \in Ticks : x <= y
      <4>1. Ticks \subseteq Nat /\ Ticks # {}
        BY <1>2
      <4>. HIDE DEF Ticks
      <4>. QED BY <4>1, LeastExists
    <3>2. PICK t \in Seen : x = due[t]
      OBVIOUS
    <3>3. t \in First
      BY <3>1, <3>2
    <3>. QED BY <3>3
  <2>3. Min(First) \in First /\ \A t \in First : Min(First) <= t
    <3>1. First \subseteq Nat
      OBVIOUS
    <3>. HIDE DEF First
    <3>. QED BY <2>2, <3>1, MinIsLeast
  <2>4. PICK m \in First : m = Min(First)
    BY <2>3
  <2>5. ASSUME NEW t \in 1 .. n PROVE due[m] <= due[t] /\ (due[m] = due[t] => m <= t)
    <3>1. CASE t \in Seen
      <4>1. due[m] <= due[t]
        BY <3>1
      <4>2. ASSUME due[m] = due[t] PROVE t \in First
        BY <3>1, <4>2
      <4>. QED BY <2>3, <2>4, <4>1, <4>2
    <3>2. CASE t \notin Seen
      BY <3>2
    <3>. QED BY <3>1, <3>2
  <2>. QED BY <2>1, <2>4, <2>5
<1>. QED BY <1>1, <1>2

\* Ticks take a natural time, and a tempo fits its field.
LEMMA WrapType == \A n \in Nat : Wrap(n) \in Nat
<1>1. U32 \in Nat \ {0}
  BY SmfAssumption
<1>. QED BY <1>1 DEF Wrap

LEMMA TickTimeType == ASSUME NEW t \in Nat, NEW conv \in Nat PROVE TickTime(t, conv) \in Nat
<1> DEFINE high == Wrap(Wrap((t \div ClockSplit) * conv) * (ClockSplit \div 4))
           low  == Wrap((t % ClockSplit) * conv) \div 4
<1>1. ClockSplit \in Nat \ {0}
  BY SmfAssumption
<1>2. \A a \in Nat : a \div 4 \in Nat
  OBVIOUS
<1>3. t \div ClockSplit \in Nat /\ t % ClockSplit \in Nat /\ ClockSplit \div 4 \in Nat
  BY <1>1
<1>4. \A a, b \in Nat : a * b \in Nat /\ a + b \in Nat
  OBVIOUS
<1>5. high \in Nat
  <2>1. Wrap((t \div ClockSplit) * conv) \in Nat
    BY <1>3, <1>4, WrapType
  <2>. QED BY <1>3, <1>4, <2>1, WrapType
<1>6. low \in Nat
  <2>1. Wrap((t % ClockSplit) * conv) \in Nat
    BY <1>3, <1>4, WrapType
  <2>. QED BY <1>2, <2>1
<1>7. TickTime(t, conv) = Wrap(high + low)
  BY DEF TickTime
<1>. HIDE DEF high, low
<1>. QED BY <1>4, <1>5, <1>6, <1>7, WrapType

\* The clock is always within its width.
LEMMA SignedType ==
    /\ \A n \in Int : Signed(n) \in Times
    /\ ClockLimit \in Nat /\ 0 \in Times /\ U32 = 2 * ClockLimit
    /\ \A n \in Times : n \in Int /\ n < ClockLimit
<1>1. U32 \in Nat \ {0} /\ U32 % 2 = 0
  BY SmfAssumption
<1>2. \A u \in Nat : u % 2 = 0 => u = 2 * (u \div 2) /\ u \div 2 \in Nat
  OBVIOUS
<1>3. U32 = 2 * ClockLimit /\ ClockLimit \in Nat
  BY <1>1, <1>2 DEF ClockLimit
<1>4. \A n \in Int : n % U32 \in 0 .. U32 - 1
  BY <1>1
<1>. QED BY <1>1, <1>3, <1>4 DEF Signed, Times, Wrap

LEMMA UpdateTimeType ==
    ASSUME time \in Times, NEW t \in Nat, NEW conv \in Nat
    PROVE  UpdateTime(t, conv) \in Times
<1>1. time + TickTime(t, conv) \in Int
  BY TickTimeType, SignedType
<1>. QED BY <1>1, SignedType DEF UpdateTime

LEMMA ConvMax == USHRT_MAX \in Nat
BY DEF USHRT_MAX

LEMMA DefaultConvType == DefaultConv \in 0 .. USHRT_MAX
<1>1. DefaultTempo \in Nat /\ ppqn \in Nat \ {0}
  BY SmfAssumption
<1>2. DefaultTempo * 1024 \in Nat
  BY <1>1
<1>3. \A a \in Nat : a \div ppqn \in Nat
  BY <1>1
<1>4. \A a \in Nat : (a + 500) \div 1000 \in Nat
  OBVIOUS
<1>5. \A a \in Nat : a % (USHRT_MAX + 1) \in 0 .. USHRT_MAX
  <2>1. \A a, b \in Nat : a % (b + 1) \in 0 .. b
    OBVIOUS
  <2>. QED BY <2>1, ConvMax
<1> DEFINE q == (((DefaultTempo * 1024) \div ppqn) + 500) \div 1000
<1>6. q \in Nat
  BY <1>2, <1>3, <1>4
<1>7. DefaultConv = q % (USHRT_MAX + 1)
  BY DEF DefaultConv
<1>. HIDE DEF q
<1>. QED BY <1>5, <1>6, <1>7

LEMMA TempoConvType == ASSUME NEW tempo \in Nat PROVE TempoConv(tempo) \in 0 .. USHRT_MAX
<1> DEFINE q == ((((tempo * 1024) % U32) \div ppqn) + 500) \div 1000
<1>1. U32 \in Nat \ {0} /\ ppqn \in Nat \ {0}
  BY SmfAssumption
<1>2. (tempo * 1024) % U32 \in Nat
  BY <1>1
<1>3. \A a \in Nat : a \div ppqn \in Nat
  BY <1>1
<1>4. ((tempo * 1024) % U32) \div ppqn \in Nat
  BY <1>2, <1>3
<1>5. \A a \in Nat : (a + 500) \div 1000 \in Nat
  OBVIOUS
<1>6. q \in Nat
  BY <1>4, <1>5
<1>. USHRT_MAX \in Nat
  BY ConvMax
<1>7. PICK a \in Nat : a = q
  BY <1>6
<1>8. TempoConv(tempo) = Min({a, USHRT_MAX})
  BY <1>7 DEF TempoConv
<1>9. Min({a, USHRT_MAX}) \in {a, USHRT_MAX} /\ \A y \in {a, USHRT_MAX} : Min({a, USHRT_MAX}) <= y
  <2>1. {a, USHRT_MAX} \subseteq Nat /\ {a, USHRT_MAX} # {}
    OBVIOUS
  <2>. QED BY <2>1, MinIsLeast
<1>10. PICK m \in {a, USHRT_MAX} : m = Min({a, USHRT_MAX})
  BY <1>9
<1>11. m \in Nat /\ m <= USHRT_MAX
  BY <1>9, <1>10
<1>. QED BY <1>8, <1>10, <1>11

-----------------------------------------------------------------------------
(* The inductive invariant: a track that is due has an event, and the      *)
(* parser is at a track that is due.                                       *)

DueHasEvent ==
    state \in {"READY", "PLAY"} =>
        \A t \in Tracks : ticks[t] = SMF_END_OF_TRACK \/ pos[t] < Len(song[t])

NextIsDue ==
    state \in {"READY", "PLAY"} /\ nextStream # 0 =>
        ticks[nextStream] < SMF_END_OF_TRACK

TracksHaveEvents == state # "OPEN" => \A t \in Tracks : HasDelta(t, 0)

OpenAtStart == state = "OPEN" => pos = [t \in Tracks |-> 0]

IInv ==
    /\ song \in Songs /\ TypeOK /\ NextIsEarliest /\ DueHasEvent /\ NextIsDue
    /\ TracksHaveEvents /\ OpenAtStart

\* What is known of a song.
LEMMA SongType ==
    ASSUME song \in Songs
    PROVE  /\ Len(song) \in Nat /\ Tracks = 1 .. Len(song)
           /\ \A t \in Tracks : song[t] \in Seq(Event) /\ Len(song[t]) \in Nat
           /\ \A t \in Tracks : \A k \in 1 .. Len(song[t]) : song[t][k] \in Event
<1>1. song \in Seq(Seq(Event))
  BY SmfAssumption
<1>2. Len(song) \in Nat /\ Tracks = 1 .. Len(song)
  BY <1>1 DEF Tracks
<1>3. \A t \in Tracks : song[t] \in Seq(Event)
  BY <1>1, <1>2
<1>. QED BY <1>2, <1>3

LEMMA LimitsType ==
    /\ U32 \in Nat \ {0} /\ SMF_END_OF_TRACK \in Nat
    /\ SearchLimit \in 0 .. SMF_END_OF_TRACK /\ StartLimit \in 0 .. SMF_END_OF_TRACK
BY SmfAssumption DEF SMF_END_OF_TRACK

\* The search for the next track, for times the C type has.
LEMMA SearchResult ==
    ASSUME song \in Songs, NEW due \in [Tracks -> 0 .. SMF_END_OF_TRACK],
           NEW limit \in 0 .. SMF_END_OF_TRACK
    PROVE  /\ Earliest(due, limit) \in 0 .. Len(song)
           /\ Earliest(due, limit) = 0 => \A t \in Tracks : ~ (due[t] < limit)
           /\ Earliest(due, limit) # 0 =>
                  /\ Earliest(due, limit) \in Tracks
                  /\ due[Earliest(due, limit)] < SMF_END_OF_TRACK
                  /\ \A t \in Tracks :
                       /\ due[Earliest(due, limit)] <= due[t]
                       /\ due[Earliest(due, limit)] = due[t] => Earliest(due, limit) <= t
<1>1. Len(song) \in Nat /\ Tracks = 1 .. Len(song)
  BY SongType
<1>2. due \in [1 .. Len(song) -> Nat] /\ limit \in Nat /\ limit <= SMF_END_OF_TRACK
  BY <1>1, LimitsType
<1>3. \/ Earliest(due, limit) = 0 /\ \A t \in 1 .. Len(song) : ~ (due[t] < limit)
      \/ /\ Earliest(due, limit) \in 1 .. Len(song)
         /\ due[Earliest(due, limit)] < limit
         /\ \A t \in 1 .. Len(song) :
              /\ due[Earliest(due, limit)] <= due[t]
              /\ due[Earliest(due, limit)] = due[t] => Earliest(due, limit) <= t
  BY <1>1, <1>2, EarliestFirst
<1>4. CASE Earliest(due, limit) = 0
  BY <1>1, <1>3, <1>4
<1>5. CASE Earliest(due, limit) # 0
  <2>1. Earliest(due, limit) \in Tracks /\ due[Earliest(due, limit)] < limit
    BY <1>1, <1>3, <1>5
  <2>2. due[Earliest(due, limit)] < SMF_END_OF_TRACK
    <3>1. due[Earliest(due, limit)] \in Nat
      BY <1>1, <1>2, <2>1
    <3>. QED BY <1>2, <2>1, <3>1, LimitsType
  <2>. QED BY <1>1, <1>3, <1>5, <2>1, <2>2
<1>. QED BY <1>4, <1>5

\* The step from one event to the next, the new times of the tracks given.
LEMMA NextEventInv ==
    ASSUME IInv, state \in {"READY", "PLAY"}, nextStream # 0,
           NEW due \in [Tracks -> 0 .. SMF_END_OF_TRACK], NEW f, NEW conv \in Nat,
           \A t \in Tracks : due[t] >= ticks[nextStream],
           \A t \in Tracks : due[t] = SMF_END_OF_TRACK \/ pos'[t] < Len(song[t]),
           NextEvent(due, f, conv), song' = song
    PROVE  /\ nextStream' \in 0 .. Len(song) /\ ticks' = due /\ time' \in Times
           /\ state' \in {"PLAY", "STOPPING"}
           /\ NextIsEarliest' /\ DueHasEvent' /\ NextIsDue'
<1>1. /\ song \in Songs /\ time \in Times
      /\ ticks' = due /\ nextStream' = Earliest(due, SearchLimit)
      /\ state' \in {"PLAY", "STOPPING"}
  BY DEF IInv, TypeOK, NextEvent
<1>2. /\ nextStream' \in 0 .. Len(song)
      /\ nextStream' # 0 =>
             /\ nextStream' \in Tracks
             /\ due[nextStream'] < SMF_END_OF_TRACK
             /\ \A t \in Tracks : due[nextStream'] <= due[t]
  BY <1>1, SearchResult, LimitsType
<1>3. Tracks' = Tracks
  BY DEF Tracks
<1>4. time' \in Times
  <2>1. CASE nextStream' = 0 \/ "chase" \in f
    BY <1>1, <2>1 DEF NextEvent
  <2>2. CASE nextStream' # 0 /\ "chase" \notin f
    <3>1. nextStream \in Tracks /\ ticks[nextStream] \in Nat
      <4>1. nextStream \in Tracks
        BY <1>1, SongType DEF IInv, TypeOK
      <4>. QED BY <4>1, LimitsType DEF IInv, TypeOK
    <3>2. due[nextStream'] \in Nat /\ due[nextStream'] >= ticks[nextStream]
      BY <1>2, <2>2, LimitsType
    <3>3. due[nextStream'] - ticks[nextStream] \in Nat
      BY <3>1, <3>2
    <3>4. UpdateTime(due[nextStream'] - ticks[nextStream], conv) \in Times
      BY <1>1, <3>3, UpdateTimeType
    <3>. QED BY <2>2, <3>4 DEF NextEvent
  <2>. QED BY <2>1, <2>2
<1>5. NextIsEarliest' /\ NextIsDue'
  BY <1>1, <1>2, <1>3 DEF NextIsEarliest, NextIsDue, SMF_END_OF_TRACK
<1>6. DueHasEvent'
  BY <1>1, <1>3 DEF DueHasEvent, SMF_END_OF_TRACK
<1>. QED BY <1>1, <1>2, <1>4, <1>5, <1>6

\* The end of a track, and the delta time behind n of its events.
LEMMA EndTrackInv ==
    ASSUME IInv, state \in {"READY", "PLAY"}, nextStream # 0,
           NEW f, NEW conv \in Nat,
           \A t \in Tracks : t # nextStream => pos'[t] = pos[t],
           EndTrack(f, conv), song' = song
    PROVE  /\ nextStream' \in 0 .. Len(song) /\ time' \in Times
           /\ ticks' \in [Tracks -> 0 .. U32 - 1]
           /\ state' \in {"PLAY", "STOPPING"}
           /\ NextIsEarliest' /\ DueHasEvent' /\ NextIsDue'
<1> DEFINE due == [ticks EXCEPT ![nextStream] = SMF_END_OF_TRACK]
<1>1. song \in Songs /\ nextStream \in Tracks
  BY SongType DEF IInv, TypeOK
<1>2. due \in [Tracks -> 0 .. SMF_END_OF_TRACK]
  BY <1>1, LimitsType DEF IInv, TypeOK, SMF_END_OF_TRACK
<1>3. \A t \in Tracks : due[t] >= ticks[nextStream]
  BY <1>1, LimitsType DEF IInv, TypeOK, NextIsEarliest, NextIsDue, SMF_END_OF_TRACK
<1>4. \A t \in Tracks : due[t] = SMF_END_OF_TRACK \/ pos'[t] < Len(song[t])
  BY <1>1 DEF IInv, TypeOK, DueHasEvent
<1>5. NextEvent(due, f, conv)
  BY DEF EndTrack
<1>. HIDE DEF due
<1>6. /\ nextStream' \in 0 .. Len(song) /\ ticks' = due /\ time' \in Times
      /\ state' \in {"PLAY", "STOPPING"}
      /\ NextIsEarliest' /\ DueHasEvent' /\ NextIsDue'
  BY <1>2, <1>3, <1>4, <1>5, NextEventInv
<1>. QED BY <1>2, <1>6 DEF SMF_END_OF_TRACK

LEMMA NextDeltaInv ==
    ASSUME IInv, state \in {"READY", "PLAY"}, nextStream # 0,
           NEW f, NEW conv \in Nat,
           pos' = [pos EXCEPT ![nextStream] = @ + 1],
           NextDelta(pos[nextStream] + 1, f, conv), song' = song
    PROVE  /\ nextStream' \in 0 .. Len(song) /\ time' \in Times
           /\ ticks' \in [Tracks -> 0 .. U32 - 1]
           /\ state' \in {"PLAY", "STOPPING", "ERROR"}
           /\ NextIsEarliest' /\ DueHasEvent' /\ NextIsDue'
<1>1. song \in Songs /\ nextStream \in Tracks /\ Tracks' = Tracks
  <2>1. song \in Songs /\ nextStream \in 0 .. Len(song)
    BY DEF IInv, TypeOK
  <2>2. nextStream \in Tracks
    BY <2>1, SongType
  <2>3. Tracks' = Tracks
    BY DEF Tracks
  <2>. QED BY <2>1, <2>2, <2>3
<1> DEFINE n     == pos[nextStream] + 1
           after == DeltaTime(nextStream, n, ticks[nextStream])
           due   == [ticks EXCEPT ![nextStream] = after]
<1>2. n \in Nat \ {0} /\ \A t \in Tracks : t # nextStream => pos'[t] = pos[t]
  BY <1>1 DEF IInv, TypeOK
<1>3. CASE ~HasDelta(nextStream, n) /\ EndTrack(f, conv)
  BY <1>2, <1>3, EndTrackInv
<1>4. CASE state' = "ERROR" /\ UNCHANGED <<nextStream, ticks, time>>
  BY <1>1, <1>4 DEF IInv, TypeOK, NextIsEarliest, DueHasEvent, NextIsDue
<1>5. ASSUME HasDelta(nextStream, n), DeltaFits(nextStream, n, ticks[nextStream])
      PROVE  /\ after \in 0 .. SMF_END_OF_TRACK /\ after >= ticks[nextStream]
             /\ pos'[nextStream] < Len(song[nextStream])
  <2>1. n + 1 \in 1 .. Len(song[nextStream]) /\ pos'[nextStream] = n
    BY <1>1, <1>2, <1>5, SongType DEF HasDelta, IInv, TypeOK
  <2>2. song[nextStream][n + 1].delta \in Nat
    BY <1>1, <2>1, SongType, LimitsType DEF Event
  <2>3. ticks[nextStream] \in Nat
    BY <1>1, LimitsType DEF IInv, TypeOK
  <2>4. after \in 0 .. SMF_END_OF_TRACK /\ after >= ticks[nextStream]
    BY <1>5, <2>2, <2>3, LimitsType DEF DeltaFits, DeltaTime
  <2>. QED BY <1>5, <2>1, <2>4 DEF HasDelta
<1>6. CASE /\ HasDelta(nextStream, n) /\ DeltaFits(nextStream, n, ticks[nextStream])
           /\ state' = "PLAY" /\ UNCHANGED <<nextStream, ticks, time>>
  BY <1>1, <1>2, <1>5, <1>6
     DEF IInv, TypeOK, NextIsEarliest, DueHasEvent, NextIsDue, SMF_END_OF_TRACK
<1>7. CASE /\ HasDelta(nextStream, n) /\ DeltaFits(nextStream, n, ticks[nextStream])
           /\ NextEvent(due, f, conv)
  <2>1. after \in 0 .. SMF_END_OF_TRACK /\ after >= ticks[nextStream]
        /\ pos'[nextStream] < Len(song[nextStream])
    BY <1>5, <1>7
  <2>. HIDE DEF after
  <2>2. due \in [Tracks -> 0 .. SMF_END_OF_TRACK]
    BY <1>1, <2>1, LimitsType DEF IInv, TypeOK, SMF_END_OF_TRACK
  <2>3. \A t \in Tracks : due[t] >= ticks[nextStream]
    BY <1>1, <2>1 DEF IInv, TypeOK, NextIsEarliest
  <2>4. \A t \in Tracks : due[t] = SMF_END_OF_TRACK \/ pos'[t] < Len(song[t])
    BY <1>1, <1>2, <2>1 DEF IInv, TypeOK, DueHasEvent
  <2>. HIDE DEF due
  <2>5. /\ nextStream' \in 0 .. Len(song) /\ ticks' = due /\ time' \in Times
        /\ state' \in {"PLAY", "STOPPING"}
        /\ NextIsEarliest' /\ DueHasEvent' /\ NextIsDue'
    BY <1>7, <2>2, <2>3, <2>4, NextEventInv
  <2>. QED BY <2>2, <2>5 DEF SMF_END_OF_TRACK
<1>. QED BY <1>3, <1>4, <1>6, <1>7 DEF NextDelta

\* One event of the next track.
LEMMA EventInv ==
    ASSUME IInv, SMF_Event
    PROVE  IInv'
<1>1. /\ state \in {"READY", "PLAY"} /\ nextStream # 0
      /\ song' = song /\ score' = score /\ pass' = pass /\ mode' = mode
  BY DEF SMF_Event
<1>2. song \in Songs /\ nextStream \in Tracks
  BY <1>1, SongType DEF IInv, TypeOK
<1>3. Tracks' = Tracks
  BY <1>1 DEF Tracks
<1> DEFINE e == song[nextStream][pos[nextStream] + 1]
<1>8. TracksHaveEvents' /\ (state' # "OPEN" => OpenAtStart')
  BY <1>1, <1>3 DEF IInv, TracksHaveEvents, OpenAtStart, HasDelta
<1>4. e \in Event /\ pos[nextStream] < Len(song[nextStream])
  <2>1. ticks[nextStream] \in Nat /\ ticks[nextStream] # SMF_END_OF_TRACK
    BY <1>1, <1>2, LimitsType DEF IInv, TypeOK, NextIsDue
  <2>2. pos[nextStream] < Len(song[nextStream]) /\ pos[nextStream] \in Nat
    BY <1>1, <1>2, <2>1 DEF IInv, TypeOK, DueHasEvent
  <2>. QED BY <1>2, <2>2, SongType
<1>5. CASE PlayEvent
  <2> DEFINE h == Heard(nextStream, e)
             f == Chase(flags \union SetupOf(e, h), h)
  <2>1. /\ midiFlags' = [midiFlags EXCEPT ![nextStream] = h]
        /\ flags' = f
        /\ pos' = [pos EXCEPT ![nextStream] = @ + 1]
        /\ tickConv' = IF e.kind = "tempo" THEN TempoConv(e.tempo) ELSE tickConv
        /\ \/ EndTrack(f, tickConv')
           \/ NextDelta(pos[nextStream] + 1, f, tickConv')
    BY <1>5 DEF PlayEvent
  <2>2. tickConv' \in 0 .. USHRT_MAX
    BY <1>4, <2>1, TempoConvType DEF IInv, TypeOK, Event
  <2>3. /\ flags' \subseteq SETUP_BAR \union {"chase"}
        /\ midiFlags' \in [Tracks -> SUBSET {"FIRST_NOTE", "GM_ON"}]
    <3>1. SetupOf(e, h) \subseteq SETUP_BAR
      BY DEF SetupOf, SETUP_BAR
    <3>2. flags' \subseteq SETUP_BAR \union {"chase"}
      BY <2>1, <3>1 DEF IInv, TypeOK, Chase
    <3>3. h \subseteq {"FIRST_NOTE", "GM_ON"}
      BY <1>2 DEF IInv, TypeOK, Heard
    <3>. QED BY <1>2, <2>1, <3>2, <3>3 DEF IInv, TypeOK
  <2>4. /\ nextStream' \in 0 .. Len(song) /\ time' \in Times
        /\ ticks' \in [Tracks -> 0 .. U32 - 1]
        /\ state' \in {"PLAY", "STOPPING", "ERROR"}
        /\ NextIsEarliest' /\ DueHasEvent' /\ NextIsDue'
    <3>1. tickConv' \in Nat /\ \A t \in Tracks : t # nextStream => pos'[t] = pos[t]
      BY <1>2, <2>1, <2>2, ConvMax DEF IInv, TypeOK
    <3>. HIDE DEF f
    <3>2. CASE EndTrack(f, tickConv')
      BY <1>1, <3>1, <3>2, EndTrackInv
    <3>3. CASE NextDelta(pos[nextStream] + 1, f, tickConv')
      BY <1>1, <2>1, <3>1, <3>3, NextDeltaInv
    <3>. QED BY <2>1, <3>2, <3>3
  <2>5. pos' \in [Tracks -> Nat]
    BY <1>2, <2>1 DEF IInv, TypeOK
  <2>. QED BY <1>1, <1>3, <1>8, <2>2, <2>3, <2>4, <2>5 DEF IInv, TypeOK
<1>6. CASE CutEvent
  <2>1. /\ pos' = [pos EXCEPT ![nextStream] = @ + 1]
        /\ EndTrack(flags, tickConv)
        /\ UNCHANGED <<midiFlags, flags, tickConv>>
    BY <1>6 DEF CutEvent
  <2>2. tickConv \in Nat /\ pos' \in [Tracks -> Nat]
        /\ \A t \in Tracks : t # nextStream => pos'[t] = pos[t]
    BY <1>2, <2>1, ConvMax DEF IInv, TypeOK
  <2>3. /\ nextStream' \in 0 .. Len(song) /\ time' \in Times
        /\ ticks' \in [Tracks -> 0 .. U32 - 1]
        /\ state' \in {"PLAY", "STOPPING"}
        /\ NextIsEarliest' /\ DueHasEvent' /\ NextIsDue'
    BY <1>1, <2>1, <2>2, EndTrackInv
  <2>. QED BY <1>1, <1>3, <1>8, <2>1, <2>2, <2>3 DEF IInv, TypeOK
<1>7. CASE BadEvent
  BY <1>1, <1>3, <1>7, <1>8
     DEF BadEvent, IInv, TypeOK, NextIsEarliest, DueHasEvent, NextIsDue
<1>. QED BY <1>5, <1>6, <1>7 DEF SMF_Event

\* The start of the tracks, by SMF_Prepare and SMF_Reset.
LEMMA StartInv ==
    ASSUME song \in Songs, \A t \in Tracks : HasDelta(t, 0),
           song' = song, ticks' = FirstTicks, pos' = [t \in Tracks |-> 0],
           nextStream' = Earliest(FirstTicks, StartLimit)
    PROVE  /\ nextStream' \in 0 .. Len(song)
           /\ FirstTicks \in [Tracks -> 0 .. SMF_END_OF_TRACK]
           /\ ticks' \in [Tracks -> 0 .. U32 - 1] /\ pos' \in [Tracks -> Nat]
           /\ nextStream' # 0 => nextStream' \in Tracks
           /\ NextIsEarliest' /\ DueHasEvent' /\ NextIsDue'
<1>1. \A t \in Tracks : Len(song[t]) \in Nat /\ 0 < Len(song[t])
  BY SongType DEF HasDelta
<1>2. FirstTicks \in [Tracks -> 0 .. SMF_END_OF_TRACK]
  <2>1. ASSUME NEW t \in Tracks PROVE song[t][1].delta \in 0 .. SMF_END_OF_TRACK
    <3>1. song[t][1] \in Event
      BY <1>1, SongType
    <3>. QED BY <3>1 DEF Event, SMF_END_OF_TRACK
  <2>. QED BY <2>1 DEF FirstTicks
<1>3. /\ nextStream' \in 0 .. Len(song)
      /\ nextStream' # 0 =>
             /\ nextStream' \in Tracks
             /\ FirstTicks[nextStream'] < SMF_END_OF_TRACK
             /\ \A t \in Tracks : FirstTicks[nextStream'] <= FirstTicks[t]
  BY <1>2, SearchResult, LimitsType
<1>4. Tracks' = Tracks
  BY DEF Tracks
<1>5. NextIsEarliest' /\ NextIsDue'
  BY <1>3, <1>4 DEF NextIsEarliest, NextIsDue, SMF_END_OF_TRACK
<1>6. DueHasEvent'
  BY <1>1, <1>4 DEF DueHasEvent
<1>. QED BY <1>2, <1>3, <1>5, <1>6 DEF SMF_END_OF_TRACK

-----------------------------------------------------------------------------
(* The theorems.                                                           *)

LEMMA InitInv == Init => IInv
<1> SUFFICES ASSUME Init PROVE IInv
  OBVIOUS
<1>1. song \in Songs /\ Len(song) \in Nat
  BY SongType DEF Init
<1>2. TypeOK
  <2>1. U32 \in Nat \ {0} /\ MaxPasses \in Nat /\ 0 \in 0 .. USHRT_MAX
    BY SmfAssumption, ConvMax
  <2>. QED BY <1>1, <2>1, SignedType DEF Init, TypeOK
<1>. QED BY <1>1, <1>2 DEF Init, IInv, NextIsEarliest, DueHasEvent, NextIsDue, TracksHaveEvents,
                        OpenAtStart

LEMMA StepInv == IInv /\ [Next]_vars => IInv'
<1> SUFFICES ASSUME IInv, [Next]_vars PROVE IInv'
  OBVIOUS
<1>1. song \in Songs
  BY DEF IInv, TypeOK
<1>2. CASE SMF_Prepare
  <2>1. /\ \A t \in Tracks : HasDelta(t, 0)
        /\ song' = song /\ ticks' = FirstTicks
        /\ nextStream' = Earliest(FirstTicks, StartLimit)
        /\ state' = "READY" /\ pass' = 1 /\ tickConv' = DefaultConv
        /\ UNCHANGED <<pos, midiFlags, mode, flags>>
    BY <1>2 DEF SMF_Prepare
  <2>2. pos' = [t \in Tracks |-> 0]
    BY <1>2, <2>1 DEF SMF_Prepare, IInv, OpenAtStart
  <2>3. /\ nextStream' \in 0 .. Len(song)
        /\ FirstTicks \in [Tracks -> 0 .. SMF_END_OF_TRACK]
        /\ ticks' \in [Tracks -> 0 .. U32 - 1] /\ pos' \in [Tracks -> Nat]
        /\ nextStream' # 0 => nextStream' \in Tracks
        /\ NextIsEarliest' /\ DueHasEvent' /\ NextIsDue'
    BY <1>1, <2>1, <2>2, StartInv
  <2>4. time' \in Times
    <3>1. CASE nextStream' = 0
      BY <1>2, <3>1 DEF SMF_Prepare, IInv, TypeOK
    <3>2. CASE nextStream' # 0
      <4>1. FirstTicks[nextStream'] \in Nat /\ DefaultConv \in Nat
        BY <2>3, <3>2, LimitsType, DefaultConvType, ConvMax
      <4>2. UpdateTime(FirstTicks[nextStream'], DefaultConv) \in Times
        BY <4>1, UpdateTimeType DEF IInv, TypeOK
      <4>. QED BY <1>2, <3>2, <4>2 DEF SMF_Prepare
    <3>. QED BY <3>1, <3>2
  <2>5. 1 \in 0 .. MaxPasses
    BY SmfAssumption
  <2>6. TracksHaveEvents' /\ OpenAtStart' /\ Tracks' = Tracks
    BY <2>1 DEF TracksHaveEvents, OpenAtStart, HasDelta, Tracks
  <2>. QED BY <2>1, <2>3, <2>4, <2>5, <2>6, DefaultConvType DEF IInv, TypeOK
<1>3. CASE SMF_Reset
  <2>1. /\ song' = song /\ ticks' = FirstTicks /\ pos' = [t \in Tracks |-> 0]
        /\ nextStream' = Earliest(FirstTicks, StartLimit)
        /\ state' = "READY" /\ time' = 0 /\ pass < MaxPasses /\ pass' = pass + 1
        /\ mode' \in {"play", "metadata"}
        /\ UNCHANGED <<midiFlags, tickConv, flags>>
        /\ state # "OPEN"
    BY <1>3 DEF SMF_Reset
  <2>2. \A t \in Tracks : HasDelta(t, 0)
    BY <2>1 DEF IInv, TracksHaveEvents
  <2>3. /\ nextStream' \in 0 .. Len(song)
        /\ ticks' \in [Tracks -> 0 .. U32 - 1] /\ pos' \in [Tracks -> Nat]
        /\ NextIsEarliest' /\ DueHasEvent' /\ NextIsDue'
    BY <1>1, <2>1, <2>2, StartInv
  <2>4. pass' \in 0 .. MaxPasses
    BY <2>1, SmfAssumption DEF IInv, TypeOK
  <2>5. TracksHaveEvents' /\ OpenAtStart' /\ Tracks' = Tracks
    BY <2>1, <2>2 DEF TracksHaveEvents, OpenAtStart, HasDelta, Tracks
  <2>. QED BY <2>1, <2>3, <2>4, <2>5, SignedType DEF IInv, TypeOK
<1>4. CASE SMF_State
  BY <1>4 DEF SMF_State, IInv, TypeOK, Tracks, NextIsEarliest, DueHasEvent, NextIsDue,
              TracksHaveEvents, OpenAtStart, HasDelta, Times
<1>5. CASE SMF_Event
  BY <1>5, EventInv
<1>6. CASE UNCHANGED vars
  BY <1>6 DEF vars, IInv, TypeOK, Tracks, NextIsEarliest, DueHasEvent, NextIsDue,
              TracksHaveEvents, OpenAtStart, HasDelta, SMF_END_OF_TRACK
<1>. QED BY <1>2, <1>3, <1>4, <1>5, <1>6 DEF Next

LEMMA AlwaysIInv == Spec => []IInv
BY InitInv, StepInv, PTL DEF Spec

\* The variables of the parser keep their types, for every file: no time of
\* a track, no tempo and no index leaves its range.
THEOREM TypeCorrect == Spec => []TypeOK
BY AlwaysIInv, PTL DEF IInv

\* SMF_Time always reports an event that no other track precedes.
THEOREM MergeIsTimely == Spec => []NextIsEarliest
BY AlwaysIInv, PTL DEF IInv

-----------------------------------------------------------------------------
(* The ticks of a song.                                                    *)

\* A set of naturals that has 0, and with each number below n the next, has all
\* up to n.
LEMMA UpTo ==
    ASSUME NEW n \in Nat, NEW S, 0 \in S, \A m \in 0 .. n - 1 : m \in S => m + 1 \in S
    PROVE  0 .. n \subseteq S
<1>. DEFINE T == (0 .. n) \ S
<1>. SUFFICES ASSUME T # {} PROVE FALSE
  OBVIOUS
<1>1. T \subseteq Nat
  OBVIOUS
<1>. HIDE DEF T
<1>2. PICK x \in T : \A y \in T : x <= y
  BY <1>1, LeastExists
<1>3. x \in 1 .. n /\ x - 1 \in 0 .. n - 1 /\ x - 1 \notin T
  BY <1>1, <1>2 DEF T
<1>4. x - 1 \in S /\ (x - 1) + 1 = x
  BY <1>3 DEF T
<1>5. x \in S
  BY <1>3, <1>4
<1>. QED BY <1>5 DEF T

\* The sums of the first elements of d.
Sums(f, n, d) == f = [i \in 0 .. n |-> IF i = 0 THEN 0 ELSE f[i - 1] + d[i]]

LEMMA SumExists ==
    ASSUME NEW n \in Nat, NEW d
    PROVE  \E f : Sums(f, n, d)
<1>. DEFINE Part(m) == \E f : f = [i \in 0 .. m |-> IF i = 0 THEN 0 ELSE f[i - 1] + d[i]]
            S == {m \in 0 .. n : Part(m)}
<1>1. Part(0)
  <2>. DEFINE f == [i \in 0 .. 0 |-> 0]
  <2>1. f = [i \in 0 .. 0 |-> IF i = 0 THEN 0 ELSE f[i - 1] + d[i]]
    OBVIOUS
  <2>. QED BY <2>1
<1>2. ASSUME NEW m \in 0 .. n - 1, Part(m)
      PROVE  Part(m + 1)
  <2>1. PICK f : f = [i \in 0 .. m |-> IF i = 0 THEN 0 ELSE f[i - 1] + d[i]]
    BY <1>2
  <2>. DEFINE g == [i \in 0 .. m + 1 |-> IF i \in 0 .. m THEN f[i] ELSE f[i - 1] + d[i]]
  <2>2. ASSUME NEW i \in 0 .. m + 1
        PROVE  g[i] = IF i = 0 THEN 0 ELSE g[i - 1] + d[i]
    <3>1. i # 0 => i - 1 \in 0 .. m /\ g[i - 1] = f[i - 1]
      OBVIOUS
    <3>2. CASE i \in 0 .. m
      <4>1. g[i] = f[i]
        BY <3>2
      <4>2. f[i] = IF i = 0 THEN 0 ELSE f[i - 1] + d[i]
        BY <2>1, <3>2
      <4>. QED BY <3>1, <4>1, <4>2
    <3>3. CASE i \notin 0 .. m
      <4>1. g[i] = f[i - 1] + d[i] /\ i # 0
        BY <3>3
      <4>. QED BY <3>1, <4>1
    <3>. QED BY <3>2, <3>3
  <2>3. g = [i \in 0 .. m + 1 |-> g[i]]
    OBVIOUS
  <2>. HIDE DEF g
  <2>4. g = [i \in 0 .. m + 1 |-> IF i = 0 THEN 0 ELSE g[i - 1] + d[i]]
    BY <2>2, <2>3
  <2>. QED BY <2>4
<1>. HIDE DEF Part
<1>3. 0 \in S
  BY <1>1
<1>4. ASSUME NEW m \in 0 .. n - 1, m \in S PROVE m + 1 \in S
  BY <1>2, <1>4
<1>5. 0 .. n \subseteq S
  <2>. HIDE DEF S
  <2>. QED BY <1>3, <1>4, UpTo
<1>6. Part(n)
  BY <1>5
<1>. QED BY <1>6 DEF Part, Sums

\* Shorter sums are the start of longer ones.
LEMMA SumStart ==
    ASSUME NEW d, NEW n \in Nat, NEW m \in 0 .. n, NEW f, NEW g, Sums(f, n, d), Sums(g, m, d)
    PROVE  g[m] = f[m]
<1>. DEFINE S == {k \in 0 .. m : g[k] = f[k]}
<1>1. \A k \in 0 .. n : f[k] = IF k = 0 THEN 0 ELSE f[k - 1] + d[k]
  BY DEF Sums
<1>2. \A k \in 0 .. m : g[k] = IF k = 0 THEN 0 ELSE g[k - 1] + d[k]
  BY DEF Sums
<1>3. 0 \in S
  BY <1>1, <1>2
<1>4. ASSUME NEW k \in 0 .. m - 1, k \in S PROVE k + 1 \in S
  <2>1. k + 1 \in 0 .. m /\ k + 1 \in 0 .. n /\ k + 1 # 0 /\ (k + 1) - 1 = k
    OBVIOUS
  <2>. QED BY <1>1, <1>2, <1>4, <2>1
<1>5. 0 .. m \subseteq S
  <2>. HIDE DEF S
  <2>. QED BY <1>3, <1>4, UpTo
<1>. QED BY <1>5

\* The tick of an event is that of the one before it and its delta time.
LEMMA TickStep ==
    ASSUME song \in Songs, NEW t \in Tracks
    PROVE  /\ Tick(<<t, 0>>) = 0
           /\ \A k \in 1 .. Len(song[t]) : Tick(<<t, k>>) = Tick(<<t, k - 1>>) + song[t][k].delta
<1>. DEFINE n == Len(song[t])
            d == [k \in 1 .. n |-> song[t][k].delta]
<1>1. n \in Nat
  BY SongType
<1>2. PICK f : Sums(f, n, d)
  <2>. HIDE DEF n, d
  <2>. QED BY Zenon, <1>1, SumExists
<1>3. \A k \in 0 .. n : f[k] = IF k = 0 THEN 0 ELSE f[k - 1] + d[k]
  BY <1>2 DEF Sums
<1>4. ASSUME NEW k \in 0 .. n PROVE Tick(<<t, k>>) = f[k]
  <2>. DEFINE at(g) == g = [i \in 0 .. k |-> IF i = 0 THEN 0 ELSE g[i - 1] + song[t][i].delta]
  <2>1. Tick(<<t, k>>) = (CHOOSE g : at(g))[k]
    BY DEF Tick
  <2>0. k \in Nat
    BY <1>1
  <2>2. PICK h : Sums(h, k, d)
    <3>. HIDE DEF n, d
    <3>. QED BY Zenon, SumExists, <2>0
  <2>3. at(h)
    <3>1. \A i \in 0 .. k : i # 0 => d[i] = song[t][i].delta
      BY <1>1
    <3>2. h = [i \in 0 .. k |-> IF i = 0 THEN 0 ELSE h[i - 1] + d[i]]
      BY <2>2 DEF Sums
    <3>. HIDE DEF d
    <3>. QED BY <3>1, <3>2
  <2>4. PICK g : at(g) /\ Tick(<<t, k>>) = g[k]
    BY <2>1, <2>3
  <2>5. Sums(g, k, d)
    <3>1. \A i \in 0 .. k : i # 0 => d[i] = song[t][i].delta
      BY <1>1
    <3>2. g = [i \in 0 .. k |-> IF i = 0 THEN 0 ELSE g[i - 1] + song[t][i].delta]
      BY <2>4
    <3>. HIDE DEF d
    <3>3. g = [i \in 0 .. k |-> IF i = 0 THEN 0 ELSE g[i - 1] + d[i]]
      BY <3>1, <3>2
    <3>. QED BY <3>3 DEF Sums
  <2>. HIDE DEF n, d
  <2>6. g[k] = f[k]
    BY <1>1, <1>2, <2>5, SumStart
  <2>. QED BY <2>4, <2>6
<1>5. ASSUME NEW k \in 1 .. n PROVE Tick(<<t, k>>) = Tick(<<t, k - 1>>) + song[t][k].delta
  <2>1. k \in 0 .. n /\ k - 1 \in 0 .. n /\ k # 0
    BY <1>1
  <2>2. d[k] = song[t][k].delta
    OBVIOUS
  <2>. HIDE DEF n, d
  <2>. QED BY <1>3, <1>4, <2>1, <2>2
<1>6. Tick(<<t, 0>>) = 0
  <2>1. 0 \in 0 .. n
    BY <1>1
  <2>. HIDE DEF n, d
  <2>. QED BY <1>3, <1>4, <2>1
<1>. QED BY <1>5, <1>6

\* Ticks are natural and grow along a track.
LEMMA TickType ==
    ASSUME song \in Songs, NEW t \in Tracks, NEW k \in 0 .. Len(song[t])
    PROVE  Tick(<<t, k>>) \in Nat
<1>. DEFINE n == Len(song[t])
            S == {j \in 0 .. n : Tick(<<t, j>>) \in Nat}
<1>1. n \in Nat /\ \A j \in 1 .. n : song[t][j].delta \in Nat
  BY SongType, LimitsType DEF Event
<1>2. 0 \in S
  BY <1>1, TickStep
<1>3. ASSUME NEW j \in 0 .. n - 1, j \in S PROVE j + 1 \in S
  <2>1. j + 1 \in 1 .. n /\ (j + 1) - 1 = j
    BY <1>1
  <2>2. Tick(<<t, j + 1>>) = Tick(<<t, j>>) + song[t][j + 1].delta
    BY <2>1, TickStep
  <2>. QED BY <1>1, <1>3, <2>1, <2>2
<1>4. 0 .. n \subseteq S
  <2>. HIDE DEF S, n
  <2>. QED BY <1>1, <1>2, <1>3, UpTo
<1>. QED BY <1>4

LEMMA TickGrows ==
    ASSUME song \in Songs, NEW t \in Tracks,
           NEW j \in 0 .. Len(song[t]), NEW k \in 0 .. Len(song[t]), j <= k
    PROVE  Tick(<<t, j>>) <= Tick(<<t, k>>)
<1>. DEFINE n == k - j
            S == {i \in 0 .. n : Tick(<<t, j>>) <= Tick(<<t, j + i>>)}
<1>1. n \in Nat /\ Len(song[t]) \in Nat
  BY SongType
<1>2. 0 \in S
  BY <1>1, TickType
<1>3. ASSUME NEW i \in 0 .. n - 1, i \in S PROVE i + 1 \in S
  <2>1. j + i + 1 \in 1 .. Len(song[t]) /\ (j + i + 1) - 1 = j + i /\ j + i \in 0 .. Len(song[t])
    BY <1>1
  <2>2. Tick(<<t, j + i + 1>>) = Tick(<<t, j + i>>) + song[t][j + i + 1].delta
    BY <2>1, TickStep
  <2>3. Tick(<<t, j>>) \in Nat /\ Tick(<<t, j + i>>) \in Nat /\ song[t][j + i + 1].delta \in Nat
    BY <2>1, TickType, SongType, LimitsType DEF Event
  <2>4. j + (i + 1) = j + i + 1 /\ i + 1 \in 0 .. n
    BY <1>1
  <2>. QED BY <1>3, <2>2, <2>3, <2>4
<1>4. n \in S
  <2>1. 0 .. n \subseteq S
    <3>. HIDE DEF S, n
    <3>. QED BY <1>1, <1>2, <1>3, UpTo
  <2>. QED BY <1>1, <2>1
<1>5. j + n = k
  OBVIOUS
<1>. QED BY <1>4, <1>5

-----------------------------------------------------------------------------
(* The score: the events of all tracks in one line.                        *)

\* What can be read of a track ends behind its end, and holds no end before.
LEMMA ReadableType ==
    ASSUME song \in Songs, NEW t \in Tracks
    PROVE  /\ Readable(t) \in 0 .. Len(song[t])
           /\ \A k \in 1 .. Len(song[t]) :
                song[t][k].kind \in {"eot", "cut"} /\ k <= Readable(t) => k = Readable(t)
           /\ Readable(t) # Len(song[t]) => song[t][Readable(t)].kind \in {"eot", "cut"}
           /\ Len(song[t]) > 0 => Readable(t) > 0
<1>. DEFINE Ends == {k \in DOMAIN song[t] : song[t][k].kind \in {"eot", "cut"}}
<1>1. Len(song[t]) \in Nat /\ DOMAIN song[t] = 1 .. Len(song[t])
  BY SongType
<1>2. Readable(t) = IF Ends = {} THEN Len(song[t]) ELSE Min(Ends)
  BY DEF Readable
<1>3. CASE Ends = {}
  BY <1>1, <1>2, <1>3
<1>4. CASE Ends # {}
  <2>1. Min(Ends) \in Ends /\ \A k \in Ends : Min(Ends) <= k
    <3>1. Ends \subseteq Nat
      BY <1>1
    <3>. HIDE DEF Ends
    <3>. QED BY <1>4, <3>1, MinIsLeast
  <2>2. PICK m \in Ends : m = Min(Ends)
    BY <2>1
  <2>3. Readable(t) = m /\ \A k \in Ends : m <= k
    BY <1>2, <1>4, <2>1, <2>2
  <2>4. m \in 1 .. Len(song[t]) /\ song[t][m].kind \in {"eot", "cut"}
    BY <1>1
  <2>5. ASSUME NEW k \in 1 .. Len(song[t]), song[t][k].kind \in {"eot", "cut"}, k <= m
        PROVE  k = m
    <3>1. k \in Ends
      BY <1>1, <2>5
    <3>. QED BY <1>1, <2>3, <2>4, <2>5, <3>1
  <2>. QED BY <1>1, <2>3, <2>4, <2>5
<1>. QED BY <1>3, <1>4

\* The elements of a finite set that is ordered by a relation, in their order.
InOrder(f, S, R) ==
    /\ Cardinality(S) \in Nat /\ f \in [1 .. Cardinality(S) -> S]
    /\ \A p \in S : \E i \in 1 .. Cardinality(S) : f[i] = p
    /\ \A i, j \in 1 .. Cardinality(S) : i < j => <<f[i], f[j]>> \in R

\* The place of an element is told by how many come before it.
LEMMA RankOrder ==
    ASSUME NEW S, IsFiniteSet(S), NEW R,
           \A p \in S : <<p, p>> \notin R,
           \A p, q, r \in S : <<p, q>> \in R /\ <<q, r>> \in R => <<p, r>> \in R,
           \A p, q \in S : p = q \/ <<p, q>> \in R \/ <<q, p>> \in R,
           NEW f, f = [i \in 1 .. Cardinality(S) |-> f[i]],
           \A i \in 1 .. Cardinality(S) :
                (\E p \in S : Cardinality({q \in S : <<q, p>> \in R}) = i - 1)
                    => f[i] \in S /\ Cardinality({q \in S : <<q, f[i]>> \in R}) = i - 1
    PROVE  InOrder(f, S, R)
<1>. DEFINE N == Cardinality(S)
            Below(p) == {q \in S : <<q, p>> \in R}
            rank == [p \in S |-> Cardinality(Below(p))]
<1>1. N \in Nat
  BY FS_CardinalityType
<1>. HIDE DEF N
<1>2. ASSUME NEW p \in S
      PROVE  /\ IsFiniteSet(Below(p)) /\ Cardinality(Below(p)) \in 0 .. N - 1
             /\ Cardinality(Below(p)) \in Nat /\ rank[p] = Cardinality(Below(p))
  <2>1. Below(p) \in SUBSET (S \ {p})
    OBVIOUS
  <2>2. IsFiniteSet(S \ {p}) /\ Cardinality(S \ {p}) = N - 1
    BY FS_RemoveElement DEF N
  <2>3. rank[p] = Cardinality(Below(p))
    OBVIOUS
  <2>. HIDE DEF Below, rank
  <2>4. IsFiniteSet(Below(p)) /\ Cardinality(Below(p)) <= Cardinality(S \ {p})
    BY <2>1, <2>2, FS_Subset
  <2>5. Cardinality(Below(p)) \in Nat
    BY <2>4, FS_CardinalityType
  <2>. QED BY <1>1, <2>2, <2>3, <2>4, <2>5
<1>3. ASSUME NEW p \in S, NEW q \in S, <<p, q>> \in R
      PROVE  rank[p] < rank[q]
  <2>1. p \in Below(q) /\ Below(p) \in SUBSET (Below(q) \ {p})
    BY <1>3
  <2>. HIDE DEF Below, rank
  <2>2. IsFiniteSet(Below(q)) /\ Cardinality(Below(q)) \in Nat /\ Cardinality(Below(p)) \in Nat
        /\ rank[p] = Cardinality(Below(p)) /\ rank[q] = Cardinality(Below(q))
    BY <1>2
  <2>3. IsFiniteSet(Below(q) \ {p}) /\ Cardinality(Below(q) \ {p}) = Cardinality(Below(q)) - 1
    BY <2>1, <2>2, FS_RemoveElement
  <2>4. Cardinality(Below(p)) <= Cardinality(Below(q) \ {p})
    BY <2>1, <2>3, FS_Subset
  <2>. QED BY <2>2, <2>3, <2>4
<1>4. rank \in Injection(S, 0 .. N - 1)
  <2>1. rank = [p \in S |-> rank[p]]
    OBVIOUS
  <2>. HIDE DEF Below, rank
  <2>2. rank \in [S -> 0 .. N - 1]
    BY <1>2, <2>1
  <2>3. ASSUME NEW p \in S, NEW q \in S, rank[p] = rank[q] PROVE p = q
    <3>1. rank[p] \in Nat /\ rank[q] \in Nat
      BY <1>2
    <3>2. ~ (rank[p] < rank[q]) /\ ~ (rank[q] < rank[p])
      BY <2>3, <3>1
    <3>. QED BY <1>3, <3>2
  <2>. QED BY <2>2, <2>3 DEF Injection, IsInjective
<1>5. rank \in Surjection(S, 0 .. N - 1)
  <2>1. IsFiniteSet(0 .. N - 1) /\ Cardinality(0 .. N - 1) = N
    <3>. DEFINE m == N - 1
    <3>1. 0 \in Int /\ m \in Int /\ (0 > m <=> N = 0) /\ m - 0 + 1 = N
      BY <1>1
    <3>. HIDE DEF m
    <3>2. IsFiniteSet(0 .. m) /\ Cardinality(0 .. m) = IF 0 > m THEN 0 ELSE m - 0 + 1
      BY <3>1, FS_Interval
    <3>3. IsFiniteSet(0 .. m) /\ Cardinality(0 .. m) = N
      BY <3>1, <3>2
    <3>. QED BY <3>3 DEF m
  <2>. HIDE DEF rank
  <2>. QED BY <1>4, <2>1, FS_Injection DEF N
<1>6. ASSUME NEW i \in 1 .. N PROVE f[i] \in S /\ rank[f[i]] = i - 1
  <2>1. i - 1 \in 0 .. N - 1
    BY <1>1
  <2>2. \E p \in S : rank[p] = i - 1
    <3>. HIDE DEF rank
    <3>. QED BY <1>5, <2>1 DEF Surjection
  <2>3. \E p \in S : Cardinality(Below(p)) = i - 1
    BY <2>2
  <2>4. f[i] \in S /\ Cardinality(Below(f[i])) = i - 1
    BY <2>3 DEF N
  <2>. QED BY <2>4
<1>7. f \in [1 .. N -> S]
  <2>. HIDE DEF rank
  <2>1. f = [i \in 1 .. N |-> f[i]]
    BY DEF N
  <2>. QED BY <1>6, <2>1
<1>. HIDE DEF rank
<1>8. ASSUME NEW p \in S PROVE \E i \in 1 .. N : f[i] = p
  <2>1. rank[p] \in 0 .. N - 1
    BY <1>4 DEF Injection
  <2>2. rank[p] + 1 \in 1 .. N /\ (rank[p] + 1) - 1 = rank[p]
    BY <1>1, <2>1
  <2>3. f[rank[p] + 1] \in S /\ rank[f[rank[p] + 1]] = rank[p]
    BY <1>6, <2>2
  <2>4. f[rank[p] + 1] = p
    BY <1>4, <2>3 DEF Injection, IsInjective
  <2>. QED BY <2>2, <2>4
<1>9. ASSUME NEW i \in 1 .. N, NEW j \in 1 .. N, i < j PROVE <<f[i], f[j]>> \in R
  <2>1. f[i] \in S /\ f[j] \in S /\ rank[f[i]] = i - 1 /\ rank[f[j]] = j - 1
    BY <1>6
  <2>2. f[i] # f[j] /\ ~ (rank[f[j]] < rank[f[i]])
    BY <1>1, <1>9, <2>1
  <2>. QED BY <1>3, <2>1, <2>2
<1>. QED BY <1>1, <1>7, <1>8, <1>9 DEF InOrder, N

\* There are finitely many places, each of a track and an event of it.
LEMMA PlacesType ==
    ASSUME song \in Songs
    PROVE  /\ IsFiniteSet(Places)
           /\ \A p \in Places : /\ p[1] \in Tracks /\ p[2] \in 1 .. Readable(p[1])
                                /\ p[2] \in 1 .. Len(song[p[1]])
                                /\ p = <<p[1], p[2]>> /\ Tick(p) \in Nat
           /\ \A t \in Tracks : \A k \in 1 .. Readable(t) : <<t, k>> \in Places
<1>1. Len(song) \in Nat /\ Tracks = 1 .. Len(song)
  BY SongType
<1>. DEFINE Of(t) == {t} \X (1 .. Readable(t))
            Parts == {Of(t) : t \in Tracks}
            of == [t \in Tracks |-> Of(t)]
<1>2. \A t \in Tracks : Readable(t) \in Nat /\ Len(song[t]) \in Nat /\ Readable(t) <= Len(song[t])
  BY ReadableType, SongType
<1>3. IsFiniteSet(Parts)
  <2>1. IsFiniteSet(Tracks)
    BY <1>1, FS_Interval
  <2>2. of \in Surjection(Tracks, Parts)
    <3>1. of \in [Tracks -> Parts]
      OBVIOUS
    <3>2. \A T \in Parts : \E t \in Tracks : of[t] = T
      OBVIOUS
    <3>. HIDE DEF of, Parts
    <3>. QED BY <3>1, <3>2 DEF Surjection
  <2>. HIDE DEF of, Parts
  <2>. QED BY <2>1, <2>2, FS_Surjection
<1>4. ASSUME NEW T \in Parts PROVE IsFiniteSet(T)
  <2>1. PICK t \in Tracks : T = {t} \X (1 .. Readable(t))
    OBVIOUS
  <2>2. IsFiniteSet({t}) /\ IsFiniteSet(1 .. Readable(t))
    <3>1. IsFiniteSet({t})
      BY FS_Singleton
    <3>2. 1 \in Int /\ Readable(t) \in Int
      BY <1>2
    <3>. QED BY <3>1, <3>2, FS_Interval
  <2>. QED BY <2>1, <2>2, FS_Product
<1>5. Places = UNION Parts
  BY DEF Places
<1>6. IsFiniteSet(Places)
  <2>. HIDE DEF Parts
  <2>. QED BY <1>3, <1>4, <1>5, FS_UNION
<1>7. ASSUME NEW p \in Places
      PROVE  /\ p[1] \in Tracks /\ p[2] \in 1 .. Readable(p[1])
             /\ p[2] \in 1 .. Len(song[p[1]])
             /\ p = <<p[1], p[2]>> /\ Tick(p) \in Nat
  <2>1. PICK t \in Tracks : p \in {t} \X (1 .. Readable(t))
    BY DEF Places
  <2>2. p[1] = t /\ p[2] \in 1 .. Readable(t) /\ p = <<p[1], p[2]>>
    BY <2>1
  <2>3. p[2] \in 1 .. Len(song[t]) /\ p[2] \in 0 .. Len(song[t])
    BY <1>2, <2>2
  <2>4. Tick(<<t, p[2]>>) \in Nat
    BY <2>3, TickType
  <2>. QED BY <2>2, <2>3, <2>4
<1>8. ASSUME NEW t \in Tracks, NEW k \in 1 .. Readable(t) PROVE <<t, k>> \in Places
  BY DEF Places
<1>. QED BY <1>6, <1>7, <1>8

\* The score has every event once, in the order of the ticks, the tracks and
\* the file.
Orders == {pq \in Places \X Places : Before(pq[1], pq[2])}

LEMMA ScoreOrder ==
    ASSUME song \in Songs
    PROVE  InOrder(Score, Places, Orders)
<1>1. \A p, q \in Places : <<p, q>> \in Orders <=> Before(p, q)
  BY DEF Orders
<1>2. /\ \A p \in Places : p[1] \in Nat /\ p[2] \in Nat /\ Tick(p) \in Nat /\ p = <<p[1], p[2]>>
  BY PlacesType, SongType, ReadableType
<1>3. \A p \in Places : <<p, p>> \notin Orders
  BY <1>1, <1>2 DEF Before
<1>4. ASSUME NEW p \in Places, NEW q \in Places, NEW r \in Places,
             <<p, q>> \in Orders, <<q, r>> \in Orders
      PROVE  <<p, r>> \in Orders
  BY <1>1, <1>2, <1>4 DEF Before
<1>5. ASSUME NEW p \in Places, NEW q \in Places
      PROVE  p = q \/ <<p, q>> \in Orders \/ <<q, p>> \in Orders
  <2>1. CASE p[1] = q[1] /\ p[2] = q[2]
    BY <1>2, <2>1
  <2>2. CASE p[1] # q[1] \/ p[2] # q[2]
    BY <1>1, <1>2, <2>2 DEF Before
  <2>. QED BY <2>1, <2>2
<1>6. IsFiniteSet(Places)
  BY PlacesType
<1>7. \A p \in Places : {q \in Places : Before(q, p)} = {q \in Places : <<q, p>> \in Orders}
  BY <1>1
<1>8. ASSUME NEW i \in 1 .. Cardinality(Places),
             \E p \in Places : Cardinality({q \in Places : <<q, p>> \in Orders}) = i - 1
      PROVE  /\ Score[i] \in Places
             /\ Cardinality({q \in Places : <<q, Score[i]>> \in Orders}) = i - 1
  <2>. DEFINE B(p) == {q \in Places : Before(q, p)}
  <2>1. \E p \in Places : Cardinality(B(p)) = i - 1
    BY <1>7, <1>8
  <2>2. Score[i] = CHOOSE p \in Places : Cardinality(B(p)) = i - 1
    BY DEF Score
  <2>. HIDE DEF B
  <2>3. Score[i] \in Places /\ Cardinality(B(Score[i])) = i - 1
    BY <2>1, <2>2
  <2>4. B(Score[i]) = {q \in Places : <<q, Score[i]>> \in Orders}
    BY <1>7, <2>3 DEF B
  <2>. QED BY <2>3, <2>4
<1>9. Score = [i \in 1 .. Cardinality(Places) |-> Score[i]]
  BY DEF Score
<1>. QED
  <2>. DEFINE f == Score
  <2>1. f = [i \in 1 .. Cardinality(Places) |-> f[i]]
    BY <1>9
  <2>2. \A i \in 1 .. Cardinality(Places) :
          (\E p \in Places : Cardinality({q \in Places : <<q, p>> \in Orders}) = i - 1)
             => f[i] \in Places /\ Cardinality({q \in Places : <<q, f[i]>> \in Orders}) = i - 1
    BY <1>8
  <2>. HIDE DEF f
  <2>3. InOrder(f, Places, Orders)
    BY <1>3, <1>4, <1>5, <1>6, <2>1, <2>2, RankOrder
  <2>. QED BY <2>3 DEF f

-----------------------------------------------------------------------------
(* What is left of the score, when so many events of each track were read. *)

LeftOf(sc, q) ==
    LET Rest == {i \in DOMAIN sc : sc[i][2] > q[sc[i][1]]}
    IN  [k \in 1 .. Cardinality(Rest) |->
            sc[CHOOSE i \in Rest : Cardinality({j \in Rest : j < i}) = k - 1]]

\* The events that were read come before those that were not.
Split(q) ==
    /\ \A t \in Tracks : q[t] \in 0 .. Readable(t)
    /\ \A p1, p2 \in Places : ~ (p1[2] > q[p1[1]]) /\ p2[2] > q[p2[1]] => Before(p1, p2)

N == Cardinality(Places)
Suffix(n) == [k \in 1 .. N - n |-> Score[n + k]]
ReadTo(q, n) == \A i \in 1 .. N : Score[i][2] > q[Score[i][1]] <=> i > n

LEMMA ScoreType ==
    ASSUME song \in Songs
    PROVE  /\ N \in Nat /\ Score \in [1 .. N -> Places]
           /\ \A p \in Places : \E i \in 1 .. N : Score[i] = p
           /\ \A i, j \in 1 .. N : i < j => Before(Score[i], Score[j])
           /\ \A i, j \in 1 .. N : Score[i] = Score[j] => i = j
<1>1. /\ N \in Nat /\ Score \in [1 .. N -> Places]
      /\ \A p \in Places : \E i \in 1 .. N : Score[i] = p
      /\ \A i, j \in 1 .. N : i < j => <<Score[i], Score[j]>> \in Orders
  BY ScoreOrder DEF InOrder, N
<1>2. ASSUME NEW i \in 1 .. N, NEW j \in 1 .. N, i < j PROVE Before(Score[i], Score[j])
  BY <1>1, <1>2 DEF Orders
<1>3. ASSUME NEW i \in 1 .. N, NEW j \in 1 .. N, Score[i] = Score[j] PROVE i = j
  <2>1. ~ Before(Score[i], Score[i])
    <3>1. Score[i] \in Places
      BY <1>1
    <3>2. Score[i][1] \in Nat /\ Score[i][2] \in Nat /\ Tick(Score[i]) \in Nat
      BY <3>1, PlacesType, SongType, ReadableType
    <3>. QED BY <3>2 DEF Before
  <2>. QED BY <1>1, <1>2, <1>3, <2>1
<1>. QED BY <1>1, <1>2, <1>3

\* The events read are the first of the score.
LEMMA ReadIsPrefix ==
    ASSUME song \in Songs, NEW q, Split(q)
    PROVE  \E n \in 0 .. N : ReadTo(q, n)
<1>. DEFINE Rest == {i \in 1 .. N : Score[i][2] > q[Score[i][1]]}
<1>1. N \in Nat /\ \A i \in 1 .. N : Score[i] \in Places
  BY ScoreType
<1>2. CASE Rest = {}
  BY <1>1, <1>2 DEF ReadTo
<1>3. CASE Rest # {}
  <2>1. PICK m \in Rest : \A i \in Rest : m <= i
    <3>1. Rest \subseteq Nat
      OBVIOUS
    <3>. HIDE DEF Rest
    <3>. QED BY <1>3, <3>1, LeastExists
  <2>2. ASSUME NEW i \in 1 .. N, i >= m PROVE Score[i][2] > q[Score[i][1]]
    <3>. SUFFICES ASSUME ~ (Score[i][2] > q[Score[i][1]]) PROVE FALSE
      OBVIOUS
    <3>1. Before(Score[i], Score[m])
      BY <1>1 DEF Split
    <3>2. m < i
      BY <1>1, <2>2
    <3>3. Before(Score[m], Score[i])
      BY <3>2, ScoreType
    <3>4. \A p \in {Score[i], Score[m]} : p[1] \in Nat /\ p[2] \in Nat /\ Tick(p) \in Nat
      BY <1>1, PlacesType, SongType, ReadableType
    <3>. QED BY <3>1, <3>3, <3>4 DEF Before
  <2>3. m - 1 \in 0 .. N /\ ReadTo(q, m - 1)
    <3>1. m \in 1 .. N
      OBVIOUS
    <3>2. ASSUME NEW i \in 1 .. N, i < m PROVE ~ (Score[i][2] > q[Score[i][1]])
      BY <1>1, <2>1, <3>2
    <3>. QED BY <1>1, <2>2, <3>1, <3>2 DEF ReadTo
  <2>. QED BY <2>3
<1>. QED BY <1>2, <1>3

\* What is left is a suffix of the score.
LEMMA LeftIsSuffix ==
    ASSUME song \in Songs, NEW q, NEW n \in 0 .. N, ReadTo(q, n)
    PROVE  LeftOf(Score, q) = Suffix(n)
<1>. DEFINE Rest == {i \in DOMAIN Score : Score[i][2] > q[Score[i][1]]}
            at(k) == CHOOSE i \in Rest : Cardinality({j \in Rest : j < i}) = k - 1
<1>1. N \in Nat /\ DOMAIN Score = 1 .. N
  BY ScoreType
<1>2. Rest = n + 1 .. N
  BY <1>1 DEF ReadTo
<1>3. LeftOf(Score, q) = [k \in 1 .. Cardinality(Rest) |-> Score[at(k)]]
  BY DEF LeftOf
<1>. HIDE DEF Rest
<1>4. ASSUME NEW a \in Int, NEW b \in Int, a <= b + 1
      PROVE  IsFiniteSet(a .. b) /\ Cardinality(a .. b) = b - a + 1
  <2>1. IsFiniteSet(a .. b) /\ Cardinality(a .. b) = IF a > b THEN 0 ELSE b - a + 1
    BY FS_Interval
  <2>. QED BY <1>4, <2>1
<1>5. Cardinality(Rest) = N - n
  <2>1. n + 1 \in Int /\ N \in Int /\ n + 1 <= N + 1 /\ N - (n + 1) + 1 = N - n
    BY <1>1
  <2>. QED BY <1>2, <1>4, <2>1
<1>6. ASSUME NEW i \in Rest PROVE Cardinality({j \in Rest : j < i}) = i - n - 1
  <2>1. i \in n + 1 .. N
    BY <1>2
  <2>2. {j \in Rest : j < i} = n + 1 .. i - 1
    BY <1>1, <1>2, <2>1
  <2>3. n + 1 \in Int /\ i - 1 \in Int /\ n + 1 <= (i - 1) + 1 /\ (i - 1) - (n + 1) + 1 = i - n - 1
    BY <1>1, <2>1
  <2>. QED BY <1>4, <2>2, <2>3
<1>7. ASSUME NEW k \in 1 .. N - n PROVE at(k) = n + k
  <2>1. n + k \in Rest /\ (n + k) - n - 1 = k - 1
    BY <1>1, <1>2
  <2>2. Cardinality({j \in Rest : j < n + k}) = k - 1
    BY <1>6, <2>1
  <2>3. at(k) \in Rest /\ Cardinality({j \in Rest : j < at(k)}) = k - 1
    BY <2>1, <2>2
  <2>. HIDE DEF at
  <2>4. at(k) - n - 1 = k - 1 /\ at(k) \in Int
    BY <1>1, <1>2, <1>6, <2>3
  <2>. QED BY <2>4
<1>. HIDE DEF at
<1>. QED BY <1>3, <1>5, <1>7 DEF Suffix

\* Nothing is left when all tracks were read.
LEMMA LeftEmpty ==
    ASSUME song \in Songs, NEW q, Split(q)
    PROVE  LeftOf(Score, q) = <<>> <=> \A t \in Tracks : q[t] = Readable(t)
<1>1. PICK n \in 0 .. N : ReadTo(q, n)
  BY ReadIsPrefix
<1>2. LeftOf(Score, q) = Suffix(n)
  BY <1>1, LeftIsSuffix
<1>3. Suffix(n) = <<>> <=> n = N
  BY ScoreType DEF Suffix
<1>4. ASSUME n # N PROVE \E t \in Tracks : q[t] # Readable(t)
  <2>1. n + 1 \in 1 .. N /\ n + 1 > n
    BY <1>4, ScoreType
  <2>2. Score[n + 1] \in Places /\ Score[n + 1][2] > q[Score[n + 1][1]]
    BY <1>1, <2>1, ScoreType DEF ReadTo
  <2>3. PICK p \in Places : p[2] > q[p[1]]
    BY <2>2
  <2>4. p[1] \in Tracks /\ p[2] \in 1 .. Readable(p[1])
    BY PlacesType
  <2>5. Readable(p[1]) \in Nat
    BY <2>4, ReadableType
  <2>. QED BY <2>3, <2>4, <2>5
<1>5. ASSUME NEW t \in Tracks, q[t] # Readable(t) PROVE n # N
  <2>1. Readable(t) \in Nat /\ q[t] \in 0 .. Readable(t)
    BY ReadableType DEF Split
  <2>2. q[t] + 1 \in 1 .. Readable(t)
    BY <1>5, <2>1
  <2>3. <<t, q[t] + 1>> \in Places
    BY <2>2, PlacesType
  <2>4. PICK i \in 1 .. N : Score[i] = <<t, q[t] + 1>>
    BY <2>3, ScoreType
  <2>5. Score[i][2] > q[Score[i][1]]
    BY <2>1, <2>4
  <2>. QED BY <1>1, <2>5, ScoreType DEF ReadTo
<1>. QED BY <1>2, <1>3, <1>4, <1>5

\* Reading the first event that is left takes it off.
LEMMA LeftTail ==
    ASSUME song \in Songs, NEW q, Split(q), NEW r, Split(r), NEW t \in Tracks,
           q \in [Tracks -> Nat], r = [q EXCEPT ![t] = @ + 1]
    PROVE  LeftOf(Score, q) # <<>> /\ LeftOf(Score, r) = Tail(LeftOf(Score, q))
<1>1. PICK n \in 0 .. N : ReadTo(q, n)
  BY ReadIsPrefix
<1>2. PICK m \in 0 .. N : ReadTo(r, m)
  BY ReadIsPrefix
<1>3. N \in Nat
  BY ScoreType
<1>4. \A p \in Places : /\ p[1] \in Tracks /\ p[2] \in Nat
                        /\ p[2] > r[p[1]] <=> p[2] > q[p[1]] /\ p # <<t, q[t] + 1>>
  <2>1. ASSUME NEW p \in Places
        PROVE  /\ p[1] \in Tracks /\ p[2] \in Nat
               /\ p[2] > r[p[1]] <=> p[2] > q[p[1]] /\ p # <<t, q[t] + 1>>
    <3>1. p[1] \in Tracks /\ p[2] \in Nat /\ p = <<p[1], p[2]>>
      BY PlacesType, ReadableType
    <3>2. CASE p[1] = t
      <4>1. r[p[1]] = q[t] + 1 /\ q[t] \in Nat
        BY <3>2
      <4>2. p = <<t, q[t] + 1>> <=> p[2] = q[t] + 1
        BY <3>1, <3>2
      <4>. QED BY <3>1, <3>2, <4>1, <4>2
    <3>3. CASE p[1] # t
      <4>1. r[p[1]] = q[p[1]] /\ p # <<t, q[t] + 1>>
        BY <3>1, <3>3
      <4>. QED BY <3>1, <4>1
    <3>. QED BY <3>2, <3>3
  <2>. QED BY <2>1
<1>5. PICK i \in 1 .. N : Score[i] = <<t, q[t] + 1>>
  <2>1. r[t] = q[t] + 1 /\ r[t] \in 0 .. Readable(t) /\ q[t] \in Nat /\ Readable(t) \in Nat
    BY ReadableType DEF Split
  <2>2. <<t, q[t] + 1>> \in Places
    BY <2>1, PlacesType
  <2>. QED BY <2>2, ScoreType
<1>6. \A j \in 1 .. N : j > m <=> j > n /\ j # i
  <2>1. ASSUME NEW j \in 1 .. N PROVE j > m <=> j > n /\ j # i
    <3>1. Score[j] \in Places /\ (Score[j] = Score[i] <=> j = i)
      BY ScoreType
    <3>2. Score[j][2] > r[Score[j][1]] <=> Score[j][2] > q[Score[j][1]] /\ Score[j] # Score[i]
      BY <1>4, <1>5, <3>1
    <3>3. j > m <=> Score[j][2] > r[Score[j][1]]
      BY <1>2 DEF ReadTo
    <3>4. j > n <=> Score[j][2] > q[Score[j][1]]
      BY <1>1 DEF ReadTo
    <3>. QED BY <3>1, <3>2, <3>3, <3>4
  <2>. QED BY <2>1
<1>7. i > n
  <2>1. Score[i][2] > q[Score[i][1]]
    BY <1>5
  <2>. QED BY <1>1, <2>1 DEF ReadTo
<1>8. m = n + 1 /\ n + 1 <= N
  <2>1. n + 1 \in 1 .. N
    BY <1>3, <1>7
  <2>2. i = n + 1
    <3>. SUFFICES ASSUME i # n + 1 PROVE FALSE
      OBVIOUS
    <3>1. n + 1 > m
      BY <1>3, <1>6, <2>1
    <3>2. i > m
      BY <1>3, <1>7, <3>1
    <3>. QED BY <1>6, <3>2
  <2>3. ~ (n + 1 > m)
    BY <1>6, <2>1, <2>2
  <2>4. n + 2 \in 1 .. N => n + 2 > m
    BY <1>3, <1>6, <2>2
  <2>. QED BY <1>3, <2>1, <2>3, <2>4
<1>9. LeftOf(Score, q) = Suffix(n) /\ LeftOf(Score, r) = Suffix(n + 1)
  BY <1>1, <1>2, <1>8, LeftIsSuffix
<1>10. Suffix(n) # <<>> /\ Suffix(n + 1) = Tail(Suffix(n))
  <2>1. Suffix(n) \in Seq(Places) /\ Len(Suffix(n)) = N - n
    <3>1. \A k \in 1 .. N - n : Score[n + k] \in Places
      BY <1>3, ScoreType
    <3>2. N - n \in Nat
      BY <1>3
    <3>. QED BY <3>1, <3>2 DEF Suffix
  <2>2. Tail(Suffix(n)) = [k \in 1 .. (N - n) - 1 |-> Suffix(n)[k + 1]]
    <3>. DEFINE w == Suffix(n)
    <3>1. w \in Seq(Places) /\ w # <<>> /\ Len(w) = N - n
      BY <1>3, <1>8, <2>1
    <3>. HIDE DEF w
    <3>2. Tail(w) = [k \in 1 .. Len(w) - 1 |-> w[k + 1]]
      <4>1. /\ Tail(w) \in Seq(Places) /\ Len(Tail(w)) = Len(w) - 1
            /\ \A k \in 1 .. Len(w) - 1 : Tail(w)[k] = w[k + 1]
        BY <3>1
      <4>2. ASSUME NEW v \in Seq(Places) PROVE v = [k \in 1 .. Len(v) |-> v[k]]
        OBVIOUS
      <4>3. Tail(w) = [k \in 1 .. Len(w) - 1 |-> Tail(w)[k]]
        BY <4>1, <4>2
      <4>. QED BY <4>1, <4>3
    <3>. QED BY <3>1, <3>2 DEF w
  <2>3. (N - n) - 1 = N - (n + 1)
    BY <1>3
  <2>4. \A k \in 1 .. N - (n + 1) : Suffix(n)[k + 1] = Score[(n + 1) + k]
    <3>1. ASSUME NEW k \in 1 .. N - (n + 1) PROVE Suffix(n)[k + 1] = Score[(n + 1) + k]
      <4>1. k + 1 \in 1 .. N - n /\ n + (k + 1) = (n + 1) + k
        BY <1>3, <1>8
      <4>. QED BY <4>1 DEF Suffix
    <3>. QED BY <3>1
  <2>5. Suffix(n + 1) = [k \in 1 .. N - (n + 1) |-> Score[(n + 1) + k]]
    BY DEF Suffix
  <2>6. Suffix(n + 1) = Tail(Suffix(n))
    BY <2>2, <2>3, <2>4, <2>5
  <2>. QED BY <1>3, <1>8, <2>1, <2>6
<1>. QED BY <1>9, <1>10

-----------------------------------------------------------------------------
(* The score is that of the file, which does not change.                   *)

TickIn(sg, p) == LET at[k \in 0 .. p[2]] == IF k = 0 THEN 0 ELSE at[k - 1] + sg[p[1]][k].delta
                 IN  at[p[2]]
ReadableIn(sg, t) ==
    LET Ends == {k \in DOMAIN sg[t] : sg[t][k].kind \in {"eot", "cut"}}
    IN  IF Ends = {} THEN Len(sg[t]) ELSE Min(Ends)
BeforeIn(sg, p, q) ==
    \/ TickIn(sg, p) < TickIn(sg, q)
    \/ TickIn(sg, p) = TickIn(sg, q) /\ p[1] < q[1]
    \/ TickIn(sg, p) = TickIn(sg, q) /\ p[1] = q[1] /\ p[2] < q[2]
PlacesIn(sg) == UNION {{t} \X (1 .. ReadableIn(sg, t)) : t \in DOMAIN sg}
ScoreIn(sg) == [i \in 1 .. Cardinality(PlacesIn(sg)) |->
    CHOOSE p \in PlacesIn(sg) : Cardinality({q \in PlacesIn(sg) : BeforeIn(sg, q, p)}) = i - 1]

LEMMA SongKept ==
    ASSUME song' = song
    PROVE  /\ Tracks' = Tracks /\ Places' = Places /\ Score' = Score
           /\ \A t : Readable(t)' = Readable(t)
           /\ \A p : Tick(p)' = Tick(p)
           /\ \A p, q : Before(p, q)' <=> Before(p, q)
<1>1. Score = ScoreIn(song) /\ Score' = ScoreIn(song')
  BY DEF Score, ScoreIn, Places, PlacesIn, Before, BeforeIn, Tick, TickIn, Readable, ReadableIn, Tracks
<1>2. Places = PlacesIn(song) /\ Places' = PlacesIn(song')
  BY DEF Places, PlacesIn, Readable, ReadableIn, Tracks
<1>3. \A t : Readable(t) = ReadableIn(song, t) /\ Readable(t)' = ReadableIn(song', t)
  BY DEF Readable, ReadableIn
<1>4. \A p : Tick(p) = TickIn(song, p) /\ Tick(p)' = TickIn(song', p)
  BY DEF Tick, TickIn
<1>5. \A p, q : Before(p, q)' <=> Before(p, q)
  BY <1>4 DEF Before
<1>6. Tracks' = Tracks
  BY DEF Tracks
<1>. QED BY <1>1, <1>2, <1>3, <1>4, <1>5, <1>6

-----------------------------------------------------------------------------
(* The parser is in the score: where it has read to, and that the track it *)
(* is at has the next event.                                               *)

\* No event of the file is due at a tick that fits into 32 bits and that the
\* search for the next track does not look at.
InTime == \A p \in Places : Tick(p) < U32 => Tick(p) < SearchLimit /\ Tick(p) < StartLimit

\* The time of the next event of a track that has n events behind it.
DueAt(t, n) == IF n < Readable(t) THEN Tick(<<t, n + 1>>) ELSE SMF_END_OF_TRACK

NextIsFirst ==
    IF nextStream = 0 THEN \A t \in Tracks : pos[t] = Readable(t)
    ELSE \A t \in Tracks : /\ ticks[nextStream] <= ticks[t]
                           /\ ticks[nextStream] = ticks[t] => nextStream <= t

OrderInv ==
    /\ score = Score /\ Split(pos)
    /\ state \in {"READY", "PLAY"} =>
         NextIsFirst /\ \A t \in Tracks : ticks[t] = DueAt(t, pos[t])
    /\ state \in {"STOPPING", "STOPPED"} => \A t \in Tracks : pos[t] = Readable(t)

\* A track that has no event left is not due, and one that has is seen.
LEMMA DueSeen ==
    ASSUME song \in Songs, InTime, NEW t \in Tracks, NEW n \in 0 .. Readable(t),
           NEW limit \in {SearchLimit, StartLimit}, DueAt(t, n) \in 0 .. SMF_END_OF_TRACK
    PROVE  DueAt(t, n) < limit <=> n < Readable(t)
<1>1. Readable(t) \in Nat /\ U32 - 1 = SMF_END_OF_TRACK
  BY ReadableType DEF SMF_END_OF_TRACK
<1>2. CASE n < Readable(t)
  <2>1. <<t, n + 1>> \in Places
    BY <1>1, <1>2, PlacesType
  <2>2. Tick(<<t, n + 1>>) < U32
    BY <1>1, <1>2, LimitsType DEF DueAt
  <2>. QED BY <1>2, <2>1, <2>2 DEF InTime, DueAt
<1>3. CASE ~ (n < Readable(t))
  BY <1>3, LimitsType DEF DueAt
<1>. QED BY <1>2, <1>3

\* The search finds the track of the first event that is left, if there is one.
LEMMA SearchInOrder ==
    ASSUME song \in Songs, InTime, NEW q, \A t \in Tracks : q[t] \in 0 .. Readable(t),
           NEW due \in [Tracks -> 0 .. SMF_END_OF_TRACK], \A t \in Tracks : due[t] = DueAt(t, q[t]),
           NEW limit \in {SearchLimit, StartLimit}, NEW x, x = Earliest(due, limit)
    PROVE  IF x = 0 THEN \A t \in Tracks : q[t] = Readable(t)
           ELSE /\ x \in Tracks /\ q[x] # Readable(x)
                /\ \A t \in Tracks : due[x] <= due[t] /\ (due[x] = due[t] => x <= t)
<1>1. limit \in 0 .. SMF_END_OF_TRACK
  BY LimitsType
<1>2. /\ x = 0 => \A t \in Tracks : ~ (due[t] < limit)
      /\ x # 0 => /\ x \in Tracks /\ due[x] < SMF_END_OF_TRACK
                  /\ \A t \in Tracks : due[x] <= due[t] /\ (due[x] = due[t] => x <= t)
  BY <1>1, SearchResult
<1>3. \A t \in Tracks : due[t] < limit <=> q[t] < Readable(t)
  <2>1. ASSUME NEW t \in Tracks PROVE due[t] < limit <=> q[t] < Readable(t)
    <3>1. q[t] \in 0 .. Readable(t) /\ due[t] = DueAt(t, q[t]) /\ due[t] \in 0 .. SMF_END_OF_TRACK
      OBVIOUS
    <3>. QED BY <3>1, DueSeen
  <2>. QED BY <2>1
<1>4. CASE x = 0
  BY <1>2, <1>3, <1>4, ReadableType
<1>5. CASE x # 0
  <2>1. x \in Tracks /\ due[x] = DueAt(x, q[x]) /\ due[x] # SMF_END_OF_TRACK
    BY <1>2, <1>5, LimitsType
  <2>2. q[x] # Readable(x)
    BY <2>1, ReadableType DEF DueAt
  <2>. QED BY <1>2, <1>5, <2>2
<1>. QED BY <1>4, <1>5

\* The next event of the track the parser is at comes before all that are left.
LEMMA NextComesFirst ==
    ASSUME IInv, InTime, OrderInv, state \in {"READY", "PLAY"}, nextStream # 0
    PROVE  /\ nextStream \in Tracks /\ pos[nextStream] < Readable(nextStream)
           /\ <<nextStream, pos[nextStream] + 1>> \in Places
           /\ ticks[nextStream] = Tick(<<nextStream, pos[nextStream] + 1>>)
           /\ \A q \in Places : q[2] > pos[q[1]] /\ q # <<nextStream, pos[nextStream] + 1>>
                  => Before(<<nextStream, pos[nextStream] + 1>>, q)
<1>. DEFINE t == nextStream
            p == <<t, pos[t] + 1>>
<1>1. song \in Songs /\ t \in Tracks /\ ticks[t] \in Nat /\ ticks[t] # SMF_END_OF_TRACK
  <2>1. song \in Songs /\ t \in Tracks
    BY SongType DEF IInv, TypeOK
  <2>2. ticks[t] \in Nat /\ ticks[t] # SMF_END_OF_TRACK
    BY <2>1, LimitsType DEF IInv, TypeOK, NextIsDue
  <2>. QED BY <2>1, <2>2
<1>2. \A u \in Tracks : pos[u] \in 0 .. Readable(u) /\ Readable(u) \in Nat /\ ticks[u] = DueAt(u, pos[u])
  BY <1>1, ReadableType DEF OrderInv, Split
<1>3. pos[t] < Readable(t) /\ ticks[t] = Tick(p)
  BY <1>1, <1>2 DEF DueAt
<1>4. p \in Places
  BY <1>1, <1>2, <1>3, PlacesType
<1>5. ASSUME NEW q \in Places, q[2] > pos[q[1]], q # p PROVE Before(p, q)
  <2>. DEFINE u == q[1]
  <2>1. u \in Tracks /\ q = <<u, q[2]>> /\ q[2] \in 1 .. Readable(u) /\ Tick(q) \in Nat
    BY <1>1, PlacesType
  <2>2. pos[u] < Readable(u) /\ pos[u] + 1 <= q[2]
    BY <1>2, <1>5, <2>1
  <2>3. ticks[u] = Tick(<<u, pos[u] + 1>>)
    BY <1>2, <2>1, <2>2 DEF DueAt
  <2>4. Tick(<<u, pos[u] + 1>>) <= Tick(q)
    <3>1. Readable(u) \in 0 .. Len(song[u]) /\ Len(song[u]) \in Nat
      BY <1>1, <2>1, ReadableType, SongType
    <3>2. pos[u] + 1 \in 0 .. Len(song[u]) /\ q[2] \in 0 .. Len(song[u])
      BY <1>2, <2>1, <2>2, <3>1
    <3>3. Tick(<<u, pos[u] + 1>>) <= Tick(<<u, q[2]>>)
      BY <1>1, <2>1, <2>2, <3>2, TickGrows
    <3>. QED BY <2>1, <3>3
  <2>5. ticks[t] <= ticks[u] /\ (ticks[t] = ticks[u] => t <= u)
    BY <1>1, <2>1 DEF OrderInv, NextIsFirst
  <2>6. ticks[u] \in Nat /\ t \in Nat /\ u \in Nat
    BY <1>1, <2>1, LimitsType, SongType DEF IInv, TypeOK
  <2>7. CASE u = t
    <3>1. pos[t] + 1 < q[2]
      BY <1>2, <1>5, <2>1, <2>2, <2>7
    <3>. QED BY <1>3, <2>1, <2>3, <2>4, <2>6, <2>7, <3>1 DEF Before
  <2>8. CASE u # t
    <3>1. \/ Tick(p) < Tick(q)
          \/ Tick(p) = Tick(q) /\ t < u
      BY <1>1, <1>3, <2>1, <2>3, <2>4, <2>5, <2>6, <2>8
    <3>. QED BY <3>1 DEF Before
  <2>. QED BY <2>7, <2>8
<1>. QED BY <1>1, <1>3, <1>4, <1>5

LEMMA OrderPrime ==
    ASSUME song' = song, score' = score, score = Score, Split(pos'),
           state' \in {"READY", "PLAY"} =>
             /\ IF nextStream' = 0 THEN \A t \in Tracks : pos'[t] = Readable(t)
                ELSE \A t \in Tracks : /\ ticks'[nextStream'] <= ticks'[t]
                                       /\ ticks'[nextStream'] = ticks'[t] => nextStream' <= t
             /\ \A t \in Tracks : ticks'[t] = DueAt(t, pos'[t]),
           state' \in {"STOPPING", "STOPPED"} => \A t \in Tracks : pos'[t] = Readable(t)
    PROVE  OrderInv'
<1>1. /\ Tracks' = Tracks /\ Places' = Places /\ Score' = Score
      /\ \A t : Readable(t)' = Readable(t)
      /\ \A p : Tick(p)' = Tick(p)
      /\ \A p, q : Before(p, q)' <=> Before(p, q)
  BY SongKept
<1>2. Split(pos)'
  BY <1>1 DEF Split
<1>3. \A t : DueAt(t, pos[t])' = DueAt(t, pos'[t])
  BY <1>1 DEF DueAt, SMF_END_OF_TRACK
<1>4. state' \in {"READY", "PLAY"} => NextIsFirst'
  BY <1>1 DEF NextIsFirst
<1>. QED BY <1>1, <1>2, <1>3, <1>4 DEF OrderInv

\* One event is read from the track the parser is at.
LEMMA ReadOne ==
    ASSUME IInv, InTime, OrderInv, state \in {"READY", "PLAY"}, nextStream # 0,
           pos' = [pos EXCEPT ![nextStream] = @ + 1], song' = song, score' = score
    PROVE  /\ Split(pos') /\ Left # <<>> /\ Left' = Tail(Left)
           /\ Left' = <<>> <=> \A t \in Tracks : pos'[t] = Readable(t)
<1>. DEFINE t == nextStream
            p == <<t, pos[t] + 1>>
<1>1. song \in Songs /\ pos \in [Tracks -> Nat] /\ Split(pos) /\ score = Score
  BY DEF IInv, TypeOK, OrderInv
<1>2. /\ t \in Tracks /\ pos[t] < Readable(t) /\ p \in Places
      /\ \A q \in Places : q[2] > pos[q[1]] /\ q # p => Before(p, q)
  BY NextComesFirst
<1>3. pos'[t] = pos[t] + 1 /\ \A u \in Tracks : u # t => pos'[u] = pos[u]
  BY <1>1, <1>2
<1>4. \A u \in Tracks : pos'[u] \in 0 .. Readable(u)
  <2>1. ASSUME NEW u \in Tracks PROVE pos'[u] \in 0 .. Readable(u)
    <3>1. pos[u] \in 0 .. Readable(u) /\ Readable(u) \in Nat
      BY <1>1, ReadableType DEF Split
    <3>. QED BY <1>2, <1>3, <3>1
  <2>. QED BY <2>1
<1>5. ASSUME NEW a \in Places, NEW b \in Places, ~ (a[2] > pos'[a[1]]), b[2] > pos'[b[1]]
      PROVE  Before(a, b)
  <2>1. /\ a[1] \in Tracks /\ a[2] \in Nat /\ a = <<a[1], a[2]>>
        /\ b[1] \in Tracks /\ b[2] \in Nat /\ b = <<b[1], b[2]>>
    BY <1>1, PlacesType, ReadableType
  <2>2. pos[a[1]] \in Nat /\ pos[b[1]] \in Nat
    BY <1>1, <2>1
  <2>3. b[2] > pos[b[1]] /\ b # p
    <3>1. CASE b[1] = t
      BY <1>3, <1>5, <2>1, <2>2, <3>1
    <3>2. CASE b[1] # t
      BY <1>3, <1>5, <2>1, <2>2, <3>2
    <3>. QED BY <3>1, <3>2
  <2>4. ~ (a[2] > pos[a[1]]) \/ a = p
    <3>1. CASE a[1] = t
      BY <1>3, <1>5, <2>1, <2>2, <3>1
    <3>2. CASE a[1] # t
      BY <1>3, <1>5, <2>1, <2>2, <3>2
    <3>. QED BY <3>1, <3>2
  <2>5. CASE a = p
    BY <1>2, <2>3, <2>5
  <2>6. CASE ~ (a[2] > pos[a[1]])
    BY <1>1, <2>3, <2>6 DEF Split
  <2>. QED BY <2>4, <2>5, <2>6
<1>6. Split(pos')
  BY <1>4, <1>5 DEF Split
<1>7. Left = LeftOf(Score, pos) /\ Left' = LeftOf(Score, pos')
  <2>1. Left = LeftOf(score, pos) /\ Left' = LeftOf(score', pos')
    BY DEF Left, LeftOf
  <2>. QED BY <1>1, <2>1
<1>8. Left # <<>> /\ Left' = Tail(Left)
  <2>. DEFINE q == pos
              r == pos'
  <2>1. Split(q) /\ Split(r) /\ q \in [Tracks -> Nat] /\ r = [q EXCEPT ![t] = @ + 1]
    BY <1>1, <1>6
  <2>. HIDE DEF q, r, t
  <2>2. LeftOf(Score, q) # <<>> /\ LeftOf(Score, r) = Tail(LeftOf(Score, q))
    BY <1>1, <1>2, <2>1, LeftTail
  <2>. QED BY <1>7, <2>2 DEF q, r
<1>9. Left' = <<>> <=> \A u \in Tracks : pos'[u] = Readable(u)
  <2>. DEFINE r == pos'
  <2>1. Split(r)
    BY <1>6
  <2>. HIDE DEF r
  <2>2. LeftOf(Score, r) = <<>> <=> \A u \in Tracks : r[u] = Readable(u)
    BY <1>1, <2>1, LeftEmpty
  <2>. QED BY <1>7, <2>2 DEF r
<1>. QED BY <1>6, <1>8, <1>9

\* After it the parser finds the next one, or the song is over.
Over == state \in {"STOPPING", "STOPPED"}

LEMMA FindsNext ==
    ASSUME song \in Songs, InTime, song' = song, score' = score, score = Score, Split(pos'),
           NEW due \in [Tracks -> 0 .. SMF_END_OF_TRACK], \A t \in Tracks : due[t] = DueAt(t, pos'[t]),
           NEW f, NEW conv, NextEvent(due, f, conv)
    PROVE  OrderInv' /\ (Over' <=> \A t \in Tracks : pos'[t] = Readable(t))
<1>1. /\ ticks' = due /\ nextStream' = Earliest(due, SearchLimit)
      /\ state' = IF nextStream' = 0 THEN "STOPPING" ELSE "PLAY"
  BY DEF NextEvent
<1>2. IF nextStream' = 0 THEN \A t \in Tracks : pos'[t] = Readable(t)
      ELSE /\ nextStream' \in Tracks /\ pos'[nextStream'] # Readable(nextStream')
           /\ \A t \in Tracks : /\ due[nextStream'] <= due[t]
                                /\ due[nextStream'] = due[t] => nextStream' <= t
  <2>. DEFINE q == pos'
              x == nextStream'
  <2>1. /\ \A t \in Tracks : q[t] \in 0 .. Readable(t) /\ due[t] = DueAt(t, q[t])
        /\ x = Earliest(due, SearchLimit)
    BY <1>1 DEF Split
  <2>. HIDE DEF q, x
  <2>2. IF x = 0 THEN \A t \in Tracks : q[t] = Readable(t)
        ELSE /\ x \in Tracks /\ q[x] # Readable(x)
             /\ \A t \in Tracks : due[x] <= due[t] /\ (due[x] = due[t] => x <= t)
    BY <2>1, SearchInOrder
  <2>. QED BY <2>2 DEF q, x
<1>3. Over' <=> \A t \in Tracks : pos'[t] = Readable(t)
  BY <1>1, <1>2 DEF Over
<1>4. OrderInv'
  BY <1>1, <1>2, OrderPrime
<1>. QED BY <1>3, <1>4

\* An event that is read: the parser is still in the score, and says that the
\* song is over with the last one.
Plays == Left # <<>> /\ Left' = Tail(Left) /\ (Over' <=> Left' = <<>>)

LEMMA EndTrackOrder ==
    ASSUME IInv, InTime, OrderInv, state \in {"READY", "PLAY"}, nextStream # 0,
           pos' = [pos EXCEPT ![nextStream] = @ + 1], song' = song, score' = score,
           pos[nextStream] + 1 = Readable(nextStream),
           NEW f, NEW conv, EndTrack(f, conv)
    PROVE  OrderInv' /\ Plays
<1>. DEFINE due == [ticks EXCEPT ![nextStream] = SMF_END_OF_TRACK]
<1>1. /\ song \in Songs /\ pos \in [Tracks -> Nat] /\ ticks \in [Tracks -> 0 .. SMF_END_OF_TRACK]
      /\ score = Score /\ nextStream \in Tracks /\ SMF_END_OF_TRACK \in Nat
  BY NextComesFirst, LimitsType DEF IInv, TypeOK, OrderInv, SMF_END_OF_TRACK
<1>2. /\ Split(pos') /\ Left # <<>> /\ Left' = Tail(Left)
      /\ Left' = <<>> <=> \A t \in Tracks : pos'[t] = Readable(t)
  BY ReadOne
<1>3. due \in [Tracks -> 0 .. SMF_END_OF_TRACK]
  BY <1>1
<1>4. \A t \in Tracks : due[t] = DueAt(t, pos'[t])
  <2>1. ASSUME NEW t \in Tracks PROVE due[t] = DueAt(t, pos'[t])
    <3>1. CASE t = nextStream
      <4>1. pos'[t] = Readable(t) /\ Readable(t) \in Nat /\ due[t] = SMF_END_OF_TRACK
        BY <1>1, <3>1, ReadableType
      <4>. QED BY <4>1 DEF DueAt
    <3>2. CASE t # nextStream
      <4>1. pos'[t] = pos[t] /\ due[t] = ticks[t] /\ ticks[t] = DueAt(t, pos[t])
        BY <1>1, <3>2 DEF OrderInv
      <4>. QED BY <4>1
    <3>. QED BY <3>1, <3>2
  <2>. QED BY <2>1
<1>5. NextEvent(due, f, conv)
  BY DEF EndTrack
<1>. HIDE DEF due
<1>6. OrderInv' /\ (Over' <=> \A t \in Tracks : pos'[t] = Readable(t))
  BY <1>1, <1>2, <1>3, <1>4, <1>5, FindsNext
<1>. QED BY <1>2, <1>6 DEF Plays

LEMMA NextDeltaOrder ==
    ASSUME IInv, InTime, OrderInv, state \in {"READY", "PLAY"}, nextStream # 0,
           pos' = [pos EXCEPT ![nextStream] = @ + 1], song' = song, score' = score,
           song[nextStream][pos[nextStream] + 1].kind \notin {"eot", "cut"},
           NEW f, NEW conv, NextDelta(pos[nextStream] + 1, f, conv)
    PROVE  OrderInv' /\ Plays
<1>. DEFINE t == nextStream
            n == pos[t] + 1
            after == DeltaTime(t, n, ticks[t])
            due == [ticks EXCEPT ![t] = after]
<1>1. /\ song \in Songs /\ pos \in [Tracks -> Nat] /\ ticks \in [Tracks -> 0 .. SMF_END_OF_TRACK]
      /\ score = Score /\ t \in Tracks /\ SMF_END_OF_TRACK \in Nat
      /\ pos[t] < Readable(t) /\ ticks[t] = Tick(<<t, n>>)
  BY NextComesFirst, LimitsType DEF IInv, TypeOK, OrderInv, SMF_END_OF_TRACK
<1>2. /\ Split(pos') /\ Left # <<>> /\ Left' = Tail(Left)
      /\ Left' = <<>> <=> \A u \in Tracks : pos'[u] = Readable(u)
  BY ReadOne
<1>3. /\ n \in Nat /\ n <= Readable(t) /\ Readable(t) \in 0 .. Len(song[t]) /\ Len(song[t]) \in Nat
      /\ pos'[t] = n /\ \A u \in Tracks : u # t => pos'[u] = pos[u]
  BY <1>1, ReadableType, SongType
<1>4. HasDelta(t, n) <=> n # Readable(t)
  <2>1. n = Readable(t) => n = Len(song[t])
    BY <1>1, ReadableType
  <2>. QED BY <1>3, <2>1 DEF HasDelta
<1>5. CASE ~HasDelta(t, n) /\ EndTrack(f, conv)
  BY <1>4, <1>5, EndTrackOrder
<1>6. ASSUME HasDelta(t, n)
      PROVE  n < Readable(t) /\ after = Tick(<<t, n + 1>>) /\ after = DueAt(t, n)
             /\ song[t][n + 1].delta \in Nat
  <2>1. n < Readable(t) /\ n + 1 \in 1 .. Len(song[t]) /\ (n + 1) - 1 = n
    BY <1>3, <1>4, <1>6
  <2>2. Tick(<<t, n + 1>>) = Tick(<<t, n>>) + song[t][n + 1].delta
    BY <1>1, <2>1, TickStep
  <2>3. song[t][n + 1].delta \in Nat
    <3>. HIDE DEF n
    <3>1. song[t][n + 1] \in Event
      BY <1>1, <2>1, SongType
    <3>. QED BY <3>1, LimitsType DEF Event
  <2>. QED BY <1>1, <2>1, <2>2, <2>3 DEF DeltaTime, DueAt
<1>7. HasDelta(t, n) => ~ \A u \in Tracks : pos'[u] = Readable(u)
  BY <1>1, <1>3, <1>4
<1>8. CASE HasDelta(t, n) /\ state' = "ERROR"
  <2>1. OrderInv'
    BY <1>1, <1>2, <1>8, OrderPrime
  <2>. QED BY <1>2, <1>7, <1>8, <2>1 DEF Plays, Over
<1>9. CASE /\ HasDelta(t, n) /\ after = ticks[t]
           /\ state' = "PLAY" /\ UNCHANGED <<nextStream, ticks, time>>
  <2>1. ASSUME NEW u \in Tracks PROVE ticks'[u] = DueAt(u, pos'[u])
    <3>1. CASE u = t
      BY <1>3, <1>6, <1>9, <3>1
    <3>2. CASE u # t
      BY <1>3, <1>9, <3>2 DEF OrderInv
    <3>. QED BY <3>1, <3>2
  <2>2. /\ nextStream' # 0
        /\ \A u \in Tracks : /\ ticks'[nextStream'] <= ticks'[u]
                             /\ ticks'[nextStream'] = ticks'[u] => nextStream' <= u
    BY <1>9 DEF OrderInv, NextIsFirst
  <2>3. OrderInv'
    BY <1>1, <1>2, <1>9, <2>1, <2>2, OrderPrime
  <2>. QED BY <1>2, <1>7, <1>9, <2>3 DEF Plays, Over
<1>10. CASE /\ HasDelta(t, n) /\ DeltaFits(t, n, ticks[t])
            /\ NextEvent(due, f, conv)
  <2>1. after \in 0 .. SMF_END_OF_TRACK
    BY <1>1, <1>6, <1>10 DEF DeltaFits, DeltaTime
  <2>. HIDE DEF after
  <2>2. due \in [Tracks -> 0 .. SMF_END_OF_TRACK]
    BY <1>1, <2>1
  <2>3. ASSUME NEW u \in Tracks PROVE due[u] = DueAt(u, pos'[u])
    <3>1. CASE u = t
      BY <1>1, <1>3, <1>6, <1>10, <3>1
    <3>2. CASE u # t
      BY <1>1, <1>3, <3>2 DEF OrderInv
    <3>. QED BY <3>1, <3>2
  <2>. HIDE DEF due
  <2>4. OrderInv' /\ (Over' <=> \A u \in Tracks : pos'[u] = Readable(u))
    BY <1>1, <1>2, <1>10, <2>2, <2>3, FindsNext
  <2>. QED BY <1>2, <2>4 DEF Plays
<1>. QED BY <1>5, <1>8, <1>9, <1>10 DEF NextDelta

\* A song is started with all of its score to come.
LEMMA StartOrder ==
    ASSUME song \in Songs, NEW q, q = [t \in Tracks |-> 0]
    PROVE  Split(q) /\ LeftOf(Score, q) = Score
<1>1. Split(q)
  <2>1. \A t \in Tracks : q[t] \in 0 .. Readable(t)
    BY ReadableType
  <2>2. \A p \in Places : p[2] > q[p[1]]
    BY PlacesType, ReadableType
  <2>. QED BY <2>1, <2>2 DEF Split
<1>2. ReadTo(q, 0)
  <2>1. ASSUME NEW i \in 1 .. N PROVE Score[i][2] > q[Score[i][1]]
    <3>1. Score[i] \in Places
      BY ScoreType
    <3>2. \A p \in Places : p[2] > q[p[1]]
      BY PlacesType, ReadableType
    <3>. QED BY <3>1, <3>2
  <2>. QED BY <2>1, ScoreType DEF ReadTo
<1>3. LeftOf(Score, q) = Suffix(0)
  BY <1>2, LeftIsSuffix, ScoreType
<1>4. Suffix(0) = Score
  <2>1. N - 0 = N /\ \A k \in 1 .. N : 0 + k = k
    BY ScoreType
  <2>2. Suffix(0) = [k \in 1 .. N |-> Score[k]]
    BY <2>1 DEF Suffix
  <2>3. Score = [k \in 1 .. N |-> Score[k]]
    BY ScoreType
  <2>. QED BY <2>2, <2>3
<1>. QED BY <1>1, <1>3, <1>4

LEMMA RestartOrder ==
    ASSUME song \in Songs, InTime, song' = song, score' = score, score = Score,
           pos' = [t \in Tracks |-> 0], \A t \in Tracks : HasDelta(t, 0),
           ticks' = FirstTicks, nextStream' = Earliest(FirstTicks, StartLimit), state' = "READY"
    PROVE  OrderInv' /\ Merge!Restart
<1>1. Split(pos') /\ LeftOf(Score, pos') = Score
  <2>. DEFINE q == pos'
  <2>1. q = [t \in Tracks |-> 0]
    OBVIOUS
  <2>. HIDE DEF q
  <2>2. Split(q) /\ LeftOf(Score, q) = Score
    BY <2>1, StartOrder
  <2>. QED BY <2>2 DEF q
<1>2. \A t \in Tracks : Len(song[t]) \in Nat /\ 0 < Len(song[t])
  BY SongType DEF HasDelta
<1>3. FirstTicks \in [Tracks -> 0 .. SMF_END_OF_TRACK]
  <2>1. ASSUME NEW t \in Tracks PROVE song[t][1].delta \in 0 .. SMF_END_OF_TRACK
    <3>1. song[t][1] \in Event
      BY <1>2, SongType
    <3>. QED BY <3>1 DEF Event, SMF_END_OF_TRACK
  <2>. QED BY <2>1 DEF FirstTicks
<1>4. ASSUME NEW t \in Tracks PROVE FirstTicks[t] = DueAt(t, 0)
  <2>1. Readable(t) > 0
    BY <1>2, ReadableType
  <2>2. 1 \in 1 .. Len(song[t]) /\ 1 - 1 = 0
    BY <1>2
  <2>3. Tick(<<t, 0>>) = 0 /\ Tick(<<t, 1>>) = Tick(<<t, 0>>) + song[t][1].delta
    BY <2>2, TickStep
  <2>4. song[t][1].delta \in Nat
    BY <1>3, LimitsType DEF FirstTicks
  <2>5. Tick(<<t, 1>>) = song[t][1].delta
    BY <2>3, <2>4
  <2>6. DueAt(t, 0) = Tick(<<t, 1>>)
    BY <2>1 DEF DueAt
  <2>. QED BY <2>5, <2>6 DEF FirstTicks
<1>5. IF nextStream' = 0 THEN \A t \in Tracks : pos'[t] = Readable(t)
      ELSE \A t \in Tracks : /\ FirstTicks[nextStream'] <= FirstTicks[t]
                             /\ FirstTicks[nextStream'] = FirstTicks[t] => nextStream' <= t
  <2>. DEFINE q == pos'
              x == nextStream'
              due == FirstTicks
  <2>1. /\ \A t \in Tracks : q[t] \in 0 .. Readable(t) /\ q[t] = 0
        /\ x = Earliest(due, StartLimit)
    BY <1>1 DEF Split
  <2>2. due \in [Tracks -> 0 .. SMF_END_OF_TRACK] /\ \A t \in Tracks : due[t] = DueAt(t, q[t])
    BY <1>3, <1>4, <2>1
  <2>. HIDE DEF q, x, due
  <2>3. IF x = 0 THEN \A t \in Tracks : q[t] = Readable(t)
        ELSE /\ x \in Tracks /\ q[x] # Readable(x)
             /\ \A t \in Tracks : due[x] <= due[t] /\ (due[x] = due[t] => x <= t)
    BY <2>1, <2>2, SearchInOrder
  <2>. QED BY <2>3 DEF q, x, due
<1>6. \A t \in Tracks : ticks'[t] = DueAt(t, pos'[t])
  BY <1>4
<1>7. OrderInv'
  BY <1>1, <1>5, <1>6, OrderPrime
<1>8. Left' = score
  <2>1. Left' = LeftOf(score', pos')
    BY DEF Left, LeftOf
  <2>. QED BY <1>1, <2>1
<1>. QED BY <1>7, <1>8 DEF Merge!Restart

\* Each step keeps the parser in the score, and plays its next event, starts it
\* again or leaves it.
LEMMA EventOrder ==
    ASSUME IInv, InTime, OrderInv, SMF_Event
    PROVE  OrderInv' /\ [Merge!Next]_(Merge!vars)
<1>1. /\ state \in {"READY", "PLAY"} /\ nextStream # 0
      /\ song' = song /\ score' = score
  BY DEF SMF_Event
<1>2. song \in Songs /\ nextStream \in Tracks /\ pos[nextStream] < Readable(nextStream)
  BY <1>1, NextComesFirst DEF IInv
<1>. DEFINE e == song[nextStream][pos[nextStream] + 1]
<1>3. pos[nextStream] + 1 \in 1 .. Readable(nextStream)
      /\ pos[nextStream] + 1 \in 1 .. Len(song[nextStream])
  BY <1>2, ReadableType, SongType DEF IInv, TypeOK
<1>4. e.kind \in {"eot", "cut"} => pos[nextStream] + 1 = Readable(nextStream)
  BY <1>2, <1>3, ReadableType
<1>5. Plays => Merge!Play
  BY <1>1 DEF Plays, Over, Merge!Play
<1>6. CASE PlayEvent
  <2>1. PICK f, conv : /\ pos' = [pos EXCEPT ![nextStream] = @ + 1]
                       /\ e.kind # "cut"
                       /\ IF e.kind = "eot" THEN EndTrack(f, conv)
                          ELSE NextDelta(pos[nextStream] + 1, f, conv)
    <3>. DEFINE h == Heard(nextStream, e)
                f == Chase(flags \union SetupOf(e, h), h)
                conv == tickConv'
    <3>1. /\ pos' = [pos EXCEPT ![nextStream] = @ + 1]
          /\ e.kind # "cut"
          /\ IF e.kind = "eot" THEN EndTrack(f, conv)
             ELSE NextDelta(pos[nextStream] + 1, f, conv)
      BY <1>6 DEF PlayEvent
    <3>. HIDE DEF e, f, conv
    <3>. QED BY <3>1
  <2>2. OrderInv' /\ Plays
    <3>1. CASE e.kind = "eot"
      BY <1>1, <1>4, <2>1, <3>1, EndTrackOrder
    <3>2. CASE e.kind # "eot"
      BY <1>1, <2>1, <3>2, NextDeltaOrder
    <3>. QED BY <3>1, <3>2
  <2>. QED BY <1>5, <2>2 DEF Merge!Next
<1>7. CASE CutEvent
  <2>1. /\ e.kind = "cut" /\ pos' = [pos EXCEPT ![nextStream] = @ + 1]
        /\ EndTrack(flags, tickConv)
    BY <1>7 DEF CutEvent
  <2>2. OrderInv' /\ Plays
    BY <1>1, <1>4, <2>1, EndTrackOrder
  <2>. QED BY <1>5, <2>2 DEF Merge!Next
<1>8. CASE BadEvent
  <2>1. pos' = pos /\ state' = "ERROR"
    BY <1>8 DEF BadEvent
  <2>2. OrderInv'
    BY <1>1, <2>1, OrderPrime DEF OrderInv
  <2>3. UNCHANGED <<score, Left, state \in {"STOPPING", "STOPPED"}>>
    BY <1>1, <2>1 DEF Left
  <2>. QED BY <2>2, <2>3 DEF Merge!vars
<1>. QED BY <1>6, <1>7, <1>8 DEF SMF_Event

LEMMA StepOrder ==
    ASSUME IInv, InTime, OrderInv, [Next]_vars
    PROVE  InTime' /\ OrderInv' /\ [Merge!Next]_(Merge!vars)
<1>1. song \in Songs /\ score = Score
  BY DEF IInv, OrderInv
<1>2. song' = song /\ score' = score
  BY DEF Next, vars, SMF_Prepare, SMF_Reset, SMF_State, SMF_Event
<1>3. InTime'
  BY <1>2, SongKept DEF InTime
<1>4. CASE SMF_Prepare
  <2>1. /\ pos' = [t \in Tracks |-> 0] /\ \A t \in Tracks : HasDelta(t, 0)
        /\ ticks' = FirstTicks /\ nextStream' = Earliest(FirstTicks, StartLimit) /\ state' = "READY"
    BY <1>4 DEF SMF_Prepare, IInv, OpenAtStart
  <2>. QED BY <1>1, <1>2, <1>3, <2>1, RestartOrder DEF Merge!Next
<1>5. CASE SMF_Reset
  <2>1. /\ pos' = [t \in Tracks |-> 0] /\ \A t \in Tracks : HasDelta(t, 0)
        /\ ticks' = FirstTicks /\ nextStream' = Earliest(FirstTicks, StartLimit) /\ state' = "READY"
    BY <1>5 DEF SMF_Reset, IInv, TracksHaveEvents
  <2>. QED BY <1>1, <1>2, <1>3, <2>1, RestartOrder DEF Merge!Next
<1>6. CASE SMF_State \/ UNCHANGED vars
  <2>1. pos' = pos /\ (Over' <=> Over)
        /\ \/ state' = state /\ ticks' = ticks /\ nextStream' = nextStream
           \/ state = "STOPPING" /\ state' = "STOPPED"
    BY <1>6 DEF SMF_State, vars, Over
  <2>2. OrderInv'
    <3>1. CASE state' = state /\ ticks' = ticks /\ nextStream' = nextStream
      BY <1>2, <2>1, <3>1, OrderPrime DEF OrderInv, NextIsFirst
    <3>2. CASE state = "STOPPING" /\ state' = "STOPPED"
      BY <1>2, <2>1, <3>2, OrderPrime DEF OrderInv
    <3>. QED BY <2>1, <3>1, <3>2
  <2>3. UNCHANGED <<score, Left, state \in {"STOPPING", "STOPPED"}>>
    BY <1>2, <2>1 DEF Left, Over
  <2>. QED BY <1>3, <2>2, <2>3 DEF Merge!vars
<1>7. CASE SMF_Event
  BY <1>3, <1>7, EventOrder
<1>. QED BY <1>4, <1>5, <1>6, <1>7 DEF Next

\* The tracks of a file come as one line of events in the order of their ticks,
\* their tracks and the file, each once, and the song is over with the last: the
\* parser implements SmfScore, for any files, tempos and widths of integers, over
\* resets and errors, if no event is due at a tick that fits into 32 bits and
\* that the search for the next track does not look at.
THEOREM PlaysTheScore == Spec /\ InTime => EventsInOrder
<1>1. ASSUME Init PROVE OrderInv /\ Merge!Init
  <2>1. song \in Songs /\ score = Score /\ pos = [t \in Tracks |-> 0] /\ state = "OPEN"
    BY <1>1 DEF Init
  <2>2. Split(pos) /\ LeftOf(Score, pos) = Score
    BY <2>1, StartOrder
  <2>3. Left = score
    <3>1. Left = LeftOf(score, pos)
      BY DEF Left, LeftOf
    <3>. QED BY <2>1, <2>2, <3>1
  <2>. QED BY <2>1, <2>2, <2>3 DEF OrderInv, Merge!Init
<1>2. IInv /\ InTime /\ OrderInv /\ [Next]_vars => InTime' /\ OrderInv' /\ [Merge!Next]_(Merge!vars)
  BY StepOrder
<1>. QED BY <1>1, <1>2, InitInv, StepInv, PTL DEF Spec, EventsInOrder, Merge!Spec

-----------------------------------------------------------------------------
(* The arithmetic of the clock.                                            *)

\* What a tempo is converted to, when it fits.
ConvOf(tempo) == (((tempo * 1024) \div ppqn) + 500) \div 1000

\* Facts about products and quotients of natural numbers.
LEMMA DivMod ==
    ASSUME NEW g \in Nat, NEW s \in Nat \ {0}
    PROVE  g = s * (g \div s) + (g % s) /\ g \div s \in Nat /\ g % s \in 0 .. s - 1
OBVIOUS

LEMMA MulSmall == ASSUME NEW a \in Nat, NEW b \in Nat \ {0} PROVE a <= a * b
OBVIOUS

LEMMA MulBelow ==
    ASSUME NEW r \in Nat, NEW s \in Nat, NEW c \in Nat, NEW u \in Nat \ {0}, r < s, s * c <= u
    PROVE  r * c < u
OBVIOUS

LEMMA DivSum == ASSUME NEW a \in Nat, NEW y \in Nat PROVE (4 * a + y) \div 4 = a + (y \div 4)
OBVIOUS

LEMMA SplitProduct ==
    ASSUME NEW s \in Nat, NEW h \in Nat, NEW r \in Nat, NEW c \in Nat, NEW q \in Nat, s = 4 * q
    PROVE  (s * h + r) * c = 4 * ((h * c) * q) + r * c
OBVIOUS

LEMMA WrapSmall == ASSUME NEW n \in Nat, n < U32 PROVE Wrap(n) = n
<1>1. U32 \in Nat
  BY LimitsType
<1>2. \A a, b \in Nat : a < b => a % b = a
  OBVIOUS
<1>. QED BY <1>1, <1>2 DEF Wrap

\* SMF_UpdateTime splits the ticks so that no product overflows, and so it does:
\* for any split and width, the sum is the quotient it stands for whenever that
\* fits into the 32 bits of the clock.
THEOREM TickTimeExact ==
    ASSUME NEW g \in Nat, NEW c \in Nat, g * c < 4 * U32, ClockSplit * c <= U32
    PROVE  TickTime(g, c) = (g * c) \div 4
<1>. DEFINE h == g \div ClockSplit
            r == g % ClockSplit
            q == ClockSplit \div 4
            x == h * c
            y == r * c
<1>1. ClockSplit \in Nat \ {0} /\ ClockSplit = 4 * q /\ q \in Nat \ {0} /\ U32 \in Nat \ {0}
  BY SmfAssumption, LimitsType
<1>2. g = ClockSplit * h + r /\ h \in Nat /\ r \in 0 .. ClockSplit - 1
  BY <1>1, DivMod
<1>3. TickTime(g, c) = Wrap(Wrap(Wrap(x) * q) + (Wrap(y) \div 4))
  BY DEF TickTime
<1>. HIDE DEF h, r, q
<1>4. x \in Nat /\ y \in Nat /\ x * q \in Nat
  BY <1>1, <1>2
<1>5. g * c = 4 * (x * q) + y
  BY <1>1, <1>2, SplitProduct
<1>6. y < U32
  BY <1>1, <1>2, MulBelow
<1>. HIDE DEF x, y
<1>7. x <= x * q /\ x * q < U32
  BY <1>1, <1>4, <1>5, MulSmall
<1>. DEFINE w == x * q
<1>7a. w \in Nat /\ w < U32 /\ x < U32
  BY <1>1, <1>4, <1>7
<1>. HIDE DEF w
<1>8. Wrap(x) = x /\ Wrap(w) = w /\ Wrap(y) = y
  BY <1>4, <1>6, <1>7a, WrapSmall
<1>9. w \in Nat /\ y \div 4 \in Nat /\ (4 * w + y) \div 4 = w + (y \div 4)
  <2>1. w \in Nat
    BY <1>4 DEF w
  <2>. QED BY <1>4, <2>1, DivSum
<1>10. g * c = 4 * w + y
  BY <1>5 DEF w
<1>11. w + (y \div 4) < U32
  BY <1>1, <1>4, <1>9, <1>10
<1>12. TickTime(g, c) = Wrap(w + (y \div 4))
  BY <1>3, <1>8 DEF w
<1>13. w + (y \div 4) \in Nat
  BY <1>9
<1>. QED BY <1>9, <1>10, <1>11, <1>12, <1>13, WrapSmall

\* A unit of the conversion is off by at most half a unit and the quotient.
LEMMA ConvClose ==
    ASSUME NEW tempo \in Nat
    PROVE  /\ ConvOf(tempo) \in Nat
           /\ 1000 * (ppqn * ConvOf(tempo)) <= 1024 * tempo + 500 * ppqn
           /\ 1024 * tempo <= 1000 * (ppqn * ConvOf(tempo)) + 501 * ppqn
<1>. DEFINE a == tempo * 1024
            q == a \div ppqn
            r == a % ppqn
            c == ConvOf(tempo)
<1>1. a \in Nat /\ ppqn \in Nat \ {0}
  BY SmfAssumption
<1>3. c = (q + 500) \div 1000 /\ a = 1024 * tempo
  BY DEF ConvOf
<1>. HIDE DEF a, c
<1>2. a = ppqn * q + r /\ q \in Nat /\ r \in 0 .. ppqn - 1
  BY <1>1, DivMod
<1>. HIDE DEF q, r
<1>4. c \in Nat /\ 1000 * c <= q + 500 /\ q <= 1000 * c + 499
  BY <1>2, <1>3
<1>5. ppqn * (1000 * c) <= ppqn * (q + 500) /\ ppqn * q <= ppqn * (1000 * c + 499)
  BY <1>1, <1>2, <1>4
<1>6. /\ ppqn * (1000 * c) = 1000 * (ppqn * c) /\ ppqn * (q + 500) = ppqn * q + 500 * ppqn
      /\ ppqn * (1000 * c + 499) = 1000 * (ppqn * c) + 499 * ppqn
  BY <1>1, <1>2, <1>4
<1>7. ppqn * q \in Nat /\ ppqn * c \in Nat
  BY <1>1, <1>2, <1>4
<1>. QED BY <1>1, <1>2, <1>3, <1>4, <1>5, <1>6, <1>7 DEF c

\* So a gap is off by half a unit for each of its ticks and less than one of its own.
LEMMA GapClose ==
    ASSUME NEW p \in Nat, NEW g \in Nat, NEW c \in Nat, NEW tempo \in Nat, NEW tau \in Nat,
           tau = (g * c) \div 4,
           1000 * (p * c) <= 1024 * tempo + 500 * p, 1024 * tempo <= 1000 * (p * c) + 501 * p
    PROVE  /\ 1000 * p * tau <= 256 * (g * tempo) + p * (126 * g + 1000)
           /\ 256 * (g * tempo) <= 1000 * p * tau + p * (126 * g + 1000)
<1>. DEFINE X == g * tempo
            Y == g * p
            Z == g * (p * c)
            W == p * tau
<1>1. X \in Nat /\ Y \in Nat /\ Z \in Nat /\ W \in Nat /\ g * c \in Nat
  OBVIOUS
<1>2. 4 * tau <= g * c /\ g * c <= 4 * tau + 3
  BY <1>1
<1>3. 4 * W <= Z /\ Z <= 4 * W + 3 * p
  <2>1. p * (4 * tau) <= p * (g * c) /\ p * (g * c) <= p * (4 * tau + 3)
    BY <1>1, <1>2
  <2>2. p * (4 * tau) = 4 * W /\ p * (g * c) = Z /\ p * (4 * tau + 3) = 4 * W + 3 * p
    OBVIOUS
  <2>. QED BY <2>1, <2>2
<1>4. 1000 * Z <= 1024 * X + 500 * Y
  <2>1. g * (1000 * (p * c)) <= g * (1024 * tempo + 500 * p)
    OBVIOUS
  <2>2. g * (1000 * (p * c)) = 1000 * Z /\ g * (1024 * tempo + 500 * p) = 1024 * X + 500 * Y
    OBVIOUS
  <2>. QED BY <2>1, <2>2
<1>5. 1024 * X <= 1000 * Z + 501 * Y
  <2>1. g * (1024 * tempo) <= g * (1000 * (p * c) + 501 * p)
    OBVIOUS
  <2>2. g * (1024 * tempo) = 1024 * X /\ g * (1000 * (p * c) + 501 * p) = 1000 * Z + 501 * Y
    OBVIOUS
  <2>. QED BY <2>1, <2>2
<1>6. 1000 * p * tau = 1000 * W /\ p * (126 * g + 1000) = 126 * Y + 1000 * p
  OBVIOUS
<1>. HIDE DEF W, X, Y, Z
<1>7. 1000 * W <= 256 * X + 126 * Y + 1000 * p /\ 256 * X <= 1000 * W + 126 * Y + 1000 * p
  BY <1>1, <1>3, <1>4, <1>5
<1>. QED BY <1>1, <1>6, <1>7 DEF X

-----------------------------------------------------------------------------
(* The line of events: gaps, tempos and sums.                              *)

\* The events of the score are those of the file.
LEMMA EventType ==
    ASSUME song \in Songs, score = Score
    PROVE  /\ N \in Nat /\ DOMAIN score = 1 .. N /\ Len(score) = N
           /\ \A i \in 1 .. N :
                /\ score[i] \in Places /\ EventOf(i) \in Event /\ Tick(score[i]) \in Nat
                /\ score[i][1] \in Tracks
<1>1. N \in Nat /\ score \in [1 .. N -> Places]
  BY ScoreType
<1>2. DOMAIN score = 1 .. N /\ Len(score) = N
  BY <1>1
<1>3. ASSUME NEW i \in 1 .. N
      PROVE  /\ score[i] \in Places /\ EventOf(i) \in Event /\ Tick(score[i]) \in Nat
             /\ score[i][1] \in Tracks
  <2>1. PICK p \in Places : p = score[i]
    BY <1>1
  <2>2. p[1] \in Tracks /\ p[2] \in 1 .. Len(song[p[1]]) /\ Tick(p) \in Nat
    BY PlacesType
  <2>3. song[p[1]][p[2]] \in Event
    BY <2>2, SongType
  <2>. QED BY <2>1, <2>2, <2>3 DEF EventOf
<1>. QED BY <1>1, <1>2, <1>3

\* The ticks of the score do not go back.
LEMMA ScoreGrows ==
    ASSUME song \in Songs, score = Score, NEW i \in 1 .. N, NEW j \in 1 .. N, i <= j
    PROVE  Tick(score[i]) <= Tick(score[j])
<1>1. Tick(score[i]) \in Nat /\ Tick(score[j]) \in Nat
  BY EventType
<1>2. i < j => Before(Score[i], Score[j])
  BY ScoreType
<1>3. i = j \/ i < j
  BY ScoreType
<1>. QED BY <1>1, <1>2, <1>3 DEF Before

\* A gap is a number of ticks.
LEMMA GapType ==
    ASSUME song \in Songs, score = Score, NEW i \in 1 .. N
    PROVE  /\ Gap(i) \in Nat
           /\ ~InSetupBar(i) => Gap(i) = Tick(score[i]) - (IF i = 1 THEN 0 ELSE Tick(score[i - 1]))
           /\ InSetupBar(i) => Gap(i) = 0
<1>1. Tick(score[i]) \in Nat
  BY EventType
<1>2. CASE i = 1
  BY <1>1, <1>2 DEF Gap
<1>3. CASE i # 1
  <2>1. i - 1 \in 1 .. N /\ i - 1 <= i
    BY <1>3, ScoreType
  <2>2. Tick(score[i - 1]) \in Nat /\ Tick(score[i - 1]) <= Tick(score[i])
    BY <2>1, EventType, ScoreGrows
  <2>. QED BY <1>1, <1>3, <2>2 DEF Gap
<1>. QED BY <1>2, <1>3

\* The tempo in force changes with the tempo events.
LEMMA TempoStep ==
    ASSUME NEW i \in Nat \ {0}
    PROVE  /\ TempoBefore(1) = DefaultTempo
           /\ TempoBefore(i + 1) = IF EventOf(i).kind = "tempo" THEN EventOf(i).tempo
                                   ELSE TempoBefore(i)
<1>. DEFINE C(k) == {j \in 1 .. k - 1 : EventOf(j).kind = "tempo"}
<1>1. C(1) = {}
  OBVIOUS
<1>2. CASE EventOf(i).kind = "tempo"
  <2>1. i \in C(i + 1) /\ \A j \in C(i + 1) : j \in Nat /\ i >= j
    BY <1>2
  <2>2. Max(C(i + 1)) = i
    <3>. HIDE DEF C
    <3>1. \A x \in C(i + 1) : (\A y \in C(i + 1) : x >= y) => x = i
      BY <2>1
    <3>. QED BY <2>1, <3>1 DEF Max
  <2>. QED BY <1>1, <1>2, <2>1, <2>2 DEF TempoBefore
<1>3. CASE EventOf(i).kind # "tempo"
  <2>1. C(i + 1) = C(i)
    BY <1>3
  <2>. QED BY <1>1, <1>3, <2>1 DEF TempoBefore
<1>. QED BY <1>2, <1>3

\* A sum, one element further.
LEMMA SumToStep ==
    ASSUME NEW d, NEW n \in Nat
    PROVE  SumTo(d, 0) = 0 /\ SumTo(d, n + 1) = SumTo(d, n) + d[n + 1]
<1>1. \A k \in Nat : SumTo(d, k) = (CHOOSE f : Sums(f, k, d))[k]
  BY DEF SumTo, Sums
<1>2. PICK f : Sums(f, n + 1, d)
  BY SumExists
<1>3. ASSUME NEW k \in 0 .. n + 1 PROVE SumTo(d, k) = f[k]
  <2>1. k \in Nat
    OBVIOUS
  <2>2. \E g : Sums(g, k, d)
    BY <2>1, SumExists
  <2>3. PICK g : Sums(g, k, d) /\ SumTo(d, k) = g[k]
    BY <1>1, <2>1, <2>2
  <2>4. n + 1 \in Nat
    OBVIOUS
  <2>. QED BY <1>2, <2>3, <2>4, SumStart
<1>4. \A k \in 0 .. n + 1 : f[k] = IF k = 0 THEN 0 ELSE f[k - 1] + d[k]
  BY <1>2 DEF Sums
<1>5. f[0] = 0 /\ f[n + 1] = f[n] + d[n + 1]
  BY <1>4
<1>. QED BY <1>3, <1>5

-----------------------------------------------------------------------------
(* The files whose clock is right, and what the parser knows of the file   *)
(* when it is at event m.                                                  *)

\* A tempo that is converted without a carry out of its 32 and 16 bits, to more
\* than a quarter of a unit of the clock.
Measurable(tempo) ==
    /\ tempo * 1024 < U32 /\ ConvOf(tempo) \in 4 .. USHRT_MAX
    /\ ClockSplit * ConvOf(tempo) <= U32

\* All tempos of the file are, and the clock reaches each of its events, those
\* whose tick is within 32 bits, below its limit.
Measured ==
    /\ Measurable(DefaultTempo)
    /\ \A i \in 1 .. N : EventOf(i).kind = "tempo" => Measurable(EventOf(i).tempo)
    /\ \A i \in 1 .. N : Tick(score[i]) < U32 =>
         256 * Elapsed(i) + ppqn * Missed(i) < 1000 * ppqn * ClockLimit

\* A setup bar at tick 0 comes before the first note.
SetupFirst == \A i \in 1 .. N + 1 : SetupSeen(i) => \E m \in 1 .. i : InSetupBar(m)

\* And it is the only one: behind it no system exclusive message on a track with
\* GM System On, up to the tick of the first note.
GMMessage(j) ==
    \/ EventOf(j).kind = "gm"
    \/ /\ EventOf(j).kind = "sysex"
       /\ \E i \in 1 .. j - 1 : EventOf(i).kind = "gm" /\ score[i][1] = score[j][1]

OneSetup ==
    \A j \in 1 .. N : SetupSeen(j) /\ GMMessage(j) =>
        \E k \in 1 .. j - 1 : EventOf(k).kind = "note" /\ Tick(score[k]) < Tick(score[j])

Seen(k, i) == \E j \in 1 .. i - 1 : EventOf(j).kind = k

\* The setup bar: whether the parser is in it, and that time passes only behind it.
Chasing(m, f) == "chase" \in f <=> InSetupBar(m)

Starting(m, tm) ==
    /\ InSetupBar(m) => tm = 0
    /\ Tick(score[m]) = 0 => tm = 0
    /\ tm = 0 => Tick(score[m]) = 0 \/ SetupSeen(m)
    /\ tm = 0 => \A k \in 1 .. m - 1 : EventOf(k).kind = "note" => Tick(score[k]) = Tick(score[m])

SetupFlags(m, tm, f) ==
    /\ tm = 0 /\ ~SetupSeen(m) => \A k \in SETUP_BAR : k \in f <=> Seen(k, m)
    /\ tm = 0 /\ SetupSeen(m) => "gm" \notin f

HeardInv(m, mf) ==
    \A t \in Tracks :
        /\ "FIRST_NOTE" \in mf[t] => NoteBefore(m)
        /\ "GM_ON" \in mf[t] => \E j \in 1 .. m - 1 : EventOf(j).kind = "gm" /\ score[j][1] = t

OnTime(m, tm) ==
    1000 * ppqn * tm - 256 * Elapsed(m) \in -(ppqn * Missed(m)) .. ppqn * Missed(m)

\* What was seen before the next event.
LEMMA SeenStep ==
    ASSUME NEW i \in Nat \ {0}
    PROVE  /\ \A k : ~Seen(k, 1) /\ (Seen(k, i + 1) <=> Seen(k, i) \/ EventOf(i).kind = k)
           /\ ~NoteBefore(1) /\ (NoteBefore(i + 1) <=> NoteBefore(i) \/ EventOf(i).kind = "note")
<1>1. 1 .. (i + 1) - 1 = (1 .. i - 1) \union {i} /\ 1 .. 1 - 1 = {}
  OBVIOUS
<1>. QED BY <1>1 DEF Seen, NoteBefore

\* The setup bar is complete with an event of it at tick 0, and stays so.
LEMMA SetupStep ==
    ASSUME NEW i \in Nat \ {0}
    PROVE  /\ ~SetupSeen(1) /\ (SetupSeen(i) => SetupSeen(i + 1))
           /\ ~SetupSeen(i) /\ SetupSeen(i + 1) =>
                  /\ EventOf(i).kind \in SETUP_BAR /\ Tick(score[i]) = 0
                  /\ \A k \in SETUP_BAR : Seen(k, i + 1)
<1>1. 1 .. (i + 1) - 1 = (1 .. i - 1) \union {i} /\ 1 .. 1 - 1 = {}
  OBVIOUS
<1>2. ~SetupSeen(1)
  BY <1>1 DEF SetupSeen, SETUP_BAR
<1>3. SetupSeen(i) => SetupSeen(i + 1)
  BY <1>1 DEF SetupSeen
<1>4. ASSUME ~SetupSeen(i), SetupSeen(i + 1)
      PROVE  /\ EventOf(i).kind \in SETUP_BAR /\ Tick(score[i]) = 0
             /\ \A k \in SETUP_BAR : Seen(k, i + 1)
  <2>1. PICK k \in SETUP_BAR : ~ \E j \in 1 .. i - 1 : EventOf(j).kind = k /\ Tick(score[j]) = 0
    BY <1>4 DEF SetupSeen
  <2>2. PICK j \in 1 .. (i + 1) - 1 : EventOf(j).kind = k /\ Tick(score[j]) = 0
    BY <1>4 DEF SetupSeen
  <2>3. j = i
    BY <1>1, <2>1, <2>2
  <2>4. \A l \in SETUP_BAR : Seen(l, i + 1)
    BY <1>4 DEF SetupSeen, Seen
  <2>. QED BY <2>1, <2>2, <2>3, <2>4
<1>. QED BY <1>2, <1>3, <1>4

\* While the ticks are 0 the setup bar is complete once each of its events was seen.
LEMMA SetupAtZero ==
    ASSUME song \in Songs, score = Score, NEW m \in 1 .. N, Tick(score[m]) = 0
    PROVE  SetupSeen(m + 1) <=> \A k \in SETUP_BAR : Seen(k, m + 1)
<1>1. N \in Nat /\ 1 .. (m + 1) - 1 = 1 .. m
  BY ScoreType
<1>2. ASSUME NEW j \in 1 .. m PROVE Tick(score[j]) = 0
  <2>1. j \in 1 .. N /\ j <= m
    BY <1>1
  <2>2. Tick(score[j]) <= Tick(score[m]) /\ Tick(score[j]) \in Nat
    BY <2>1, EventType, ScoreGrows
  <2>. QED BY <2>2
<1>. QED BY <1>1, <1>2 DEF SetupSeen, Seen

\* A setup bar that was complete before is so now.
LEMMA SetupStays ==
    ASSUME NEW i \in Nat, NEW j \in Nat, i <= j, SetupSeen(i)
    PROVE  SetupSeen(j)
<1>1. 1 .. i - 1 \subseteq 1 .. j - 1
  OBVIOUS
<1>. QED BY <1>1 DEF SetupSeen

\* What an event adds to the flags.
LEMMA EventHeard ==
    ASSUME mode = "play", NEW t, NEW e
    PROVE  /\ "FIRST_NOTE" \in Heard(t, e) <=> "FIRST_NOTE" \in midiFlags[t] \/ e.kind = "note"
           /\ "GM_ON" \in Heard(t, e) <=> "GM_ON" \in midiFlags[t] \/ e.kind = "gm"
BY DEF Heard

\* What an event adds to the setup bar.
LEMMA SetupOfEvent ==
    ASSUME NEW e, NEW heard
    PROVE  /\ "chase" \notin SetupOf(e, heard)
           /\ "tempo" \in SetupOf(e, heard) <=> e.kind = "tempo"
           /\ "timesig" \in SetupOf(e, heard) <=> e.kind = "timesig"
           /\ "gm" \in SetupOf(e, heard) <=> e.kind \in {"gm", "sysex"} /\ "GM_ON" \in heard
BY DEF SetupOf

\* What the parsers of the tracks have heard, after event m.
LEMMA HeardStep ==
    ASSUME song \in Songs, score = Score, mode = "play",
           NEW m \in 1 .. N, HeardInv(m, midiFlags), midiFlags = [t \in Tracks |-> midiFlags[t]],
           NEW h, h = Heard(score[m][1], EventOf(m)),
           NEW mf, mf = [midiFlags EXCEPT ![score[m][1]] = h]
    PROVE  HeardInv(m + 1, mf)
<1>. DEFINE e == EventOf(m)
            t == score[m][1]
<1>1. m \in Nat \ {0} /\ N \in Nat /\ t \in Tracks
  BY ScoreType, EventType
<1>2. NoteBefore(m + 1) <=> NoteBefore(m) \/ e.kind = "note"
  BY <1>1, SeenStep
<1>3. /\ "FIRST_NOTE" \in h <=> "FIRST_NOTE" \in midiFlags[t] \/ e.kind = "note"
      /\ "GM_ON" \in h <=> "GM_ON" \in midiFlags[t] \/ e.kind = "gm"
  BY EventHeard
<1>4. /\ "FIRST_NOTE" \in midiFlags[t] => NoteBefore(m)
      /\ "GM_ON" \in midiFlags[t] => \E j \in 1 .. m - 1 : EventOf(j).kind = "gm" /\ score[j][1] = t
  BY <1>1 DEF HeardInv
<1>5. mf = [midiFlags EXCEPT ![t] = h]
  OBVIOUS
<1>. HIDE DEF e, t
<1>6. ASSUME NEW u \in Tracks
      PROVE  /\ "FIRST_NOTE" \in mf[u] => NoteBefore(m + 1)
             /\ "GM_ON" \in mf[u] =>
                  \E j \in 1 .. (m + 1) - 1 : EventOf(j).kind = "gm" /\ score[j][1] = u
  <2>1. 1 .. (m + 1) - 1 = (1 .. m - 1) \union {m}
    BY <1>1
  <2>2. CASE u = t
    <3>1. mf[u] = h
      BY <1>5, <2>2
    <3>2. e.kind = "gm" => EventOf(m).kind = "gm" /\ score[m][1] = t
      BY DEF e, t
    <3>. QED BY <1>2, <1>3, <1>4, <2>1, <2>2, <3>1, <3>2
  <2>3. CASE u # t
    <3>1. mf[u] = midiFlags[u]
      BY <1>5, <2>3
    <3>. QED BY <1>2, <2>1, <3>1 DEF HeardInv
  <2>. QED BY <2>2, <2>3
<1>. QED BY <1>6 DEF HeardInv

\* The flags after event m say where in the setup bar the parser is.
LEMMA FlagsStep ==
    ASSUME song \in Songs, score = Score, mode = "play", SetupFirst, OneSetup,
           NEW m \in 1 .. N, Chasing(m, flags), Starting(m, time),
           SetupFlags(m, time, flags), HeardInv(m, midiFlags),
           NEW h, h = Heard(score[m][1], EventOf(m)),
           NEW f, f = Chase(flags \union SetupOf(EventOf(m), h), h)
    PROVE  /\ Chasing(m + 1, f) /\ (InSetupBar(m + 1) => time = 0)
           /\ SetupFlags(m + 1, time, f)
<1>. DEFINE e == EventOf(m)
            t == score[m][1]
            F == flags \union SetupOf(e, h)
<1>1. m \in Nat \ {0} /\ N \in Nat /\ t \in Tracks
  BY ScoreType, EventType
<1>2. /\ \A k : Seen(k, m + 1) <=> Seen(k, m) \/ e.kind = k
      /\ NoteBefore(m + 1) <=> NoteBefore(m) \/ e.kind = "note"
  BY <1>1, SeenStep
<1>3. /\ "FIRST_NOTE" \in h <=> "FIRST_NOTE" \in midiFlags[t] \/ e.kind = "note"
      /\ "GM_ON" \in h <=> "GM_ON" \in midiFlags[t] \/ e.kind = "gm"
  BY EventHeard
<1>4. /\ "FIRST_NOTE" \in midiFlags[t] => NoteBefore(m)
      /\ "GM_ON" \in midiFlags[t] => \E j \in 1 .. m - 1 : EventOf(j).kind = "gm" /\ score[j][1] = t
  BY <1>1 DEF HeardInv
<1>5. /\ "chase" \in F <=> "chase" \in flags
      /\ "tempo" \in F <=> "tempo" \in flags \/ e.kind = "tempo"
      /\ "timesig" \in F <=> "timesig" \in flags \/ e.kind = "timesig"
      /\ "gm" \in F <=> "gm" \in flags \/ (e.kind \in {"gm", "sysex"} /\ "GM_ON" \in h)
  BY SetupOfEvent
<1>6. e.kind \in {"gm", "sysex"} /\ "GM_ON" \in h => GMMessage(m) /\ Seen("gm", m + 1)
  BY <1>2, <1>3, <1>4 DEF GMMessage, Seen
<1>7. f = Chase(F, h)
  OBVIOUS
<1>8. SetupSeen(m) => SetupSeen(m + 1)
  BY <1>1, SetupStep
<1>. HIDE DEF e, t, F
<1>9. CASE time # 0
  <2>1. f = F
    BY <1>7, <1>9 DEF Chase
  <2>2. ~InSetupBar(m) /\ Tick(score[m]) # 0
    BY <1>9 DEF Starting
  <2>3. ~InSetupBar(m + 1)
    BY <1>1, <1>2, <2>2, SetupStep DEF InSetupBar
  <2>. QED BY <1>5, <1>9, <2>1, <2>2, <2>3 DEF Chasing, SetupFlags
<1>10. CASE time = 0 /\ SetupSeen(m)
  <2>1. ~ GMMessage(m)
    <3>1. ASSUME GMMessage(m) PROVE FALSE
      <4>1. PICK k \in 1 .. m - 1 : EventOf(k).kind = "note" /\ Tick(score[k]) < Tick(score[m])
        BY <1>10, <3>1 DEF OneSetup
      <4>2. Tick(score[k]) = Tick(score[m])
        BY <1>10, <4>1 DEF Starting
      <4>3. Tick(score[m]) \in Nat
        BY EventType
      <4>. QED BY <4>1, <4>2, <4>3
    <3>. QED BY <3>1
  <2>2. "gm" \notin F
    BY <1>5, <1>6, <1>10, <2>1 DEF SetupFlags
  <2>3. CASE "chase" \in flags
    <3>1. ~NoteBefore(m)
      BY <2>3 DEF Chasing, InSetupBar
    <3>2. f = F \ {s \in {"chase"} : "FIRST_NOTE" \in h}
      BY <1>5, <1>7, <1>10, <2>3 DEF Chase
    <3>3. "chase" \in f <=> e.kind # "note"
      BY <1>3, <1>4, <1>5, <2>3, <3>1, <3>2
    <3>. QED BY <1>2, <1>8, <1>10, <2>2, <3>1, <3>2, <3>3 DEF Chasing, SetupFlags, InSetupBar
  <2>4. CASE "chase" \notin flags
    <3>1. NoteBefore(m)
      BY <1>10, <2>4 DEF Chasing, InSetupBar
    <3>2. f = F
      BY <1>5, <1>7, <2>2, <2>4 DEF Chase, SETUP_BAR
    <3>. QED BY <1>2, <1>5, <1>8, <1>10, <2>2, <2>4, <3>1, <3>2 DEF Chasing, SetupFlags, InSetupBar
  <2>. QED BY <2>3, <2>4
<1>11. CASE time = 0 /\ ~SetupSeen(m)
  <2>1. Tick(score[m]) = 0 /\ "chase" \notin flags
    BY <1>11 DEF Starting, Chasing, InSetupBar
  <2>2. \A k \in SETUP_BAR : k \in flags <=> Seen(k, m)
    BY <1>11 DEF SetupFlags
  <2>3. \A k \in SETUP_BAR : k \in F <=> Seen(k, m + 1)
    BY <1>2, <1>3, <1>5, <1>6, <2>2 DEF SETUP_BAR
  <2>4. SETUP_BAR \subseteq F <=> SetupSeen(m + 1)
    BY <2>1, <2>3, SetupAtZero
  <2>5. CASE SetupSeen(m + 1)
    <3>1. f = (F \ SETUP_BAR) \union {"chase"}
      BY <1>5, <1>7, <1>11, <2>1, <2>4, <2>5 DEF Chase
    <3>2. InSetupBar(m + 1)
      <4>1. m + 1 \in 1 .. N + 1
        BY <1>1
      <4>2. PICK i \in 1 .. m + 1 : InSetupBar(i)
        BY <2>5, <4>1 DEF SetupFirst
      <4>3. i \in Nat /\ (i <= m \/ i = m + 1)
        BY <1>1
      <4>4. ~ (i <= m)
        BY <1>1, <1>11, <4>2, <4>3, SetupStays DEF InSetupBar
      <4>. QED BY <4>2, <4>3, <4>4
    <3>3. "gm" \notin f
      BY <3>1 DEF SETUP_BAR
    <3>. QED BY <1>11, <2>5, <3>1, <3>2, <3>3 DEF Chasing, SetupFlags
  <2>6. CASE ~SetupSeen(m + 1)
    <3>1. f = F
      BY <1>5, <1>7, <2>1, <2>4, <2>6 DEF Chase
    <3>. QED BY <1>5, <1>11, <2>1, <2>3, <2>6, <3>1 DEF Chasing, SetupFlags, InSetupBar
  <2>. QED BY <2>5, <2>6
<1>. QED BY <1>9, <1>10, <1>11

-----------------------------------------------------------------------------
(* The tempo and the clock from one event to the next.                     *)

\* A number below the modulus is its own remainder.
LEMMA ModSmall == ASSUME NEW a \in Nat, NEW b \in Nat, a < b PROVE a % b = a
OBVIOUS

\* A tempo that is measurable is converted without a carry and without a limit.
LEMMA ConvIs ==
    ASSUME NEW tempo \in Nat, Measurable(tempo)
    PROVE  TempoConv(tempo) = ConvOf(tempo)
<1>. DEFINE c == ConvOf(tempo)
<1>1. tempo * 1024 < U32 /\ c \in 4 .. USHRT_MAX /\ USHRT_MAX \in Nat /\ U32 \in Nat
  BY ConvMax, LimitsType DEF Measurable
<1>2. (tempo * 1024) % U32 = tempo * 1024
  <2>. DEFINE a == tempo * 1024
  <2>1. a \in Nat /\ a < U32
    BY <1>1
  <2>. HIDE DEF a
  <2>2. a % U32 = a
    BY <1>1, <2>1, ModSmall
  <2>. QED BY <2>2, Zenon DEF a
<1>3. TempoConv(tempo) = Min({c, USHRT_MAX})
  <2>. DEFINE v == ((((tempo * 1024) % U32) \div ppqn) + 500) \div 1000
  <2>1. TempoConv(tempo) = Min({v, USHRT_MAX})
    BY DEF TempoConv
  <2>2. v = c
    BY <1>2 DEF ConvOf
  <2>. HIDE DEF v, c
  <2>. QED BY <2>1, <2>2
<1>. HIDE DEF c
<1>4. c \in Nat /\ c <= USHRT_MAX
  BY <1>1
<1>5. Min({c, USHRT_MAX}) = c
  <2>1. \A x \in {c, USHRT_MAX} : (\A y \in {c, USHRT_MAX} : x <= y) => x = c
    BY <1>1, <1>4
  <2>2. c \in {c, USHRT_MAX} /\ \A y \in {c, USHRT_MAX} : c <= y
    BY <1>1, <1>4
  <2>. QED BY <2>1, <2>2 DEF Min
<1>. QED BY <1>3, <1>5 DEF c

\* The same of the default tempo, which is cut to 16 bits.
LEMMA DefaultConvIs ==
    ASSUME Measurable(DefaultTempo)
    PROVE  DefaultConv = ConvOf(DefaultTempo)
<1>. DEFINE c == ConvOf(DefaultTempo)
            b == USHRT_MAX + 1
<1>1. c \in 4 .. USHRT_MAX
  BY DEF Measurable
<1>2. DefaultConv = c % b
  BY DEF DefaultConv, ConvOf
<1>3. b \in Nat /\ c \in Nat /\ c < b
  BY <1>1, ConvMax
<1>. HIDE DEF b, c
<1>4. c % b = c
  BY <1>3, ModSmall
<1>. QED BY <1>2, <1>4 DEF c

\* So is the one in force before any event of the file.
LEMMA TempoMeasured ==
    ASSUME song \in Songs, score = Score, Measured, NEW i \in 1 .. N + 1
    PROVE  TempoBefore(i) \in Nat /\ Measurable(TempoBefore(i))
<1>. DEFINE S == {m \in 0 .. N : TempoBefore(m + 1) \in Nat /\ Measurable(TempoBefore(m + 1))}
<1>1. N \in Nat
  BY ScoreType
<1>2. 0 \in S
  BY <1>1, TempoStep, SmfAssumption DEF Measured
<1>3. ASSUME NEW m \in 0 .. N - 1, m \in S PROVE m + 1 \in S
  <2>1. m + 1 \in Nat \ {0} /\ m + 1 \in 1 .. N
    BY <1>1
  <2>2. TempoBefore((m + 1) + 1) = IF EventOf(m + 1).kind = "tempo" THEN EventOf(m + 1).tempo
                                   ELSE TempoBefore(m + 1)
    BY <2>1, TempoStep
  <2>3. EventOf(m + 1).tempo \in Nat
    BY <2>1, EventType DEF Event
  <2>4. EventOf(m + 1).kind = "tempo" => Measurable(EventOf(m + 1).tempo)
    BY <2>1 DEF Measured
  <2>. QED BY <1>3, <2>1, <2>2, <2>3, <2>4
<1>. HIDE DEF S
<1>4. 0 .. N \subseteq S
  BY <1>1, <1>2, <1>3, UpTo
<1>5. i - 1 \in S /\ (i - 1) + 1 = i
  BY <1>1, <1>4
<1>. QED BY <1>5 DEF S

\* What the clock may miss of gap i.
Slack(i) == IF Gap(i) = 0 THEN 0 ELSE 126 * Gap(i) + 1000

\* The sums over the gaps, one gap further.
LEMMA SumsStep ==
    ASSUME song \in Songs, score = Score, NEW i \in 1 .. N
    PROVE  /\ Elapsed(0) = 0 /\ Elapsed(i) = Elapsed(i - 1) + Gap(i) * TempoBefore(i)
           /\ Missed(0) = 0 /\ Missed(i) = Missed(i - 1) + Slack(i)
<1>. DEFINE d == [k \in DOMAIN score |-> Gap(k) * TempoBefore(k)]
            e == [k \in DOMAIN score |-> IF Gap(k) = 0 THEN 0 ELSE 126 * Gap(k) + 1000]
<1>1. i \in DOMAIN score /\ i - 1 \in Nat /\ (i - 1) + 1 = i
  BY EventType
<1>2. d[i] = Gap(i) * TempoBefore(i) /\ e[i] = Slack(i)
  BY <1>1 DEF Slack
<1>3. \A k : Elapsed(k) = SumTo(d, k) /\ Missed(k) = SumTo(e, k)
  BY DEF Elapsed, Missed
<1>. HIDE DEF d, e
<1>4. /\ SumTo(d, 0) = 0 /\ SumTo(d, i) = SumTo(d, i - 1) + d[i]
      /\ SumTo(e, 0) = 0 /\ SumTo(e, i) = SumTo(e, i - 1) + e[i]
  BY <1>1, SumToStep
<1>. QED BY <1>2, <1>3, <1>4

\* They are natural numbers.
LEMMA SumsType ==
    ASSUME song \in Songs, score = Score, Measured, NEW i \in 0 .. N
    PROVE  Elapsed(i) \in Nat /\ Missed(i) \in Nat
<1>. DEFINE S == {m \in 0 .. N : Elapsed(m) \in Nat /\ Missed(m) \in Nat}
<1>1. N \in Nat
  BY ScoreType
<1>2. ASSUME N # 0 PROVE 0 .. N \subseteq S
  <2>1. 0 \in S
    <3>1. 1 \in 1 .. N
      BY <1>1, <1>2
    <3>. QED BY <1>1, <3>1, SumsStep
  <2>2. ASSUME NEW m \in 0 .. N - 1, m \in S PROVE m + 1 \in S
    <3>1. m + 1 \in 1 .. N /\ m + 1 \in 1 .. N + 1 /\ (m + 1) - 1 = m
      BY <1>1
    <3>2. Gap(m + 1) \in Nat /\ TempoBefore(m + 1) \in Nat
      BY <3>1, GapType, TempoMeasured
    <3>3. Gap(m + 1) * TempoBefore(m + 1) \in Nat /\ Slack(m + 1) \in Nat
      BY <3>2 DEF Slack
    <3>4. Elapsed(m + 1) = Elapsed(m) + Gap(m + 1) * TempoBefore(m + 1)
          /\ Missed(m + 1) = Missed(m) + Slack(m + 1)
      BY <3>1, SumsStep
    <3>. QED BY <2>2, <3>1, <3>3, <3>4
  <2>. HIDE DEF S
  <2>. QED BY <1>1, <2>1, <2>2, UpTo
<1>3. ASSUME N = 0 PROVE Elapsed(i) = 0 /\ Missed(i) = 0
  BY <1>3, SumToStep DEF Elapsed, Missed
<1>. QED BY <1>2, <1>3

\* A clock that is on time is below its limit.
LEMMA ClockFits ==
    ASSUME song \in Songs, score = Score, Measured, NEW i \in 1 .. N, Tick(score[i]) < U32,
           NEW tm \in Nat, OnTime(i, tm)
    PROVE  tm < ClockLimit /\ Signed(tm) = tm
<1>. DEFINE E == Elapsed(i)
            M == ppqn * Missed(i)
            A == ppqn * tm
            B == ppqn * ClockLimit
<1>1. /\ ppqn \in Nat \ {0} /\ ClockLimit \in Nat /\ i \in 0 .. N
      /\ Elapsed(i) \in Nat /\ Missed(i) \in Nat /\ U32 = 2 * ClockLimit
  <2>1. i \in 0 .. N
    BY ScoreType
  <2>2. Elapsed(i) \in Nat /\ Missed(i) \in Nat
    BY <2>1, SumsType
  <2>3. ppqn \in Nat \ {0}
    BY SmfAssumption
  <2>4. ClockLimit \in Nat /\ U32 = 2 * ClockLimit
    BY SignedType
  <2>. QED BY <2>1, <2>2, <2>3, <2>4
<1>2. A \in Nat /\ B \in Nat /\ M \in Nat /\ E \in Nat
  <2>1. \A a, b \in Nat : a * b \in Nat
    OBVIOUS
  <2>2. ppqn \in Nat /\ ClockLimit \in Nat /\ Missed(i) \in Nat /\ Elapsed(i) \in Nat
    BY <1>1
  <2>. QED BY <2>1, <2>2
<1>3. 1000 * ppqn * tm = 1000 * A /\ 1000 * ppqn * ClockLimit = 1000 * B
  BY <1>1
<1>4. 256 * Elapsed(i) + ppqn * Missed(i) < 1000 * ppqn * ClockLimit
  BY DEF Measured
<1>5. 1000 * ppqn * tm - 256 * Elapsed(i) \in -(ppqn * Missed(i)) .. ppqn * Missed(i)
  BY DEF OnTime
<1>6. 256 * E + M < 1000 * B /\ 1000 * A - 256 * E \in -M .. M
  <2>1. 256 * E + M < 1000 * ppqn * ClockLimit
    BY <1>4
  <2>2. 1000 * ppqn * tm - 256 * E \in -M .. M
    BY <1>5
  <2>. QED BY <1>3, <2>1, <2>2
<1>. HIDE DEF E, M, A, B
<1>7. A < B
  BY <1>2, <1>6
<1>8. tm < ClockLimit
  <2>1. ASSUME ClockLimit <= tm PROVE FALSE
    <3>1. ppqn * ClockLimit <= ppqn * tm
      BY <1>1, <2>1
    <3>. QED BY <1>2, <1>7, <3>1 DEF A, B
  <2>. QED BY <1>1, <2>1
<1>9. Wrap(tm) = tm
  BY <1>1, <1>8, WrapSmall
<1>. QED BY <1>8, <1>9 DEF Signed

\* So is what a gap takes, before it is cut to the width of the clock.
LEMMA GapFits ==
    ASSUME song \in Songs, score = Score, Measured, NEW i \in 1 .. N, Tick(score[i]) < U32
    PROVE  Gap(i) * ConvOf(TempoBefore(i)) < 4 * U32
<1>. DEFINE g == Gap(i)
            T == TempoBefore(i)
            c == ConvOf(T)
            p == ppqn
            L == ClockLimit
<1>1. /\ i \in 1 .. N + 1 /\ i - 1 \in 0 .. N /\ p \in Nat \ {0} /\ L \in Nat /\ U32 = 2 * L
      /\ U32 \in Nat \ {0}
  <2>1. N \in Nat
    BY ScoreType
  <2>2. i \in 1 .. N + 1 /\ i - 1 \in 0 .. N
    BY <2>1
  <2>3. p \in Nat \ {0}
    BY SmfAssumption
  <2>4. L \in Nat /\ U32 = 2 * L
    BY SignedType
  <2>5. U32 \in Nat \ {0}
    BY LimitsType
  <2>. QED BY <2>2, <2>3, <2>4, <2>5
<1>2. g \in Nat /\ T \in Nat /\ c \in Nat /\ 1000 * (p * c) <= 1024 * T + 500 * p
  BY <1>1, GapType, TempoMeasured, ConvClose
<1>3. /\ Elapsed(i) = Elapsed(i - 1) + g * T /\ Missed(i) = Missed(i - 1) + Slack(i)
      /\ Elapsed(i - 1) \in Nat /\ Missed(i - 1) \in Nat
      /\ Slack(i) = IF g = 0 THEN 0 ELSE 126 * g + 1000
  BY <1>1, SumsStep, SumsType DEF Slack
<1>4. 256 * Elapsed(i) + p * Missed(i) < 1000 * p * L
  BY DEF Measured
<1>. HIDE DEF g, T, c, p, L
<1>5. CASE g = 0
  <2>1. g * c = 0
    BY <1>2, <1>5
  <2>. QED BY <1>1, <2>1 DEF g, c, T
<1>6. CASE g # 0
  <2>. DEFINE X == g * T
              Y == p * g
              Z == p * (g * c)
              B == p * L
  <2>1. X \in Nat /\ Y \in Nat /\ Z \in Nat /\ B \in Nat /\ g * c \in Nat
    BY <1>1, <1>2
  <2>2. p * Missed(i) >= 126 * Y /\ Elapsed(i) >= X
    <3>1. Missed(i) >= 126 * g /\ Missed(i) \in Nat
      BY <1>2, <1>3, <1>6
    <3>2. p * Missed(i) >= p * (126 * g) /\ p * (126 * g) = 126 * Y
      BY <1>1, <1>2, <3>1
    <3>. QED BY <1>3, <2>1, <3>2
  <2>3. 1000 * Z <= 1024 * X + 500 * Y
    <3>1. g * (1000 * (p * c)) <= g * (1024 * T + 500 * p)
      BY <1>1, <1>2
    <3>2. g * (1000 * (p * c)) = 1000 * Z /\ g * (1024 * T + 500 * p) = 1024 * X + 500 * Y
      BY <1>1, <1>2
    <3>. QED BY <3>1, <3>2
  <2>4. 1000 * p * L = 1000 * B
    BY <1>1
  <2>5. Elapsed(i) \in Nat /\ p * Missed(i) \in Nat
    BY <1>1, <1>2, <1>3, <1>6, <2>1
  <2>. DEFINE E == Elapsed(i)
              M == p * Missed(i)
  <2>6. 256 * E + M < 1000 * B /\ M >= 126 * Y /\ E >= X /\ E \in Nat /\ M \in Nat
    BY <1>4, <2>2, <2>4, <2>5
  <2>. HIDE DEF E, M, X, Y, Z, B
  <2>7. Z < 4 * B
    BY <2>1, <2>3, <2>6
  <2>8. g * c < 4 * L
    <3>1. ASSUME 4 * L <= g * c PROVE FALSE
      <4>1. p * (4 * L) <= p * (g * c) /\ p * (4 * L) = 4 * (p * L)
        BY <1>1, <2>1, <3>1
      <4>. QED BY <2>1, <2>7, <4>1 DEF Z, B
    <3>. QED BY <1>1, <2>1, <3>1
  <2>9. g * c < 4 * U32
    BY <1>1, <2>1, <2>8
  <2>. QED BY <2>9 DEF g, c, T
<1>. QED BY <1>5, <1>6

\* The clock stays on time over a gap.
LEMMA GapTime ==
    ASSUME song \in Songs, score = Score, Measured, NEW i \in 1 .. N, Tick(score[i]) < U32,
           NEW tau, tau = TickTime(Gap(i), ConvOf(TempoBefore(i))),
           NEW tm \in Nat, OnTime(i - 1, tm)
    PROVE  tau \in Nat /\ (tau = 0 <=> Gap(i) = 0) /\ OnTime(i, tm + tau)
<1>. DEFINE g == Gap(i)
            T == TempoBefore(i)
            c == ConvOf(T)
            s == Slack(i)
            p == ppqn
            E == Elapsed(i - 1)
            M == Missed(i - 1)
<1>1. i \in 1 .. N + 1 /\ i - 1 \in 0 .. N /\ p \in Nat \ {0}
  BY ScoreType, SmfAssumption
<1>2. g \in Nat /\ T \in Nat /\ Measurable(T)
  BY <1>1, GapType, TempoMeasured
<1>3. c \in 4 .. USHRT_MAX /\ ClockSplit * c <= U32 /\ c \in Nat
  BY <1>2, ConvClose DEF Measurable
<1>4. g * c < 4 * U32
  BY GapFits
<1>5. tau = (g * c) \div 4
  BY <1>2, <1>3, <1>4, TickTimeExact
<1>6. /\ 1000 * (p * c) <= 1024 * T + 500 * p
      /\ 1024 * T <= 1000 * (p * c) + 501 * p
  BY <1>2, ConvClose
<1>7. /\ Elapsed(i) = E + g * T /\ Missed(i) = M + s /\ E \in Nat /\ M \in Nat
  BY <1>1, SumsStep, SumsType
<1>8. s = IF g = 0 THEN 0 ELSE 126 * g + 1000
  BY DEF Slack
<1>9. OnTime(i - 1, tm) <=> 1000 * p * tm - 256 * E \in -(p * M) .. p * M
  BY DEF OnTime
<1>10. OnTime(i, tm + tau) <=>
          1000 * p * (tm + tau) - 256 * Elapsed(i) \in -(p * Missed(i)) .. p * Missed(i)
  BY DEF OnTime
<1>. HIDE DEF g, T, c, s, p, E, M
<1>11. g * c \in Nat
  BY <1>2, <1>3
<1>12. tau \in Nat /\ (tau = 0 <=> g = 0)
  <2>1. g = 0 => g * c = 0
    BY <1>3
  <2>2. 4 * g <= g * c
    BY <1>2, <1>3
  <2>3. 4 * tau <= g * c /\ g * c <= 4 * tau + 3 /\ tau \in Nat
    BY <1>5, <1>11
  <2>. QED BY <1>2, <1>11, <2>1, <2>2, <2>3
<1>13. /\ 1000 * p * tau <= 256 * (g * T) + p * s
       /\ 256 * (g * T) <= 1000 * p * tau + p * s
  <2>1. CASE g = 0
    <3>1. tau = 0 /\ g * T = 0 /\ s = 0
      BY <1>2, <1>8, <1>12, <2>1
    <3>. QED BY <1>1, <3>1
  <2>2. CASE g # 0
    <3>1. s = 126 * g + 1000
      BY <1>8, <2>2
    <3>. QED BY <1>1, <1>2, <1>3, <1>5, <1>6, <1>12, <3>1, GapClose
  <2>. QED BY <2>1, <2>2
<1>14. OnTime(i, tm + tau)
  <2>. DEFINE A == p * tm
              B == p * tau
              X == g * T
              Y == p * M
              Z == p * s
  <2>1. A \in Nat /\ B \in Nat /\ X \in Nat /\ Y \in Nat /\ Z \in Nat
    BY <1>1, <1>2, <1>7, <1>8, <1>12
  <2>2. /\ 1000 * p * tm = 1000 * A /\ 1000 * p * tau = 1000 * B
        /\ 1000 * p * (tm + tau) = 1000 * A + 1000 * B /\ p * (M + s) = Y + Z
    BY <1>1, <1>2, <1>7, <1>8, <1>12
  <2>. HIDE DEF A, B, X, Y, Z
  <2>3. 1000 * A - 256 * E \in -Y .. Y
    BY <1>9, <2>2 DEF Y
  <2>4. 1000 * B <= 256 * X + Z /\ 256 * X <= 1000 * B + Z
    BY <1>13, <2>2 DEF X, Z
  <2>5. (1000 * A + 1000 * B) - 256 * (E + X) \in -(Y + Z) .. Y + Z
    BY <1>7, <2>1, <2>3, <2>4
  <2>6. Elapsed(i) = E + X /\ p * Missed(i) = Y + Z
    BY <1>7, <2>2 DEF X
  <2>. QED BY <1>10, <2>2, <2>5, <2>6
<1>. QED BY <1>12, <1>14 DEF g

-----------------------------------------------------------------------------
(* The clock from step to step.                                            *)

\* What the file says does not change.
LEMMA FileKept ==
    ASSUME song' = song, score' = score
    PROVE  /\ N' = N /\ DOMAIN score' = DOMAIN score
           /\ \A i : EventOf(i)' = EventOf(i) /\ Tick(score[i])' = Tick(score[i])
           /\ \A i : TempoBefore(i)' = TempoBefore(i)
           /\ \A i : (SetupSeen(i)' <=> SetupSeen(i)) /\ (NoteBefore(i)' <=> NoteBefore(i))
           /\ \A i : InSetupBar(i)' <=> InSetupBar(i)
           /\ \A i : Gap(i)' = Gap(i)
           /\ \A i : Elapsed(i)' = Elapsed(i) /\ Missed(i)' = Missed(i)
<1>1. N' = N /\ DOMAIN score' = DOMAIN score
  BY SongKept DEF N
<1>2. \A i : EventOf(i)' = EventOf(i) /\ Tick(score[i])' = Tick(score[i])
  <2>1. \A i : EventOf(i)' = EventOf(i)
    BY DEF EventOf
  <2>2. \A i : Tick(score[i])' = Tick(score[i])
    BY SongKept
  <2>. QED BY <2>1, <2>2
<1>3. ASSUME NEW i PROVE TempoBefore(i)' = TempoBefore(i)
  <2>. DEFINE C == {j \in 1 .. i - 1 : EventOf(j).kind = "tempo"}
  <2>1. C' = C
    BY <1>2
  <2>2. /\ TempoBefore(i) = IF C = {} THEN DefaultTempo ELSE EventOf(Max(C)).tempo
        /\ TempoBefore(i)' = IF C' = {} THEN DefaultTempo ELSE EventOf(Max(C))'.tempo
    BY DEF TempoBefore
  <2>3. EventOf(Max(C))' = EventOf(Max(C))
    BY <1>2, <2>1
  <2>. HIDE DEF C
  <2>. QED BY <2>1, <2>2, <2>3
<1>4. ASSUME NEW i PROVE (SetupSeen(i)' <=> SetupSeen(i)) /\ (NoteBefore(i)' <=> NoteBefore(i))
  BY <1>2 DEF SetupSeen, NoteBefore
<1>5. ASSUME NEW i PROVE InSetupBar(i)' <=> InSetupBar(i)
  BY <1>4 DEF InSetupBar
<1>6. ASSUME NEW i PROVE Gap(i)' = Gap(i)
  BY <1>2, <1>5 DEF Gap
<1>7. ASSUME NEW i PROVE Elapsed(i)' = Elapsed(i) /\ Missed(i)' = Missed(i)
  BY <1>3, <1>6 DEF Elapsed, Missed
<1>. QED BY <1>1, <1>2, <1>3, <1>4, <1>5, <1>6, <1>7

\* All of the parser that the clock depends on, at event m.
ClockAt(m, tm, conv, f, mf) ==
    /\ tm \in Nat /\ conv = ConvOf(TempoBefore(m))
    /\ Chasing(m, f) /\ Starting(m, tm) /\ SetupFlags(m, tm, f) /\ HeardInv(m, mf)
    /\ OnTime(m, tm)

\* Nor does what is said of a place in it.
LEMMA ClockAtKept ==
    ASSUME song' = song, score' = score
    PROVE  \A m, tm, conv, f, mf : ClockAt(m, tm, conv, f, mf)' <=> ClockAt(m, tm, conv, f, mf)
<1>. SUFFICES ASSUME NEW m, NEW tm, NEW conv, NEW f, NEW mf
              PROVE  ClockAt(m, tm, conv, f, mf)' <=> ClockAt(m, tm, conv, f, mf)
  OBVIOUS
<1>1. conv = ConvOf(TempoBefore(m))' <=> conv = ConvOf(TempoBefore(m))
  BY FileKept DEF ConvOf
<1>2. Chasing(m, f)' <=> Chasing(m, f)
  BY FileKept DEF Chasing
<1>3. Starting(m, tm)' <=> Starting(m, tm)
  BY FileKept DEF Starting
<1>4. SetupFlags(m, tm, f)' <=> SetupFlags(m, tm, f)
  BY FileKept DEF SetupFlags, Seen
<1>5. HeardInv(m, mf)' <=> HeardInv(m, mf)
  BY FileKept DEF HeardInv, Tracks
<1>6. OnTime(m, tm)' <=> OnTime(m, tm)
  BY FileKept DEF OnTime
<1>. QED BY <1>1, <1>2, <1>3, <1>4, <1>5, <1>6 DEF ClockAt

\* Nor does what is asked of it.
LEMMA AskedKept ==
    ASSUME song' = song, score' = score, Measured, SetupFirst, OneSetup
    PROVE  Measured' /\ SetupFirst' /\ OneSetup'
<1>1. Measured'
  BY FileKept DEF Measured, Measurable, ConvOf
<1>2. SetupFirst'
  BY FileKept DEF SetupFirst
<1>3. OneSetup'
  BY FileKept DEF OneSetup, GMMessage
<1>. QED BY <1>1, <1>2, <1>3

\* Where the parser is.
AtEvent ==
    /\ Here \in 1 .. N /\ score[Here] = <<nextStream, pos[nextStream] + 1>>
    /\ Tick(score[Here]) = ticks[nextStream]
    /\ Left \in Seq(Places) /\ Left # <<>>

\* The parser has an event to come.
Playing == state \in {"READY", "PLAY"} /\ nextStream # 0

\* The parser is at the first event that is left of the score.
LEMMA AtHere == IInv /\ InTime /\ OrderInv /\ Playing => AtEvent
<1>. SUFFICES ASSUME IInv, InTime, OrderInv, state \in {"READY", "PLAY"}, nextStream # 0
              PROVE  AtEvent
  BY DEF Playing
<1>. DEFINE p == <<nextStream, pos[nextStream] + 1>>
<1>1. song \in Songs /\ score = Score /\ Split(pos) /\ N \in Nat
  BY ScoreType DEF IInv, OrderInv
<1>2. /\ p \in Places /\ p[2] > pos[p[1]] /\ ticks[nextStream] = Tick(p)
      /\ \A q \in Places : q[2] > pos[q[1]] /\ q # p => Before(p, q)
  <2>1. pos[nextStream] \in Nat
    BY NextComesFirst DEF IInv, TypeOK
  <2>. QED BY <2>1, NextComesFirst
<1>. HIDE DEF p
<1>3. PICK n \in 0 .. N : ReadTo(pos, n)
  BY <1>1, ReadIsPrefix
<1>4. Left = Suffix(n)
  <2>1. Left = LeftOf(score, pos)
    BY DEF Left, LeftOf
  <2>. QED BY <1>1, <1>3, <2>1, LeftIsSuffix
<1>5. PICK i \in 1 .. N : Score[i] = p
  BY <1>1, <1>2, ScoreType
<1>6. i > n
  BY <1>2, <1>3, <1>5 DEF ReadTo
<1>7. Len(Left) = N - n /\ n + 1 \in 1 .. N /\ n + 1 > n
  BY <1>1, <1>3, <1>4, <1>6 DEF Suffix
<1>8. Here = n + 1
  <2>1. Len(score) = N
    BY <1>1, EventType
  <2>. QED BY <1>1, <1>7, <2>1 DEF Here
<1>9. Score[n + 1] = p
  <2>. SUFFICES ASSUME Score[n + 1] # p PROVE FALSE
    OBVIOUS
  <2>1. Score[n + 1] \in Places /\ Score[n + 1][2] > pos[Score[n + 1][1]]
    BY <1>1, <1>3, <1>7, ScoreType DEF ReadTo
  <2>2. Before(p, Score[n + 1])
    BY <1>2, <2>1
  <2>3. n + 1 < i
    BY <1>1, <1>5, <1>6
  <2>4. Before(Score[n + 1], p)
    BY <1>1, <1>5, <1>7, <2>3, ScoreType
  <2>5. \A q \in {p, Score[n + 1]} : q[1] \in Nat /\ q[2] \in Nat /\ Tick(q) \in Nat
    BY <1>1, <1>2, <2>1, PlacesType, SongType, ReadableType
  <2>. QED BY <2>2, <2>4, <2>5 DEF Before
<1>10. Left \in Seq(Places) /\ Left # <<>>
  <2>1. N - n \in Nat /\ N - n # 0 /\ Suffix(n) \in [1 .. N - n -> Places]
    BY <1>1, <1>3, <1>7, ScoreType DEF Suffix
  <2>2. Suffix(n) \in Seq(Places)
    BY <2>1
  <2>3. Len(Left) # 0
    BY <1>7, <2>1
  <2>. QED BY <1>4, <2>2, <2>3
<1>. QED BY <1>1, <1>2, <1>7, <1>8, <1>9, <1>10 DEF AtEvent, p

\* So it is after a step.
LEMMA AtNext == IInv' /\ InTime' /\ OrderInv' /\ Playing' => AtEvent'
BY AtHere, PTL

\* One event on: the setup bar takes no time, a gap what its tempo says.
LEMMA ClockNext ==
    ASSUME song \in Songs, score = Score, Measured, NEW m \in 1 .. N, m + 1 \in 1 .. N,
           Tick(score[m + 1]) < U32, NEW tm \in Nat, Starting(m, tm), OnTime(m, tm),
           NEW f, Chasing(m + 1, f), InSetupBar(m + 1) => tm = 0, SetupFlags(m + 1, tm, f),
           NEW conv, conv = ConvOf(TempoBefore(m + 1)),
           NEW tn, tn = IF "chase" \in f THEN tm
                        ELSE Signed(tm + TickTime(Tick(score[m + 1]) - Tick(score[m]), conv))
    PROVE  tn \in Nat /\ Starting(m + 1, tn) /\ SetupFlags(m + 1, tn, f) /\ OnTime(m + 1, tn)
<1>. DEFINE i == m + 1
            g == Gap(i)
            tau == TickTime(g, ConvOf(TempoBefore(i)))
<1>1. m \in Nat \ {0} /\ i \in 1 .. N /\ i - 1 = m /\ i # 1 /\ m \in 1 .. i - 1
  BY ScoreType
<1>2. Tick(score[m]) \in Nat /\ Tick(score[i]) \in Nat
  BY <1>1, EventType
<1>3. "chase" \in f <=> InSetupBar(i)
  BY DEF Chasing
<1>4. tau \in Nat /\ (tau = 0 <=> g = 0) /\ OnTime(i, tm + tau)
  BY <1>1, GapTime
<1>5. /\ g \in Nat
      /\ InSetupBar(i) => g = 0
      /\ ~InSetupBar(i) => g = Tick(score[i]) - Tick(score[m])
  BY <1>1, GapType
<1>6. tn = tm + tau
  <2>1. CASE InSetupBar(i)
    <3>1. tau = 0 /\ tn = tm
      BY <1>3, <1>4, <1>5, <2>1
    <3>. QED BY <3>1
  <2>2. CASE ~InSetupBar(i)
    <3>1. tn = Signed(tm + tau)
      BY <1>3, <1>5, <2>2
    <3>2. tm + tau \in Nat
      BY <1>4
    <3>. HIDE DEF tau, i
    <3>3. Signed(tm + tau) = tm + tau
      BY <1>1, <1>4, <3>2, ClockFits DEF i
    <3>. QED BY <3>1, <3>3
  <2>. QED BY <2>1, <2>2
<1>7. tn \in Nat /\ OnTime(i, tn) /\ (tn = 0 <=> tm = 0 /\ tau = 0)
  BY <1>4, <1>6
<1>. HIDE DEF tau, g
<1>8. SetupFlags(i, tn, f)
  BY <1>7 DEF SetupFlags
<1>9. Starting(i, tn)
  <2>1. InSetupBar(i) => tn = 0
    BY <1>4, <1>5, <1>7
  <2>2. Tick(score[i]) = 0 => tn = 0
    <3>1. ASSUME Tick(score[i]) = 0 PROVE tn = 0
      <4>1. Tick(score[m]) <= Tick(score[i])
        BY <1>1, ScoreGrows
      <4>2. Tick(score[m]) = 0
        BY <1>2, <3>1, <4>1
      <4>3. tm = 0 /\ g = 0
        BY <1>2, <1>5, <3>1, <4>2 DEF Starting
      <4>. QED BY <1>4, <1>7, <4>3
    <3>. QED BY <3>1
  <2>3. tn = 0 => Tick(score[i]) = 0 \/ SetupSeen(i)
    <3>1. ASSUME tn = 0, ~SetupSeen(i) PROVE Tick(score[i]) = 0
      <4>1. tm = 0 /\ g = 0 /\ ~InSetupBar(i)
        BY <1>4, <1>7, <3>1 DEF InSetupBar
      <4>2. ~SetupSeen(m)
        BY <1>1, <3>1, SetupStep
      <4>3. Tick(score[m]) = 0
        BY <4>1, <4>2 DEF Starting
      <4>. QED BY <1>2, <1>5, <4>1, <4>3
    <3>. QED BY <3>1
  <2>4. ASSUME tn = 0, NEW k \in 1 .. i - 1, EventOf(k).kind = "note"
        PROVE  Tick(score[k]) = Tick(score[i])
    <3>1. ~InSetupBar(i)
      BY <2>4 DEF InSetupBar, NoteBefore
    <3>2. tm = 0 /\ Tick(score[i]) = Tick(score[m])
      BY <1>2, <1>4, <1>5, <1>7, <2>4, <3>1
    <3>3. k = m \/ k \in 1 .. m - 1
      BY <1>1
    <3>4. CASE k = m
      BY <3>2, <3>4
    <3>5. CASE k \in 1 .. m - 1
      BY <2>4, <3>2, <3>5 DEF Starting
    <3>. QED BY <3>3, <3>4, <3>5
  <2>. QED BY <2>1, <2>2, <2>3, <2>4 DEF Starting
<1>. QED BY <1>7, <1>8, <1>9

\* The start: the gap before the first event is timed with the default tempo.
LEMMA ClockStart ==
    ASSUME song \in Songs, score = Score, Measured, 1 \in 1 .. N, Tick(score[1]) < U32,
           NEW mf, \A t \in Tracks : mf[t] = {},
           NEW tn, tn = Signed(TickTime(Tick(score[1]), DefaultConv))
    PROVE  ClockAt(1, tn, DefaultConv, {}, mf)
<1>1. TempoBefore(1) = DefaultTempo /\ DefaultConv = ConvOf(DefaultTempo)
  BY TempoStep, DefaultConvIs DEF Measured
<1>2. ~SetupSeen(1) /\ ~NoteBefore(1) /\ \A k : ~Seen(k, 1)
  BY SetupStep, SeenStep
<1>3. ~InSetupBar(1) /\ Tick(score[1]) \in Nat
  BY <1>2, EventType DEF InSetupBar
<1>4. Gap(1) = Tick(score[1])
  BY <1>3, GapType
<1>5. OnTime(0, 0)
  <2>1. Elapsed(0) = 0 /\ Missed(0) = 0
    BY SumsStep
  <2>. QED BY <2>1, SmfAssumption DEF OnTime
<1>6. tn \in Nat /\ (tn = 0 <=> Tick(score[1]) = 0) /\ OnTime(1, tn)
  <2>. DEFINE tau == TickTime(Gap(1), ConvOf(TempoBefore(1)))
  <2>1. tn = Signed(tau) /\ OnTime(1 - 1, 0)
    BY <1>1, <1>4, <1>5
  <2>2. tau \in Nat /\ (tau = 0 <=> Gap(1) = 0) /\ OnTime(1, 0 + tau)
    BY <2>1, GapTime
  <2>3. 0 + tau = tau
    BY <2>2
  <2>. HIDE DEF tau
  <2>4. OnTime(1, tau)
    BY <2>2, <2>3
  <2>5. Signed(tau) = tau
    BY <2>2, <2>4, ClockFits
  <2>. QED BY <1>4, <2>1, <2>2, <2>4, <2>5
<1>7. Starting(1, tn)
  BY <1>3, <1>6 DEF Starting
<1>8. Chasing(1, {}) /\ SetupFlags(1, tn, {}) /\ HeardInv(1, mf)
  BY <1>2, <1>3 DEF Chasing, SetupFlags, HeardInv
<1>. QED BY <1>1, <1>6, <1>7, <1>8 DEF ClockAt

\* The clock moves by the ticks to the next event, but in the setup bar.
MovesBy(f, conv) ==
    time' = IF "chase" \in f THEN time
            ELSE UpdateTime(ticks'[nextStream'] - ticks[nextStream], conv)

\* Whichever way SMF_Event finds the next event, it moves the clock to it.
LEMMA NextEventMoves ==
    ASSUME NEW due, NEW f, NEW conv, NextEvent(due, f, conv), nextStream' # 0
    PROVE  MovesBy(f, conv)
BY DEF NextEvent, MovesBy

LEMMA EventMoves ==
    ASSUME NEW n, NEW f, NEW conv, NextDelta(n, f, conv) \/ EndTrack(f, conv),
           state' # "ERROR", nextStream' # 0, ticks[nextStream] \in Nat, time \in Nat,
           UpdateTime(0, conv) = time
    PROVE  MovesBy(f, conv)
<1>1. ASSUME EndTrack(f, conv) PROVE MovesBy(f, conv)
  BY <1>1, NextEventMoves DEF EndTrack
<1>2. ASSUME UNCHANGED <<nextStream, ticks, time>> PROVE MovesBy(f, conv)
  <2>1. ticks'[nextStream'] - ticks[nextStream] = 0
    BY <1>2
  <2>. QED BY <1>2, <2>1 DEF MovesBy
<1>3. ASSUME NEW due, NextEvent(due, f, conv) PROVE MovesBy(f, conv)
  BY <1>3, NextEventMoves
<1>. QED BY <1>1, <1>2, <1>3 DEF NextDelta

\* Behind the event the flags say where in the setup bar the parser is, and the
\* conversion is that of the tempo in force.
LEMMA EventClock ==
    ASSUME IInv, OrderInv, Measured, SetupFirst, OneSetup, mode = "play",
           NEW m \in 1 .. N, score[m] = <<nextStream, pos[nextStream] + 1>>,
           ClockAt(m, time, tickConv, flags, midiFlags), SMF_Event, state' # "ERROR", nextStream' # 0
    PROVE  /\ Chasing(m + 1, flags') /\ (InSetupBar(m + 1) => time = 0)
           /\ SetupFlags(m + 1, time, flags') /\ HeardInv(m + 1, midiFlags')
           /\ tickConv' = ConvOf(TempoBefore(m + 1))
           /\ MovesBy(flags', tickConv')
<1>. DEFINE e == EventOf(m)
            t == score[m][1]
            c == ConvOf(TempoBefore(m + 1))
<1>1. /\ song \in Songs /\ score = Score /\ N \in Nat
      /\ m \in Nat \ {0} /\ m + 1 \in 1 .. N + 1 /\ t \in Tracks /\ t = nextStream
  BY ScoreType, EventType DEF IInv, OrderInv
<1>2. e = song[nextStream][pos[nextStream] + 1] /\ e \in Event
  BY <1>1, EventType DEF EventOf
<1>3. /\ Chasing(m, flags) /\ Starting(m, time) /\ SetupFlags(m, time, flags)
      /\ HeardInv(m, midiFlags) /\ time \in Nat /\ tickConv = ConvOf(TempoBefore(m))
  BY DEF ClockAt
<1>4. midiFlags = [u \in Tracks |-> midiFlags[u]] /\ ticks[nextStream] \in Nat
  BY <1>1, LimitsType DEF IInv, TypeOK
<1>5. TempoBefore(m + 1) = IF e.kind = "tempo" THEN e.tempo ELSE TempoBefore(m)
  BY <1>1, TempoStep
<1>6. /\ TempoBefore(m + 1) \in Nat /\ Measurable(TempoBefore(m + 1))
      /\ TempoConv(TempoBefore(m + 1)) = c
  BY <1>1, TempoMeasured, ConvIs
<1>7. UpdateTime(0, c) = time
  <2>1. c \in Nat /\ ClockSplit * c <= U32 /\ 0 * c = 0
    BY <1>6, ConvClose DEF Measurable
  <2>. HIDE DEF c
  <2>2. 0 * c < 4 * U32 /\ 0 \in Nat
    BY <2>1, LimitsType
  <2>3. TickTime(0, c) = (0 * c) \div 4
    BY <2>1, <2>2, TickTimeExact
  <2>4. time + TickTime(0, c) = time
    BY <1>3, <2>1, <2>3
  <2>5. time < ClockLimit /\ time < U32 /\ Wrap(time) = time
    <3>1. time < ClockLimit /\ time < U32
      BY <1>3, SignedType DEF IInv, TypeOK
    <3>. QED BY <1>3, <3>1, WrapSmall
  <2>. QED BY <2>4, <2>5 DEF UpdateTime, Signed
<1>. HIDE DEF e, t, c
<1>8. CASE PlayEvent
  <2>. DEFINE h == Heard(t, e)
              f == Chase(flags \union SetupOf(e, h), h)
  <2>1. /\ midiFlags' = [midiFlags EXCEPT ![t] = h]
        /\ flags' = f
        /\ tickConv' = IF e.kind = "tempo" THEN TempoConv(e.tempo) ELSE tickConv
        /\ NextDelta(pos[nextStream] + 1, f, tickConv') \/ EndTrack(f, tickConv')
    BY <1>1, <1>2, <1>8 DEF PlayEvent
  <2>2. tickConv' = c
    BY <1>3, <1>5, <1>6, <2>1 DEF c
  <2>3. h = Heard(score[m][1], EventOf(m)) /\ f = Chase(flags \union SetupOf(EventOf(m), h), h)
    BY DEF e, t
  <2>. HIDE DEF h, f
  <2>4. MovesBy(f, c)
    BY <1>3, <1>4, <1>7, <2>1, <2>2, EventMoves
  <2>5. /\ Chasing(m + 1, f) /\ (InSetupBar(m + 1) => time = 0)
        /\ SetupFlags(m + 1, time, f)
    BY <1>1, <1>3, <2>3, FlagsStep
  <2>6. HeardInv(m + 1, midiFlags')
    <3>. DEFINE mf == midiFlags'
    <3>1. mf = [midiFlags EXCEPT ![score[m][1]] = h]
      BY <2>1 DEF t
    <3>. HIDE DEF mf
    <3>2. HeardInv(m + 1, mf)
      BY <1>1, <1>3, <1>4, <2>3, <3>1, HeardStep
    <3>. QED BY <3>2 DEF mf
  <2>7. tickConv' = ConvOf(TempoBefore(m + 1))
    BY <2>2 DEF c
  <2>8. Chasing(m + 1, flags') /\ SetupFlags(m + 1, time, flags') /\ MovesBy(flags', tickConv')
    BY <2>1, <2>2, <2>4, <2>5
  <2>. QED BY <2>5, <2>6, <2>7, <2>8
<1>9. CASE CutEvent
  <2>1. /\ e.kind = "cut" /\ EndTrack(flags, tickConv)
        /\ midiFlags' = midiFlags /\ flags' = flags /\ tickConv' = tickConv
    BY <1>2, <1>9 DEF CutEvent
  <2>2. /\ \A k : Seen(k, m + 1) <=> Seen(k, m) \/ e.kind = k
        /\ NoteBefore(m + 1) <=> NoteBefore(m) \/ e.kind = "note"
    BY <1>1, SeenStep DEF e
  <2>3. SetupSeen(m + 1) <=> SetupSeen(m)
    <3>1. ~SetupSeen(m) /\ SetupSeen(m + 1) => e.kind \in SETUP_BAR
      BY <1>1, SetupStep DEF e
    <3>2. e.kind \notin SETUP_BAR
      BY <2>1 DEF SETUP_BAR
    <3>. QED BY <1>1, <3>1, <3>2, SetupStep
  <2>4. /\ NoteBefore(m + 1) <=> NoteBefore(m)
        /\ \A k \in SETUP_BAR : Seen(k, m + 1) <=> Seen(k, m)
    BY <2>1, <2>2 DEF SETUP_BAR
  <2>5. /\ Chasing(m + 1, flags) /\ (InSetupBar(m + 1) => time = 0)
        /\ SetupFlags(m + 1, time, flags)
    BY <1>3, <2>3, <2>4 DEF Chasing, Starting, SetupFlags, InSetupBar
  <2>6. HeardInv(m + 1, midiFlags)
    <3>1. 1 .. m - 1 \subseteq 1 .. (m + 1) - 1
      BY <1>1
    <3>. QED BY <1>3, <2>4, <3>1 DEF HeardInv
  <2>7. tickConv = c
    BY <1>3, <1>5, <2>1 DEF c
  <2>8. MovesBy(flags, tickConv)
    BY <1>3, <1>4, <1>7, <2>1, <2>7, EventMoves
  <2>9. tickConv = ConvOf(TempoBefore(m + 1))
    BY <2>7 DEF c
  <2>. QED BY <2>1, <2>5, <2>6, <2>8, <2>9
<1>10. CASE BadEvent
  BY <1>10 DEF BadEvent
<1>. QED BY <1>8, <1>9, <1>10 DEF SMF_Event

\* The invariant: on the first pass the clock is on time at each event, with what
\* its next steps depend on, the tempo and the flags of the setup bar.
ClockInv ==
    /\ state = "OPEN" =>
         time = 0 /\ flags = {} /\ pass = 0 /\ \A t \in Tracks : midiFlags[t] = {}
    /\ state # "OPEN" => pass >= 1
    /\ pass < 2 => mode = "play"
    /\ pass = 1 /\ Playing => ClockAt(Here, time, tickConv, flags, midiFlags)

\* The files the theorem is about.
Timed == InTime /\ Measured /\ SetupFirst /\ OneSetup

\* What holds of the new values holds in the next state.
LEMMA ClockPrime ==
    ASSUME song' = song, score' = score, Playing' => ClockAt(Here', time', tickConv', flags', midiFlags')
    PROVE  Playing' => ClockAt(Here, time, tickConv, flags, midiFlags)'
<1>. DEFINE m == Here'
            tm == time'
            c == tickConv'
            f == flags'
            mf == midiFlags'
<1>1. ClockAt(Here, time, tickConv, flags, midiFlags)' <=> ClockAt(m, tm, c, f, mf)
  BY ClockAtKept
<1>. QED BY <1>1

\* An event keeps the clock on time: the parser goes one event further in the score.
LEMMA EventOnTime ==
    ASSUME IInv, IInv', OrderInv, OrderInv', Timed, InTime', ClockInv, SMF_Event
    PROVE  ClockInv'
<1>1. /\ Playing /\ state # "OPEN" /\ state' # "OPEN"
      /\ song' = song /\ score' = score /\ pass' = pass /\ mode' = mode
  <2>1. state' # "OPEN"
    BY DEF SMF_Event, PlayEvent, CutEvent, BadEvent, EndTrack, NextDelta, NextEvent
  <2>. QED BY <2>1 DEF SMF_Event, Playing
<1>2. ASSUME pass' = 1, Playing' PROVE ClockAt(Here', time', tickConv', flags', midiFlags')
  <2>. DEFINE m == Here
              i == Here'
  <2>1. AtEvent /\ AtEvent' /\ ClockAt(m, time, tickConv, flags, midiFlags) /\ mode = "play"
    BY <1>1, <1>2, AtHere, AtNext DEF Timed, ClockInv
  <2>2. /\ song \in Songs /\ score = Score /\ N \in Nat /\ N' = N
        /\ state' # "ERROR" /\ nextStream' # 0 /\ Len(score) \in Nat
    BY <1>1, <1>2, ScoreType, EventType, FileKept DEF IInv, OrderInv, Playing
  <2>3. /\ m \in 1 .. N /\ score[m] = <<nextStream, pos[nextStream] + 1>>
        /\ Tick(score[m]) = ticks[nextStream]
        /\ i \in 1 .. N /\ Tick(score[i]) = ticks'[nextStream']
    BY <1>1, <2>1, <2>2, FileKept DEF AtEvent
  <2>4. pos' = [pos EXCEPT ![nextStream] = @ + 1]
    BY <2>2 DEF SMF_Event, PlayEvent, CutEvent, BadEvent
  <2>5. i = m + 1
    <3>1. Left' = Tail(Left) /\ Left \in Seq(Places) /\ Left # <<>>
      BY <1>1, <2>1, <2>4, ReadOne DEF Timed, AtEvent, Playing
    <3>2. Len(Left') = Len(Left) - 1 /\ Len(Left) \in Nat
      BY <3>1
    <3>. QED BY <1>1, <2>2, <3>2 DEF Here
  <2>6. Tick(score[i]) < U32
    <3>1. nextStream' \in Tracks /\ ticks' \in [Tracks -> 0 .. U32 - 1]
      <4>1. Tracks' = Tracks /\ Len(song) \in Nat /\ Tracks = 1 .. Len(song)
        BY <1>1, <2>2, SongType, SongKept
      <4>. QED BY <1>1, <2>2, <4>1 DEF IInv, TypeOK
    <3>. QED BY <2>3, <3>1, LimitsType
  <2>7. /\ Chasing(m + 1, flags') /\ (InSetupBar(m + 1) => time = 0)
        /\ SetupFlags(m + 1, time, flags') /\ HeardInv(m + 1, midiFlags')
        /\ tickConv' = ConvOf(TempoBefore(m + 1))
        /\ MovesBy(flags', tickConv')
    BY <2>1, <2>2, <2>3, EventClock DEF Timed
  <2>8. /\ time \in Nat /\ Starting(m, time) /\ OnTime(m, time)
        /\ time' = IF "chase" \in flags' THEN time
                   ELSE Signed(time + TickTime(Tick(score[m + 1]) - Tick(score[m]), tickConv'))
    BY <2>1, <2>3, <2>5, <2>7 DEF ClockAt, MovesBy, UpdateTime
  <2>. DEFINE f == flags'
              c == tickConv'
              tn == time'
  <2>9. /\ tn = IF "chase" \in f THEN time
                ELSE Signed(time + TickTime(Tick(score[m + 1]) - Tick(score[m]), c))
        /\ Chasing(m + 1, f) /\ SetupFlags(m + 1, time, f) /\ c = ConvOf(TempoBefore(m + 1))
        /\ m + 1 \in 1 .. N /\ Tick(score[m + 1]) < U32
    BY <2>3, <2>5, <2>6, <2>7, <2>8
  <2>. HIDE DEF f, c, tn, m
  <2>10. tn \in Nat /\ Starting(m + 1, tn) /\ SetupFlags(m + 1, tn, f) /\ OnTime(m + 1, tn)
    BY <2>2, <2>3, <2>7, <2>8, <2>9, ClockNext DEF Timed
  <2>11. ClockAt(m + 1, tn, c, f, midiFlags')
    BY <2>7, <2>9, <2>10 DEF ClockAt
  <2>. QED BY <2>5, <2>11 DEF f, c, tn
<1>. QED BY <1>1, <1>2, ClockPrime DEF ClockInv

\* The song is started with the clock at its first event.
LEMMA StartOnTime ==
    ASSUME IInv, IInv', OrderInv, OrderInv', Timed, InTime', ClockInv, SMF_Prepare
    PROVE  ClockInv'
<1>1. /\ state = "OPEN" /\ state' = "READY" /\ pass' = 1 /\ song' = song /\ score' = score
      /\ mode' = mode /\ flags' = {} /\ midiFlags' = midiFlags /\ tickConv' = DefaultConv
      /\ \A t \in Tracks : midiFlags'[t] = {}
      /\ time = 0 /\ mode = "play" /\ ticks' = FirstTicks
      /\ nextStream' # 0 => time' = Signed(0 + TickTime(FirstTicks[nextStream'], DefaultConv))
      /\ pos' = [t \in Tracks |-> 0]
  BY DEF SMF_Prepare, UpdateTime, ClockInv, IInv, OpenAtStart
<1>2. ASSUME Playing' PROVE ClockAt(Here', time', tickConv', flags', midiFlags')
  <2>1. /\ song \in Songs /\ score = Score /\ N \in Nat /\ N' = N /\ nextStream' # 0
        /\ Len(score) = N
    BY <1>1, <1>2, ScoreType, EventType, FileKept DEF IInv, OrderInv, Playing
  <2>2. Here' = 1
    <3>. DEFINE q == pos'
    <3>1. q = [t \in Tracks |-> 0]
      BY <1>1
    <3>. HIDE DEF q
    <3>2. LeftOf(Score, q) = Score
      BY <2>1, <3>1, StartOrder
    <3>3. Left' = LeftOf(score', q)
      BY DEF Left, LeftOf, q
    <3>4. Left' = score
      BY <1>1, <2>1, <3>2, <3>3
    <3>. QED BY <1>1, <2>1, <3>4 DEF Here
  <2>3. 1 \in 1 .. N /\ Tick(score[1]) = ticks'[nextStream']
    BY <1>1, <1>2, <2>1, <2>2, AtNext, FileKept DEF AtEvent
  <2>4. Tick(score[1]) < U32
    <3>1. nextStream' \in Tracks /\ ticks' \in [Tracks -> 0 .. U32 - 1]
      <4>1. Tracks' = Tracks /\ Len(song) \in Nat /\ Tracks = 1 .. Len(song)
        BY <1>1, <2>1, SongType, SongKept
      <4>. QED BY <1>1, <2>1, <4>1 DEF IInv, TypeOK
    <3>. QED BY <2>3, <3>1, LimitsType
  <2>. DEFINE tn == time'
              mf == midiFlags'
  <2>5. tn = Signed(TickTime(Tick(score[1]), DefaultConv)) /\ \A t \in Tracks : mf[t] = {}
    <3>1. TickTime(Tick(score[1]), DefaultConv) \in Nat
      <4>1. Tick(score[1]) \in Nat /\ DefaultConv \in Nat
        BY <2>1, <2>3, EventType, DefaultConvType, ConvMax
      <4>. QED BY <4>1, TickTimeType
    <3>. QED BY <1>1, <2>1, <2>3, <3>1
  <2>. HIDE DEF tn, mf
  <2>6. ClockAt(1, tn, DefaultConv, {}, mf)
    BY <2>1, <2>3, <2>4, <2>5, ClockStart DEF Timed
  <2>. QED BY <1>1, <2>2, <2>6 DEF tn, mf
<1>. QED BY <1>1, <1>2, ClockPrime DEF ClockInv

\* The other operations leave the clock alone, or the first pass.
LEMMA StepOnTime ==
    ASSUME IInv, IInv', OrderInv, OrderInv', Timed, InTime', ClockInv, [Next]_vars
    PROVE  Timed' /\ ClockInv'
<1>1. song' = song /\ score' = score
  BY DEF Next, vars, SMF_Prepare, SMF_Reset, SMF_State, SMF_Event
<1>2. Timed'
  BY <1>1, AskedKept DEF Timed
<1>3. CASE SMF_Prepare
  BY <1>2, <1>3, StartOnTime
<1>4. CASE SMF_Reset
  <2>1. state # "OPEN" /\ state' = "READY" /\ pass' = pass + 1 /\ pass \in Nat /\ pass >= 1
    BY <1>4, SmfAssumption DEF SMF_Reset, ClockInv, IInv, TypeOK
  <2>. QED BY <1>2, <2>1 DEF ClockInv
<1>5. CASE SMF_State
  BY <1>2, <1>5 DEF SMF_State, ClockInv, Playing
<1>6. CASE SMF_Event
  BY <1>2, <1>6, EventOnTime
<1>7. CASE UNCHANGED vars
  <2>1. /\ state' = state /\ time' = time /\ flags' = flags /\ pass' = pass /\ mode' = mode
        /\ midiFlags' = midiFlags /\ tickConv' = tickConv /\ (Playing' <=> Playing)
        /\ Here' = Here /\ Tracks' = Tracks
    BY <1>7 DEF vars, Playing, Here, Left, Tracks
  <2>2. pass' = 1 => (Playing' => ClockAt(Here, time, tickConv, flags, midiFlags)')
    BY <1>1, <2>1, ClockPrime DEF ClockInv
  <2>. QED BY <1>2, <2>1, <2>2 DEF ClockInv
<1>. QED BY <1>3, <1>4, <1>5, <1>6, <1>7 DEF Next

\* The time SMF_Time reports for the next event is what the tempos of the file
\* make of its ticks, off by at most half a unit of tickConv for each tick and
\* less than a unit for each gap: on the first pass, for any files, resolution
\* and widths, with any number of tracks and tempos.  The files are those whose
\* tempos and gaps fit the integers (Measured), with one setup bar, before the
\* first note (SetupFirst, OneSetup), and no event out of reach (InTime).
THEOREM ClockKeepsTime == Spec /\ Timed => []ClockAccurate
<1>1. Init => OrderInv /\ ClockInv
  <2>. SUFFICES ASSUME Init PROVE OrderInv /\ ClockInv
    OBVIOUS
  <2>1. song \in Songs /\ score = Score /\ pos = [t \in Tracks |-> 0] /\ state = "OPEN"
    BY DEF Init
  <2>2. Split(pos)
    BY <2>1, StartOrder
  <2>. QED BY <2>1, <2>2 DEF Init, OrderInv, ClockInv, Playing
<1>2. IInv /\ OrderInv /\ Timed /\ ClockInv /\ [Next]_vars => IInv' /\ OrderInv' /\ Timed' /\ ClockInv'
  <2>1. IInv /\ OrderInv /\ Timed /\ [Next]_vars => IInv' /\ OrderInv' /\ InTime'
    BY StepInv, StepOrder DEF Timed
  <2>. QED BY <2>1, StepOnTime
<1>3. ClockInv => ClockAccurate
  BY DEF ClockInv, ClockAccurate, ClockAt, OnTime, Playing
<1>. QED BY <1>1, <1>2, <1>3, InitInv, PTL DEF Spec
==============================================================================
