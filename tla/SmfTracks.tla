----------------------------- MODULE SmfTracks -----------------------------
(***************************************************************************)
(* The parser of Standard MIDI Files (eas_smf.c): it merges the tracks of  *)
(* a file into one line of events and keeps the time of the next one.      *)
(* A track is the sequence of events the parser finds from its start on,   *)
(* each with the delta time before it; the size of its chunk is not looked *)
(* at.  What an event means to the voices is the subject of VoiceManager,  *)
(* how its bytes are read that of MidiStream.                              *)
(***************************************************************************)
EXTENDS Integers, Sequences, FiniteSets, FiniteSetsExt, SequencesExt

CONSTANTS
    Songs,        \* the files: each a non-empty sequence of tracks
    ppqn,         \* ticks per quarter note
    DefaultTempo, \* SMF_DEFAULT_TIMEBASE, microseconds per quarter note
    ClockSplit,   \* 2^10: the ticks SMF_UpdateTime converts as one
    U32,          \* 2^32: values of an unsigned integer
    SearchLimit,  \* 0x7ffffff: tracks this late are not seen by SMF_Event
    StartLimit,   \* 0x7fffffff: nor these by SMF_ParseHeader and SMF_Reset
    MaxPasses     \* bound: how often the song is started

Kinds == {"note", "other", "tempo", "timesig",
          "gm", "sysex", \* GM System On, or another system exclusive message
          "eot",         \* the meta-event at the end of a track
          "cut",         \* the file ends within the event
          "bad"}         \* a meta-event whose length is no length
Event == [delta : 0 .. U32 - 1, kind : Kinds, tempo : Nat]

ASSUME SmfAssumption ==
    /\ Songs \subseteq Seq(Seq(Event))
    /\ ppqn \in 1 .. 32767 /\ DefaultTempo \in Nat
    /\ ClockSplit \in Nat /\ ClockSplit % 4 = 0 /\ ClockSplit > 0
    /\ U32 \in Nat /\ U32 % 2 = 0 /\ SearchLimit \in 0 .. U32 - 1 /\ StartLimit \in 0 .. U32 - 1
    /\ MaxPasses \in Nat \ {0}

VARIABLES
    song,       \* the file
    score,      \* history: its events in the order of their time
    state,      \* S_SMF_DATA.state
    nextStream, \* the track with the next event, 0 for NULL
    pos,        \* per track: how many events were read
    ticks,      \* S_SMF_STREAM.ticks: the time of the next event of a track
    midiFlags,  \* per track: S_MIDI_STREAM.flags, what its parser has heard
    mode,       \* the parser mode of this pass over the file
    time,       \* S_SMF_DATA.time in 1/256 ms
    tickConv,   \* S_SMF_DATA.tickConv: a tick in 1/1024 ms
    flags,      \* S_SMF_DATA.flags: "chase" and the setup events seen
    pass        \* history: how often the song was started

vars == <<song, score, state, nextStream, pos, ticks, midiFlags, mode,
          time, tickConv, flags, pass>>

Tracks           == DOMAIN song
SMF_END_OF_TRACK == U32 - 1
USHRT_MAX        == 65535
SETUP_BAR        == {"timesig", "tempo", "gm"}

-----------------------------------------------------------------------------
(* The song as the file has it, without the parser.                        *)

\* The events of a track that can be read, and the tick of each.
Readable(t) ==
    LET Ends == {k \in DOMAIN song[t] : song[t][k].kind \in {"eot", "cut"}}
    IN  IF Ends = {} THEN Len(song[t]) ELSE Min(Ends)

Tick(p) == LET at[k \in 0 .. p[2]] ==
                   IF k = 0 THEN 0 ELSE at[k - 1] + song[p[1]][k].delta
           IN  at[p[2]]

\* Events are in the order of their ticks, then of the tracks, then of the file.
Before(p, q) ==
    \/ Tick(p) < Tick(q)
    \/ Tick(p) = Tick(q) /\ p[1] < q[1]
    \/ Tick(p) = Tick(q) /\ p[1] = q[1] /\ p[2] < q[2]

\* The places of the events: a track and an index in it.
Places == UNION {{t} \X (1 .. Readable(t)) : t \in Tracks}

Score == [i \in 1 .. Cardinality(Places) |->
             CHOOSE p \in Places : Cardinality({q \in Places : Before(q, p)}) = i - 1]

-----------------------------------------------------------------------------
(* The helpers of the parser.                                              *)

\* SMF_ParseMetaEvent: microseconds per quarter note to 1/1024 ms per tick,
\* in a product of 32 bits and a field of 16.
TempoConv(tempo) == Min({((((tempo * 1024) % U32) \div ppqn) + 500) \div 1000, USHRT_MAX})

\* SMF_ParseHeader: the default tempo, cut to 16 bits.
DefaultConv == ((((DefaultTempo * 1024) \div ppqn) + 500) \div 1000) % (USHRT_MAX + 1)

\* SMF_UpdateTime: t ticks in 1/256 ms, each product in 32 bits.
Wrap(n) == n % U32
TickTime(t, conv) ==
    LET high == Wrap(Wrap((t \div ClockSplit) * conv) * (ClockSplit \div 4))
        low  == Wrap((t % ClockSplit) * conv) \div 4
    IN  Wrap(high + low)

\* The clock is a signed integer of that width; a sum beyond it, which C leaves
\* undefined, wraps, as one addition to a field in memory does in a build.
ClockLimit == U32 \div 2
Times      == -ClockLimit .. ClockLimit - 1
Signed(n)  == IF Wrap(n) < ClockLimit THEN Wrap(n) ELSE Wrap(n) - U32
UpdateTime(t, conv) == Signed(time + TickTime(t, conv))

\* SMF_GetVarLenData and SMF_GetDeltaTime of the event behind the first n of
\* track t, which is due at tick now: the file may end, or the sum not fit.
HasDelta(t, n)       == n < Len(song[t])
DeltaFits(t, n, now) == song[t][n + 1].delta <= SMF_END_OF_TRACK - now
DeltaTime(t, n, now) == now + song[t][n + 1].delta

\* Mutant: of several tracks that are due the last one plays.
EarliestLast(due, limit) ==
    LET Seen  == {t \in DOMAIN due : due[t] < limit}
        First == {t \in Seen : \A u \in Seen : due[t] <= due[u]}
    IN  IF Seen = {} THEN 0 ELSE Max(First)

\* The first of the tracks that is due the earliest below the limit, or 0.
Earliest(due, limit) ==
    LET Seen  == {t \in DOMAIN due : due[t] < limit}
        First == {t \in Seen : \A u \in Seen : due[t] <= due[u]}
    IN  IF Seen = {} THEN 0 ELSE Min(First)

\* EAS_ParseMIDIStream: what the parser of a track has heard after event e.
Heard(t, e) ==
    midiFlags[t] \union
        CASE mode = "metadata" -> {}
          [] e.kind = "note"   -> {"FIRST_NOTE"}
          [] e.kind = "gm"     -> {"GM_ON"}
          [] OTHER             -> {}

\* The part of a setup bar that event e is, if any: SMF_ParseMetaEvent, and
\* SMF_ParseSysEx, which looks at the flags of the track's parser.
SetupOf(e, heard) ==
    CASE e.kind \in {"tempo", "timesig"}                    -> {e.kind}
      [] e.kind \in {"gm", "sysex"} /\ "GM_ON" \in heard    -> {"gm"}
      [] OTHER                                              -> {}

\* Mutant: chase mode ends with the event, note or not.
ChaseOnce(f, heard) ==
    IF time # 0 THEN f
    ELSE IF "chase" \in f THEN f \ {"chase"}
    ELSE IF SETUP_BAR \subseteq f THEN (f \ SETUP_BAR) \union {"chase"}
    ELSE f

\* SMF_ParseEvent, chase mode: the setup bar at the start of a song is skipped
\* up to the first note.  f has the flags after the event.
Chase(f, heard) ==
    IF time # 0 THEN f
    ELSE IF "chase" \in f THEN f \ {s \in {"chase"} : "FIRST_NOTE" \in heard}
    ELSE IF SETUP_BAR \subseteq f THEN (f \ SETUP_BAR) \union {"chase"}
    ELSE f

-----------------------------------------------------------------------------
(* The functions of the parser's interface.                                *)

Init ==
    /\ song \in Songs /\ score = Score
    /\ state = "OPEN"
    /\ nextStream = 0
    /\ pos = [t \in Tracks |-> 0] /\ ticks = [t \in Tracks |-> 0]
    /\ midiFlags = [t \in Tracks |-> {}] /\ mode = "play" /\ flags = {}
    /\ time = 0 /\ tickConv = 0 /\ pass = 0

FirstTicks == [t \in Tracks |-> song[t][1].delta]

\* SMF_Prepare with SMF_ParseHeader.  A track without an event is an error,
\* which leaves the file open.
SMF_Prepare ==
    /\ state = "OPEN"
    /\ \A t \in Tracks : HasDelta(t, 0)
    /\ ticks' = FirstTicks
    /\ nextStream' = Earliest(FirstTicks, StartLimit)
    /\ tickConv' = DefaultConv
    /\ time' = IF nextStream' = 0 THEN time
               ELSE UpdateTime(FirstTicks[nextStream'], DefaultConv)
    /\ state' = "READY" /\ pass' = 1
    /\ UNCHANGED <<song, score, pos, midiFlags, mode, flags>>

\* SMF_Reset, to play or, in EAS_ParseMetaData, to look for metadata.  Neither
\* the tempo nor the flags go back.
SMF_Reset ==
    /\ state \in {"READY", "PLAY", "STOPPING", "STOPPED"}
    /\ pass < MaxPasses
    /\ pos' = [t \in Tracks |-> 0]
    /\ ticks' = FirstTicks
    /\ nextStream' = Earliest(FirstTicks, StartLimit)
    /\ time' = 0
    /\ state' = "READY" /\ pass' = pass + 1
    /\ mode' \in {"play", "metadata"}
    /\ UNCHANGED <<song, score, midiFlags, tickConv, flags>>

\* SMF_State: a song that is over has stopped when its last voice is gone.
SMF_State ==
    /\ state = "STOPPING"
    /\ state' = "STOPPED"
    /\ UNCHANGED <<song, score, nextStream, pos, ticks, midiFlags, mode, time, tickConv, flags, pass>>

\* Mutant: the first track plays on while it has events.
NextEventSame(due, f, conv) ==
    /\ ticks' = due
    /\ nextStream' = IF due[nextStream] < SearchLimit THEN nextStream
                     ELSE Earliest(due, SearchLimit)
    /\ IF nextStream' = 0
       THEN state' = "STOPPING" /\ UNCHANGED time
       ELSE /\ state' = "PLAY"
            /\ time' = IF "chase" \in f THEN time
                       ELSE UpdateTime(due[nextStream'] - ticks[nextStream], conv)

\* Mutant: SMF_Event says it plays on when no track is due.
NextEventOn(due, f, conv) ==
    /\ ticks' = due
    /\ nextStream' = Earliest(due, SearchLimit)
    /\ state' = "PLAY"
    /\ time' = IF "chase" \in f \/ nextStream' = 0 THEN time
               ELSE UpdateTime(due[nextStream'] - ticks[nextStream], conv)

\* The part of SMF_Event behind the event: find the next one.  due has the
\* times of the tracks, f the flags and conv the tempo after the event.
NextEvent(due, f, conv) ==
    /\ ticks' = due
    /\ nextStream' = Earliest(due, SearchLimit)
    /\ IF nextStream' = 0
       THEN state' = "STOPPING" /\ UNCHANGED time
       ELSE /\ state' = "PLAY"
            /\ time' = IF "chase" \in f THEN time
                       ELSE UpdateTime(due[nextStream'] - ticks[nextStream], conv)

\* The end of a track: SMF_Event goes on with the others.
EndTrack(f, conv) == NextEvent([ticks EXCEPT ![nextStream] = SMF_END_OF_TRACK], f, conv)

\* SMF_GetDeltaTime and what SMF_Event does with it, n events of the track read.
NextDelta(n, f, conv) ==
    LET t   == nextStream
        due == DeltaTime(t, n, ticks[t])
    IN  \/ ~HasDelta(t, n) /\ EndTrack(f, conv)
        \/ /\ HasDelta(t, n) /\ ~DeltaFits(t, n, ticks[t])
           /\ state' = "ERROR" /\ UNCHANGED <<nextStream, ticks, time>>
        \/ /\ HasDelta(t, n) /\ DeltaFits(t, n, ticks[t]) /\ due = ticks[t]
           /\ state' = "PLAY" /\ UNCHANGED <<nextStream, ticks, time>>
        \/ /\ HasDelta(t, n) /\ DeltaFits(t, n, ticks[t]) /\ due # ticks[t]
           /\ NextEvent([ticks EXCEPT ![t] = due], f, conv)

\* SMF_Event with SMF_ParseEvent, the next event being a whole one.
PlayEvent ==
    LET t == nextStream
        e == song[t][pos[t] + 1]
        h == Heard(t, e)
        f == Chase(flags \union SetupOf(e, h), h)
    IN  /\ e.kind \notin {"cut", "bad"}
        /\ midiFlags' = [midiFlags EXCEPT ![t] = h]
        /\ flags' = f
        /\ tickConv' = IF e.kind = "tempo" THEN TempoConv(e.tempo) ELSE tickConv
        /\ pos' = [pos EXCEPT ![t] = @ + 1]
        /\ IF e.kind = "eot" THEN EndTrack(f, tickConv')
           ELSE NextDelta(pos[t] + 1, f, tickConv')

\* The file ends within the event: the track is over, without chase logic.
CutEvent ==
    LET t == nextStream IN
    /\ song[t][pos[t] + 1].kind = "cut"
    /\ pos' = [pos EXCEPT ![t] = @ + 1]
    /\ EndTrack(flags, tickConv)
    /\ UNCHANGED <<midiFlags, flags, tickConv>>

\* An event that cannot be parsed leaves the state SMF_Event assumed.
BadEvent ==
    /\ song[nextStream][pos[nextStream] + 1].kind = "bad"
    /\ state' = "ERROR"
    /\ UNCHANGED <<nextStream, pos, ticks, midiFlags, time, tickConv, flags>>

SMF_Event ==
    /\ state \in {"READY", "PLAY"} /\ nextStream # 0
    /\ PlayEvent \/ CutEvent \/ BadEvent
    /\ UNCHANGED <<song, score, mode, pass>>

Next == SMF_Prepare \/ SMF_Reset \/ SMF_State \/ SMF_Event

Spec == Init /\ [][Next]_vars

\* EAS_Render goes on parsing, and a released voice ends.
FairSpec == Spec /\ WF_vars(SMF_Event) /\ WF_vars(SMF_State)

-----------------------------------------------------------------------------
(* The line of events, and where the parser is in it.                      *)

\* The score without the events that were read.
Left ==
    LET Rest == {i \in DOMAIN score : score[i][2] > pos[score[i][1]]}
    IN  [k \in 1 .. Cardinality(Rest) |->
            score[CHOOSE i \in Rest : Cardinality({j \in Rest : j < i}) = k - 1]]

\* The file, as far as event i of the score: the tempo in force before it, and
\* whether it comes after a setup bar at tick 0 with no note until then.
EventOf(i) == song[score[i][1]][score[i][2]]

TempoBefore(i) ==
    LET Changes == {j \in 1 .. i - 1 : EventOf(j).kind = "tempo"}
    IN  IF Changes = {} THEN DefaultTempo ELSE EventOf(Max(Changes)).tempo

SetupSeen(i) ==
    \A k \in SETUP_BAR : \E j \in 1 .. i - 1 : EventOf(j).kind = k /\ Tick(score[j]) = 0

NoteBefore(i) == \E j \in 1 .. i - 1 : EventOf(j).kind = "note"

InSetupBar(i) == SetupSeen(i) /\ ~NoteBefore(i)

\* The ticks before event i that take time.
Gap(i) ==
    IF InSetupBar(i) THEN 0
    ELSE Tick(score[i]) - (IF i = 1 THEN 0 ELSE Tick(score[i - 1]))

\* The event that the parser is at.
Here == Len(score) - Len(Left) + 1

\* What the gaps up to event n take, in microseconds times ppqn, and by how many
\* units of 1/256000 ms the clock may have missed them.
SumTo(d, n) == LET sum[i \in 0 .. n] == IF i = 0 THEN 0 ELSE sum[i - 1] + d[i]
               IN  sum[n]
Elapsed(n)  == SumTo([i \in DOMAIN score |-> Gap(i) * TempoBefore(i)], n)
Missed(n)   == SumTo([i \in DOMAIN score |-> IF Gap(i) = 0 THEN 0 ELSE 126 * Gap(i) + 1000], n)

-----------------------------------------------------------------------------
(* Properties.                                                             *)

\* Every variable of the parser has a value of its C type, and the next track
\* is one of the file's.
TypeOK ==
    /\ state \in {"OPEN", "READY", "PLAY", "STOPPING", "STOPPED", "ERROR"}
    /\ nextStream \in 0 .. Len(song)
    /\ pos \in [Tracks -> Nat] /\ ticks \in [Tracks -> 0 .. U32 - 1]
    /\ midiFlags \in [Tracks -> SUBSET {"FIRST_NOTE", "GM_ON"}]
    /\ mode \in {"play", "metadata"} /\ flags \subseteq SETUP_BAR \union {"chase"}
    /\ time \in Times /\ tickConv \in 0 .. USHRT_MAX /\ pass \in 0 .. MaxPasses

\* The event whose time SMF_Time reports is one that no other track precedes.
NextIsEarliest ==
    state \in {"READY", "PLAY"} /\ nextStream # 0 =>
        \A t \in Tracks : ticks[nextStream] <= ticks[t]

\* The tracks come as one line of events in the order of their time, each event
\* once, and the song is over when all were played, again after each reset.
Merge == INSTANCE SmfScore WITH
    left <- Left, ended <- state \in {"STOPPING", "STOPPED"}

EventsInOrder == Merge!Spec

\* The time SMF_Time reports for the next event is what the tempos of the file
\* make of its ticks, but for half a unit of tickConv per tick and less than
\* a unit of time per gap; the setup bar takes no time.  After a reset the
\* tempo at the end of the song is still in force.
ClockAccurate ==
    pass = 1 /\ state \in {"READY", "PLAY"} /\ nextStream # 0 =>
        1000 * ppqn * time - 256 * Elapsed(Here) \in -(ppqn * Missed(Here)) .. ppqn * Missed(Here)

\* A song that was started comes to its end or to an error.
SongEnds == state = "READY" ~> state \in {"STOPPED", "ERROR"}
=============================================================================
