----------------------- MODULE StreamTransportProofs -----------------------
(***************************************************************************)
(* Proofs about StreamTransport, for every number of streams, every song   *)
(* and every frame length.                                                 *)
(***************************************************************************)
EXTENDS StreamTransport, WellFoundedInduction, TLAPS

IInv == TypeOK /\ TransportInv

\* Ticks take a natural time.
LEMMA TicksType == \A n, conv \in Nat : Ticks(n, conv) \in Nat
<1> SUFFICES ASSUME NEW n \in Nat, NEW conv \in Nat
             PROVE  (n * conv) \div 4 \in Nat
  BY DEF Ticks
<1>1. n * conv \in Nat
  OBVIOUS
<1>2. \A k \in Nat : k \div 4 \in Nat
  OBVIOUS
<1>. QED BY <1>1, <1>2

\* The later of two times has not the earlier millisecond.
LEMMA MillisMonotone ==
    \A t, d \in Nat : Millis(t) \in Nat /\ Millis(t) <= Millis(t + d)
BY DEF Millis

\* The events of a song, and the time from one to the next.
LEMMA SongType ==
    ASSUME NEW s \in Streams
    PROVE  /\ Length(s) \in Nat \ {0}
           /\ \A i \in 1 .. Length(s) : Songs[s][i] \in Events
           /\ \A i \in 1 .. Length(s) - 1 : Songs[s][i + 1].tick - Songs[s][i].tick \in Nat
<1>1. Songs[s] \in Seq(Events) /\ Songs[s] # <<>>
  BY SongAssumption
<1>2. Length(s) \in Nat \ {0} /\ \A i \in 1 .. Length(s) : Songs[s][i] \in Events
  BY <1>1 DEF Length
<1>3. ASSUME NEW i \in 1 .. Length(s) - 1
      PROVE  Songs[s][i + 1].tick - Songs[s][i].tick \in Nat
  <2>1. Songs[s][i] \in Events /\ Songs[s][i + 1] \in Events
    BY <1>2
  <2>2. Songs[s][i].tick <= Songs[s][i + 1].tick
    BY SongAssumption DEF Length
  <2>. QED BY <2>1, <2>2 DEF Events
<1>. QED BY <1>2, <1>3

LEMMA StreamsNat == Streams \subseteq Nat /\ 0 \in Streams
BY SongAssumption DEF Streams

\* A stream keeps its state or has become still.
LEMMA SeenType ==
    ASSUME TypeOK, NEW s \in Streams
    PROVE  /\ Seen(s) \in States
           /\ Seen(s) # smf[s] => /\ smf[s] \in {"STOPPING", "PAUSING"}
                                  /\ Seen(s) \in {"STOPPED", "PAUSED"}
                                  /\ voices[s] = "none"
           /\ Seen(s) \in Playing => smf[s] = Seen(s)
BY DEF TypeOK, Seen, Settled, States, Prepared, Playing

LEMMA InitInv == Init => IInv
<1> SUFFICES ASSUME Init PROVE IInv
  OBVIOUS
<1>1. TypeOK
  <2>1. next \in [Streams -> Nat \ {0}] /\ \A s \in Streams : next[s] <= Length(s) + 1
    BY SongType DEF Init
  <2>2. call \in Calls
    BY StreamsNat DEF Init, Idle, Calls
  <2>3. DefaultConv \in Nat /\ AUDIO_FRAME_LENGTH \in FrameLengths
    BY TransportAssumption
  <2>4. "NONE" \in States /\ {} \in SUBSET Flags
    BY DEF States
  <2>5. /\ clock \in [Streams -> Nat] /\ tickConv \in [Streams -> Nat]
        /\ time \in [Streams -> Nat] /\ repeatCount \in [Streams -> Int]
    BY <2>3 DEF Init
  <2>6. smf \in [Streams -> States] /\ flags \in [Streams -> SUBSET Flags]
    BY <2>4 DEF Init
  <2>. QED BY <2>1, <2>2, <2>3, <2>5, <2>6 DEF Init, TypeOK
<1>2. TransportInv
  BY DEF Init, Idle, TransportInv, OpenInv, AheadInv, ClockInv, SilentWhenStill
<1>. QED BY <1>1, <1>2 DEF IInv

-----------------------------------------------------------------------------
\* The helpers of the actions keep the types.

LEMMA ResetType ==
    ASSUME TypeOK, NEW s \in Streams, SMF_Reset(s)
    PROVE  /\ smf' \in [Streams -> States]
           /\ next' \in [Streams -> Nat \ {0}] /\ \A t \in Streams : next'[t] <= Length(t) + 1
           /\ clock' \in [Streams -> Nat]
           /\ tickConv' \in [Streams -> Nat]
           /\ voices' \in [Streams -> {"none", "sounding", "ending"}]
BY SongType DEF TypeOK, SMF_Reset, States, Prepared, Playing

LEMMA CallType ==
    ASSUME TypeOK
    PROVE  /\ NextStream => call' \in Calls
           /\ Return => call' \in Calls
           /\ Idle \in Calls
<1>1. Idle \in Calls
  BY StreamsNat DEF Idle, Calls
<1>2. call \in Calls /\ NumStreams \in Nat
  BY SongAssumption DEF TypeOK
<1>3. NextStream => call' \in Calls
  <2>1. call.stream \in Streams
    BY <1>2 DEF Calls
  <2>2. call.stream + 1 < NumStreams => call.stream + 1 \in Streams
    BY <1>2, <2>1 DEF Streams
  <2>. QED BY <1>2, <2>2 DEF NextStream, Calls
<1>4. Return => call' \in Calls
  BY <1>1, <1>2 DEF Return, Calls
<1>. QED BY <1>1, <1>3, <1>4

\* Every action keeps the types.
LEMMA TypeInductive == TypeOK /\ [Next]_vars => TypeOK'
<1> SUFFICES ASSUME TypeOK, [Next]_vars PROVE TypeOK'
  OBVIOUS
<1>1. ASSUME NEW s \in Streams, Host(s)
      PROVE  TypeOK'
  <2>1. CASE EAS_OpenFile(s)
    BY <2>1, SongType, TransportAssumption DEF EAS_OpenFile, TypeOK, States, host
  <2>2. CASE EAS_Prepare(s)
    <3>1. Songs[s][1].tick \in Nat
      BY SongType DEF Events
    <3>2. Ticks(Songs[s][1].tick, tickConv[s]) \in Nat
      BY <3>1, TicksType DEF TypeOK
    <3>. QED BY <2>2, <3>2 DEF EAS_Prepare, TypeOK, States, Prepared, Playing, stream, host
  <2>3. CASE EAS_CloseFile(s)
    BY <2>3 DEF EAS_CloseFile, TypeOK, States, stream
  <2>4. CASE EAS_State(s)
    BY <2>4, SeenType DEF EAS_State, TypeOK, stream, host
  <2>5. CASE EAS_Pause(s)
    BY <2>5 DEF EAS_Pause, TypeOK, States, Prepared, Flags, Damped
  <2>6. CASE EAS_Resume(s)
    BY <2>6 DEF EAS_Resume, TypeOK, States, Prepared, Playing, Flags
  <2>7. CASE EAS_ParseMetaData(s)
    BY <2>7, ResetType DEF EAS_ParseMetaData, Parsing, Calls, TypeOK
  <2>8. ASSUME NEW ms \in Targets, EAS_Locate(s, ms)
        PROVE  TypeOK'
    <3>1. 256 * ms \in Nat
      BY TransportAssumption
    <3>2. flags' \in [Streams -> SUBSET Flags]
      BY <2>8 DEF EAS_Locate, TypeOK, Flags
    <3>. QED BY <2>8, <3>1, <3>2, ResetType DEF EAS_Locate, Parsing, Calls, TypeOK, host
  <2>9. ASSUME NEW count \in Repeats, EAS_SetRepeat(s, count)
        PROVE  TypeOK'
    BY <2>9, TransportAssumption DEF EAS_SetRepeat, TypeOK, parser, host
  <2>10. ASSUME NEW length \in FrameLengths, EAS_SetPlaybackRate(s, length)
         PROVE  TypeOK'
    BY <2>10 DEF EAS_SetPlaybackRate, TypeOK, parser, host
  <2>. QED BY <1>1, <2>1, <2>2, <2>3, <2>4, <2>5, <2>6, <2>7, <2>8, <2>9, <2>10 DEF Host
<1>2. CASE HostQuiet
  BY <1>2 DEF HostQuiet, TypeOK, parser, stream
<1>3. CASE EAS_Render
  BY <1>3, CallType DEF EAS_Render, Idle, Calls, TypeOK, parser, stream, host
<1>4. CASE SkipStream
  <2>1. call.stream \in Streams
    BY DEF TypeOK, Calls
  <2>. QED BY <1>4, <2>1, CallType DEF SkipStream, TypeOK, parser, host
<1>5. CASE EnterStream
  <2>1. call.stream \in Streams
    BY DEF TypeOK, Calls
  <2>2. time[call.stream] + frameLength[call.stream] \in Nat
    <3>1. time[call.stream] \in Nat /\ frameLength[call.stream] \in FrameLengths
      BY <2>1 DEF TypeOK
    <3>2. frameLength[call.stream] \in Nat
      BY <3>1, TransportAssumption, Zenon
    <3>. QED BY <3>1, <3>2
  <2>3. call' \in Calls
    BY <1>5, <2>2 DEF EnterStream, Calls, TypeOK
  <2>4. smf' \in [Streams -> States] /\ voices' \in [Streams -> {"none", "sounding", "ending"}]
    BY <1>5, <2>1 DEF EnterStream, Settled, Damped, TypeOK, States, Prepared, Playing
  <2>5. flags' \in [Streams -> SUBSET Flags]
    BY <1>5, <2>1 DEF EnterStream, TypeOK
  <2>. QED BY <1>5, <2>3, <2>4, <2>5 DEF EnterStream, TypeOK, host
<1>6. CASE Parse
  <2>1. call.stream \in Streams /\ call.end \in Nat /\ call.last \in Nat
    BY DEF TypeOK, Calls
  <2>2. CASE ParseStopped
    <3>1. 256 * call.last \in Nat
      BY <2>1
    <3>. QED BY <2>1, <2>2, <3>1, SeenType, CallType DEF ParseStopped, TypeOK, Flags, host
  <2>3. CASE ParseEvent
    <3> DEFINE s == call.stream
               ev == Songs[s][next[s]]
               conv == IF ev.tempo = 0 THEN tickConv[s] ELSE ev.tempo
    <3>1. next[s] \in 1 .. Length(s)
      BY <2>1, <2>3, SongType DEF ParseEvent, Ended, TypeOK
    <3>2. conv \in Nat
      BY <2>1, <3>1, SongType DEF Events, TypeOK
    <3>3. next[s] # Length(s) => Ticks(Songs[s][next[s] + 1].tick - ev.tick, conv) \in Nat
      <4>1. SUFFICES ASSUME next[s] # Length(s)
                     PROVE  Songs[s][next[s] + 1].tick - ev.tick \in Nat
        BY <3>2, TicksType
      <4>2. next[s] \in 1 .. Length(s) - 1
        BY <2>1, <3>1, <4>1, SongType
      <4>. QED BY <2>1, <4>2, SongType
    <3>4. clock' \in [Streams -> Nat]
      BY <2>1, <2>3, <3>3 DEF ParseEvent, TypeOK
    <3>5. next' \in [Streams -> Nat \ {0}] /\ \A t \in Streams : next'[t] <= Length(t) + 1
      BY <2>1, <2>3, <3>1, SongType DEF ParseEvent, TypeOK
    <3>6. tickConv' \in [Streams -> Nat]
      BY <2>3, <3>2 DEF ParseEvent, TypeOK
    <3>7. voices' \in [Streams -> {"none", "sounding", "ending"}]
      BY <2>1, <2>3 DEF ParseEvent, TypeOK, Damped
    <3>8. call' \in Calls
      <4>1. Millis(clock[s]) \in Nat
        BY <2>1, MillisMonotone DEF TypeOK
      <4>. QED BY <2>3, <4>1, CallType DEF ParseEvent, Calls, TypeOK
    <3>9. smf' \in [Streams -> States] /\ held' \in [Streams -> BOOLEAN]
      BY <2>1, <2>3 DEF ParseEvent, TypeOK, States, Prepared, Playing
    <3>. QED BY <2>3, <3>4, <3>5, <3>6, <3>7, <3>8, <3>9 DEF ParseEvent, TypeOK, stream
  <2>4. CASE ParseFails
    BY <2>1, <2>4, CallType DEF ParseFails, AfterFailure, States, TypeOK, stream, host
  <2>5. CASE ParseDone
    BY <2>1, <2>5, CallType DEF ParseDone, Flags, TypeOK, parser, host
  <2>. QED BY <1>6, <2>2, <2>3, <2>4, <2>5 DEF Parse
<1>7. CASE LeaveStream
  <2>1. call.stream \in Streams
    BY DEF TypeOK, Calls
  <2>2. call' \in Calls
    BY <1>7, CallType DEF LeaveStream
  <2>3. CASE flags[call.stream] = {}
    BY <1>7, <2>2, <2>3 DEF LeaveStream, TypeOK, parser, host
  <2>4. CASE flags[call.stream] # {} /\ ToRepeat(call.stream) /\ Seen(call.stream) = "STOPPED"
    <3>1. repeatCount' \in [Streams -> Int]
      BY <1>7, <2>1, <2>4 DEF LeaveStream, CountDown, TypeOK
    <3>. QED BY <1>7, <2>1, <2>2, <2>4, <3>1, ResetType DEF LeaveStream, TypeOK, host
  <2>5. CASE flags[call.stream] # {} /\ ~(ToRepeat(call.stream) /\ Seen(call.stream) = "STOPPED")
    BY <1>7, <2>1, <2>2, <2>5, SeenType DEF LeaveStream, TypeOK, host
  <2>. QED BY <2>3, <2>4, <2>5
<1>8. CASE LeaveMetaData
  <2>1. call.stream \in Streams
    BY DEF TypeOK, Calls
  <2>. QED BY <1>8, <2>1, ResetType, CallType DEF LeaveMetaData, TypeOK, parser, host
<1>9. CASE RenderVoices
  BY <1>9, CallType DEF RenderVoices, TypeOK, host
<1>10. CASE UNCHANGED vars
  BY <1>10 DEF vars, parser, stream, host, TypeOK
<1>. QED BY <1>1, <1>2, <1>3, <1>4, <1>5, <1>6, <1>7, <1>8, <1>9, <1>10 DEF Next, Engine

-----------------------------------------------------------------------------
(* The invariant, action by action.                                        *)

\* The next stream is entered by the same call.
LEMMA NextStreamCall ==
    ASSUME TypeOK, NextStream
    PROVE  call'.op = call.op /\ call'.step \in {"enter", "voices"}
BY DEF NextStream, TypeOK, Calls

\* A step that leaves the parsers and the clocks alone.
LEMMA UntouchedInv ==
    ASSUME TransportInv, UNCHANGED <<smf, next, clock, voices, flags, time, call>>
    PROVE  TransportInv'
BY DEF TransportInv, OpenInv, AheadInv, ClockInv, SilentWhenStill, Ended

\* A stream that was reset is prepared and silent, at the start of its song.
LEMMA ResetInv ==
    ASSUME IInv, NEW s \in Streams, SMF_Reset(s), time' = [time EXCEPT ![s] = 0],
           \A t \in Streams : flags'[t] \cap {"PAUSE", "RESUME"} = {}
                              \/ smf[t] # "OPEN" \/ flags'[t] = flags[t],
           smf[s] \in Prepared \cup {"ERROR"}
    PROVE  OpenInv' /\ ClockInv' /\ SilentWhenStill'
<1>1. \A t \in Streams : Millis(clock'[t]) \in Nat /\ Millis(0) = 0
  BY MillisMonotone, ResetType DEF IInv, Millis
<1>2. ClockInv'
  BY <1>1 DEF SMF_Reset, IInv, TypeOK, TransportInv, ClockInv, Ended
<1>3. OpenInv' /\ SilentWhenStill'
  BY DEF SMF_Reset, IInv, TypeOK, TransportInv, OpenInv, SilentWhenStill
<1>. QED BY <1>2, <1>3

\* The parser of EAS_Locate starts with a reset stream.
LEMMA HostInv ==
    ASSUME IInv, NEW s \in Streams, Host(s)
    PROVE  TransportInv'
<1> USE DEF IInv, TransportInv
<1>1. Millis(0) = 0 /\ \A t \in Nat : Millis(t) \in Nat
  BY MillisMonotone DEF Millis
<1>2. call.step = "parse" => call # Idle
  BY DEF Idle
<1>3. CASE EAS_OpenFile(s)
  BY <1>2, <1>3 DEF EAS_OpenFile, TypeOK, OpenInv, AheadInv, ClockInv, SilentWhenStill, host, Ended
<1>4. CASE EAS_Prepare(s)
  <2>1. clock'[s] \in Nat
    BY <1>4, TypeInductive DEF Next, TypeOK, Host
  <2>. QED BY <1>1, <1>2, <1>4, <2>1
       DEF EAS_Prepare, HostCalls, TypeOK, OpenInv, AheadInv, ClockInv, SilentWhenStill,
           stream, host, Ended
<1>5. CASE EAS_CloseFile(s)
  BY <1>2, <1>5 DEF EAS_CloseFile, HostCalls, TypeOK, OpenInv, AheadInv, ClockInv,
                    SilentWhenStill, stream, Ended
<1>6. CASE EAS_State(s)
  BY <1>2, <1>6, SeenType
     DEF EAS_State, HostCalls, TypeOK, OpenInv, AheadInv, ClockInv, SilentWhenStill,
         stream, host, Ended
<1>7. CASE EAS_Pause(s)
  BY <1>2, <1>7, SeenType
     DEF EAS_Pause, HostCalls, TypeOK, OpenInv, AheadInv, ClockInv, SilentWhenStill,
         Playing, Damped, Ended
<1>8. CASE EAS_Resume(s)
  BY <1>2, <1>8, SeenType
     DEF EAS_Resume, HostCalls, TypeOK, OpenInv, AheadInv, ClockInv, SilentWhenStill, Ended
<1>9. Seen(s) \in Prepared => smf[s] \in Prepared
  BY SeenType DEF Prepared, Playing
<1>10. CASE EAS_ParseMetaData(s)
  <2>1. OpenInv' /\ ClockInv' /\ SilentWhenStill'
    BY <1>9, <1>10, ResetInv DEF EAS_ParseMetaData, HostCalls, TypeOK, OpenInv
  <2>2. AheadInv'
    BY <1>10 DEF EAS_ParseMetaData, SMF_Reset, Parsing, AheadInv, Playing, TypeOK
  <2>. QED BY <2>1, <2>2
<1>11. ASSUME NEW ms \in Targets, EAS_Locate(s, ms)
       PROVE  TransportInv'
  <2>1. \A t \in Streams : smf[t] = "OPEN" => flags'[t] = flags[t]
    BY <1>9, <1>11 DEF EAS_Locate, TypeOK, Prepared, Playing
  <2>2. OpenInv' /\ ClockInv' /\ SilentWhenStill'
    BY <1>9, <1>11, <2>1, ResetInv DEF EAS_Locate
  <2>3. AheadInv'
    BY <1>11 DEF EAS_Locate, SMF_Reset, Parsing, AheadInv, Playing, TypeOK
  <2>. QED BY <2>2, <2>3
<1>12. ASSUME NEW count \in Repeats, EAS_SetRepeat(s, count)
       PROVE  TransportInv'
  BY <1>12, UntouchedInv DEF EAS_SetRepeat, parser
<1>13. ASSUME NEW length \in FrameLengths, EAS_SetPlaybackRate(s, length)
       PROVE  TransportInv'
  BY <1>13, UntouchedInv DEF EAS_SetPlaybackRate, parser
<1>. QED BY <1>3, <1>4, <1>5, <1>6, <1>7, <1>8, <1>10, <1>11, <1>12, <1>13 DEF Host

\* Parsing keeps the clocks in order: an event moves the clock of the parser
\* on, and the time of the stream is moved only to the end time that no event
\* is left before.
LEMMA ParseInv ==
    ASSUME IInv, Parse
    PROVE  TransportInv'
<1> USE DEF IInv, TransportInv
<1>0. PICK s \in Streams : s = call.stream
  BY DEF TypeOK, Calls
<1>1. s = call.stream /\ call.end \in Nat /\ call.step = "parse"
  BY <1>0 DEF TypeOK, Calls, Parse, ParseStopped, ParseEvent, ParseFails, ParseDone
<1>2. CASE ParseStopped
  <2>1. call.op = "render" \/ Ended(s)
    BY <1>1, <1>2, SeenType DEF AheadInv, ParseStopped, Playing
  <2>2. smf[s] # "OPEN" \/ call.op = "render"
    BY <1>1 DEF AheadInv, Playing
  <2>3. ClockInv'
    BY <1>1, <1>2, <2>1, SeenType DEF ParseStopped, TypeOK, ClockInv, Ended
  <2>4. OpenInv' /\ SilentWhenStill'
    BY <1>1, <1>2, <2>2, SeenType DEF ParseStopped, TypeOK, OpenInv, SilentWhenStill
  <2>5. AheadInv'
    BY <1>2 DEF ParseStopped, Return, Idle, AheadInv
  <2>. QED BY <2>3, <2>4, <2>5
<1>3. CASE ParseEvent
  <2>1. smf[s] \in Playing /\ ~Ended(s)
    BY <1>1, <1>3, SeenType DEF ParseEvent
  <2>2. /\ smf' = [smf EXCEPT ![s] = IF next[s] = Length(s) THEN "STOPPING" ELSE "PLAY"]
        /\ next' = [next EXCEPT ![s] = next[s] + 1]
        /\ time' = time /\ flags' = flags
        /\ \A t \in Streams : t # s => clock'[t] = clock[t] /\ voices'[t] = voices[t]
        /\ call'.step = "parse" => call'.stream = s
        /\ call'.step # "enter"
    BY <1>1, <1>3 DEF ParseEvent, stream, TypeOK, Calls, Return, Idle
  <2>3. next[s] = Length(s) => Ended(s)'
    <3>1. next[s] \in Nat /\ Length(s) \in Nat /\ next'[s] = next[s] + 1
      BY <2>2, SongType DEF TypeOK
    <3>. QED BY <3>1 DEF Ended, Length
  <2>4. Millis(time[s]) <= Millis(clock[s])
    BY <1>1, <2>1 DEF ClockInv, Playing
  <2>5. Millis(clock[s]) <= Millis(clock'[s])
    <3> DEFINE d == Ticks(Songs[s][next[s] + 1].tick - Songs[s][next[s]].tick, tickConv'[s])
    <3>1. tickConv' \in [Streams -> Nat]
      BY <1>3, TypeInductive DEF Next, Engine, Parse, TypeOK
    <3>2. CASE next[s] = Length(s)
      BY <1>1, <1>3, <3>2, MillisMonotone DEF ParseEvent, TypeOK
    <3>3. CASE next[s] # Length(s)
      <4>1. next[s] \in 1 .. Length(s) - 1
        <5>1. next[s] \in Nat \ {0} /\ Length(s) \in Nat \ {0}
          BY SongType DEF TypeOK
        <5>. QED BY <2>1, <3>3, <5>1 DEF Ended
      <4>2. d \in Nat
        BY <1>1, <3>1, <4>1, SongType, TicksType
      <4>3. clock'[s] = clock[s] + d
        BY <1>1, <1>3, <3>3 DEF ParseEvent, TypeOK
      <4>. QED BY <1>1, <4>2, <4>3, MillisMonotone DEF TypeOK
    <3>. QED BY <3>2, <3>3
  <2>6. ClockInv'
    <3>1. time[s] \in Nat /\ clock[s] \in Nat /\ clock'[s] \in Nat
      BY <1>1, <1>3, TypeInductive DEF Next, Engine, Parse, TypeOK
    <3>2. Millis(time'[s]) <= Millis(clock'[s])
      <4>1. Millis(time[s]) \in Nat /\ Millis(clock[s]) \in Nat /\ Millis(clock'[s]) \in Nat
        BY <3>1, MillisMonotone
      <4>. QED BY <2>2, <2>4, <2>5, <4>1
    <3>. QED BY <1>1, <2>2, <3>2 DEF ClockInv, Ended, TypeOK
  <2>7. OpenInv' /\ SilentWhenStill'
    BY <1>1, <2>2 DEF OpenInv, SilentWhenStill, TypeOK
  <2>8. AheadInv'
    BY <1>1, <2>2, <2>3 DEF AheadInv, TypeOK, Playing
  <2>. QED BY <2>6, <2>7, <2>8
<1>4. CASE ParseFails
  <2>1. smf[s] \in Playing /\ smf'[s] \in {smf[s], "ERROR"}
    BY <1>1, <1>4, SeenType DEF ParseFails, AfterFailure, TypeOK
  <2>2. \A t \in Streams : t # s => smf'[t] = smf[t]
    BY <1>1, <1>4 DEF ParseFails
  <2>3. OpenInv' /\ SilentWhenStill'
    BY <1>4, <2>1, <2>2 DEF ParseFails, stream, OpenInv, SilentWhenStill, Playing
  <2>4. ClockInv'
    BY <1>4, <2>1, <2>2 DEF ParseFails, stream, ClockInv, Ended, Playing
  <2>5. AheadInv'
    BY <1>4 DEF ParseFails, Idle, AheadInv
  <2>. QED BY <2>3, <2>4, <2>5
<1>5. CASE ParseDone
  <2>1. smf[s] \in Playing /\ ~(Millis(clock[s]) < Millis(call.end))
    BY <1>1, <1>5, SeenType DEF ParseDone, Due
  <2>2. Millis(call.end) <= Millis(clock[s])
    <3>1. Millis(call.end) \in Nat /\ Millis(clock[s]) \in Nat
      BY <1>1, MillisMonotone DEF TypeOK
    <3>. QED BY <2>1, <3>1
  <2>3. ClockInv'
    BY <1>1, <1>5, <2>2 DEF ParseDone, parser, TypeOK, ClockInv, Ended
  <2>4. OpenInv' /\ SilentWhenStill'
    BY <1>1, <1>5, <2>1 DEF ParseDone, parser, TypeOK, OpenInv, SilentWhenStill, Playing
  <2>5. AheadInv'
    BY <1>5 DEF ParseDone, Return, Idle, AheadInv
  <2>. QED BY <2>3, <2>4, <2>5
<1>. QED BY <1>2, <1>3, <1>4, <1>5 DEF Parse

\* The other steps of EAS_Render: a frame that begins, goes on or ends.
LEMMA RenderInv ==
    ASSUME IInv, EAS_Render \/ SkipStream \/ EnterStream \/ LeaveStream \/ LeaveMetaData
                 \/ RenderVoices
    PROVE  TransportInv'
<1> USE DEF IInv, TransportInv
<1>1. call.stream \in Streams
  BY DEF TypeOK, Calls
<1>2. CASE EAS_Render
  BY <1>2 DEF EAS_Render, parser, stream, host, OpenInv, AheadInv, ClockInv,
              SilentWhenStill, Ended, Idle
<1>3. CASE SkipStream
  <2>1. AheadInv'
    BY <1>3, NextStreamCall DEF SkipStream, AheadInv
  <2>. QED BY <1>1, <1>3, <2>1
       DEF SkipStream, parser, host, TypeOK, OpenInv, ClockInv, SilentWhenStill, Ended
<1>4. CASE EnterStream
  <2>1. OpenInv'
    BY <1>1, <1>4 DEF EnterStream, Settled, TypeOK, OpenInv
  <2>2. ClockInv'
    BY <1>1, <1>4 DEF EnterStream, Settled, TypeOK, OpenInv, ClockInv, Ended
  <2>3. SilentWhenStill'
    BY <1>1, <1>4 DEF EnterStream, Settled, Damped, TypeOK, SilentWhenStill
  <2>4. AheadInv'
    BY <1>4 DEF EnterStream, AheadInv, TypeOK, Calls
  <2>. QED BY <2>1, <2>2, <2>3, <2>4
<1>5. CASE LeaveStream
  <2>1. AheadInv'
    BY <1>5, NextStreamCall DEF LeaveStream, Idle, AheadInv
  <2>2. CASE flags[call.stream] = {}
    BY <1>5, <2>1, <2>2
       DEF LeaveStream, parser, OpenInv, ClockInv, SilentWhenStill, Ended
  <2>3. CASE flags[call.stream] # {} /\ ToRepeat(call.stream) /\ Seen(call.stream) = "STOPPED"
    <3>1. smf[call.stream] \in Prepared
      BY <1>1, <2>3, SeenType DEF Prepared
    <3>. QED BY <1>1, <1>5, <2>1, <2>3, <3>1, ResetInv DEF LeaveStream
  <2>4. CASE flags[call.stream] # {} /\ ~(ToRepeat(call.stream) /\ Seen(call.stream) = "STOPPED")
    BY <1>1, <1>5, <2>1, <2>4, SeenType
       DEF LeaveStream, TypeOK, OpenInv, ClockInv, SilentWhenStill, Ended
  <2>. QED BY <2>2, <2>3, <2>4
<1>6. CASE LeaveMetaData
  <2>1. AheadInv'
    BY <1>6 DEF LeaveMetaData, Idle, AheadInv
  <2>2. CASE Seen(call.stream) \in Prepared
    <3>1. smf[call.stream] \in Prepared
      BY <1>1, <2>2, SeenType DEF Prepared, Playing
    <3>. QED BY <1>1, <1>6, <2>1, <2>2, <3>1, ResetInv DEF LeaveMetaData
  <2>3. CASE Seen(call.stream) \notin Prepared
    BY <1>6, <2>1, <2>3
       DEF LeaveMetaData, parser, OpenInv, ClockInv, SilentWhenStill, Ended
  <2>. QED BY <2>2, <2>3
<1>7. CASE RenderVoices
  BY <1>7 DEF RenderVoices, host, Idle, TypeOK, OpenInv, AheadInv, ClockInv,
              SilentWhenStill, Ended
<1>. QED BY <1>2, <1>3, <1>4, <1>5, <1>6, <1>7

LEMMA Inductive == IInv /\ [Next]_vars => IInv'
<1> SUFFICES ASSUME IInv, [Next]_vars PROVE IInv'
  OBVIOUS
<1>1. TypeOK'
  BY TypeInductive DEF IInv
<1>2. CASE Next
  <2>1. CASE HostQuiet
    BY <1>1, <2>1, UntouchedInv DEF HostQuiet, parser, stream, IInv
  <2>. QED BY <1>1, <1>2, <2>1, HostInv, ParseInv, RenderInv DEF Next, Engine, IInv
<1>3. CASE UNCHANGED vars
  BY <1>1, <1>3, UntouchedInv DEF vars, parser, stream, IInv
<1>. QED BY <1>2, <1>3

-----------------------------------------------------------------------------
(* A pause holds, in a build whose EAS_Render looks at the requests.       *)

LEMMA HeldInductive ==
    ASSUME JET_INTERFACE, IInv, HeldInv, [Next]_vars
    PROVE  HeldInv'
<1> USE DEF IInv
<1>0. call.stream \in Streams
  BY DEF TypeOK, Calls
<1>1. ASSUME NEW s \in Streams, Host(s)
      PROVE  HeldInv'
  <2>1. held[s] => "RESUME" \notin flags[s] /\ smf[s] \notin {"NONE", "OPEN", "STOPPING", "STOPPED"}
    BY DEF HeldInv, Playing
  <2>2. CASE EAS_OpenFile(s)
    BY <2>1, <2>2 DEF EAS_OpenFile, host, HeldInv, Idle
  <2>3. CASE EAS_Prepare(s)
    BY <2>1, <2>3 DEF EAS_Prepare, HostCalls, stream, host, HeldInv, Idle, TypeOK
  <2>4. CASE EAS_CloseFile(s)
    BY <2>4 DEF EAS_CloseFile, HostCalls, stream, HeldInv, Idle, TypeOK
  <2>5. CASE EAS_State(s)
    <3>1. held[s] => smf'[s] \in {smf[s], "PAUSED"} /\ (smf'[s] # smf[s] => smf[s] = "PAUSING")
      BY <2>1, <2>5, SeenType DEF EAS_State, Seen, Settled, TypeOK
    <3>. QED BY <2>5, <3>1 DEF EAS_State, HostCalls, stream, host, HeldInv, Idle, TypeOK
  <2>6. CASE EAS_Pause(s)
    <3>1. Seen(s) = "STOPPED" => ~held[s]
      BY <2>1, SeenType DEF Seen, Settled
    <3>. QED BY <2>1, <2>6, <3>1 DEF EAS_Pause, HostCalls, HeldInv, Idle, TypeOK
  <2>7. CASE EAS_Resume(s)
    BY <2>7 DEF EAS_Resume, HostCalls, HeldInv, Idle, TypeOK
  <2>8. CASE EAS_ParseMetaData(s)
    BY <2>8 DEF EAS_ParseMetaData, HostCalls, SMF_Reset, Parsing, HeldInv, TypeOK
  <2>9. ASSUME NEW ms \in Targets, EAS_Locate(s, ms)
        PROVE  HeldInv'
    <3>1. held[s] => "PAUSE" \in flags'[s] /\ "RESUME" \notin flags'[s]
      <4>1. held[s] /\ "PAUSE" \notin flags[s] => PausedForNow(s)
        BY SeenType DEF HeldInv, PausedForNow, Seen, Settled
      <4>. QED BY <2>1, <2>9, <4>1 DEF EAS_Locate, TypeOK
    <3>. QED BY <2>9, <3>1 DEF EAS_Locate, SMF_Reset, Parsing, HeldInv, host, Playing, TypeOK
  <2>10. ASSUME NEW count \in Repeats, EAS_SetRepeat(s, count)
         PROVE  HeldInv'
    BY <2>10 DEF EAS_SetRepeat, parser, host, HeldInv
  <2>11. ASSUME NEW length \in FrameLengths, EAS_SetPlaybackRate(s, length)
         PROVE  HeldInv'
    BY <2>11 DEF EAS_SetPlaybackRate, parser, host, HeldInv
  <2>. QED BY <1>1, <2>2, <2>3, <2>4, <2>5, <2>6, <2>7, <2>8, <2>9, <2>10, <2>11 DEF Host
<1>2. CASE HostQuiet
  BY <1>2 DEF HostQuiet, parser, stream, HeldInv
<1>3. CASE EAS_Render
  BY <1>3 DEF EAS_Render, parser, stream, host, HeldInv, Idle
<1>4. CASE SkipStream
  <2>1. ~held[call.stream]
    BY <1>0, <1>4 DEF SkipStream, HeldInv, Playing
  <2>2. call'.step # "parse" /\ call'.op # "metadata"
    BY <1>4, NextStreamCall DEF SkipStream, TransportInv, AheadInv
  <2>. QED BY <1>0, <1>4, <2>1, <2>2 DEF SkipStream, parser, host, HeldInv, TypeOK
<1>5. CASE EnterStream
  <2>1. PICK s \in Streams : s = call.stream
    BY <1>0
  <2>2. call.op = "render" /\ call'.op = "render" /\ call'.stream = s
    BY <1>5, <2>1 DEF EnterStream, TransportInv, AheadInv, TypeOK, Calls
  <2>3. held[s] => smf'[s] \in {"PAUSING", "PAUSED"} /\ "RESUME" \notin flags'[s]
    BY <1>5, <2>1 DEF EnterStream, Settled, HeldInv, TypeOK, Playing
  <2>4. \A t \in Streams : t # s => flags'[t] = flags[t] /\ smf'[t] = smf[t]
    BY <1>5, <2>1 DEF EnterStream, TypeOK
  <2>. QED BY <1>5, <2>1, <2>2, <2>3, <2>4 DEF EnterStream, host, HeldInv
<1>6. CASE Parse
  <2>1. PICK s \in Streams : s = call.stream
    BY <1>0
  <2>2. CASE ParseStopped
    <3>1. held[s] => /\ smf'[s] \in {"PAUSING", "PAUSED", "ERROR"}
                     /\ smf'[s] # smf[s] => smf[s] = "PAUSING"
      BY <2>1, <2>2, SeenType DEF ParseStopped, Seen, Settled, HeldInv, TypeOK, Playing
    <3>. QED BY <2>1, <2>2, <3>1, SeenType
         DEF ParseStopped, Return, Idle, Seen, Settled, host, HeldInv, TypeOK, Playing
  <2>3. CASE ParseEvent
    <3>1. smf[s] \in Playing
      BY <2>1, <2>3, SeenType DEF ParseEvent
    <3>2. held[s] => call.op # "render" /\ call.op # "metadata" /\ "PAUSE" \in flags[s]
      BY <2>1, <2>3, <3>1 DEF ParseEvent, HeldInv, Playing
    <3>3. call'.op \in {call.op, "idle"} /\ (call'.op = call.op => call'.stream = s)
      BY <2>1, <2>3 DEF ParseEvent, Return, Idle, TypeOK, Calls
    <3>. QED BY <2>1, <2>3, <3>2, <3>3 DEF ParseEvent, stream, HeldInv, TypeOK, Playing
  <2>4. CASE ParseFails
    <3>1. smf[s] \in Playing
      BY <2>1, <2>4, SeenType DEF ParseFails
    <3>. QED BY <2>1, <2>4, <3>1
         DEF ParseFails, AfterFailure, Idle, stream, host, HeldInv, TypeOK, Playing
  <2>5. CASE ParseDone
    BY <2>1, <2>5 DEF ParseDone, Return, Idle, parser, host, HeldInv, TypeOK
  <2>. QED BY <1>6, <2>2, <2>3, <2>4, <2>5 DEF Parse
<1>7. CASE LeaveStream
  <2>1. PICK s \in Streams : s = call.stream
    BY <1>0
  <2>2. call'.step # "parse" /\ call'.op # "metadata"
    BY <1>7, NextStreamCall DEF LeaveStream, Idle
  <2>3. held[s] => Seen(s) # "STOPPED"
    BY <2>1, SeenType DEF HeldInv, Seen, Settled, Playing
  <2>4. held[s] => smf'[s] \in {smf[s], Seen(s)}
    BY <1>7, <2>1, <2>3 DEF LeaveStream, parser, TypeOK
  <2>5. \A t \in Streams : t # s => smf'[t] = smf[t]
    <3>1. CASE flags[s] = {}
      BY <1>7, <2>1, <3>1 DEF LeaveStream, parser
    <3>2. CASE flags[s] # {} /\ ToRepeat(s) /\ Seen(s) = "STOPPED"
      BY <1>7, <2>1, <3>2 DEF LeaveStream, SMF_Reset, TypeOK
    <3>3. CASE flags[s] # {} /\ ~(ToRepeat(s) /\ Seen(s) = "STOPPED")
      BY <1>7, <2>1, <3>3 DEF LeaveStream, TypeOK
    <3>. QED BY <3>1, <3>2, <3>3
  <2>6. flags' = flags /\ held' = held
    BY <1>7 DEF LeaveStream, host
  <2>. QED BY <2>1, <2>2, <2>4, <2>5, <2>6 DEF HeldInv, Seen, Settled, Playing
<1>8. CASE LeaveMetaData
  <2>1. ~held[call.stream]
    BY <1>8 DEF LeaveMetaData, HeldInv
  <2>2. \A t \in Streams : t # call.stream => smf'[t] = smf[t]
    BY <1>8 DEF LeaveMetaData, SMF_Reset, parser, TypeOK
  <2>. QED BY <1>8, <2>1, <2>2 DEF LeaveMetaData, Idle, host, HeldInv
<1>9. CASE RenderVoices
  BY <1>9 DEF RenderVoices, Idle, host, HeldInv, TypeOK
<1>10. CASE UNCHANGED vars
  BY <1>10 DEF vars, parser, stream, host, HeldInv
<1>. QED BY <1>1, <1>2, <1>3, <1>4, <1>5, <1>6, <1>7, <1>8, <1>9, <1>10 DEF Next, Engine

-----------------------------------------------------------------------------
\* Every value of the transport is one its variable can hold: in particular
\* no stream's parser is sent past the event after its last one.
THEOREM TypeCorrect == Spec => []TypeOK
<1>1. Spec => []IInv
  BY InitInv, Inductive, PTL DEF Spec
<1>2. IInv => TypeOK
  BY DEF IInv
<1>. QED BY <1>1, <1>2, PTL

\* Whatever the host calls between frames, and however often a frame is given
\* up, the position of a stream never passes an event that was not parsed.
THEOREM NoEventLost == Spec => []NothingOverdue
<1>1. Spec => []IInv
  BY InitInv, Inductive, PTL DEF Spec
<1>2. IInv => NothingOverdue
  BY DEF IInv, TransportInv, ClockInv, NothingOverdue, Prepared, Playing
<1>. QED BY <1>1, <1>2, PTL

\* A stream that is stopped or paused has no voice left.
THEOREM StillStreamsSilent == Spec => []SilentWhenStill
<1>1. Spec => []IInv
  BY InitInv, Inductive, PTL DEF Spec
<1>2. IInv => SilentWhenStill
  BY DEF IInv, TransportInv
<1>. QED BY <1>1, <1>2, PTL

\* With JET_INTERFACE, no frame plays an event of a stream the host has paused
\* and not resumed, over every EAS_Locate in between.
THEOREM PausesHold == ASSUME JET_INTERFACE PROVE Spec => PauseHolds
<1>1. Init => HeldInv
  BY DEF Init, HeldInv, Idle
<1>2. IInv /\ HeldInv /\ [Next]_vars => IInv' /\ HeldInv'
  BY Inductive, HeldInductive
<1>3. ASSUME IInv, HeldInv, Next,
             NEW s \in Streams, next'[s] # next[s], held[s], call.op = "render"
      PROVE  FALSE
  <2>1. call # Idle
    BY <1>3 DEF Idle
  <2>2. CASE ParseEvent
    <3>1. s = call.stream /\ Seen(s) \in Playing /\ call.step = "parse"
      BY <1>3, <2>2 DEF ParseEvent
    <3>2. smf[s] \in Playing
      BY <3>1, SeenType, <1>3 DEF IInv
    <3>. QED BY <1>3, <3>1, <3>2 DEF HeldInv, Playing
  <2>3. CASE LeaveStream
    <3>1. s = call.stream /\ Seen(s) = "STOPPED"
      <4>1. flags[call.stream] # {} /\ ToRepeat(call.stream) /\ Seen(call.stream) = "STOPPED"
        BY <1>3, <2>3 DEF LeaveStream, parser
      <4>2. next' = [next EXCEPT ![call.stream] = 1]
        BY <2>3, <4>1 DEF LeaveStream, SMF_Reset
      <4>. QED BY <1>3, <4>1, <4>2
    <3>. QED BY <1>3, <3>1 DEF HeldInv, Seen, Settled, Playing
  <2>4. ASSUME NEW t \in Streams, Host(t)
        PROVE  FALSE
    BY <2>1, <2>4 DEF Host, HostCalls, EAS_OpenFile, EAS_Prepare, EAS_CloseFile, EAS_SetRepeat,
       EAS_SetPlaybackRate, EAS_State, EAS_Pause, EAS_Resume, EAS_Locate, EAS_ParseMetaData
  <2>5. CASE SkipStream \/ ParseStopped \/ ParseFails \/ ParseDone \/ RenderVoices
    BY <1>3, <2>5 DEF SkipStream, ParseStopped, ParseFails, ParseDone, RenderVoices, parser
  <2>6. CASE EnterStream
    BY <1>3, <2>6 DEF EnterStream
  <2>. QED BY <1>3, <2>1, <2>2, <2>3, <2>4, <2>5, <2>6
       DEF Next, Engine, Parse, HostQuiet, EAS_Render, LeaveMetaData
<1>4. IInv /\ HeldInv /\ [Next]_vars
        => [\A s \in Streams : next'[s] # next[s] /\ held[s] => call.op # "render"]_vars
  BY <1>3
<1>. QED BY <1>1, <1>2, <1>4, InitInv, PTL DEF Spec, PauseHolds
-----------------------------------------------------------------------------
(* Sums over the events of a song.                                         *)

\* A set of naturals that has 0, and with each number below n the next, has all
\* up to n.
LEMMA UpTo ==
    ASSUME NEW n \in Nat, NEW S, 0 \in S, \A m \in 0 .. n - 1 : m \in S => m + 1 \in S
    PROVE  0 .. n \subseteq S
<1>. DEFINE R == OpToRel(<, Nat)
            T == (0 .. n) \ S
<1>1. IsWellFoundedOn(R, Nat)
  BY NatLessThanWellFounded
<1>2. \A x, y \in Nat : <<y, x>> \in R <=> y < x
  BY DEF OpToRel
<1>. HIDE DEF R
<1>. SUFFICES ASSUME T # {} PROVE FALSE
  OBVIOUS
<1>3. T \subseteq Nat
  OBVIOUS
<1>. HIDE DEF T
<1>4. \E x \in T : \A y \in T : ~ (<<y, x>> \in R)
  BY <1>1, <1>3, WFMin
<1>5. PICK x \in T : \A y \in T : ~ (y < x)
  BY <1>2, <1>3, <1>4
<1>6. x \in 1 .. n /\ x - 1 \in 0 .. n - 1 /\ x - 1 \notin T
  BY <1>3, <1>5 DEF T
<1>7. x - 1 \in S /\ (x - 1) + 1 = x
  BY <1>6 DEF T
<1>8. x \in S
  BY <1>6, <1>7
<1>. QED BY <1>8 DEF T

\* The function that sums d from a on.
Sums(f, n, a, d) == f = [i \in 1 .. n |-> IF i = 1 THEN a ELSE f[i - 1] + d[i]]

LEMMA SumExists ==
    ASSUME NEW n \in Nat, NEW a, NEW d
    PROVE  \E f : Sums(f, n, a, d)
<1>. DEFINE Part(m) == \E f : f = [i \in 1 .. m |-> IF i = 1 THEN a ELSE f[i - 1] + d[i]]
            S == {m \in 0 .. n : Part(m)}
<1>1. Part(0)
  <2>. DEFINE f == [i \in 1 .. 0 |-> a]
  <2>1. f = [i \in 1 .. 0 |-> IF i = 1 THEN a ELSE f[i - 1] + d[i]]
    OBVIOUS
  <2>. QED BY <2>1
<1>2. ASSUME NEW m \in 0 .. n - 1, Part(m)
      PROVE  Part(m + 1)
  <2>1. PICK f : f = [i \in 1 .. m |-> IF i = 1 THEN a ELSE f[i - 1] + d[i]]
    BY <1>2
  <2>. DEFINE g == [i \in 1 .. m + 1 |-> IF i \in 1 .. m THEN f[i]
                                         ELSE IF i = 1 THEN a ELSE f[i - 1] + d[i]]
  <2>2. ASSUME NEW i \in 1 .. m + 1
        PROVE  g[i] = IF i = 1 THEN a ELSE g[i - 1] + d[i]
    <3>1. i # 1 => i - 1 \in 1 .. m /\ g[i - 1] = f[i - 1]
      OBVIOUS
    <3>2. CASE i \in 1 .. m
      <4>1. g[i] = f[i]
        BY <3>2
      <4>2. f[i] = IF i = 1 THEN a ELSE f[i - 1] + d[i]
        BY <2>1, <3>2
      <4>. QED BY <3>1, <4>1, <4>2
    <3>3. CASE i \notin 1 .. m
      <4>1. g[i] = IF i = 1 THEN a ELSE f[i - 1] + d[i]
        BY <3>3
      <4>. QED BY <3>1, <4>1
    <3>. QED BY <3>2, <3>3
  <2>3. g = [i \in 1 .. m + 1 |-> g[i]]
    OBVIOUS
  <2>. HIDE DEF g
  <2>4. g = [i \in 1 .. m + 1 |-> IF i = 1 THEN a ELSE g[i - 1] + d[i]]
    BY <2>2, <2>3
  <2>. QED BY <2>4
<1>. HIDE DEF Part
<1>3. 0 \in S
  BY <1>1
<1>4. ASSUME NEW m \in 0 .. n - 1, m \in S PROVE m + 1 \in S
  BY <1>2, <1>4
<1>5. 0 .. n \subseteq S
  <2>. HIDE DEF S
  <2>. QED BY <1>3, <1>4, UpTo
<1>6. Part(n)
  BY <1>5
<1>. QED BY <1>6 DEF Part, Sums

\* The time of the first event is that of its tick, and each later one comes the
\* time between their ticks after the one before it.
LEMMA TimeOfEvents ==
    ASSUME NEW s \in Streams
    PROVE  /\ TimeOf(s)[1] = Ticks(Songs[s][1].tick, DefaultConv)
           /\ \A i \in 1 .. Length(s) - 1 :
                TimeOf(s)[i + 1] = TimeOf(s)[i]
                    + Ticks(Songs[s][i + 1].tick - Songs[s][i].tick, ConvAt(s, i))
<1>. DEFINE a == Ticks(Songs[s][1].tick, DefaultConv)
            dist(i) == Ticks(Songs[s][i].tick - Songs[s][i - 1].tick, ConvAt(s, i - 1))
            d == [i \in 1 .. Length(s) |-> dist(i)]
<1>1. Length(s) \in Nat \ {0}
  BY SongType
<1>2. TimeOf(s) = CHOOSE f : f = [i \in 1 .. Length(s) |-> IF i = 1 THEN a ELSE f[i - 1] + dist(i)]
  BY DEF TimeOf
<1>3. ASSUME NEW i \in 1 .. Length(s) - 1
      PROVE  dist(i + 1) = Ticks(Songs[s][i + 1].tick - Songs[s][i].tick, ConvAt(s, i))
  <2>1. (i + 1) - 1 = i
    OBVIOUS
  <2>. QED BY <2>1
<1>. HIDE DEF a, dist
<1>4. PICK f : Sums(f, Length(s), a, d)
  BY Zenon, <1>1, SumExists
<1>5. f = [i \in 1 .. Length(s) |-> IF i = 1 THEN a ELSE f[i - 1] + dist(i)]
  BY <1>4 DEF Sums
<1>6. TimeOf(s) = [i \in 1 .. Length(s) |-> IF i = 1 THEN a ELSE TimeOf(s)[i - 1] + dist(i)]
  BY <1>2, <1>5
<1>7. TimeOf(s)[1] = a
  BY <1>1, <1>6
<1>8. ASSUME NEW i \in 1 .. Length(s) - 1
      PROVE  TimeOf(s)[i + 1] = TimeOf(s)[i] + dist(i + 1)
  <2>1. i + 1 \in 1 .. Length(s) /\ i + 1 # 1 /\ (i + 1) - 1 = i
    BY <1>1
  <2>. QED BY <1>6, <2>1
<1>. QED BY <1>3, <1>7, <1>8 DEF a

\* The tempo after an event is the one it sets, if it sets one.
LEMMA ConvAfter ==
    ASSUME NEW s \in Streams, NEW i \in 1 .. Length(s)
    PROVE  /\ Songs[s][i].tempo # 0 => ConvAt(s, i) = Songs[s][i].tempo
           /\ Songs[s][i].tempo = 0 => ConvAt(s, i) = ConvAt(s, i - 1)
<1>. DEFINE set(k) == {j \in 1 .. k : Songs[s][j].tempo # 0}
            latest(k) == CHOOSE j \in set(k) : \A m \in set(k) : m <= j
<1>1. \A k : ConvAt(s, k) = IF set(k) = {} THEN DefaultConv ELSE Songs[s][latest(k)].tempo
  BY DEF ConvAt
<1>2. CASE Songs[s][i].tempo # 0
  <2>1. i \in set(i) /\ \A m \in set(i) : m <= i
    BY <1>2
  <2>2. latest(i) \in set(i) /\ \A m \in set(i) : m <= latest(i)
    BY <2>1
  <2>3. latest(i) = i
    <3>. HIDE DEF latest
    <3>. QED BY <2>1, <2>2
  <2>. QED BY <1>1, <1>2, <2>1, <2>3
<1>3. Songs[s][i].tempo = 0 => set(i) = set(i - 1)
  OBVIOUS
<1>. QED BY <1>1, <1>2, <1>3

LEMMA ConvType ==
    ASSUME NEW s \in Streams, NEW i \in 1 .. Length(s)
    PROVE  ConvAt(s, i) \in Nat
<1>. DEFINE S == {k \in 0 .. Length(s) : ConvAt(s, k) \in Nat}
<1>1. Length(s) \in Nat
  BY SongType
<1>2. 0 \in S
  <2>1. {j \in 1 .. 0 : Songs[s][j].tempo # 0} = {}
    OBVIOUS
  <2>. QED BY <1>1, <2>1, TransportAssumption DEF ConvAt
<1>3. ASSUME NEW m \in 0 .. Length(s) - 1, m \in S PROVE m + 1 \in S
  <2>1. m + 1 \in 1 .. Length(s) /\ (m + 1) - 1 = m
    BY <1>1
  <2>2. Songs[s][m + 1].tempo \in Nat
    BY <2>1, SongType DEF Events
  <2>3. ConvAt(s, m + 1) \in Nat
    BY <1>3, <2>1, <2>2, ConvAfter
  <2>. QED BY <2>1, <2>3
<1>4. 0 .. Length(s) \subseteq S
  <2>. HIDE DEF S
  <2>. QED BY <1>1, <1>2, <1>3, UpTo
<1>. QED BY <1>4

\* In a song that never leaves the tempo it starts with.
OneTempo(s) == \A i \in 1 .. Length(s) : Songs[s][i].tempo \in {0, DefaultConv}

LEMMA ConvOfOneTempo ==
    ASSUME NEW s \in Streams, OneTempo(s), NEW i \in 1 .. Length(s)
    PROVE  ConvAt(s, i) = DefaultConv
<1>. DEFINE S == {k \in 0 .. Length(s) : ConvAt(s, k) = DefaultConv}
<1>1. Length(s) \in Nat
  BY SongType
<1>2. 0 \in S
  <2>1. {j \in 1 .. 0 : Songs[s][j].tempo # 0} = {}
    OBVIOUS
  <2>. QED BY <1>1, <2>1 DEF ConvAt
<1>3. ASSUME NEW m \in 0 .. Length(s) - 1, m \in S PROVE m + 1 \in S
  <2>1. m + 1 \in 1 .. Length(s) /\ (m + 1) - 1 = m
    BY <1>1
  <2>2. Songs[s][m + 1].tempo \in {0, DefaultConv}
    BY <2>1 DEF OneTempo
  <2>3. ConvAt(s, m + 1) = DefaultConv
    BY <1>3, <2>1, <2>2, ConvAfter
  <2>. QED BY <2>1, <2>3
<1>4. 0 .. Length(s) \subseteq S
  <2>. HIDE DEF S
  <2>. QED BY <1>1, <1>2, <1>3, UpTo
<1>. QED BY <1>4


-----------------------------------------------------------------------------
(* The time of every event, in every pass of a song that sets its tempo    *)
(* before any time passes.                                                 *)

TempoFirst(s) ==
    /\ Songs[s][1].tick = 0
    /\ \/ OneTempo(s)
       \/ \E k \in 1 .. Length(s) : /\ Songs[s][k].tempo # 0
                                    /\ \A j \in 1 .. k : Songs[s][j].tick = 0

\* The tempo a pass leaves is that of the next one only where no time passes
\* by it; from the first event that sets one, the tempo is that of the song.
ExactInv == \A s \in Streams :
    /\ smf[s] = "OPEN" => next[s] = 1
    /\ OneTempo(s) => tickConv[s] = DefaultConv
    /\ \A k \in 1 .. next[s] - 1 : Songs[s][k].tempo # 0 => tickConv[s] = ConvAt(s, next[s] - 1)
    /\ smf[s] \notin {"NONE", "OPEN"} /\ ~Ended(s) => clock[s] = TimeOf(s)[next[s]]

LEMMA ExactKept ==
    ASSUME ExactInv, UNCHANGED <<next, clock, tickConv>>,
           \A t \in Streams : /\ smf'[t] = "OPEN" => smf[t] = "OPEN"
                              /\ smf[t] \in {"NONE", "OPEN"} => smf'[t] \in {"NONE", "OPEN"}
    PROVE  ExactInv'
BY DEF ExactInv, Ended

\* No time passes before the first event.
LEMMA FirstEvent ==
    ASSUME NEW s \in Streams, TempoFirst(s)
    PROVE  TimeOf(s)[1] = 0 /\ \A conv \in Nat : Ticks(0, conv) = 0
<1>1. \A conv \in Nat : Ticks(0, conv) = 0
  BY DEF Ticks
<1>2. Songs[s][1].tick = 0 /\ DefaultConv \in Nat
  BY TransportAssumption DEF TempoFirst
<1>. QED BY <1>1, <1>2, TimeOfEvents

LEMMA ExactReset ==
    ASSUME IInv, ExactInv, \A t \in Streams : TempoFirst(t), NEW s \in Streams, SMF_Reset(s)
    PROVE  ExactInv'
<1>1. SUFFICES ASSUME NEW t \in Streams
      PROVE  /\ smf'[t] = "OPEN" => next'[t] = 1
             /\ OneTempo(t) => tickConv'[t] = DefaultConv
             /\ \A k \in 1 .. next'[t] - 1 : Songs[t][k].tempo # 0 => tickConv'[t] = ConvAt(t, next'[t] - 1)
             /\ smf'[t] \notin {"NONE", "OPEN"} /\ ~(next'[t] > Length(t)) => clock'[t] = TimeOf(t)[next'[t]]
  BY DEF ExactInv, Ended
<1>2. CASE t = s
  BY <1>2, FirstEvent DEF SMF_Reset, IInv, TypeOK, ExactInv
<1>3. CASE t # s
  BY <1>3 DEF SMF_Reset, IInv, TypeOK, ExactInv, Ended
<1>. QED BY <1>2, <1>3

LEMMA ExactHost ==
    ASSUME IInv, ExactInv, \A t \in Streams : TempoFirst(t), NEW s \in Streams, Host(s)
    PROVE  ExactInv'
<1>. USE DEF IInv
<1>1. CASE EAS_OpenFile(s)
  BY <1>1 DEF EAS_OpenFile, TypeOK, ExactInv, Ended
<1>2. CASE EAS_Prepare(s)
  <2>1. Songs[s][1].tick = 0 /\ tickConv[s] \in Nat /\ TempoFirst(s)
    BY DEF TempoFirst, TypeOK
  <2>2. clock'[s] = 0
    BY <1>2, <2>1, FirstEvent DEF EAS_Prepare, TypeOK
  <2>. QED BY <1>2, <2>1, <2>2, FirstEvent DEF EAS_Prepare, HostCalls, TypeOK, ExactInv, Ended
<1>3. CASE EAS_CloseFile(s)
  BY <1>3, ExactKept DEF EAS_CloseFile, HostCalls, TypeOK
<1>4. CASE EAS_State(s)
  BY <1>4, ExactKept, SeenType DEF EAS_State, HostCalls, TypeOK
<1>5. CASE EAS_Pause(s) \/ EAS_Resume(s)
  <2>1. smf[s] \notin {"NONE", "OPEN"} /\ smf'[s] \in {"STOPPED", "PAUSING", "PLAY"}
    BY <1>5, SeenType DEF EAS_Pause, EAS_Resume, HostCalls, TypeOK, TransportInv, OpenInv, Playing
  <2>. QED BY <1>5, <2>1, ExactKept DEF EAS_Pause, EAS_Resume, TypeOK
<1>6. CASE EAS_ParseMetaData(s)
  BY <1>6, ExactReset DEF EAS_ParseMetaData
<1>7. ASSUME NEW ms \in Targets, EAS_Locate(s, ms) PROVE ExactInv'
  BY <1>7, ExactReset DEF EAS_Locate
<1>8. ASSUME NEW count \in Repeats, EAS_SetRepeat(s, count) PROVE ExactInv'
  BY <1>8, ExactKept DEF EAS_SetRepeat, parser
<1>9. ASSUME NEW length \in FrameLengths, EAS_SetPlaybackRate(s, length) PROVE ExactInv'
  BY <1>9, ExactKept DEF EAS_SetPlaybackRate, parser
<1>. QED BY <1>1, <1>2, <1>3, <1>4, <1>5, <1>6, <1>7, <1>8, <1>9 DEF Host

\* The next event comes its ticks later, at the tempo that is in force.
LEMMA ExactEvent ==
    ASSUME IInv, ExactInv, \A t \in Streams : TempoFirst(t), ParseEvent
    PROVE  ExactInv'
<1>0. PICK s \in Streams : s = call.stream
  BY DEF IInv, TypeOK, Calls
<1>. DEFINE i    == next[s]
            conv == IF Songs[s][i].tempo = 0 THEN tickConv[s] ELSE Songs[s][i].tempo
            ticks == Songs[s][i + 1].tick - Songs[s][i].tick
<1>1. /\ smf[s] \in Playing /\ ~Ended(s)
      /\ tickConv' = [tickConv EXCEPT ![s] = conv]
      /\ next' = [next EXCEPT ![s] = i + 1]
      /\ smf' = [smf EXCEPT ![s] = IF i = Length(s) THEN "STOPPING" ELSE "PLAY"]
      /\ clock' = [clock EXCEPT ![s] = IF i = Length(s) THEN clock[s] ELSE clock[s] + Ticks(ticks, conv)]
  BY <1>0, SeenType DEF IInv, ParseEvent
<1>2. i \in 1 .. Length(s) /\ Length(s) \in Nat
  BY <1>1, SongType DEF Ended, IInv, TypeOK
<1>3. \A k \in 1 .. i : Songs[s][k].tempo # 0 => conv = ConvAt(s, i)
  <2>. SUFFICES ASSUME NEW k \in 1 .. i, Songs[s][k].tempo # 0 PROVE conv = ConvAt(s, i)
    OBVIOUS
  <2>1. CASE Songs[s][i].tempo # 0
    BY <1>2, <2>1, ConvAfter
  <2>2. CASE Songs[s][i].tempo = 0
    <3>1. k \in 1 .. i - 1
      BY <1>2, <2>2
    <3>2. tickConv[s] = ConvAt(s, i - 1)
      BY <3>1 DEF ExactInv
    <3>. QED BY <1>2, <2>2, <3>2, ConvAfter
  <2>. QED BY <2>1, <2>2
<1>4. OneTempo(s) => conv = DefaultConv
  BY <1>2 DEF OneTempo, ExactInv
<1>5. clock[s] = TimeOf(s)[i]
  BY <1>1 DEF ExactInv, Playing
<1>6. i # Length(s) => clock[s] + Ticks(ticks, conv) = TimeOf(s)[i + 1]
  <2>. SUFFICES ASSUME i # Length(s) PROVE Ticks(ticks, conv) = Ticks(ticks, ConvAt(s, i))
    <3>1. i # Length(s) => i \in 1 .. Length(s) - 1
      BY <1>2
    <3>2. i \in 1 .. Length(s) - 1 => TimeOf(s)[i + 1] = TimeOf(s)[i] + Ticks(ticks, ConvAt(s, i))
      BY TimeOfEvents
    <3>. QED BY <1>5, <3>1, <3>2
  <2>1. CASE OneTempo(s)
    BY <1>2, <1>4, <2>1, ConvOfOneTempo
  <2>2. CASE ~OneTempo(s)
    <3>1. PICK k \in 1 .. Length(s) : /\ Songs[s][k].tempo # 0
                                      /\ \A j \in 1 .. k : Songs[s][j].tick = 0
      BY <2>2 DEF TempoFirst
    <3>2. CASE k <= i
      BY <1>2, <1>3, <3>1, <3>2
    <3>3. CASE k > i
      <4>1. ticks = 0
        BY <1>2, <3>1, <3>3
      <4>2. conv \in Nat
        <5>1. tickConv[s] \in Nat /\ Songs[s][i].tempo \in Nat
          BY <1>2, SongType DEF Events, IInv, TypeOK
        <5>. QED BY <5>1
      <4>3. ConvAt(s, i) \in Nat
        BY <1>2, ConvType
      <4>. QED BY <4>1, <4>2, <4>3, FirstEvent
    <3>. QED BY <1>2, <3>2, <3>3
  <2>. QED BY <2>1, <2>2
<1>7. SUFFICES ASSUME NEW t \in Streams
      PROVE  /\ smf'[t] = "OPEN" => next'[t] = 1
             /\ OneTempo(t) => tickConv'[t] = DefaultConv
             /\ \A k \in 1 .. next'[t] - 1 : Songs[t][k].tempo # 0 => tickConv'[t] = ConvAt(t, next'[t] - 1)
             /\ smf'[t] \notin {"NONE", "OPEN"} /\ ~(next'[t] > Length(t)) => clock'[t] = TimeOf(t)[next'[t]]
  BY DEF ExactInv, Ended
<1>. HIDE DEF conv, ticks
<1>8. CASE t = s
  <2>1. next'[s] = i + 1 /\ tickConv'[s] = conv /\ smf'[s] # "OPEN" /\ (i + 1) - 1 = i
    BY <1>1, <1>2 DEF IInv, TypeOK
  <2>2. ~(next'[s] > Length(s)) => clock'[s] = TimeOf(s)[next'[s]]
    BY <1>1, <1>2, <1>6, <2>1 DEF IInv, TypeOK
  <2>. QED BY <1>3, <1>4, <1>8, <2>1, <2>2
<1>9. CASE t # s
  BY <1>1, <1>9 DEF IInv, TypeOK, ExactInv, Ended
<1>. QED BY <1>8, <1>9

LEMMA ExactEngine ==
    ASSUME IInv, ExactInv, \A t \in Streams : TempoFirst(t), Engine
    PROVE  ExactInv'
<1>1. call.stream \in Streams
  BY DEF IInv, TypeOK, Calls
<1>2. CASE EAS_Render \/ SkipStream \/ RenderVoices \/ ParseDone
  BY <1>2, ExactKept DEF EAS_Render, SkipStream, RenderVoices, ParseDone, parser
<1>3. CASE EnterStream
  BY <1>1, <1>3, ExactKept DEF EnterStream, Settled, IInv, TypeOK, TransportInv, OpenInv
<1>4. CASE ParseStopped
  BY <1>1, <1>4, ExactKept, SeenType DEF ParseStopped, IInv, TypeOK
<1>5. CASE ParseFails
  <2>1. smf[call.stream] \in Playing
    BY <1>1, <1>5, SeenType DEF ParseFails, IInv
  <2>. QED BY <1>1, <1>5, <2>1, ExactKept DEF ParseFails, AfterFailure, IInv, TypeOK, Playing
<1>6. CASE LeaveStream
  <2>1. CASE flags[call.stream] = {}
    BY <1>6, <2>1, ExactKept DEF LeaveStream, parser
  <2>2. CASE flags[call.stream] # {} /\ ToRepeat(call.stream) /\ Seen(call.stream) = "STOPPED"
    BY <1>1, <1>6, <2>2, ExactReset DEF LeaveStream
  <2>3. CASE flags[call.stream] # {} /\ ~(ToRepeat(call.stream) /\ Seen(call.stream) = "STOPPED")
    BY <1>1, <1>6, <2>3, ExactKept, SeenType DEF LeaveStream, IInv, TypeOK
  <2>. QED BY <2>1, <2>2, <2>3
<1>7. CASE LeaveMetaData
  BY <1>1, <1>7, ExactReset, ExactKept DEF LeaveMetaData, parser
<1>. QED BY <1>2, <1>3, <1>4, <1>5, <1>6, <1>7, ExactEvent DEF Engine, Parse

\* A song that sets its tempo before any time passes plays each event at its time,
\* in the first pass as in every other one: SMF_Reset keeps the tempo of the pass
\* before and sets the time to 0 (EventTimeExact).
THEOREM EventsOnTime ==
    ASSUME \A s \in Streams : TempoFirst(s)
    PROVE  Spec => []EventTimeExact
<1>1. Init => ExactInv
  BY DEF Init, ExactInv
<1>2. IInv /\ ExactInv /\ [Next]_vars => ExactInv'
  <2>. SUFFICES ASSUME IInv, ExactInv, [Next]_vars PROVE ExactInv'
    OBVIOUS
  <2>1. CASE HostQuiet \/ UNCHANGED vars
    BY <2>1, ExactKept DEF HostQuiet, vars, parser
  <2>. QED BY <2>1, ExactHost, ExactEngine DEF Next
<1>3. ExactInv => EventTimeExact
  BY DEF ExactInv, EventTimeExact, Prepared, Playing
<1>. QED BY <1>1, <1>2, <1>3, InitInv, Inductive, PTL DEF Spec
==============================================================================
