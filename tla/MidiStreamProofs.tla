-------------------------- MODULE MidiStreamProofs --------------------------
(***************************************************************************)
(* Proofs about MidiStream, for all bytes, numbers of channels, and wires, *)
(* also those that cut messages.                                           *)
(***************************************************************************)
EXTENDS MidiStream, TLAPS, SequenceTheorems

\* A song position, which clears the running status before its second data
\* byte, is under way until then.
SongPositionPends == runningStatus = 242 => pending /\ ~byte3

\* d1 counts the entries of an SP-MIDI message, which ends with the last
\* channel; other messages, which use d1 too, leave the message first.
TableFits ==
    runningStatus = 240 /\ Performs /\ sysExState \in {"SPMIDIchan", "SPMIDIMIP"}
    => d1 < NUM_SYNTH_CHANNELS

IInv == TypeOK /\ NotHalfRead /\ SongPositionPends /\ TableFits

\* TypeOK in two: the fields that are flags, and the others.
FlagsOK  == byte3 \in BOOLEAN /\ pending \in BOOLEAN
FieldsOK ==
    /\ sysExState \in SysExStates
    /\ runningStatus \in {0} \union 128 .. 247 /\ status \in {0} \union 128 .. 247
    /\ d1 \in 0 .. 127 /\ d2 \in 0 .. 127
    /\ flags \subseteq {"FIRST_NOTE", "GM_ON"}

LEMMA TypeParts == TypeOK <=> FlagsOK /\ FieldsOK
BY Zenon DEF TypeOK, FlagsOK, FieldsOK

LEMMA InitInv == Init => IInv
<1>. SUFFICES ASSUME Init PROVE IInv
  OBVIOUS
<1>1. FlagsOK /\ NotHalfRead
  BY Zenon DEF Init, FlagsOK, NotHalfRead
<1>2. FieldsOK
  BY SMT DEF Init, FieldsOK, SysExStates
<1>3. runningStatus = 0
  BY DEF Init
<1>4. SongPositionPends /\ TableFits
  BY <1>3 DEF SongPositionPends, TableFits
<1>. QED BY <1>1, <1>2, <1>4, TypeParts DEF IInv

\* A message that is called changes none of the fields but the flags.
LEMMA CallType ==
    ASSUME TypeOK, ProcessMIDIMessage
    PROVE  flags' \subseteq {"FIRST_NOTE", "GM_ON"}
BY DEF TypeOK, ProcessMIDIMessage

\* The data bytes of a system exclusive message.
LEMMA SysExInv ==
    ASSUME IInv, NEW c \in 0 .. 127, SysExData(c), runningStatus = 240, Performs
    PROVE  /\ sysExState' \in SysExStates
           /\ d1' \in 0 .. 127 /\ d2' \in 0 .. 127
           /\ flags' \subseteq {"FIRST_NOTE", "GM_ON"}
           /\ sysExState' \in {"SPMIDIchan", "SPMIDIMIP"} => d1' < NUM_SYNTH_CHANNELS
<1>. USE DEF IInv, TypeOK, SysExStates, TableFits
<1>1. CASE GMOn(c)
  BY <1>1 DEF GMOn
<1>2. CASE VolumeLow(c)
  BY <1>2 DEF VolumeLow
<1>3. CASE VolumeHigh(c)
  BY <1>3 DEF VolumeHigh
<1>4. CASE MipStart(c)
  BY <1>4, MidiAssumption DEF MipStart
<1>5. CASE MipChannel(c)
  <2>1. CASE c < NUM_SYNTH_CHANNELS
    BY <1>5, <2>1 DEF MipChannel
  <2>2. CASE ~(c < NUM_SYNTH_CHANNELS)
    BY <1>5, <2>2 DEF MipChannel
  <2>. QED BY <2>1, <2>2
<1>6. CASE MipEntry(c)
  <2>1. d1 < NUM_SYNTH_CHANNELS /\ NUM_SYNTH_CHANNELS \in 1 .. 16 /\ d1' = d1 + 1
    BY <1>6, MidiAssumption DEF MipEntry
  <2>2. CASE d1' = NUM_SYNTH_CHANNELS
    BY <1>6, <2>1, <2>2 DEF MipEntry
  <2>3. CASE d1' # NUM_SYNTH_CHANNELS
    BY <1>6, <2>1, <2>3 DEF MipEntry
  <2>. QED BY <2>2, <2>3
<1>7. CASE SysExOther(c)
  <2>1. sysExState' \in SysExStates \ {"SPMIDIchan", "SPMIDIMIP"}
    BY <1>7 DEF SysExOther, SysExStep
  <2>. QED BY <1>7, <2>1 DEF SysExOther
<1>. QED BY <1>1, <1>2, <1>3, <1>4, <1>5, <1>6, <1>7 DEF SysExData

\* One byte, whatever comes next to it on the wire.
LEMMA ByteInv ==
    ASSUME IInv, NEW c \in 0 .. 255, EAS_ParseMIDIStream(c), UNCHANGED parserMode
    PROVE  IInv'
<1>. USE DEF IInv
<1>1. FlagsOK /\ FieldsOK
  BY TypeParts
<1>2. Performs' = Performs
  BY DEF Performs
<1>3. SUFFICES FlagsOK' /\ FieldsOK' /\ NotHalfRead' /\ SongPositionPends' /\ TableFits'
  <2>1. TypeOK' <=> FlagsOK' /\ FieldsOK'
    BY Zenon DEF TypeOK, FlagsOK, FieldsOK
  <2>. QED BY Zenon, <2>1
<1>4. CASE StatusByte(c)
  <2>1. FlagsOK' /\ NotHalfRead' /\ byte3' = FALSE /\ status' = status
    BY Zenon, <1>1, <1>4 DEF StatusByte, FlagsOK, NotHalfRead
  <2>2. runningStatus' = c /\ c \in 128 .. 247
    BY <1>4 DEF StatusByte
  <2>3. c = 242 => pending' = TRUE
    <3>1. c = 242 => c \notin {240, 247} \union 244 .. 246
      OBVIOUS
    <3>2. pending' = IF c \in {240, 247} \union 244 .. 246 THEN pending ELSE TRUE
      BY <1>4 DEF StatusByte
    <3>3. CASE c \in {240, 247} \union 244 .. 246
      BY Zenon, <3>1, <3>3
    <3>4. CASE c \notin {240, 247} \union 244 .. 246
      BY <3>2, <3>4
    <3>. QED BY <3>3, <3>4
  <2>4. SysExStart \/ SysExEnd \/ NoSysEx
    BY Zenon, <1>4 DEF StatusByte
  <2>5. c = 240 /\ Performs => SysExStart
    BY <1>4 DEF StatusByte
  <2>6. FieldsOK'
    <3>1. sysExState' \in SysExStates /\ UNCHANGED <<d1, d2, flags>>
      BY <1>1, <2>4 DEF FieldsOK, SysExStates, SysExStart, SysExEnd, NoSysEx
    <3>. QED BY <1>1, <2>1, <2>2, <3>1 DEF FieldsOK
  <2>7. SongPositionPends'
    BY Zenon, <2>1, <2>2, <2>3 DEF SongPositionPends
  <2>8. TableFits'
    BY <1>2, <2>2, <2>5 DEF TableFits, SysExStart
  <2>. QED BY <2>1, <2>6, <2>7, <2>8
<1>5. CASE RealTimeByte(c)
  BY <1>1, <1>2, <1>5 DEF RealTimeByte, decoder, FlagsOK, FieldsOK, NotHalfRead,
                          SongPositionPends, TableFits
<1>6. CASE ThirdByte(c)
  <2>1. FlagsOK' /\ NotHalfRead'
    BY Zenon, <1>1, <1>6 DEF ThirdByte, FlagsOK, NotHalfRead
  <2>2. runningStatus # 242
    BY Zenon, <1>6 DEF ThirdByte, SongPositionPends
  <2>3. flags' \subseteq {"FIRST_NOTE", "GM_ON"}
    BY <1>6, CallType DEF ThirdByte
  <2>4. FieldsOK' /\ TableFits' /\ runningStatus' = runningStatus
    BY <1>1, <1>2, <1>6, <2>3 DEF ThirdByte, FieldsOK, TableFits
  <2>. QED BY Zenon, <2>1, <2>2, <2>4 DEF SongPositionPends
<1>7. CASE FirstOfTwo(c)
  <2>1. FlagsOK' /\ NotHalfRead'
    BY Zenon, <1>1, <1>7 DEF FirstOfTwo, FlagsOK, NotHalfRead
  <2>2. runningStatus' = runningStatus /\ runningStatus # 242 /\ runningStatus # 240
    BY <1>7 DEF FirstOfTwo
  <2>3. FieldsOK'
    BY <1>1, <1>7 DEF FirstOfTwo, FieldsOK
  <2>. QED BY <2>1, <2>2, <2>3 DEF SongPositionPends, TableFits
<1>8. CASE OnlyData(c)
  <2>1. FlagsOK' /\ NotHalfRead'
    BY Zenon, <1>1, <1>8 DEF OnlyData, FlagsOK, NotHalfRead
  <2>2. runningStatus' = runningStatus /\ runningStatus # 242 /\ runningStatus # 240
    BY <1>8 DEF OnlyData
  <2>3. flags' \subseteq {"FIRST_NOTE", "GM_ON"}
    BY <1>8, CallType DEF OnlyData
  <2>4. FieldsOK'
    BY <1>1, <1>8, <2>3 DEF OnlyData, FieldsOK
  <2>. QED BY <2>1, <2>2, <2>4 DEF SongPositionPends, TableFits
<1>9. CASE SysExByte(c)
  <2>1. /\ c \in 0 .. 127 /\ runningStatus = 240 /\ status' = runningStatus
        /\ runningStatus' = runningStatus
    BY <1>9 DEF SysExByte
  <2>2. FlagsOK' /\ NotHalfRead'
    BY Zenon, <1>1, <1>9 DEF SysExByte, FlagsOK, NotHalfRead
  <2>3. CASE Performs
    <3>1. SysExData(c)
      BY <1>9, <2>3 DEF SysExByte
    <3>2. /\ sysExState' \in SysExStates
          /\ d1' \in 0 .. 127 /\ d2' \in 0 .. 127
          /\ flags' \subseteq {"FIRST_NOTE", "GM_ON"}
          /\ sysExState' \in {"SPMIDIchan", "SPMIDIMIP"} => d1' < NUM_SYNTH_CHANNELS
      BY <2>1, <2>3, <3>1, SysExInv
    <3>. QED BY <1>1, <2>1, <2>2, <3>2 DEF FieldsOK, SongPositionPends, TableFits
  <2>4. CASE ~Performs
    <3>1. UNCHANGED <<sysExState, d1, d2, flags>>
      BY <1>9, <2>4 DEF SysExByte, NoSysEx
    <3>. QED BY <1>1, <1>2, <2>1, <2>2, <2>4, <3>1 DEF FieldsOK, SongPositionPends, TableFits
  <2>. QED BY <2>3, <2>4
<1>10. CASE SystemByte(c)
  <2>1. /\ status' = runningStatus /\ runningStatus' = 0
        /\ UNCHANGED <<sysExState, d1, d2, flags>>
    BY <1>10 DEF SystemByte
  <2>2. FlagsOK'
    BY Zenon, <1>1, <1>10 DEF SystemByte, FlagsOK
  <2>3. NotHalfRead'
    BY Zenon, <1>10, <2>1 DEF SystemByte, NotHalfRead, SongPositionPends
  <2>4. FieldsOK' /\ SongPositionPends' /\ TableFits'
    BY <1>1, <2>1 DEF FieldsOK, SongPositionPends, TableFits
  <2>. QED BY <2>2, <2>3, <2>4
<1>11. CASE StrayByte(c)
  <2>1. FlagsOK' /\ NotHalfRead'
    BY Zenon, <1>1, <1>11 DEF StrayByte, FlagsOK, NotHalfRead
  <2>2. /\ runningStatus = 0
        /\ UNCHANGED <<sysExState, runningStatus, status, d1, d2, flags>>
    BY <1>11 DEF StrayByte
  <2>. QED BY <1>1, <2>1, <2>2 DEF FieldsOK, SongPositionPends, TableFits
<1>. QED BY <1>4, <1>5, <1>6, <1>7, <1>8, <1>9, <1>10, <1>11 DEF EAS_ParseMIDIStream

LEMMA StepInv == IInv /\ [Next]_vars => IInv'
<1>. SUFFICES ASSUME IInv, [Next]_vars PROVE IInv'
  OBVIOUS
<1>1. CASE Push
  <2>1. PICK c \in Bytes : EAS_ParseMIDIStream(c) /\ UNCHANGED parserMode
    BY <1>1 DEF Push
  <2>2. c \in 0 .. 255
    BY MidiAssumption
  <2>. QED BY <2>1, <2>2, ByteInv
<1>2. CASE EAS_InitMIDIStream
  <2>1. FlagsOK' /\ NotHalfRead'
    BY Zenon, <1>2 DEF EAS_InitMIDIStream, FlagsOK, NotHalfRead
  <2>2. runningStatus' = 0 /\ status' = 0 /\ UNCHANGED <<sysExState, d1, d2, flags>>
    BY <1>2 DEF EAS_InitMIDIStream
  <2>3. FieldsOK' /\ SongPositionPends' /\ TableFits'
    BY <2>2, TypeParts DEF IInv, FieldsOK, SongPositionPends, TableFits
  <2>4. TypeOK' <=> FlagsOK' /\ FieldsOK'
    BY Zenon DEF TypeOK, FlagsOK, FieldsOK
  <2>. QED BY Zenon, <2>1, <2>3, <2>4 DEF IInv
<1>3. CASE UNCHANGED vars
  BY <1>3 DEF vars, decoder, IInv, TypeOK, NotHalfRead, SongPositionPends, TableFits, Performs
<1>. QED BY <1>1, <1>2, <1>3 DEF Next

LEMMA AlwaysIInv == Spec => []IInv
BY InitInv, StepInv, PTL DEF Spec

\* The decoder never holds a value its C types do not have, over all bytes: the
\* count of SP-MIDI entries, which shares a field with data bytes, included.
THEOREM TypeCorrect == Spec => []TypeOK
<1>1. IInv => TypeOK
  BY DEF IInv
<1>. QED BY AlwaysIInv, <1>1, PTL

\* The parser of a file never goes on to the next delta time while the decoder
\* waits for the second data byte of a message, cut messages or not.
THEOREM NeverHalfRead == Spec => []NotHalfRead
<1>1. IInv => NotHalfRead
  BY DEF IInv
<1>. QED BY AlwaysIInv, <1>1, PTL
-----------------------------------------------------------------------------
(* The decoder reads the wire (DecodesWire), if no message is cut.         *)

\* The system exclusive message so far, by the state it has led to.
SysExMeans ==
    /\ sysExState = "SysEx" => since = <<>>
    /\ sysExState = "UnivNonRealTime" => since = <<126>>
    /\ sysExState = "UnivNrtTargetID" => since = <<126, 127>>
    /\ sysExState = "GMControl" => since = <<126, 127, 9>>
    /\ sysExState = "UnivRealTime" => since = <<127>>
    /\ sysExState = "UnivRtTargetID" => since = <<127, 127>>
    /\ sysExState = "DeviceControl" => since = <<127, 127, 4>>
    /\ sysExState = "MasterVolume" => since = <<127, 127, 4, 1>>
    /\ sysExState = "MasterVolLSB" => since = <<127, 127, 4, 1, d1>>
    /\ sysExState = "SPMIDI" => since = <<127, 127, 11>>
    /\ sysExState = "SPMIDIchan" => Wire!IsMip(since) /\ Len(since) = 4 + 2 * d1
    /\ sysExState = "SPMIDIMIP" =>
          Wire!IsMip(since) /\ Len(since) = 5 + 2 * d1 /\ since[Len(since)] = d2
    /\ sysExState \in {"MfgID1", "EOX", "Ignore"} => since = Wire!Unknown

\* Between the two data bytes of a message, and elsewhere.
HalfMeans ==
    /\ Wire!DataBytes(last) = 2 /\ status = last /\ Len(since) = 1
    /\ last < 240 => runningStatus = last /\ since[1] = d1
    /\ last = 242 => runningStatus = 0
WholeMeans ==
    /\ runningStatus = 0 => last \in {0} \union 244 .. 247
    /\ runningStatus # 0 => last = runningStatus
    /\ last # 240 => since = <<>>

\* A table of MIPs is open in the decoder only within its message, so that no
\* later end byte finds it.
TableCloses ==
    sysExState \in {"SPMIDIchan", "SPMIDIMIP"} => runningStatus = 240 /\ Performs

WireInv ==
    /\ last \in {0} \union 128 .. 247 /\ since \in Seq(Int)
    /\ IF byte3 THEN HalfMeans ELSE WholeMeans
    /\ runningStatus = 240 /\ Performs => SysExMeans
    /\ TableCloses

LEMMA DataBytesOf ==
    ASSUME NEW s \in Int
    PROVE  /\ s \in (128 .. 191) \union (224 .. 239) \union {242} => Wire!DataBytes(s) = 2
           /\ s \in (192 .. 223) \union {241, 243} => Wire!DataBytes(s) = 1
           /\ s \in {0, 240} \union 244 .. 247 => Wire!DataBytes(s) = 0
           /\ Wire!DataBytes(s) = 2 => s \in (128 .. 191) \union (224 .. 239) \union {242}
           /\ Wire!DataBytes(s) = 1 => s \in (192 .. 223) \union {241, 243}
BY DEF Wire!DataBytes

\* A system exclusive message is under way in the decoder when it is on the wire.
LEMMA SysExIsUnderWay ==
    ASSUME IInv, WireInv
    PROVE  /\ runningStatus = 240 => last = 240 /\ ~byte3
           /\ last = 240 => runningStatus = 240 /\ ~byte3
<1>1. CASE byte3
  <2>1. /\ Wire!DataBytes(last) = 2
        /\ last < 240 => runningStatus = last
        /\ last = 242 => runningStatus = 0
        /\ last \in {0} \union 128 .. 247
    BY <1>1 DEF WireInv, HalfMeans
  <2>2. last \in (128 .. 191) \union (224 .. 239) \union {242}
    BY <2>1, DataBytesOf
  <2>. QED BY <2>1, <2>2
<1>2. CASE ~byte3
  <2>1. WholeMeans
    BY <1>2 DEF WireInv
  <2>. QED BY <1>2, <2>1 DEF WholeMeans
<1>. QED BY <1>1, <1>2

\* The decoder is within a table of MIPs when the wire is, and at the start of a
\* pair in SPMIDIchan.
LEMMA TableIsOpen ==
    ASSUME IInv, WireInv
    PROVE  /\ sysExState = "SPMIDIchan"
              => Wire!TableOpen /\ ~Wire!InPair(since) /\ Performs
           /\ sysExState = "SPMIDIMIP" => Wire!TableOpen /\ Performs
           /\ Wire!TableOpen /\ ~Wire!InPair(since) /\ Performs => sysExState = "SPMIDIchan"
<1>0. d1 \in 0 .. 127 /\ since \in Seq(Int)
  BY DEF IInv, TypeOK, WireInv
<1>1. CASE sysExState \in {"SPMIDIchan", "SPMIDIMIP"}
  <2>1. runningStatus = 240 /\ Performs /\ last = 240 /\ SysExMeans
    BY Zenon, <1>1, SysExIsUnderWay DEF WireInv, TableCloses
  <2>2. Wire!IsMip(since) /\ Len(since) >= 4
    <3>1. /\ sysExState = "SPMIDIchan" => Wire!IsMip(since)
          /\ sysExState = "SPMIDIMIP" => Wire!IsMip(since)
      BY Zenon, <2>1 DEF SysExMeans
    <3>2. Wire!IsMip(since)
      BY Zenon, <1>1, <3>1
    <3>. QED BY <3>2 DEF Wire!IsMip, Wire!Starts, Wire!MipHead
  <2>3. since # Wire!Unknown
    BY <2>2 DEF Wire!Unknown
  <2>4. Wire!TableOpen
    BY <2>1, <2>2, <2>3 DEF Wire!TableOpen, Wire!SYSEX
  <2>5. CASE sysExState = "SPMIDIchan"
    <3>1. Len(since) = 4 + 2 * d1
      BY <2>1, <2>5 DEF SysExMeans
    <3>2. ~Wire!InPair(since)
      BY <1>0, <3>1 DEF Wire!InPair
    <3>. QED BY <2>1, <2>4, <2>5, <3>2
  <2>6. CASE sysExState = "SPMIDIMIP"
    <3>1. Len(since) = 5 + 2 * d1
      BY <2>1, <2>6 DEF SysExMeans
    <3>2. Wire!InPair(since)
      BY <1>0, <3>1 DEF Wire!InPair
    <3>. QED BY <2>1, <2>4, <2>6, <3>2
  <2>. QED BY <1>1, <2>5, <2>6
<1>2. CASE sysExState \notin {"SPMIDIchan", "SPMIDIMIP"}
  <2>1. SUFFICES ASSUME Wire!TableOpen, Performs PROVE FALSE
    BY <1>2
  <2>2. last = 240 /\ since # Wire!Unknown /\ Wire!IsMip(since)
    BY <2>1 DEF Wire!TableOpen, Wire!SYSEX
  <2>3. SysExMeans
    BY Zenon, <2>1, <2>2, SysExIsUnderWay DEF WireInv
  <2>4. Len(since) >= 4 /\ since[3] = 11
    BY <2>2 DEF Wire!IsMip, Wire!Starts, Wire!MipHead
  <2>5. sysExState \in SysExStates
    BY DEF IInv, TypeOK
  <2>6. CASE sysExState \in {"SysEx", "UnivNonRealTime", "UnivNrtTargetID", "GMControl"}
    BY <2>3, <2>4, <2>6 DEF SysExMeans
  <2>7. CASE sysExState \in {"UnivRealTime", "UnivRtTargetID", "DeviceControl", "SPMIDI"}
    <3>1. Len(since) < 4
      BY <2>3, <2>7 DEF SysExMeans
    <3>. QED BY <2>4, <3>1
  <2>8. CASE sysExState = "MasterVolume"
    BY <2>3, <2>4, <2>8 DEF SysExMeans
  <2>9. CASE sysExState = "MasterVolLSB"
    BY <2>3, <2>4, <2>9 DEF SysExMeans
  <2>10. CASE sysExState \in {"MfgID1", "EOX", "Ignore"}
    BY <2>2, <2>3, <2>10 DEF SysExMeans
  <2>. QED BY <1>2, <2>5, <2>6, <2>7, <2>8, <2>9, <2>10 DEF SysExStates
<1>. QED BY <1>1, <1>2

\* What a whole channel message calls is what it means; only its first data byte
\* is used by messages of one.
LEMMA MessageMeans ==
    ASSUME NEW s \in 128 .. 239, status' = s, parserMode \in Wire!Modes,
           NEW a \in 0 .. 127, NEW b \in 0 .. 127, NEW x \in Int, s \in 192 .. 223 \/ x = b
    PROVE  (IF Performs THEN MessageCall(a, b) ELSE <<>>) = Wire!InMode(Wire!ChannelCall(s, a, x))
<1>. DEFINE k == s \div 16  h == s % 16
<1>1. k \in 8 .. 14 /\ s - h = 16 * k /\ h \in 0 .. 15 /\ (k \in {12, 13} \/ x = b)
  OBVIOUS
<1>2. Wire!Command(s) = 16 * k /\ Wire!Channel(s) = h
  BY <1>1 DEF Wire!Command, Wire!Channel
<1>3. status' \div 16 = k /\ status' % 16 = h
  OBVIOUS
<1>. HIDE DEF k, h
<1>4. CASE k = 8
  <2>1. Wire!ChannelCall(s, a, x) = <<"VMStopNote", h, a, b>>
    BY <1>1, <1>2, <1>4 DEF Wire!ChannelCall
  <2>2. MessageCall(a, b) = IF Performs THEN << <<"VMStopNote", h, a, b>> >> ELSE <<>>
    <3>1. CASE Performs
      BY <1>3, <1>4, <3>1 DEF MessageCall
    <3>2. CASE ~Performs
      BY <1>3, <1>4, <3>2 DEF MessageCall
    <3>. QED BY <3>1, <3>2
  <2>. QED BY <2>1, <2>2 DEF Wire!InMode, Performs
<1>5. CASE k = 9 /\ b = 0
  <2>1. Wire!ChannelCall(s, a, x) = <<"VMStopNote", h, a, b>>
    BY <1>1, <1>2, <1>5 DEF Wire!ChannelCall
  <2>2. MessageCall(a, b) = IF Performs THEN << <<"VMStopNote", h, a, b>> >> ELSE <<>>
    BY <1>3, <1>5 DEF MessageCall
  <2>. QED BY <2>1, <2>2 DEF Wire!InMode, Performs
<1>6. CASE k = 9 /\ b # 0
  <2>1. Wire!ChannelCall(s, a, x) = <<"VMStartNote", h, a, b>>
    BY <1>1, <1>2, <1>6 DEF Wire!ChannelCall
  <2>2. MessageCall(a, b) = IF Sounds THEN << <<"VMStartNote", h, a, b>> >> ELSE <<>>
    <3>1. CASE Sounds
      BY <1>3, <1>6, <3>1 DEF MessageCall
    <3>2. CASE ~Sounds
      BY <1>3, <1>6, <3>2 DEF MessageCall
    <3>. QED BY <3>1, <3>2
  <2>. QED BY <2>1, <2>2 DEF Wire!InMode, Performs, Sounds
<1>7. CASE k = 10
  <2>1. Wire!ChannelCall(s, a, x) = <<>> /\ MessageCall(a, b) = <<>>
    BY <1>1, <1>2, <1>3, <1>7 DEF Wire!ChannelCall, MessageCall
  <2>. QED BY <2>1 DEF Wire!InMode
<1>8. CASE k = 11
  <2>1. Wire!ChannelCall(s, a, x) = <<"VMControlChange", h, a, b>>
    BY <1>1, <1>2, <1>8 DEF Wire!ChannelCall
  <2>2. MessageCall(a, b) = IF Performs THEN << <<"VMControlChange", h, a, b>> >> ELSE <<>>
    BY <1>3, <1>8 DEF MessageCall
  <2>. QED BY <2>1, <2>2 DEF Wire!InMode, Performs
<1>9. CASE k = 12
  <2>1. Wire!ChannelCall(s, a, x) = <<"VMProgramChange", h, a>>
    BY <1>1, <1>2, <1>9 DEF Wire!ChannelCall
  <2>2. MessageCall(a, b) = IF Performs THEN << <<"VMProgramChange", h, a>> >> ELSE <<>>
    BY <1>3, <1>9 DEF MessageCall
  <2>. QED BY <2>1, <2>2 DEF Wire!InMode, Performs
<1>10. CASE k = 13
  <2>1. Wire!ChannelCall(s, a, x) = <<"VMChannelPressure", h, a>>
    BY <1>1, <1>2, <1>10 DEF Wire!ChannelCall
  <2>2. MessageCall(a, b) = IF Performs THEN << <<"VMChannelPressure", h, a>> >> ELSE <<>>
    BY <1>3, <1>10 DEF MessageCall
  <2>. QED BY <2>1, <2>2 DEF Wire!InMode, Performs
<1>11. CASE k = 14
  <2>1. Wire!ChannelCall(s, a, x) = <<"VMPitchBend", h, a, b>>
    BY <1>1, <1>2, <1>11 DEF Wire!ChannelCall
  <2>2. MessageCall(a, b) = IF Performs THEN << <<"VMPitchBend", h, a, b>> >> ELSE <<>>
    BY <1>3, <1>11 DEF MessageCall
  <2>. QED BY <2>1, <2>2 DEF Wire!InMode, Performs
<1>. QED BY <1>1, <1>4, <1>5, <1>6, <1>7, <1>8, <1>9, <1>10, <1>11

LEMMA WireInit == Init => WireInv /\ Wire!Init
<1>. SUFFICES ASSUME Init PROVE WireInv /\ Wire!Init
  OBVIOUS
<1>1. /\ byte3 = FALSE /\ runningStatus = 0 /\ sysExState = "SysEx"
      /\ last = 0 /\ since = <<>>
  BY Zenon DEF Init
<1>2. WholeMeans /\ TableCloses /\ ~(runningStatus = 240)
  BY <1>1 DEF WholeMeans, TableCloses
<1>3. last \in {0} \union 128 .. 247 /\ since \in Seq(Int)
  BY <1>1
<1>4. WireInv
  BY Zenon, <1>1, <1>2, <1>3 DEF WireInv
<1>5. Wire!Init
  BY Zenon DEF Init, Wire!Init
<1>. QED BY <1>4, <1>5

\* A status byte.
LEMMA StatusReads ==
    ASSUME IInv, WireInv, ~CutMessages, NEW c \in 0 .. 255,
           StatusByte(c), WellFormed(c), History(c), UNCHANGED parserMode
    PROVE  WireInv' /\ Wire!Status(c)
<1>1. /\ c \in 128 .. 247 /\ runningStatus' = c /\ byte3' = FALSE
      /\ last' = c /\ since' = <<>>
  <2>1. c \in 128 .. 247 /\ runningStatus' = c /\ byte3' = FALSE
    BY Zenon DEF StatusByte
  <2>2. ~(c >= 248) /\ c >= 128
    BY <2>1
  <2>. QED BY Zenon, <2>1, <2>2 DEF History
<1>2. pending => c < 240
  BY Zenon, <1>1 DEF WellFormed
<1>3. pending' = (Wire!DataBytes(c) > 0)
  <2>1. pending' = IF c \in {240, 247} \union 244 .. 246 THEN pending ELSE TRUE
    BY DEF StatusByte
  <2>2. CASE c \in {240, 247} \union 244 .. 246
    <3>1. ~(c < 240) /\ Wire!DataBytes(c) = 0
      BY <1>1, <2>2, DataBytesOf
    <3>2. (Wire!DataBytes(c) > 0) = FALSE
      BY <3>1
    <3>3. pending \in BOOLEAN
      BY Zenon DEF IInv, TypeOK
    <3>. QED BY Zenon, <1>2, <2>1, <2>2, <3>1, <3>2, <3>3
  <2>3. CASE c \notin {240, 247} \union 244 .. 246
    <3>1. Wire!DataBytes(c) > 0
      <4>1. \/ c \in (128 .. 191) \union (224 .. 239) \union {242}
            \/ c \in (192 .. 223) \union {241, 243}
        BY <1>1, <2>3
      <4>. QED BY <1>1, <4>1, DataBytesOf
    <3>2. (Wire!DataBytes(c) > 0) = TRUE
      BY <3>1
    <3>. QED BY Zenon, <2>1, <2>3, <3>2
  <2>. QED BY <2>2, <2>3
<1>4. calls' = IF c = Wire!EOX /\ Wire!TableOpen /\ ~Wire!InPair(since) /\ parserMode # "metadata"
               THEN << <<"VMUpdateMIPTable">> >> ELSE <<>>
  <2>1. CASE c = 247 /\ Performs
    <3>1. SysExEnd
      BY <2>1 DEF StatusByte
    <3>. QED BY <2>1, <3>1, TableIsOpen DEF SysExEnd, Wire!EOX, Performs
  <2>2. CASE c = 240 /\ Performs
    BY <2>2 DEF StatusByte, SysExStart, Wire!EOX
  <2>3. CASE ~(c \in {240, 247} /\ Performs)
    BY <2>3 DEF StatusByte, NoSysEx, Wire!EOX, Performs
  <2>. QED BY <2>1, <2>2, <2>3
<1>5. TableCloses'
  <2>1. CASE c = 240 /\ Performs
    BY <2>1 DEF StatusByte, SysExStart, TableCloses
  <2>2. CASE c = 247 /\ Performs
    BY <2>2 DEF StatusByte, SysExEnd, TableCloses
  <2>3. CASE ~(c \in {240, 247} /\ Performs)
    <3>1. sysExState' = sysExState
      BY <2>3 DEF StatusByte, NoSysEx
    <3>2. sysExState \notin {"SPMIDIchan", "SPMIDIMIP"}
      BY <1>1, <2>3, TableIsOpen DEF WellFormed
    <3>. QED BY <3>1, <3>2 DEF TableCloses
  <2>. QED BY <2>1, <2>2, <2>3
<1>6. (runningStatus = 240 /\ Performs => SysExMeans)'
  <2>1. Performs' = Performs
    BY DEF Performs
  <2>2. CASE c = 240 /\ Performs
    <3>1. sysExState' = "SysEx"
      BY <2>2 DEF StatusByte, SysExStart
    <3>. QED BY <1>1, <3>1 DEF SysExMeans
  <2>. QED BY <1>1, <2>1, <2>2
<1>7. WholeMeans'
  BY <1>1 DEF WholeMeans
<1>8. last' \in {0} \union 128 .. 247 /\ since' \in Seq(Int)
  BY <1>1
<1>9. WireInv'
  BY Zenon, <1>1, <1>5, <1>6, <1>7, <1>8 DEF WireInv
<1>10. Wire!IsStatus(c) /\ ~Wire!IsRealTime(c)
  BY <1>1 DEF Wire!IsStatus, Wire!IsRealTime
<1>. QED BY Zenon, <1>1, <1>3, <1>4, <1>9, <1>10 DEF Wire!Status

\* A real-time byte.
LEMMA RealTimeReads ==
    ASSUME WireInv, NEW c \in 0 .. 255,
           RealTimeByte(c), History(c), UNCHANGED parserMode
    PROVE  WireInv' /\ Wire!RealTime(c)
<1>1. UNCHANGED <<decoder, parserMode, last, since>> /\ calls' = <<>> /\ c >= 248
  BY DEF RealTimeByte, History
<1>2. WireInv'
  <2>1. /\ byte3' = byte3 /\ sysExState' = sysExState /\ runningStatus' = runningStatus
        /\ status' = status /\ d1' = d1 /\ d2' = d2 /\ since' = since
    BY Zenon, <1>1 DEF decoder
  <2>2. (HalfMeans' <=> HalfMeans) /\ (WholeMeans' <=> WholeMeans)
    BY <1>1, <2>1 DEF HalfMeans, WholeMeans
  <2>3. (TableCloses' <=> TableCloses) /\ (Performs' <=> Performs)
    BY Zenon, <1>1, <2>1 DEF TableCloses, Performs
  <2>4. SysExMeans => SysExMeans'
    BY <2>1 DEF SysExMeans
  <2>. QED BY Zenon, <1>1, <2>1, <2>2, <2>3, <2>4 DEF WireInv
<1>. QED BY Zenon, <1>1, <1>2 DEF Wire!RealTime, Wire!IsRealTime, decoder

\* What a data byte adds to the message under way, system exclusive ones excepted.
LEMMA DataHistory ==
    ASSUME NEW c \in 0 .. 127, History(c), last \in {0} \union 128 .. 247, last # 240,
           since \in Seq(Int)
    PROVE  /\ last \in {0} \union 244 .. 247 => since' = <<>> /\ last' = last
           /\ last \in 128 .. 243 /\ Len(since) + 1 < Wire!DataBytes(last)
              => since' = Append(since, c) /\ last' = last
           /\ last \in 128 .. 243 /\ Len(since) + 1 = Wire!DataBytes(last)
              => /\ since' = <<>>
                 /\ last > 240 => last' = 0
                 /\ ~(last > 240) => last' = last
<1>. DEFINE m == Append(since, c)
<1>1. Len(m) = Len(since) + 1 /\ Len(since) \in Nat
  OBVIOUS
<1>2. CASE last \in {0} \union 244 .. 247
  <2>1. Wire!DataBytes(last) = 0
    BY <1>2, DataBytesOf
  <2>. QED BY <1>1, <1>2, <2>1 DEF History
<1>3. CASE last \in 128 .. 243
  <2>1. Wire!DataBytes(last) \in 0 .. 2
    BY DEF Wire!DataBytes
  <2>. HIDE DEF m
  <2>2. since' = IF Len(m) < Wire!DataBytes(last) THEN m ELSE <<>>
    BY <1>3 DEF History, m
  <2>3. last' = IF last > 240 /\ Len(m) = Wire!DataBytes(last) THEN 0 ELSE last
    BY <1>3 DEF History, m
  <2>. QED BY <1>1, <1>3, <2>1, <2>2, <2>3 DEF m
<1>. QED BY <1>2, <1>3

\* Outside system exclusive messages their state does not matter.
LEMMA OutsideSysEx ==
    ASSUME WireInv, runningStatus # 240, sysExState' = sysExState, runningStatus' # 240
    PROVE  TableCloses' /\ (runningStatus = 240 /\ Performs => SysExMeans)'
BY DEF WireInv, TableCloses

\* The first byte of two.
LEMMA FirstReads ==
    ASSUME IInv, WireInv, NEW c \in 0 .. 255,
           FirstOfTwo(c), History(c), UNCHANGED parserMode
    PROVE  WireInv' /\ Wire!MessageData(c)
<1>1. /\ c \in 0 .. 127 /\ byte3' = TRUE /\ pending' = TRUE /\ status' = runningStatus
      /\ d1' = c /\ calls' = <<>> /\ sysExState' = sysExState
      /\ runningStatus' = runningStatus
  BY DEF FirstOfTwo
<1>2. ~byte3 /\ runningStatus \in (128 .. 191) \union (224 .. 239)
  BY Zenon DEF FirstOfTwo
<1>3. WholeMeans
  BY Zenon, <1>2 DEF WireInv
<1>4. last = runningStatus /\ since = <<>>
  BY <1>2, <1>3 DEF WholeMeans
<1>5. Wire!DataBytes(last) = 2 /\ last \in 128 .. 243 /\ last # 240
  BY <1>2, <1>4, DataBytesOf
<1>6. since \in Seq(Int) /\ Len(since) = 0 /\ Append(since, c) = <<c>>
  BY <1>4
<1>7. since' = Append(since, c) /\ last' = last
  <2>1. last \in {0} \union 128 .. 247 /\ Len(since) + 1 < Wire!DataBytes(last)
    BY <1>5, <1>6
  <2>. QED BY Zenon, <1>1, <1>5, <1>6, <2>1, DataHistory
<1>8. WireInv'
  <2>1. HalfMeans'
    BY <1>1, <1>2, <1>4, <1>5, <1>6, <1>7 DEF HalfMeans
  <2>2. last' \in {0} \union 128 .. 247 /\ since' \in Seq(Int)
    BY <1>1, <1>5, <1>6, <1>7
  <2>3. runningStatus # 240
    BY <1>2
  <2>4. TableCloses' /\ (runningStatus = 240 /\ Performs => SysExMeans)'
    BY <1>1, <2>3, OutsideSysEx
  <2>. QED BY Zenon, <1>1, <2>1, <2>2, <2>4 DEF WireInv
<1>9. Len(Append(since, c)) < Wire!DataBytes(last) /\ Wire!DataBytes(last) > 0
  BY <1>5, <1>6
<1>10. ~Wire!IsStatus(c)
  BY <1>1 DEF Wire!IsStatus
<1>. QED BY Zenon, <1>1, <1>7, <1>8, <1>9, <1>10 DEF Wire!MessageData

\* The only data byte of a message.
LEMMA OnlyReads ==
    ASSUME IInv, WireInv, NEW c \in 0 .. 255, parserMode \in Wire!Modes,
           OnlyData(c), History(c), UNCHANGED parserMode
    PROVE  WireInv' /\ Wire!MessageData(c)
<1>1. /\ c \in 0 .. 127 /\ status' = runningStatus /\ d1' = c /\ d2' = d2
      /\ sysExState' = sysExState /\ runningStatus' = runningStatus
  BY DEF OnlyData
<1>2. ~byte3 /\ runningStatus \in 192 .. 223 /\ byte3' = byte3 /\ pending' = FALSE
  BY Zenon DEF OnlyData
<1>3. WholeMeans
  BY Zenon, <1>2 DEF WireInv
<1>4. last = runningStatus /\ since = <<>>
  BY <1>2, <1>3 DEF WholeMeans
<1>5. Wire!DataBytes(last) = 1 /\ last \in 128 .. 243 /\ ~(last >= 240)
  BY <1>2, <1>4, DataBytesOf
<1>6. since \in Seq(Int) /\ Len(since) = 0 /\ Append(since, c)[1] = c /\ Len(Append(since, c)) = 1
  BY <1>4
<1>7. since' = <<>> /\ last' = last
  <2>1. /\ last \in {0} \union 128 .. 247 /\ last # 240 /\ ~(last > 240)
        /\ Len(since) + 1 = Wire!DataBytes(last)
    BY <1>5, <1>6
  <2>. QED BY Zenon, <1>1, <1>5, <1>6, <2>1, DataHistory
<1>8. WireInv'
  <2>1. WholeMeans'
    BY <1>1, <1>2, <1>4, <1>7 DEF WholeMeans
  <2>2. last' \in {0} \union 128 .. 247 /\ since' \in Seq(Int)
    BY <1>5, <1>7
  <2>3. runningStatus # 240
    BY <1>2
  <2>4. TableCloses' /\ (runningStatus = 240 /\ Performs => SysExMeans)'
    BY <1>1, <2>3, OutsideSysEx
  <2>. QED BY Zenon, <1>2, <2>1, <2>2, <2>4 DEF WireInv
<1>9. ~(Len(Append(since, c)) < Wire!DataBytes(last)) /\ Wire!DataBytes(last) > 0
  BY <1>5, <1>6
<1>10. ~Wire!IsStatus(c)
  BY <1>1 DEF Wire!IsStatus
<1>11. calls' = Wire!InMode(Wire!ChannelCall(last, Append(since, c)[1], c))
  <2>1. calls' = IF Performs THEN MessageCall(d1', d2') ELSE <<>>
    BY Zenon DEF OnlyData, ProcessMIDIMessage
  <2>2. d2 \in 0 .. 127 /\ last \in 128 .. 239 /\ status' = last /\ last \in 192 .. 223
    BY <1>1, <1>2, <1>4 DEF IInv, TypeOK
  <2>3. (IF Performs THEN MessageCall(c, d2) ELSE <<>>) = Wire!InMode(Wire!ChannelCall(last, c, c))
    <3>1. c \in Int
      BY <1>1
    <3>. QED BY Zenon, <1>1, <2>2, <3>1, MessageMeans
  <2>. QED BY Zenon, <1>1, <1>6, <2>1, <2>3
<1>12. ~(last >= Wire!SYSEX)
  BY <1>5 DEF Wire!SYSEX
<1>. QED BY Zenon, <1>1, <1>2, <1>7, <1>8, <1>9, <1>10, <1>11, <1>12 DEF Wire!MessageData

LEMMA AppendToOne ==
    ASSUME NEW s \in Seq(Int), NEW c \in Int, Len(s) = 1
    PROVE  Append(s, c)[1] = s[1]
OBVIOUS

LEMMA TwoByteMessageMeans ==
    ASSUME NEW s \in 128 .. 239, status' = s, parserMode \in Wire!Modes,
           NEW a \in 0 .. 127, NEW b \in 0 .. 127
    PROVE  (IF Performs THEN MessageCall(a, b) ELSE <<>>) = Wire!InMode(Wire!ChannelCall(s, a, b))
<1>1. b \in Int /\ (s \in 192 .. 223 \/ b = b)
  OBVIOUS
<1>. QED BY Zenon, <1>1, MessageMeans

\* The second byte of two, of a song position too.
LEMMA ThirdReads ==
    ASSUME IInv, WireInv, NEW c \in 0 .. 255, parserMode \in Wire!Modes,
           ThirdByte(c), History(c), UNCHANGED parserMode
    PROVE  WireInv' /\ Wire!MessageData(c)
<1>1. /\ c \in 0 .. 127 /\ status' = status /\ d1' = d1 /\ d2' = c
      /\ sysExState' = sysExState /\ runningStatus' = runningStatus
  BY DEF ThirdByte
<1>2. byte3 /\ byte3' = FALSE /\ pending' = FALSE
  BY Zenon DEF ThirdByte
<1>3. HalfMeans
  BY Zenon, <1>2 DEF WireInv
<1>4. /\ Wire!DataBytes(last) = 2 /\ status = last /\ Len(since) = 1
      /\ last < 240 => runningStatus = last /\ since[1] = d1
      /\ last = 242 => runningStatus = 0
      /\ since \in Seq(Int)
  BY <1>3 DEF HalfMeans, WireInv
<1>5. last \in (128 .. 191) \union (224 .. 239) \union {242}
  <2>1. last \in Int
    BY DEF WireInv
  <2>. QED BY <1>4, <2>1, DataBytesOf
<1>6. /\ last \in {0} \union 128 .. 247 /\ last # 240 /\ last \in 128 .. 243
      /\ Len(since) + 1 = Wire!DataBytes(last)
  BY <1>4, <1>5
<1>7. /\ since' = <<>>
      /\ last > 240 => last' = 0
      /\ ~(last > 240) => last' = last
  BY Zenon, <1>1, <1>4, <1>6, DataHistory
<1>8. WireInv'
  <2>1. WholeMeans'
    BY <1>1, <1>4, <1>5, <1>7 DEF WholeMeans
  <2>2. last' \in {0} \union 128 .. 247 /\ since' \in Seq(Int)
    <3>1. last' = 0 \/ last' = last
      BY Zenon, <1>7
    <3>2. last' \in {0} \union 128 .. 247
      BY <1>6, <3>1
    <3>3. since' \in Seq(Int)
      BY <1>7
    <3>. QED BY <3>2, <3>3
  <2>3. runningStatus # 240
    BY <1>4, <1>5
  <2>4. TableCloses' /\ (runningStatus = 240 /\ Performs => SysExMeans)'
    BY <1>1, <2>3, OutsideSysEx
  <2>. QED BY Zenon, <1>2, <2>1, <2>2, <2>4 DEF WireInv
<1>13. c \in Int /\ since \in Seq(Int)
  BY <1>1, <1>4
<1>15. Len(since) = 1
  BY <1>4
<1>9. ~(Len(Append(since, c)) < Wire!DataBytes(last)) /\ Wire!DataBytes(last) > 0
  <2>1. Len(Append(since, c)) = Len(since) + 1
    BY <1>13
  <2>. QED BY <1>4, <2>1
<1>10. ~Wire!IsStatus(c)
  BY <1>1 DEF Wire!IsStatus
<1>11. calls' = Wire!InMode(Wire!ChannelCall(last, Append(since, c)[1], c))
  <2>1. calls' = IF Performs THEN MessageCall(d1', d2') ELSE <<>>
    BY Zenon DEF ThirdByte, ProcessMIDIMessage
  <2>2. Append(since, c)[1] = since[1]
    BY <1>13, <1>15, AppendToOne
  <2>3. CASE last < 240
    <3>1. last \in 128 .. 239 /\ d1 \in 0 .. 127 /\ status' = last /\ since[1] = d1
      BY <1>1, <1>4, <1>5, <2>3 DEF IInv, TypeOK
    <3>2. (IF Performs THEN MessageCall(d1, c) ELSE <<>>) = Wire!InMode(Wire!ChannelCall(last, d1, c))
      BY <1>1, <3>1, TwoByteMessageMeans
    <3>. QED BY Zenon, <1>1, <2>1, <2>2, <3>1, <3>2
  <2>4. CASE last = 242
    <3>1. status' \div 16 = 15 /\ Wire!Command(last) = 240
      BY <1>1, <1>4, <2>4 DEF Wire!Command, Wire!Channel
    <3>2. MessageCall(d1', d2') = <<>>
      BY <3>1 DEF MessageCall
    <3>3. Wire!ChannelCall(last, Append(since, c)[1], c) = <<>>
      BY <3>1 DEF Wire!ChannelCall
    <3>. QED BY <2>1, <3>2, <3>3 DEF Wire!InMode
  <2>. QED BY <1>5, <2>3, <2>4
<1>12. last' = IF last >= Wire!SYSEX THEN 0 ELSE last
  BY <1>5, <1>7 DEF Wire!SYSEX
<1>. QED BY Zenon, <1>1, <1>2, <1>7, <1>8, <1>9, <1>10, <1>11, <1>12 DEF Wire!MessageData

\* The data byte after another system message: the first of a song position, the
\* only one of two messages, a stray one after the others.
LEMMA SystemReads ==
    ASSUME IInv, WireInv, NEW c \in 0 .. 255,
           SystemByte(c), History(c), UNCHANGED parserMode
    PROVE  WireInv' /\ (Wire!MessageData(c) \/ Wire!StrayData(c))
<1>1. /\ c \in 0 .. 127 /\ runningStatus \in 241 .. 247
      /\ status' = runningStatus /\ runningStatus' = 0
      /\ calls' = <<>> /\ sysExState' = sysExState
  BY DEF SystemByte
<1>2. ~byte3
  BY Zenon DEF SystemByte
<1>3. WholeMeans
  BY Zenon, <1>2 DEF WireInv
<1>4. last = runningStatus /\ since = <<>>
  BY <1>1, <1>3 DEF WholeMeans
<1>5. /\ since \in Seq(Int) /\ Len(since) = 0 /\ Append(since, c) = <<c>>
      /\ Len(Append(since, c)) = 1
  BY <1>4
<1>6. /\ last \in {0} \union 128 .. 247 /\ last # 240 /\ last # 0
      /\ last > 240 /\ last >= Wire!SYSEX /\ last # Wire!SYSEX
  BY <1>1, <1>4 DEF Wire!SYSEX
<1>7. ~Wire!IsStatus(c)
  BY <1>1 DEF Wire!IsStatus
<1>8. TableCloses' /\ (runningStatus = 240 /\ Performs => SysExMeans)'
  BY <1>1, OutsideSysEx
<1>9. CASE last = 242
  <2>1. Wire!DataBytes(last) = 2 /\ last \in 128 .. 243 /\ Len(since) + 1 < Wire!DataBytes(last)
    BY <1>5, <1>9, DataBytesOf
  <2>2. since' = Append(since, c) /\ last' = last
    BY Zenon, <1>1, <1>5, <1>6, <2>1, DataHistory
  <2>3. byte3' = TRUE /\ pending' = TRUE
    <3>1. byte3' = TRUE /\ UNCHANGED pending
      BY Zenon, <1>1, <1>4, <1>9 DEF SystemByte
    <3>2. pending \in BOOLEAN /\ pending
      BY Zenon, <1>4, <1>9 DEF IInv, TypeOK, SongPositionPends
    <3>. QED BY Zenon, <3>1, <3>2
  <2>4. HalfMeans'
    BY <1>1, <1>4, <1>5, <1>9, <2>1, <2>2 DEF HalfMeans
  <2>5. last' \in {0} \union 128 .. 247 /\ since' \in Seq(Int)
    BY <1>1, <1>5, <1>6, <2>2
  <2>6. WireInv'
    BY Zenon, <1>8, <2>3, <2>4, <2>5 DEF WireInv
  <2>7. Len(Append(since, c)) < Wire!DataBytes(last) /\ Wire!DataBytes(last) > 0
    BY <1>5, <2>1
  <2>. QED BY Zenon, <1>1, <1>7, <2>2, <2>3, <2>6, <2>7 DEF Wire!MessageData
<1>10. CASE last # 242
  <2>1. byte3' = byte3 /\ pending' = FALSE
    BY Zenon, <1>1, <1>4, <1>10 DEF SystemByte
  <2>2. CASE last \in {241, 243}
    <3>1. /\ Wire!DataBytes(last) = 1 /\ Wire!DataBytes(last) > 0 /\ last \in 128 .. 243
          /\ ~(Len(Append(since, c)) < Wire!DataBytes(last))
          /\ Len(since) + 1 = Wire!DataBytes(last)
      BY <1>5, <2>2, DataBytesOf
    <3>2. since' = <<>> /\ last' = 0
      BY Zenon, <1>1, <1>5, <1>6, <3>1, DataHistory
    <3>3. WireInv'
      <4>1. WholeMeans' /\ last' \in {0} \union 128 .. 247 /\ since' \in Seq(Int)
        BY <1>1, <3>2 DEF WholeMeans
      <4>. QED BY Zenon, <1>2, <1>8, <2>1, <4>1 DEF WireInv
    <3>4. Wire!InMode(Wire!ChannelCall(last, Append(since, c)[1], c)) = <<>>
      <4>1. Wire!Command(last) = 240
        BY <2>2 DEF Wire!Command, Wire!Channel
      <4>2. Wire!ChannelCall(last, Append(since, c)[1], c) = <<>>
        BY <4>1 DEF Wire!ChannelCall
      <4>. QED BY <4>2 DEF Wire!InMode
    <3>. QED BY Zenon, <1>1, <1>6, <1>7, <2>1, <3>1, <3>2, <3>3, <3>4 DEF Wire!MessageData
  <2>3. CASE last \in 244 .. 247
    <3>1. Wire!DataBytes(last) = 0 /\ last \in {0} \union 244 .. 247
      BY <2>3, DataBytesOf
    <3>2. since' = <<>> /\ last' = last
      BY Zenon, <1>1, <1>5, <1>6, <3>1, DataHistory
    <3>3. WireInv'
      <4>1. WholeMeans' /\ last' \in {0} \union 128 .. 247 /\ since' \in Seq(Int)
        BY <1>1, <2>3, <3>2 DEF WholeMeans
      <4>. QED BY Zenon, <1>2, <1>8, <2>1, <4>1 DEF WireInv
    <3>. QED BY Zenon, <1>1, <1>4, <1>6, <1>7, <2>1, <3>1, <3>2, <3>3 DEF Wire!StrayData
  <2>. QED BY <1>1, <1>4, <1>10, <2>2, <2>3
<1>. QED BY <1>9, <1>10

\* A data byte without a status.
LEMMA StrayReads ==
    ASSUME IInv, WireInv, NEW c \in 0 .. 255,
           StrayByte(c), History(c), UNCHANGED parserMode
    PROVE  WireInv' /\ Wire!StrayData(c)
<1>1. /\ c \in 0 .. 127 /\ runningStatus = 0 /\ runningStatus' = runningStatus
      /\ calls' = <<>> /\ sysExState' = sysExState
  BY DEF StrayByte
<1>2. ~byte3 /\ byte3' = byte3 /\ pending' = FALSE
  BY Zenon DEF StrayByte
<1>3. WholeMeans
  BY Zenon, <1>2 DEF WireInv
<1>4. last \in {0} \union 244 .. 247 /\ since = <<>>
  BY <1>1, <1>3 DEF WholeMeans
<1>5. /\ last \in {0} \union 128 .. 247 /\ last # 240 /\ last # Wire!SYSEX
      /\ since \in Seq(Int) /\ Wire!DataBytes(last) = 0
  BY <1>4, DataBytesOf DEF Wire!SYSEX
<1>6. since' = <<>> /\ last' = last
  BY Zenon, <1>1, <1>4, <1>5, DataHistory
<1>7. ~Wire!IsStatus(c)
  BY <1>1 DEF Wire!IsStatus
<1>8. TableCloses' /\ (runningStatus = 240 /\ Performs => SysExMeans)'
  BY <1>1, OutsideSysEx
<1>9. WholeMeans' /\ last' \in {0} \union 128 .. 247 /\ since' \in Seq(Int)
  BY <1>1, <1>4, <1>5, <1>6 DEF WholeMeans
<1>10. WireInv'
  BY Zenon, <1>2, <1>8, <1>9 DEF WireInv
<1>. QED BY Zenon, <1>1, <1>2, <1>4, <1>5, <1>6, <1>7, <1>10 DEF Wire!StrayData

\* What short beginnings of system exclusive messages mean.
LEMMA ShortMeans ==
    ASSUME NEW c \in 0 .. 127
    PROVE  /\ Wire!MayMean(<<c>>) <=> c \in {126, 127}
           /\ Wire!MayMean(<<126, c>>) <=> c = 127
           /\ Wire!MayMean(<<127, c>>) <=> c = 127
           /\ Wire!MayMean(<<126, 127, c>>) <=> c = 9
           /\ Wire!MayMean(<<127, 127, c>>) <=> c \in {4, 11}
           /\ ~Wire!MayMean(<<126, 127, 9, c>>)
           /\ Wire!MayMean(<<127, 127, 4, c>>) <=> c = 1
           /\ Wire!MayMean(<<127, 127, 11, c>>) <=> c = 1
           /\ Wire!MayMean(<<127, 127, 4, 1, c>>)
<1>. USE DEF Wire!MayMean, Wire!StartOf, Wire!Starts, Wire!IsMip,
             Wire!GMHead, Wire!VolumeHead, Wire!MipHead
<1>1. Wire!MayMean(<<c>>) <=> c \in {126, 127}
  OBVIOUS
<1>2. Wire!MayMean(<<126, c>>) <=> c = 127
  OBVIOUS
<1>3. Wire!MayMean(<<127, c>>) <=> c = 127
  OBVIOUS
<1>4. Wire!MayMean(<<126, 127, c>>) <=> c = 9
  OBVIOUS
<1>5. Wire!MayMean(<<127, 127, c>>) <=> c \in {4, 11}
  OBVIOUS
<1>6. ~Wire!MayMean(<<126, 127, 9, c>>)
  OBVIOUS
<1>7. Wire!MayMean(<<127, 127, 4, c>>) <=> c = 1
  OBVIOUS
<1>8. Wire!MayMean(<<127, 127, 11, c>>) <=> c = 1
  OBVIOUS
<1>9. Wire!MayMean(<<127, 127, 4, 1, c>>)
  OBVIOUS
<1>. QED BY Zenon, <1>1, <1>2, <1>3, <1>4, <1>5, <1>6, <1>7, <1>8, <1>9

LEMMA ShortCalls ==
    ASSUME NEW m \in Seq(Int), Len(m) < 4
    PROVE  Wire!SysExCalls(m) = <<>>
<1>1. ~Wire!GMOn(m) /\ ~Wire!Volume(m)
  <2>1. Len(m) # 4 /\ Len(m) # 6
    OBVIOUS
  <2>. QED BY Zenon, <2>1 DEF Wire!GMOn, Wire!Volume
<1>2. ~Wire!IsMip(m)
  BY DEF Wire!IsMip, Wire!Starts, Wire!MipHead
<1>. QED BY Zenon, <1>1, <1>2 DEF Wire!SysExCalls

\* A table of MIPs is no other message.
LEMMA MipCallsOnly ==
    ASSUME NEW m \in Seq(Int), Wire!IsMip(m), Performs
    PROVE  Wire!SysExCalls(m) = Wire!MipCalls(m)
<1>1. m[1] = 127 /\ m[3] = 11
  BY DEF Wire!IsMip, Wire!Starts, Wire!MipHead
<1>2. ~Wire!GMOn(m) /\ ~Wire!Volume(m)
  <2>1. ~Wire!Starts(m, Wire!GMHead)
    BY <1>1 DEF Wire!Starts, Wire!GMHead
  <2>2. ~Wire!Starts(m, Wire!VolumeHead)
    BY <1>1 DEF Wire!Starts, Wire!VolumeHead
  <2>. QED BY Zenon, <2>1, <2>2 DEF Wire!GMOn, Wire!Volume
<1>. QED BY Zenon, <1>2 DEF Wire!SysExCalls, Performs

\* A byte that follows in a table of MIPs: the parts of the message it ends.
LEMMA MipAppend ==
    ASSUME NEW s \in Seq(Int), NEW c \in 0 .. 127, NEW n \in Nat, Wire!IsMip(s), Len(s) = n, n >= 4
    PROVE  LET m == Append(s, c)
           IN  /\ m \in Seq(Int) /\ Len(m) = n + 1 /\ m[Len(m)] = c /\ m[Len(m) - 1] = s[Len(s)]
               /\ Wire!IsMip(m)
               /\ Wire!MayMean(m) <=>
                     /\ ~Wire!BadChannel(m)
                     /\ Wire!MipPairs(m) < NUM_SYNTH_CHANNELS
<1>. DEFINE m == Append(s, c)
<1>1. m \in Seq(Int) /\ Len(m) = n + 1 /\ \A i \in 1 .. n : m[i] = s[i]
  OBVIOUS
<1>2. m[Len(m)] = c
  OBVIOUS
<1>3. m[Len(m) - 1] = s[Len(s)]
  BY <1>1
<1>. HIDE DEF m
<1>4. Wire!IsMip(m) /\ m[1] = 127 /\ m[3] = 11
  BY <1>1 DEF Wire!IsMip, Wire!Starts, Wire!MipHead
<1>5. \A h \in {Wire!GMHead, Wire!VolumeHead, Wire!MipHead} : ~Wire!StartOf(m, h)
  BY <1>1 DEF Wire!StartOf, Wire!GMHead, Wire!VolumeHead, Wire!MipHead
<1>6. ~Wire!Starts(m, Wire!VolumeHead)
  BY <1>4 DEF Wire!Starts, Wire!VolumeHead
<1>7. Wire!MayMean(m) <=> ~Wire!BadChannel(m) /\ Wire!MipPairs(m) < NUM_SYNTH_CHANNELS
  BY Zenon, <1>4, <1>5, <1>6 DEF Wire!MayMean
<1>. QED BY Zenon, <1>1, <1>2, <1>3, <1>4, <1>7 DEF m

LEMMA ConcatOne ==
    ASSUME NEW a, NEW b
    PROVE  << a >> \o <<>> = << a >> /\ << a >> \o << b >> = <<a, b>>
<1>. DEFINE S == {a, b}
<1>1. << a >> \in Seq(S) /\ << b >> \in Seq(S) /\ <<a, b>> \in Seq(S)
  OBVIOUS
<1>2. << a >> \o <<>> = << a >>
  BY <1>1, ConcatEmptySeq
<1>3. /\ << a >> \o << b >> \in Seq(S) /\ Len(<< a >> \o << b >>) = 2
      /\ (<< a >> \o << b >>)[1] = a /\ (<< a >> \o << b >>)[2] = b
  BY <1>1, ConcatProperties
<1>4. Len(<<a, b>>) = Len(<< a >> \o << b >>)
  BY <1>3
<1>5. \A i \in 1 .. Len(<< a >> \o << b >>) : (<< a >> \o << b >>)[i] = <<a, b>>[i]
  BY <1>3
<1>. QED BY Zenon, <1>1, <1>2, <1>3, <1>4, <1>5, SeqEqual

LEMMA AppendIs ==
    ASSUME NEW s \in Seq(Int), NEW t \in Seq(Int), NEW c \in Int,
           Len(t) = Len(s) + 1, \A i \in 1 .. Len(s) : t[i] = s[i], t[Len(s) + 1] = c
    PROVE  Append(s, c) = t
<1>1. /\ Append(s, c) \in Seq(Int) /\ Len(Append(s, c)) = Len(s) + 1
      /\ \A i \in 1 .. Len(s) : Append(s, c)[i] = s[i]
      /\ Append(s, c)[Len(s) + 1] = c
  BY AppendProperties
<1>2. \A i \in 1 .. Len(t) : Append(s, c)[i] = t[i]
  BY <1>1
<1>. QED BY Zenon, <1>1, <1>2, SeqEqual

\* A byte of a system exclusive message that is performed: the state it leads to
\* stands for the message so far, and it has the effect the message has by then.
LEMMA SysExDataReads ==
    ASSUME IInv, NEW c \in 0 .. 127, runningStatus = 240, Performs, SysExMeans, SysExData(c), since \in Seq(Int),
           since' = IF since # Wire!Unknown /\ Wire!MayMean(Append(since, c))
                    THEN Append(since, c) ELSE Wire!Unknown
    PROVE  /\ SysExMeans'
           /\ calls' = IF since = Wire!Unknown THEN <<>> ELSE Wire!SysExCalls(Append(since, c))
<1>. DEFINE m == Append(since, c)
<1>0. sysExState \in SysExStates /\ d1 \in 0 .. 127 /\ m \in Seq(Int)
  BY DEF IInv, TypeOK
<1>1. CASE sysExState = "SysEx"
  <2>1. since = <<>> /\ m = <<c>>
    <3>1. since = <<>>
      BY <1>1 DEF SysExMeans
    <3>2. /\ <<c>> \in Seq(Int) /\ <<>> \in Seq(Int) /\ c \in Int
          /\ Len(<<c>>) = Len(<<>>) + 1
          /\ \A i \in 1 .. Len(<<>>) : <<c>>[i] = <<>>[i]
          /\ <<c>>[Len(<<>>) + 1] = c
      BY <1>0
    <3>3. Append(<<>>, c) = <<c>>
      BY Zenon, <3>2, AppendIs
    <3>. QED BY Zenon, <3>1, <3>3
  <2>2. SysExOther(c)
    BY <1>1 DEF SysExData, GMOn, VolumeLow, VolumeHigh, MipStart, MipChannel, MipEntry
  <2>3. sysExState' = SysExStep(c) /\ calls' = <<>>
    BY <2>2 DEF SysExOther
  <2>. HIDE DEF m
  <2>4. Wire!SysExCalls(m) = <<>>
    <3>1. Len(m) < 4
      BY <2>1
    <3>. QED BY Zenon, <1>0, <3>1, ShortCalls
  <2>5. since' = IF c \in {126, 127} THEN <<c>> ELSE Wire!Unknown
    <3>1. since # Wire!Unknown
      BY <2>1 DEF Wire!Unknown
    <3>2. Wire!MayMean(m) <=> c \in {126, 127}
      BY Zenon, <2>1, ShortMeans
    <3>. QED BY Zenon, <2>1, <3>1, <3>2 DEF m
  <2>6. sysExState' = IF c = 126 THEN "UnivNonRealTime" ELSE IF c = 127 THEN "UnivRealTime"
                      ELSE IF c = 0 THEN "MfgID1" ELSE "Ignore"
    BY <1>1, <2>3 DEF SysExStep
  <2>7. SysExMeans'
    BY <2>5, <2>6 DEF SysExMeans
  <2>. QED BY <2>3, <2>4, <2>7 DEF m
<1>2. CASE sysExState = "UnivNonRealTime"
  <2>1. since = <<126>> /\ m = <<126, c>>
    <3>1. since = <<126>>
      BY <1>2 DEF SysExMeans
    <3>2. /\ <<126, c>> \in Seq(Int) /\ <<126>> \in Seq(Int) /\ c \in Int
          /\ Len(<<126, c>>) = Len(<<126>>) + 1
          /\ \A i \in 1 .. Len(<<126>>) : <<126, c>>[i] = <<126>>[i]
          /\ <<126, c>>[Len(<<126>>) + 1] = c
      BY <1>0
    <3>3. Append(<<126>>, c) = <<126, c>>
      BY Zenon, <3>2, AppendIs
    <3>. QED BY Zenon, <3>1, <3>3
  <2>2. SysExOther(c)
    BY <1>2 DEF SysExData, GMOn, VolumeLow, VolumeHigh, MipStart, MipChannel, MipEntry
  <2>3. sysExState' = SysExStep(c) /\ calls' = <<>>
    BY <2>2 DEF SysExOther
  <2>. HIDE DEF m
  <2>4. Wire!SysExCalls(m) = <<>>
    <3>1. Len(m) < 4
      BY <2>1
    <3>. QED BY Zenon, <1>0, <3>1, ShortCalls
  <2>5. since' = IF c = 127 THEN <<126, c>> ELSE Wire!Unknown
    <3>1. since # Wire!Unknown
      BY <2>1 DEF Wire!Unknown
    <3>2. Wire!MayMean(m) <=> c = 127
      BY Zenon, <2>1, ShortMeans
    <3>. QED BY Zenon, <2>1, <3>1, <3>2 DEF m
  <2>6. sysExState' = IF c = 127 THEN "UnivNrtTargetID" ELSE "Ignore"
    BY <1>2, <2>3 DEF SysExStep
  <2>7. SysExMeans'
    BY <2>5, <2>6 DEF SysExMeans
  <2>. QED BY <2>3, <2>4, <2>7 DEF m
<1>3. CASE sysExState = "UnivNrtTargetID"
  <2>1. since = <<126, 127>> /\ m = <<126, 127, c>>
    <3>1. since = <<126, 127>>
      BY <1>3 DEF SysExMeans
    <3>2. /\ <<126, 127, c>> \in Seq(Int) /\ <<126, 127>> \in Seq(Int) /\ c \in Int
          /\ Len(<<126, 127, c>>) = Len(<<126, 127>>) + 1
          /\ \A i \in 1 .. Len(<<126, 127>>) : <<126, 127, c>>[i] = <<126, 127>>[i]
          /\ <<126, 127, c>>[Len(<<126, 127>>) + 1] = c
      BY <1>0
    <3>3. Append(<<126, 127>>, c) = <<126, 127, c>>
      BY Zenon, <3>2, AppendIs
    <3>. QED BY Zenon, <3>1, <3>3
  <2>2. SysExOther(c)
    BY <1>3 DEF SysExData, GMOn, VolumeLow, VolumeHigh, MipStart, MipChannel, MipEntry
  <2>3. sysExState' = SysExStep(c) /\ calls' = <<>>
    BY <2>2 DEF SysExOther
  <2>. HIDE DEF m
  <2>4. Wire!SysExCalls(m) = <<>>
    <3>1. Len(m) < 4
      BY <2>1
    <3>. QED BY Zenon, <1>0, <3>1, ShortCalls
  <2>5. since' = IF c = 9 THEN <<126, 127, c>> ELSE Wire!Unknown
    <3>1. since # Wire!Unknown
      BY <2>1 DEF Wire!Unknown
    <3>2. Wire!MayMean(m) <=> c = 9
      BY Zenon, <2>1, ShortMeans
    <3>. QED BY Zenon, <2>1, <3>1, <3>2 DEF m
  <2>6. sysExState' = IF c = 9 THEN "GMControl" ELSE "Ignore"
    BY <1>3, <2>3 DEF SysExStep
  <2>7. SysExMeans'
    BY <2>5, <2>6 DEF SysExMeans
  <2>. QED BY <2>3, <2>4, <2>7 DEF m
<1>4. CASE sysExState = "UnivRealTime"
  <2>1. since = <<127>> /\ m = <<127, c>>
    <3>1. since = <<127>>
      BY <1>4 DEF SysExMeans
    <3>2. /\ <<127, c>> \in Seq(Int) /\ <<127>> \in Seq(Int) /\ c \in Int
          /\ Len(<<127, c>>) = Len(<<127>>) + 1
          /\ \A i \in 1 .. Len(<<127>>) : <<127, c>>[i] = <<127>>[i]
          /\ <<127, c>>[Len(<<127>>) + 1] = c
      BY <1>0
    <3>3. Append(<<127>>, c) = <<127, c>>
      BY Zenon, <3>2, AppendIs
    <3>. QED BY Zenon, <3>1, <3>3
  <2>2. SysExOther(c)
    BY <1>4 DEF SysExData, GMOn, VolumeLow, VolumeHigh, MipStart, MipChannel, MipEntry
  <2>3. sysExState' = SysExStep(c) /\ calls' = <<>>
    BY <2>2 DEF SysExOther
  <2>. HIDE DEF m
  <2>4. Wire!SysExCalls(m) = <<>>
    <3>1. Len(m) < 4
      BY <2>1
    <3>. QED BY Zenon, <1>0, <3>1, ShortCalls
  <2>5. since' = IF c = 127 THEN <<127, c>> ELSE Wire!Unknown
    <3>1. since # Wire!Unknown
      BY <2>1 DEF Wire!Unknown
    <3>2. Wire!MayMean(m) <=> c = 127
      BY Zenon, <2>1, ShortMeans
    <3>. QED BY Zenon, <2>1, <3>1, <3>2 DEF m
  <2>6. sysExState' = IF c = 127 THEN "UnivRtTargetID" ELSE "Ignore"
    BY <1>4, <2>3 DEF SysExStep
  <2>7. SysExMeans'
    BY <2>5, <2>6 DEF SysExMeans
  <2>. QED BY <2>3, <2>4, <2>7 DEF m
<1>5. CASE sysExState = "UnivRtTargetID"
  <2>1. since = <<127, 127>> /\ m = <<127, 127, c>>
    <3>1. since = <<127, 127>>
      BY <1>5 DEF SysExMeans
    <3>2. /\ <<127, 127, c>> \in Seq(Int) /\ <<127, 127>> \in Seq(Int) /\ c \in Int
          /\ Len(<<127, 127, c>>) = Len(<<127, 127>>) + 1
          /\ \A i \in 1 .. Len(<<127, 127>>) : <<127, 127, c>>[i] = <<127, 127>>[i]
          /\ <<127, 127, c>>[Len(<<127, 127>>) + 1] = c
      BY <1>0
    <3>3. Append(<<127, 127>>, c) = <<127, 127, c>>
      BY Zenon, <3>2, AppendIs
    <3>. QED BY Zenon, <3>1, <3>3
  <2>2. SysExOther(c)
    BY <1>5 DEF SysExData, GMOn, VolumeLow, VolumeHigh, MipStart, MipChannel, MipEntry
  <2>3. sysExState' = SysExStep(c) /\ calls' = <<>>
    BY <2>2 DEF SysExOther
  <2>. HIDE DEF m
  <2>4. Wire!SysExCalls(m) = <<>>
    <3>1. Len(m) < 4
      BY <2>1
    <3>. QED BY Zenon, <1>0, <3>1, ShortCalls
  <2>5. since' = IF c \in {4, 11} THEN <<127, 127, c>> ELSE Wire!Unknown
    <3>1. since # Wire!Unknown
      BY <2>1 DEF Wire!Unknown
    <3>2. Wire!MayMean(m) <=> c \in {4, 11}
      BY Zenon, <2>1, ShortMeans
    <3>. QED BY Zenon, <2>1, <3>1, <3>2 DEF m
  <2>6. sysExState' = IF c = 4 THEN "DeviceControl" ELSE IF c = 11 THEN "SPMIDI" ELSE "Ignore"
    BY <1>5, <2>3 DEF SysExStep
  <2>7. SysExMeans'
    BY <2>5, <2>6 DEF SysExMeans
  <2>. QED BY <2>3, <2>4, <2>7 DEF m
<1>6. CASE sysExState = "GMControl"
  <2>1. since = <<126, 127, 9>> /\ m = <<126, 127, 9, c>>
    <3>1. since = <<126, 127, 9>>
      BY <1>6 DEF SysExMeans
    <3>2. /\ <<126, 127, 9, c>> \in Seq(Int) /\ <<126, 127, 9>> \in Seq(Int) /\ c \in Int
          /\ Len(<<126, 127, 9, c>>) = Len(<<126, 127, 9>>) + 1
          /\ \A i \in 1 .. Len(<<126, 127, 9>>) : <<126, 127, 9, c>>[i] = <<126, 127, 9>>[i]
          /\ <<126, 127, 9, c>>[Len(<<126, 127, 9>>) + 1] = c
      BY <1>0
    <3>3. Append(<<126, 127, 9>>, c) = <<126, 127, 9, c>>
      BY Zenon, <3>2, AppendIs
    <3>. QED BY Zenon, <3>1, <3>3
  <2>. HIDE DEF m
  <2>2. since # Wire!Unknown /\ ~Wire!MayMean(m)
    BY <2>1, ShortMeans DEF Wire!Unknown
  <2>3. since' = Wire!Unknown
    BY Zenon, <2>2 DEF m
  <2>4. ~Wire!IsMip(m) /\ ~Wire!Volume(m)
    BY <2>1 DEF Wire!IsMip, Wire!Starts, Wire!MipHead, Wire!Volume
  <2>5. Wire!GMOn(m) <=> c \in {1, 3}
    BY <2>1 DEF Wire!GMOn, Wire!Starts, Wire!GMHead
  <2>6. CASE c \in {1, 3}
    <3>1. GMOn(c)
      BY <1>6, <2>6 DEF SysExData, VolumeLow, VolumeHigh, MipStart, MipChannel, MipEntry, SysExOther
    <3>2. sysExState' = "EOX" /\ calls' = << <<"VMReset">>, <<"VMInitMIPTable">> >>
      BY Zenon, <3>1 DEF GMOn
    <3>3. SysExMeans'
      BY <2>3, <3>2 DEF SysExMeans
    <3>4. Wire!SysExCalls(m) = << <<"VMReset">>, <<"VMInitMIPTable">> >>
      BY Zenon, <2>5, <2>6 DEF Wire!SysExCalls, Performs
    <3>. QED BY Zenon, <2>2, <3>2, <3>3, <3>4 DEF m
  <2>7. CASE c \notin {1, 3}
    <3>1. SysExOther(c)
      BY <1>6, <2>7 DEF SysExData, GMOn, VolumeLow, VolumeHigh, MipStart, MipChannel, MipEntry
    <3>2. sysExState' = "Ignore" /\ calls' = <<>>
      BY <1>6, <3>1 DEF SysExOther, SysExStep
    <3>3. SysExMeans'
      BY <2>3, <3>2 DEF SysExMeans
    <3>4. Wire!SysExCalls(m) = <<>>
      BY Zenon, <2>4, <2>5, <2>7 DEF Wire!SysExCalls
    <3>. QED BY Zenon, <2>2, <3>2, <3>3, <3>4 DEF m
  <2>. QED BY <2>6, <2>7
<1>7. CASE sysExState = "DeviceControl"
  <2>1. since = <<127, 127, 4>> /\ m = <<127, 127, 4, c>>
    <3>1. since = <<127, 127, 4>>
      BY <1>7 DEF SysExMeans
    <3>2. /\ <<127, 127, 4, c>> \in Seq(Int) /\ <<127, 127, 4>> \in Seq(Int) /\ c \in Int
          /\ Len(<<127, 127, 4, c>>) = Len(<<127, 127, 4>>) + 1
          /\ \A i \in 1 .. Len(<<127, 127, 4>>) : <<127, 127, 4, c>>[i] = <<127, 127, 4>>[i]
          /\ <<127, 127, 4, c>>[Len(<<127, 127, 4>>) + 1] = c
      BY <1>0
    <3>3. Append(<<127, 127, 4>>, c) = <<127, 127, 4, c>>
      BY Zenon, <3>2, AppendIs
    <3>. QED BY Zenon, <3>1, <3>3
  <2>2. SysExOther(c)
    BY <1>7 DEF SysExData, GMOn, VolumeLow, VolumeHigh, MipStart, MipChannel, MipEntry
  <2>3. sysExState' = (IF c = 1 THEN "MasterVolume" ELSE "Ignore") /\ calls' = <<>>
    BY <1>7, <2>2 DEF SysExOther, SysExStep
  <2>. HIDE DEF m
  <2>4. Wire!SysExCalls(m) = <<>>
    <3>1. ~Wire!IsMip(m) /\ ~Wire!Volume(m) /\ ~Wire!GMOn(m)
      BY <2>1 DEF Wire!IsMip, Wire!Starts, Wire!MipHead, Wire!Volume, Wire!GMOn, Wire!GMHead
    <3>. QED BY Zenon, <3>1 DEF Wire!SysExCalls
  <2>5. since' = IF c = 1 THEN <<127, 127, 4, c>> ELSE Wire!Unknown
    <3>1. since # Wire!Unknown
      BY <2>1 DEF Wire!Unknown
    <3>2. Wire!MayMean(m) <=> c = 1
      BY Zenon, <2>1, ShortMeans
    <3>. QED BY Zenon, <2>1, <3>1, <3>2 DEF m
  <2>6. SysExMeans'
    BY <2>3, <2>5 DEF SysExMeans
  <2>. QED BY <2>3, <2>4, <2>6 DEF m
<1>8. CASE sysExState = "MasterVolume"
  <2>1. since = <<127, 127, 4, 1>> /\ m = <<127, 127, 4, 1, c>>
    <3>1. since = <<127, 127, 4, 1>>
      BY <1>8 DEF SysExMeans
    <3>2. /\ <<127, 127, 4, 1, c>> \in Seq(Int) /\ <<127, 127, 4, 1>> \in Seq(Int) /\ c \in Int
          /\ Len(<<127, 127, 4, 1, c>>) = Len(<<127, 127, 4, 1>>) + 1
          /\ \A i \in 1 .. Len(<<127, 127, 4, 1>>) : <<127, 127, 4, 1, c>>[i] = <<127, 127, 4, 1>>[i]
          /\ <<127, 127, 4, 1, c>>[Len(<<127, 127, 4, 1>>) + 1] = c
      BY <1>0
    <3>3. Append(<<127, 127, 4, 1>>, c) = <<127, 127, 4, 1, c>>
      BY Zenon, <3>2, AppendIs
    <3>. QED BY Zenon, <3>1, <3>3
  <2>2. VolumeLow(c)
    BY <1>8 DEF SysExData, GMOn, VolumeHigh, MipStart, MipChannel, MipEntry, SysExOther
  <2>3. sysExState' = "MasterVolLSB" /\ d1' = c /\ calls' = <<>>
    BY Zenon, <2>2 DEF VolumeLow
  <2>. HIDE DEF m
  <2>4. Wire!SysExCalls(m) = <<>>
    <3>1. ~Wire!IsMip(m) /\ ~Wire!Volume(m) /\ ~Wire!GMOn(m)
      BY <2>1 DEF Wire!IsMip, Wire!Starts, Wire!MipHead, Wire!Volume, Wire!GMOn, Wire!GMHead
    <3>. QED BY Zenon, <3>1 DEF Wire!SysExCalls
  <2>5. since' = <<127, 127, 4, 1, c>>
    <3>1. since # Wire!Unknown
      BY <2>1 DEF Wire!Unknown
    <3>2. Wire!MayMean(m)
      BY Zenon, <2>1, ShortMeans
    <3>. QED BY Zenon, <2>1, <3>1, <3>2 DEF m
  <2>6. SysExMeans'
    BY <2>3, <2>5 DEF SysExMeans
  <2>. QED BY <2>3, <2>4, <2>6 DEF m
<1>9. CASE sysExState = "MasterVolLSB"
  <2>1. since = <<127, 127, 4, 1, d1>> /\ m = <<127, 127, 4, 1, d1, c>>
    <3>1. since = <<127, 127, 4, 1, d1>>
      BY <1>9 DEF SysExMeans
    <3>2. /\ <<127, 127, 4, 1, d1, c>> \in Seq(Int) /\ <<127, 127, 4, 1, d1>> \in Seq(Int) /\ c \in Int
          /\ Len(<<127, 127, 4, 1, d1, c>>) = Len(<<127, 127, 4, 1, d1>>) + 1
          /\ \A i \in 1 .. Len(<<127, 127, 4, 1, d1>>) : <<127, 127, 4, 1, d1, c>>[i] = <<127, 127, 4, 1, d1>>[i]
          /\ <<127, 127, 4, 1, d1, c>>[Len(<<127, 127, 4, 1, d1>>) + 1] = c
      BY <1>0
    <3>3. Append(<<127, 127, 4, 1, d1>>, c) = <<127, 127, 4, 1, d1, c>>
      BY Zenon, <3>2, AppendIs
    <3>. QED BY Zenon, <3>1, <3>3
  <2>2. VolumeHigh(c)
    BY <1>9 DEF SysExData, GMOn, VolumeLow, MipStart, MipChannel, MipEntry, SysExOther
  <2>3. sysExState' = "EOX" /\ calls' = << <<"VMSetVolume", d1, c>> >>
    BY Zenon, <2>2 DEF VolumeHigh
  <2>. HIDE DEF m
  <2>4. Wire!SysExCalls(m) = << <<"VMSetVolume", d1, c>> >>
    <3>1. Len(m) = 6 /\ m[5] = d1 /\ m[6] = c
      BY <2>1
    <3>2. Wire!Volume(m) /\ ~Wire!GMOn(m)
      BY <2>1, <3>1 DEF Wire!Starts, Wire!Volume, Wire!VolumeHead, Wire!GMOn
    <3>. QED BY Zenon, <3>1, <3>2 DEF Wire!SysExCalls, Performs
  <2>5. since' = Wire!Unknown
    <3>1. ~Wire!MayMean(m)
      BY <2>1 DEF Wire!MayMean, Wire!StartOf, Wire!Starts, Wire!IsMip,
                  Wire!GMHead, Wire!VolumeHead, Wire!MipHead
    <3>. QED BY Zenon, <3>1 DEF m
  <2>6. since # Wire!Unknown
    BY <2>1 DEF Wire!Unknown
  <2>7. SysExMeans'
    BY <2>3, <2>5 DEF SysExMeans
  <2>. QED BY Zenon, <2>3, <2>4, <2>6, <2>7 DEF m
<1>10. CASE sysExState = "SPMIDI"
  <2>1. since = <<127, 127, 11>> /\ m = <<127, 127, 11, c>>
    <3>1. since = <<127, 127, 11>>
      BY <1>10 DEF SysExMeans
    <3>2. /\ <<127, 127, 11, c>> \in Seq(Int) /\ <<127, 127, 11>> \in Seq(Int) /\ c \in Int
          /\ Len(<<127, 127, 11, c>>) = Len(<<127, 127, 11>>) + 1
          /\ \A i \in 1 .. Len(<<127, 127, 11>>) : <<127, 127, 11, c>>[i] = <<127, 127, 11>>[i]
          /\ <<127, 127, 11, c>>[Len(<<127, 127, 11>>) + 1] = c
      BY <1>0
    <3>3. Append(<<127, 127, 11>>, c) = <<127, 127, 11, c>>
      BY Zenon, <3>2, AppendIs
    <3>. QED BY Zenon, <3>1, <3>3
  <2>. HIDE DEF m
  <2>2. since # Wire!Unknown /\ (Wire!MayMean(m) <=> c = 1)
    <3>1. since # Wire!Unknown
      BY <2>1 DEF Wire!Unknown
    <3>. QED BY Zenon, <2>1, <3>1, ShortMeans
  <2>3. Len(m) = 4 /\ (Wire!IsMip(m) <=> c = 1)
    BY <2>1 DEF Wire!IsMip, Wire!Starts, Wire!MipHead
  <2>4. CASE c = 1
    <3>1. MipStart(c)
      BY <1>10, <2>4 DEF SysExData, GMOn, VolumeLow, VolumeHigh, MipChannel, MipEntry, SysExOther
    <3>2. sysExState' = "SPMIDIchan" /\ d1' = 0 /\ calls' = << <<"VMInitMIPTable">> >>
      BY Zenon, <3>1 DEF MipStart
    <3>3. since' = m
      BY Zenon, <2>2, <2>4 DEF m
    <3>4. SysExMeans'
      <4>1. Wire!IsMip(since') /\ Len(since') = 4 + 2 * d1'
        <5>1. Len(m) = 4 + 2 * 0
          BY <2>3
        <5>. QED BY Zenon, <2>3, <2>4, <3>2, <3>3, <5>1
      <4>. QED BY <3>2, <4>1 DEF SysExMeans
    <3>5. Wire!SysExCalls(m) = << <<"VMInitMIPTable">> >>
      BY Zenon, <1>0, <2>3, <2>4, MipCallsOnly DEF Wire!MipCalls, m
    <3>. QED BY Zenon, <2>2, <3>2, <3>4, <3>5 DEF m
  <2>5. CASE c # 1
    <3>1. SysExOther(c)
      BY <1>10, <2>5 DEF SysExData, GMOn, VolumeLow, VolumeHigh, MipStart, MipChannel, MipEntry
    <3>2. sysExState' = "Ignore" /\ calls' = <<>>
      BY <1>10, <3>1 DEF SysExOther, SysExStep
    <3>3. since' = Wire!Unknown
      BY Zenon, <2>2, <2>5 DEF m
    <3>4. SysExMeans'
      BY <3>2, <3>3 DEF SysExMeans
    <3>5. Wire!SysExCalls(m) = <<>>
      <4>1. ~Wire!GMOn(m) /\ ~Wire!Volume(m)
        BY <2>1 DEF Wire!GMOn, Wire!Starts, Wire!GMHead, Wire!Volume
      <4>. QED BY Zenon, <2>3, <2>5, <4>1 DEF Wire!SysExCalls
    <3>. QED BY Zenon, <2>2, <3>2, <3>4, <3>5 DEF m
  <2>. QED BY <2>4, <2>5
<1>11. CASE sysExState = "SPMIDIchan"
  <2>1. Wire!IsMip(since) /\ Len(since) = 4 + 2 * d1
    BY Zenon, <1>11 DEF SysExMeans
  <2>2. d1 < NUM_SYNTH_CHANNELS /\ NUM_SYNTH_CHANNELS \in 1 .. 16
    BY <1>11, MidiAssumption DEF IInv, TableFits
  <2>3. since # Wire!Unknown
    BY <1>0, <2>1 DEF Wire!Unknown
  <2>4. 4 + 2 * d1 \in Nat /\ 4 + 2 * d1 >= 4
    BY <1>0
  <2>. HIDE DEF m
  <2>5. /\ Len(m) = 4 + 2 * d1 + 1 /\ m[Len(m)] = c /\ Wire!IsMip(m)
        /\ Wire!MayMean(m) <=> ~Wire!BadChannel(m) /\ Wire!MipPairs(m) < NUM_SYNTH_CHANNELS
    BY Zenon, <2>1, <2>4, MipAppend DEF m
  <2>6. Wire!InPair(m) /\ Wire!MipPairs(m) = d1 /\ Len(m) # 4
    BY <1>0, <2>5 DEF Wire!InPair, Wire!MipPairs
  <2>7. Wire!BadChannel(m) <=> c >= NUM_SYNTH_CHANNELS
    BY Zenon, <2>5, <2>6 DEF Wire!BadChannel
  <2>8. Wire!SysExCalls(m) = Wire!MipCalls(m)
    BY Zenon, <1>0, <2>5, MipCallsOnly DEF m
  <2>9. MipChannel(c)
    BY <1>11 DEF SysExData, GMOn, VolumeLow, VolumeHigh, MipStart, MipEntry, SysExOther
  <2>10. CASE c < NUM_SYNTH_CHANNELS
    <3>1. /\ sysExState' = "SPMIDIMIP" /\ d1' = d1 /\ d2' = c /\ calls' = <<>>
      BY Zenon, <2>9, <2>10 DEF MipChannel
    <3>2. ~Wire!BadChannel(m)
      BY <2>2, <2>7, <2>10
    <3>3. since' = m
      BY Zenon, <2>2, <2>3, <2>5, <2>6, <3>2 DEF m
    <3>4. SysExMeans'
      <4>1. Wire!IsMip(since') /\ Len(since') = 5 + 2 * d1' /\ since'[Len(since')] = d2'
        <5>1. Wire!IsMip(since') /\ since'[Len(since')] = d2'
          BY Zenon, <2>5, <3>1, <3>3
        <5>2. Len(m) = 5 + 2 * d1
          BY <1>0, <2>5
        <5>. QED BY Zenon, <3>1, <3>3, <5>1, <5>2
      <4>. QED BY <3>1, <4>1 DEF SysExMeans
    <3>5. Wire!MipCalls(m) = <<>>
      BY Zenon, <2>6, <3>2 DEF Wire!MipCalls
    <3>. QED BY Zenon, <2>3, <2>8, <3>1, <3>4, <3>5 DEF m
  <2>11. CASE ~(c < NUM_SYNTH_CHANNELS)
    <3>1. sysExState' = "Ignore" /\ calls' = << <<"VMInitMIPTable">> >>
      BY Zenon, <2>9, <2>11 DEF MipChannel
    <3>2. Wire!BadChannel(m)
      BY <2>2, <2>7, <2>11
    <3>3. since' = Wire!Unknown
      BY Zenon, <2>5, <3>2 DEF m
    <3>4. SysExMeans'
      BY <3>1, <3>3 DEF SysExMeans
    <3>5. Wire!MipCalls(m) = << <<"VMInitMIPTable">> >>
      BY Zenon, <3>2 DEF Wire!MipCalls
    <3>. QED BY Zenon, <2>3, <2>8, <3>1, <3>4, <3>5 DEF m
  <2>. QED BY <2>10, <2>11
<1>12. CASE sysExState = "SPMIDIMIP"
  <2>1. Wire!IsMip(since) /\ Len(since) = 5 + 2 * d1 /\ since[Len(since)] = d2
    BY Zenon, <1>12 DEF SysExMeans
  <2>2. d1 < NUM_SYNTH_CHANNELS /\ NUM_SYNTH_CHANNELS \in 1 .. 16
    BY <1>12, MidiAssumption DEF IInv, TableFits
  <2>3. since # Wire!Unknown
    BY <1>0, <2>1 DEF Wire!Unknown
  <2>4. 5 + 2 * d1 \in Nat /\ 5 + 2 * d1 >= 4
    BY <1>0
  <2>. HIDE DEF m
  <2>5. /\ Len(m) = 5 + 2 * d1 + 1 /\ m[Len(m)] = c /\ m[Len(m) - 1] = since[Len(since)]
        /\ Wire!IsMip(m)
        /\ Wire!MayMean(m) <=> ~Wire!BadChannel(m) /\ Wire!MipPairs(m) < NUM_SYNTH_CHANNELS
    BY Zenon, <2>1, <2>4, MipAppend DEF m
  <2>6. ~Wire!InPair(m) /\ Wire!MipPairs(m) = d1 + 1 /\ Len(m) # 4 /\ Wire!MipPairs(m) - 1 = d1
    BY <1>0, <2>5 DEF Wire!InPair, Wire!MipPairs
  <2>7. ~Wire!BadChannel(m)
    BY Zenon, <2>6 DEF Wire!BadChannel
  <2>8. Wire!SysExCalls(m) = Wire!MipCalls(m)
    BY Zenon, <1>0, <2>5, MipCallsOnly DEF m
  <2>9. MipEntry(c)
    BY <1>12 DEF SysExData, GMOn, VolumeLow, VolumeHigh, MipStart, MipChannel, SysExOther
  <2>10. Wire!MipCalls(m) = << <<"VMSetMIPEntry", d2, d1, c>> >> \o
           IF d1 + 1 = NUM_SYNTH_CHANNELS THEN << <<"VMUpdateMIPTable">> >> ELSE <<>>
    BY Zenon, <2>1, <2>5, <2>6, <2>7 DEF Wire!MipCalls
  <2>11. d1' = d1 + 1
    BY Zenon, <2>9 DEF MipEntry
  <2>12. CASE d1 + 1 = NUM_SYNTH_CHANNELS
    <3>1. /\ sysExState' = "EOX"
          /\ calls' = << <<"VMSetMIPEntry", d2, d1, c>>, <<"VMUpdateMIPTable">> >>
      <4>1. d1' = NUM_SYNTH_CHANNELS
        BY <2>11, <2>12
      <4>2. c = c
        OBVIOUS
      <4>. QED BY <2>9, <4>1 DEF MipEntry
    <3>2. since' = Wire!Unknown
      <4>1. ~(Wire!MipPairs(m) < NUM_SYNTH_CHANNELS)
        BY <1>0, <2>2, <2>6, <2>12
      <4>. QED BY Zenon, <2>5, <4>1 DEF m
    <3>3. SysExMeans'
      BY <3>1, <3>2 DEF SysExMeans
    <3>4. Wire!MipCalls(m) = calls'
      BY Zenon, <2>10, <2>12, <3>1, ConcatOne
    <3>. QED BY Zenon, <2>3, <2>8, <3>3, <3>4 DEF m
  <2>13. CASE d1 + 1 # NUM_SYNTH_CHANNELS
    <3>1. /\ sysExState' = "SPMIDIchan"
          /\ calls' = << <<"VMSetMIPEntry", d2, d1, c>> >>
      <4>1. d1' # NUM_SYNTH_CHANNELS
        BY <2>11, <2>13
      <4>. QED BY <2>9, <4>1 DEF MipEntry
    <3>2. since' = m
      <4>1. Wire!MipPairs(m) < NUM_SYNTH_CHANNELS
        BY <1>0, <2>2, <2>6, <2>13
      <4>. QED BY Zenon, <2>3, <2>5, <2>7, <4>1 DEF m
    <3>3. SysExMeans'
      <4>1. Wire!IsMip(since') /\ Len(since') = 4 + 2 * d1'
        <5>1. Wire!IsMip(since')
          BY Zenon, <2>5, <3>2
        <5>2. Len(m) = 4 + 2 * (d1 + 1)
          BY <1>0, <2>5
        <5>. QED BY Zenon, <2>11, <3>2, <5>1, <5>2
      <4>. QED BY <3>1, <4>1 DEF SysExMeans
    <3>4. Wire!MipCalls(m) = calls'
      BY Zenon, <2>10, <2>13, <3>1, ConcatOne
    <3>. QED BY Zenon, <2>3, <2>8, <3>3, <3>4 DEF m
  <2>. QED BY <2>12, <2>13
<1>13. CASE sysExState \in {"MfgID1", "EOX", "Ignore"}
  <2>1. since = Wire!Unknown
    BY <1>13 DEF SysExMeans
  <2>2. SysExOther(c)
    BY <1>13 DEF SysExData, GMOn, VolumeLow, VolumeHigh, MipStart, MipChannel, MipEntry
  <2>3. sysExState' \in {"MfgID1", "Ignore"} /\ calls' = <<>>
    BY <1>13, <2>2 DEF SysExOther, SysExStep
  <2>4. since' = Wire!Unknown
    BY Zenon, <2>1
  <2>5. SysExMeans'
    BY <2>3, <2>4 DEF SysExMeans
  <2>. QED BY Zenon, <2>1, <2>3, <2>5
<1>. QED BY <1>0, <1>1, <1>2, <1>3, <1>4, <1>5, <1>6, <1>7, <1>8, <1>9, <1>10, <1>11, <1>12, <1>13
         DEF SysExStates

\* A data byte of a system exclusive message, performed or passed over.
LEMMA SysExReads ==
    ASSUME IInv, WireInv, NEW c \in 0 .. 255,
           SysExByte(c), History(c), UNCHANGED parserMode
    PROVE  WireInv' /\ Wire!SysExData(c)
<1>. DEFINE m == Append(since, c)
<1>1. c \in 0 .. 127 /\ runningStatus = 240 /\ runningStatus' = runningStatus
  BY DEF SysExByte
<1>2. ~byte3 /\ byte3' = byte3 /\ pending' = pending
  BY Zenon DEF SysExByte
<1>3. last = 240 /\ last = Wire!SYSEX
  BY <1>1, SysExIsUnderWay DEF Wire!SYSEX
<1>4. m \in Seq(Int) /\ since \in Seq(Int)
  BY <1>1 DEF WireInv
<1>5. ~(c >= 248) /\ ~(c \in 128 .. 247) /\ ~(c >= 128) /\ ~(last > 240) /\ last \in 128 .. 243
  BY <1>1, <1>3
<1>6. /\ last' = last
      /\ since' = IF since # Wire!Unknown /\ Wire!MayMean(m) THEN m ELSE Wire!Unknown
  BY Zenon, <1>3, <1>5 DEF History
<1>7. since' \in Seq(Int)
  BY <1>4, <1>6 DEF Wire!Unknown
<1>8. WholeMeans'
  BY <1>1, <1>3, <1>6 DEF WholeMeans
<1>9. Performs' <=> Performs
  BY Zenon DEF Performs
<1>10. ~Wire!IsStatus(c)
  BY <1>1 DEF Wire!IsStatus
<1>. HIDE DEF m
<1>11. CASE Performs
  <2>1. SysExData(c)
    BY Zenon, <1>11 DEF SysExByte
  <2>2. SysExMeans
    BY Zenon, <1>1, <1>11 DEF WireInv
  <2>3. /\ SysExMeans'
        /\ calls' = IF since = Wire!Unknown THEN <<>> ELSE Wire!SysExCalls(m)
    BY Zenon, <1>1, <1>4, <1>6, <1>11, <2>1, <2>2, SysExDataReads DEF m
  <2>4. TableCloses'
    BY Zenon, <1>1, <1>9, <1>11 DEF TableCloses
  <2>5. last' \in {0} \union 128 .. 247
    BY <1>3, <1>6
  <2>6. WireInv'
    BY Zenon, <1>2, <1>7, <1>8, <2>3, <2>4, <2>5 DEF WireInv
  <2>7. since = Wire!Unknown => since' = Wire!Unknown
    BY Zenon, <1>6
  <2>. QED BY Zenon, <1>2, <1>3, <1>6, <1>10, <2>3, <2>6, <2>7 DEF Wire!SysExData, m
<1>12. CASE ~Performs
  <2>1. calls' = <<>> /\ sysExState' = sysExState
    BY Zenon, <1>12 DEF SysExByte, NoSysEx
  <2>2. TableCloses'
    BY Zenon, <1>12, <2>1 DEF WireInv, TableCloses
  <2>3. last' \in {0} \union 128 .. 247
    BY <1>3, <1>6
  <2>4. WireInv'
    BY Zenon, <1>2, <1>7, <1>8, <1>9, <1>12, <2>2, <2>3 DEF WireInv
  <2>5. Wire!SysExCalls(m) = <<>>
    BY Zenon, <1>12 DEF Wire!SysExCalls, Performs
  <2>6. since = Wire!Unknown => since' = Wire!Unknown
    BY Zenon, <1>6
  <2>. QED BY Zenon, <1>2, <1>3, <1>6, <1>10, <2>1, <2>4, <2>5, <2>6 DEF Wire!SysExData, m
<1>. QED BY <1>11, <1>12

\* A new start of the track, which finds no table open.
LEMMA RestartReads ==
    ASSUME IInv, WireInv, ~CutMessages, EAS_InitMIDIStream
    PROVE  WireInv' /\ Wire!Restart
<1>1. /\ byte3' = FALSE /\ runningStatus' = 0 /\ sysExState' = sysExState
      /\ last' = 0 /\ since' = <<>>
  BY Zenon DEF EAS_InitMIDIStream
<1>2. sysExState \notin {"SPMIDIchan", "SPMIDIMIP"}
  <2>1. ~Wire!TableOpen
    BY Zenon DEF EAS_InitMIDIStream
  <2>. QED BY <2>1, TableIsOpen
<1>3. TableCloses' /\ WholeMeans' /\ ~(runningStatus' = 240)
  BY <1>1, <1>2 DEF TableCloses, WholeMeans
<1>4. last' \in {0} \union 128 .. 247 /\ since' \in Seq(Int)
  BY <1>1
<1>5. WireInv'
  BY Zenon, <1>1, <1>3, <1>4 DEF WireInv
<1>. QED BY Zenon, <1>5 DEF EAS_InitMIDIStream, Wire!Restart

\* Each step of the decoder reads a byte, or starts anew, as the wire does.
LEMMA StepReads ==
    ASSUME IInv, WireInv, parserMode \in Wire!Modes, ~CutMessages, [Next]_vars
    PROVE  WireInv' /\ (parserMode \in Wire!Modes)' /\ [Wire!Next]_(Wire!vars)
<1>1. CASE Push
  <2>1. PICK c \in Bytes : /\ WellFormed(c) /\ EAS_ParseMIDIStream(c)
                           /\ History(c) /\ UNCHANGED parserMode
    BY Zenon, <1>1 DEF Push
  <2>2. c \in 0 .. 255
    BY MidiAssumption
  <2>3. WireInv' /\ Wire!Byte(c)
    <3>1. CASE StatusByte(c)
      BY Zenon, <2>1, <2>2, <3>1, StatusReads DEF Wire!Byte
    <3>2. CASE RealTimeByte(c)
      BY Zenon, <2>1, <2>2, <3>2, RealTimeReads DEF Wire!Byte
    <3>3. CASE ThirdByte(c)
      BY Zenon, <2>1, <2>2, <3>3, ThirdReads DEF Wire!Byte
    <3>4. CASE FirstOfTwo(c)
      BY Zenon, <2>1, <2>2, <3>4, FirstReads DEF Wire!Byte
    <3>5. CASE OnlyData(c)
      BY Zenon, <2>1, <2>2, <3>5, OnlyReads DEF Wire!Byte
    <3>6. CASE SysExByte(c)
      BY Zenon, <2>1, <2>2, <3>6, SysExReads DEF Wire!Byte
    <3>7. CASE SystemByte(c)
      BY Zenon, <2>1, <2>2, <3>7, SystemReads DEF Wire!Byte
    <3>8. CASE StrayByte(c)
      BY Zenon, <2>1, <2>2, <3>8, StrayReads DEF Wire!Byte
    <3>. QED BY Zenon, <2>1, <3>1, <3>2, <3>3, <3>4, <3>5, <3>6, <3>7, <3>8 DEF EAS_ParseMIDIStream
  <2>. QED BY Zenon, <2>1, <2>3 DEF Wire!Next
<1>2. CASE EAS_InitMIDIStream
  BY Zenon, <1>2, RestartReads DEF Wire!Next, Wire!Restart
<1>3. CASE UNCHANGED vars
  <2>1. /\ byte3' = byte3 /\ pending' = pending /\ sysExState' = sysExState
        /\ runningStatus' = runningStatus /\ status' = status /\ d1' = d1 /\ d2' = d2
        /\ parserMode' = parserMode /\ calls' = calls /\ last' = last /\ since' = since
    BY Zenon, <1>3 DEF vars, decoder
  <2>2. (HalfMeans' <=> HalfMeans) /\ (WholeMeans' <=> WholeMeans)
    BY <2>1 DEF HalfMeans, WholeMeans
  <2>3. (TableCloses' <=> TableCloses) /\ (Performs' <=> Performs)
    BY Zenon, <2>1 DEF TableCloses, Performs
  <2>4. SysExMeans => SysExMeans'
    BY <2>1 DEF SysExMeans
  <2>5. WireInv'
    BY Zenon, <2>1, <2>2, <2>3, <2>4 DEF WireInv
  <2>. QED BY Zenon, <2>1, <2>5 DEF Wire!vars
<1>. QED BY Zenon, <1>1, <1>2, <1>3 DEF Next

\* Whatever bytes come, as long as none cuts a message that must not be cut, what
\* EAS_ParseMIDIStream calls is what the wire means: every message once and
\* whole, by running status too, and nothing for any other byte.
THEOREM DecoderReadsWire == ASSUME ~CutMessages PROVE Spec => DecodesWire
<1>1. Init => WireInv /\ parserMode \in Wire!Modes /\ Wire!Init
  BY Zenon, WireInit DEF Init
<1>2. /\ IInv /\ WireInv /\ parserMode \in Wire!Modes
      /\ [Next]_vars
      => WireInv' /\ (parserMode \in Wire!Modes)' /\ [Wire!Next]_(Wire!vars)
  BY Zenon, StepReads
<1>. QED BY <1>1, <1>2, AlwaysIInv, PTL DEF Spec, DecodesWire, Wire!Spec
==============================================================================
