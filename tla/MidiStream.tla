----------------------------- MODULE MidiStream -----------------------------
(***************************************************************************)
(* The decoder of MIDI bytes (eas_midi.c), which serves the tracks of a    *)
(* file and the streams an application writes to.  Bytes are pushed one by *)
(* one, and all that is remembered between two of them is S_MIDI_STREAM.   *)
(***************************************************************************)
EXTENDS Integers, Sequences

CONSTANTS
    Bytes,              \* the bytes that may come, a subset of 0 .. 255
    NUM_SYNTH_CHANNELS,
    CutMessages         \* a status byte may cut a message the standard does
                        \* not let it cut

ASSUME MidiAssumption ==
    /\ Bytes \subseteq 0 .. 255
    /\ NUM_SYNTH_CHANNELS \in 1 .. 16 /\ CutMessages \in BOOLEAN

VARIABLES
    byte3, pending, sysExState, runningStatus, status, d1, d2,
    flags,          \* "FIRST_NOTE" and "GM_ON"
    parserMode,     \* the mode of the calls: "play", "mute" (or locate) or "metadata"
    calls,          \* what the last byte called in the voice manager
    last, since     \* history: the message under way, as MidiWire has it

decoder == <<byte3, pending, sysExState, runningStatus, status, d1, d2, flags>>
vars    == <<decoder, parserMode, calls, last, since>>

Wire == INSTANCE MidiWire WITH heard <- calls, open <- pending

SysExStates ==
    {"SysEx", "UnivNonRealTime", "UnivNrtTargetID", "GMControl",
     "UnivRealTime", "UnivRtTargetID", "DeviceControl", "MasterVolume", "MasterVolLSB",
     "SPMIDI", "SPMIDIchan", "SPMIDIMIP", "MfgID1", "EOX", "Ignore"}

Init ==
    /\ byte3 = FALSE /\ pending = FALSE /\ sysExState = "SysEx"
    /\ runningStatus = 0 /\ status = 0 /\ d1 = 0 /\ d2 = 0 /\ flags = {}
    /\ parserMode \in Wire!Modes
    /\ calls = <<>> /\ last = 0 /\ since = <<>>

-----------------------------------------------------------------------------
(* ProcessMIDIMessage and ProcessSysExMessage.                             *)

\* Muted tracks, and a song that is located, sound no new note.
Sounds    == parserMode = "play"
Performs  == parserMode # "metadata"

\* ProcessMIDIMessage: the call of a channel message.
MessageCall(first, second) ==
    LET channel == status' % 16
        stop    == IF Performs THEN << <<"VMStopNote", channel, first, second>> >> ELSE <<>>
        call(c) == IF Performs THEN <<c>> ELSE <<>>
    IN  CASE status' \div 16 = 8  -> stop
          [] status' \div 16 = 9 /\ second # 0 ->
                 IF Sounds THEN << <<"VMStartNote", channel, first, second>> >> ELSE <<>>
          [] status' \div 16 = 9 /\ second = 0 -> stop
          [] status' \div 16 = 11 -> call(<<"VMControlChange", channel, first, second>>)
          [] status' \div 16 = 12 -> call(<<"VMProgramChange", channel, first>>)
          [] status' \div 16 = 13 -> call(<<"VMChannelPressure", channel, first>>)
          [] status' \div 16 = 14 -> call(<<"VMPitchBend", channel, first, second>>)
          [] OTHER                -> <<>>

ProcessMIDIMessage ==
    /\ calls' = IF Performs THEN MessageCall(d1', d2') ELSE <<>>
    /\ flags' = IF Performs /\ status' \div 16 = 9 /\ d2' # 0
                THEN flags \union {"FIRST_NOTE"} ELSE flags

\* Where a byte of a system exclusive message leads that has no effect.
SysExStep(c) ==
    CASE sysExState = "SysEx" /\ c = 126          -> "UnivNonRealTime"
      [] sysExState = "SysEx" /\ c = 127          -> "UnivRealTime"
      [] sysExState = "SysEx" /\ c = 0            -> "MfgID1"
      [] sysExState = "UnivNonRealTime" /\ c = 127 -> "UnivNrtTargetID"
      [] sysExState = "UnivNrtTargetID" /\ c = 9  -> "GMControl"
      [] sysExState = "UnivRealTime" /\ c = 127   -> "UnivRtTargetID"
      [] sysExState = "UnivRtTargetID" /\ c = 4   -> "DeviceControl"
      [] sysExState = "UnivRtTargetID" /\ c = 11  -> "SPMIDI"
      [] sysExState = "DeviceControl" /\ c = 1    -> "MasterVolume"
      [] sysExState = "MfgID1" /\ c = 1           -> "MfgID1"
      [] OTHER                                    -> "Ignore"

\* The states whose bytes have an effect.
GMOn(c) ==
    /\ sysExState = "GMControl" /\ c \in {1, 3}
    /\ calls' = << <<"VMReset">>, <<"VMInitMIPTable">> >>
    /\ flags' = flags \union {"GM_ON"}
    /\ sysExState' = "EOX" /\ UNCHANGED <<d1, d2>>

VolumeLow(c) ==
    /\ sysExState = "MasterVolume"
    /\ d1' = c /\ sysExState' = "MasterVolLSB"
    /\ calls' = <<>> /\ UNCHANGED <<d2, flags>>

VolumeHigh(c) ==
    /\ sysExState = "MasterVolLSB"
    /\ calls' = << <<"VMSetVolume", d1, c>> >>
    /\ sysExState' = "EOX" /\ UNCHANGED <<d1, d2, flags>>

MipStart(c) ==
    /\ sysExState = "SPMIDI" /\ c = 1
    /\ calls' = << <<"VMInitMIPTable">> >>
    /\ d1' = 0 /\ sysExState' = "SPMIDIchan" /\ UNCHANGED <<d2, flags>>

MipChannel(c) ==
    /\ sysExState = "SPMIDIchan"
    /\ IF c < NUM_SYNTH_CHANNELS
       THEN d2' = c /\ sysExState' = "SPMIDIMIP" /\ calls' = <<>>
       ELSE /\ sysExState' = "Ignore" /\ calls' = << <<"VMInitMIPTable">> >>
            /\ UNCHANGED d2
    /\ UNCHANGED <<d1, flags>>

MipEntry(c) ==
    /\ sysExState = "SPMIDIMIP"
    /\ d1' = d1 + 1
    /\ IF d1' = NUM_SYNTH_CHANNELS
       THEN /\ calls' = << <<"VMSetMIPEntry", d2, d1, c>>, <<"VMUpdateMIPTable">> >>
            /\ sysExState' = "EOX"
       ELSE /\ calls' = << <<"VMSetMIPEntry", d2, d1, c>> >>
            /\ sysExState' = "SPMIDIchan"
    /\ UNCHANGED <<d2, flags>>

SysExOther(c) ==
    /\ sysExState \notin {"MasterVolume", "MasterVolLSB", "SPMIDIchan", "SPMIDIMIP"}
    /\ ~(sysExState = "GMControl" /\ c \in {1, 3}) /\ ~(sysExState = "SPMIDI" /\ c = 1)
    /\ sysExState' = SysExStep(c)
    /\ calls' = <<>> /\ UNCHANGED <<d1, d2, flags>>

SysExData(c) ==
    \/ GMOn(c) \/ VolumeLow(c) \/ VolumeHigh(c)
    \/ MipStart(c) \/ MipChannel(c) \/ MipEntry(c) \/ SysExOther(c)

\* The start byte, and the end byte, which also ends a table of MIPs.
SysExStart ==
    /\ sysExState' = "SysEx"
    /\ calls' = <<>> /\ UNCHANGED <<d1, d2, flags>>

SysExEnd ==
    /\ calls' = IF sysExState = "SPMIDIchan" THEN << <<"VMUpdateMIPTable">> >> ELSE <<>>
    /\ sysExState' = "Ignore" /\ UNCHANGED <<d1, d2, flags>>

NoSysEx == calls' = <<>> /\ UNCHANGED <<sysExState, d1, d2, flags>>

-----------------------------------------------------------------------------
(* EAS_ParseMIDIStream, by the kind of the byte.                           *)

\* Mutant: a new status byte does not end the message before it.
StatusByteKeeping(c) ==
    /\ c \in 128 .. 247
    /\ runningStatus' = c /\ UNCHANGED byte3
    /\ pending' = IF c \in {240, 247} \union 244 .. 246 THEN pending ELSE TRUE
    /\ CASE c = 240 /\ Performs -> SysExStart
         [] c = 247 /\ Performs -> SysExEnd
         [] OTHER               -> NoSysEx
    /\ UNCHANGED status

\* A status byte; real-time ones are ignored.
StatusByte(c) ==
    /\ c \in 128 .. 247
    /\ runningStatus' = c /\ byte3' = FALSE
    /\ pending' = IF c \in {240, 247} \union 244 .. 246 THEN pending ELSE TRUE
    /\ CASE c = 240 /\ Performs -> SysExStart
         [] c = 247 /\ Performs -> SysExEnd
         [] OTHER               -> NoSysEx
    /\ UNCHANGED status

RealTimeByte(c) ==
    /\ c >= 248
    /\ calls' = <<>> /\ UNCHANGED decoder

ThirdByte(c) ==
    /\ c < 128 /\ byte3
    /\ d2' = c /\ byte3' = FALSE /\ pending' = FALSE
    /\ UNCHANGED <<sysExState, runningStatus, status, d1>>
    /\ ProcessMIDIMessage

\* Messages of three bytes wait for the third one.
FirstOfTwo(c) ==
    /\ c < 128 /\ ~byte3 /\ runningStatus \in (128 .. 191) \union (224 .. 239)
    /\ status' = runningStatus
    /\ d1' = c /\ pending' = TRUE /\ byte3' = TRUE
    /\ calls' = <<>> /\ UNCHANGED <<sysExState, runningStatus, d2, flags>>

OnlyData(c) ==
    /\ c < 128 /\ ~byte3 /\ runningStatus \in 192 .. 223
    /\ status' = runningStatus
    /\ d1' = c /\ pending' = FALSE
    /\ UNCHANGED <<byte3, sysExState, runningStatus, d2>>
    /\ ProcessMIDIMessage

SysExByte(c) ==
    /\ c < 128 /\ ~byte3 /\ runningStatus = 240
    /\ status' = runningStatus
    /\ IF Performs THEN SysExData(c) ELSE NoSysEx
    /\ UNCHANGED <<byte3, pending, runningStatus>>

\* The other system messages clear the running status; a song position has
\* another byte.
SystemByte(c) ==
    /\ c < 128 /\ ~byte3 /\ runningStatus \in 241 .. 247
    /\ status' = runningStatus /\ runningStatus' = 0
    /\ IF status' = 242 THEN byte3' = TRUE /\ UNCHANGED pending
       ELSE pending' = FALSE /\ UNCHANGED byte3
    /\ calls' = <<>> /\ UNCHANGED <<sysExState, d1, d2, flags>>

\* Data without a status byte.
StrayByte(c) ==
    /\ c < 128 /\ ~byte3 /\ runningStatus = 0
    /\ pending' = FALSE
    /\ calls' = <<>>
    /\ UNCHANGED <<byte3, sysExState, runningStatus, status, d1, d2, flags>>

EAS_ParseMIDIStream(c) ==
    \/ StatusByte(c) \/ RealTimeByte(c)
    \/ ThirdByte(c) \/ FirstOfTwo(c) \/ OnlyData(c)
    \/ SysExByte(c) \/ SystemByte(c) \/ StrayByte(c)

-----------------------------------------------------------------------------
(* The wire.                                                               *)

\* Only real-time bytes may come within a message, and a system exclusive
\* message ends with its end byte.
WellFormed(c) ==
    \/ CutMessages \/ c \notin 128 .. 247
    \/ /\ pending => c < 240
       /\ Wire!TableOpen => c \in {240, 247}

\* The message under way, after byte c.
History(c) ==
    LET m == Append(since, c) IN
    /\ last' = IF c \in 128 .. 247 THEN c
               ELSE IF c < 128 /\ last > 240 /\ Len(m) = Wire!DataBytes(last) THEN 0
               ELSE last
    /\ since' = IF c >= 248 THEN since
                ELSE IF c >= 128 \/ last \notin 128 .. 243 THEN <<>>
                ELSE IF last = 240
                     THEN IF since # Wire!Unknown /\ Wire!MayMean(m) THEN m ELSE Wire!Unknown
                ELSE IF Len(m) < Wire!DataBytes(last) THEN m ELSE <<>>

Push ==
    \E c \in Bytes :
        /\ WellFormed(c)
        /\ EAS_ParseMIDIStream(c)
        /\ History(c)
        /\ UNCHANGED parserMode

\* EAS_InitMIDIStream, when SMF_Reset starts the tracks anew: a system
\* exclusive message that was cut stays as it is.
EAS_InitMIDIStream ==
    /\ CutMessages \/ ~Wire!TableOpen
    /\ byte3' = FALSE /\ pending' = FALSE /\ runningStatus' = 0 /\ status' = 0
    /\ parserMode' \in Wire!Modes
    /\ calls' = <<>> /\ last' = 0 /\ since' = <<>>
    /\ UNCHANGED <<sysExState, d1, d2, flags>>

Next == Push \/ EAS_InitMIDIStream

Spec == Init /\ [][Next]_vars

-----------------------------------------------------------------------------
(* Properties.                                                             *)

\* The decoder remembers values of its C types.
TypeOK ==
    /\ byte3 \in BOOLEAN /\ pending \in BOOLEAN
    /\ sysExState \in SysExStates
    /\ runningStatus \in {0} \union 128 .. 247 /\ status \in {0} \union 128 .. 247
    /\ d1 \in 0 .. 127 /\ d2 \in 0 .. 127
    /\ flags \subseteq {"FIRST_NOTE", "GM_ON"}

\* A decoder that waits for a third byte says so to the parser of the file,
\* which does not go on to the next delta time then.
NotHalfRead == byte3 => pending

\* What the decoder calls is what the wire means, byte for byte: each message
\* once and whole, by running status too, notes only in play mode, and nothing
\* for data without a status or a message that is cut.  pending says when the
\* parser of a file has read a message to its end.
DecodesWire == Wire!Spec
=============================================================================
