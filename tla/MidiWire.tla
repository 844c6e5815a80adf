------------------------------ MODULE MidiWire ------------------------------
(***************************************************************************)
(* What the bytes of a MIDI wire mean to a synthesizer: a message is its   *)
(* status byte and the data bytes behind it, the status of a channel       *)
(* message serves for the messages that follow it, and real-time bytes may *)
(* come anywhere.  It is stated over whole messages; MidiStream decodes    *)
(* them byte by byte.                                                      *)
(***************************************************************************)
EXTENDS Integers, Sequences

CONSTANTS
    Bytes,              \* the bytes that may come, a subset of 0 .. 255
    NUM_SYNTH_CHANNELS

VARIABLES
    parserMode, \* how the bytes are parsed; "mute": a track is muted, or the
                \* song is located, which is the same here
    last,       \* the last status byte, real-time ones excepted
    since,      \* the data bytes of the message under way, or Unknown
    open,       \* a message has begun that is not complete
    heard       \* what the last byte made the synthesizer do

vars == <<parserMode, last, since, open, heard>>

Unknown == <<-1>>   \* a message without a meaning, up to the next status byte
Modes   == {"play", "mute", "metadata"}

IsStatus(c)   == c >= 128
IsRealTime(c) == c >= 248
SYSEX == 240
EOX   == 247

\* How many data bytes a message has.
DataBytes(status) ==
    IF status \in (128 .. 191) \union (224 .. 239) \union {242} THEN 2
    ELSE IF status \in (192 .. 223) \union {241, 243} THEN 1 ELSE 0

Channel(status) == status % 16
Command(status) == status - Channel(status)

\* What a whole channel message asks of the synthesizer.
ChannelCall(status, d1, d2) ==
    CASE Command(status) = 144 /\ d2 # 0 -> <<"VMStartNote", Channel(status), d1, d2>>
      [] Command(status) = 144 /\ d2 = 0 -> <<"VMStopNote", Channel(status), d1, d2>>
      [] Command(status) = 128           -> <<"VMStopNote", Channel(status), d1, d2>>
      [] Command(status) = 176           -> <<"VMControlChange", Channel(status), d1, d2>>
      [] Command(status) = 192           -> <<"VMProgramChange", Channel(status), d1>>
      [] Command(status) = 208           -> <<"VMChannelPressure", Channel(status), d1>>
      [] Command(status) = 224           -> <<"VMPitchBend", Channel(status), d1, d2>>
      [] OTHER                           -> <<>>

\* Notes start only in play mode, and nothing is done to look for metadata.
InMode(call) ==
    IF \/ call = <<>> \/ parserMode = "metadata"
       \/ call # <<>> /\ call[1] = "VMStartNote" /\ parserMode # "play"
    THEN <<>> ELSE <<call>>

-----------------------------------------------------------------------------
(* System exclusive messages, by the data bytes m received so far.         *)

\* m begins with h, or is a beginning of it.
Starts(m, h)  == Len(h) <= Len(m) /\ \A i \in 1 .. Len(h) : m[i] = h[i]
StartOf(m, h) == Len(m) <= Len(h) /\ \A i \in 1 .. Len(m) : m[i] = h[i]

GMHead     == <<126, 127, 9>>
VolumeHead == <<127, 127, 4, 1>>
MipHead    == <<127, 127, 11, 1>>

GMOn(m)   == Len(m) = 4 /\ Starts(m, GMHead) /\ m[4] \in {1, 3}
Volume(m) == Len(m) = 6 /\ Starts(m, VolumeHead)

\* SP-MIDI: pairs of a channel and its MIP, in the order of priority.
IsMip(m)      == Starts(m, MipHead)
InPair(m)     == (Len(m) - 4) % 2 = 1
MipPairs(m)   == (Len(m) - 4) \div 2
BadChannel(m) == IsMip(m) /\ InPair(m) /\ m[Len(m)] >= NUM_SYNTH_CHANNELS

MipCalls(m) ==
    IF Len(m) = 4 \/ BadChannel(m) THEN << <<"VMInitMIPTable">> >>
    ELSE IF InPair(m) THEN <<>>
    ELSE << <<"VMSetMIPEntry", m[Len(m) - 1], MipPairs(m) - 1, m[Len(m)]>> >> \o
         IF MipPairs(m) = NUM_SYNTH_CHANNELS THEN << <<"VMUpdateMIPTable">> >> ELSE <<>>

SysExCalls(m) ==
    IF parserMode = "metadata" THEN <<>>
    ELSE IF GMOn(m) THEN << <<"VMReset">>, <<"VMInitMIPTable">> >>
    ELSE IF Volume(m) THEN << <<"VMSetVolume", m[5], m[6]>> >>
    ELSE IF IsMip(m) THEN MipCalls(m)
    ELSE <<>>

\* Whether more bytes may give m a meaning.
MayMean(m) ==
    \/ \E h \in {GMHead, VolumeHead, MipHead} : StartOf(m, h)
    \/ Len(m) = 5 /\ Starts(m, VolumeHead)
    \/ IsMip(m) /\ ~BadChannel(m) /\ MipPairs(m) < NUM_SYNTH_CHANNELS

\* A table of MIPs that its message has not finished.
TableOpen == last = SYSEX /\ since # Unknown /\ IsMip(since)

-----------------------------------------------------------------------------

Init ==
    /\ parserMode \in Modes
    /\ last = 0 /\ since = <<>> /\ open = FALSE /\ heard = <<>>

Status(c) ==
    /\ IsStatus(c) /\ ~IsRealTime(c)
    /\ heard' = IF c = EOX /\ TableOpen /\ ~InPair(since) /\ parserMode # "metadata"
                THEN << <<"VMUpdateMIPTable">> >> ELSE <<>>
    /\ last' = c /\ since' = <<>> /\ open' = (DataBytes(c) > 0)
    /\ UNCHANGED parserMode

RealTime(c) ==
    /\ IsRealTime(c)
    /\ heard' = <<>>
    /\ UNCHANGED <<parserMode, last, since, open>>

\* Data of a message of known length; a system message has no running status.
MessageData(c) ==
    /\ ~IsStatus(c) /\ DataBytes(last) > 0
    /\ LET m == Append(since, c)
       IN  IF Len(m) < DataBytes(last)
           THEN since' = m /\ open' = TRUE /\ heard' = <<>> /\ UNCHANGED last
           ELSE /\ since' = <<>> /\ open' = FALSE
                /\ heard' = InMode(ChannelCall(last, m[1], c))
                /\ last' = IF last >= SYSEX THEN 0 ELSE last
    /\ UNCHANGED parserMode

SysExData(c) ==
    /\ ~IsStatus(c) /\ last = SYSEX
    /\ LET m == Append(since, c)
       IN  IF since = Unknown
           THEN since' = Unknown /\ heard' = <<>>
           ELSE /\ since' = IF MayMean(m) THEN m ELSE Unknown
                /\ heard' = SysExCalls(m)
    /\ UNCHANGED <<parserMode, last, open>>

\* Data that belong to no message.
StrayData(c) ==
    /\ ~IsStatus(c) /\ last # SYSEX /\ DataBytes(last) = 0
    /\ heard' = <<>> /\ open' = FALSE
    /\ UNCHANGED <<parserMode, last, since>>

Restart ==
    /\ parserMode' \in Modes
    /\ last' = 0 /\ since' = <<>> /\ open' = FALSE /\ heard' = <<>>

Byte(c) == Status(c) \/ RealTime(c) \/ MessageData(c) \/ SysExData(c) \/ StrayData(c)

Next == (\E c \in Bytes : Byte(c)) \/ Restart

Spec == Init /\ [][Next]_vars
=============================================================================
