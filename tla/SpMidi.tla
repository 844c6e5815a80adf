------------------------------- MODULE SpMidi -------------------------------
(***************************************************************************)
(* Scalable polyphony (SP-MIDI) in eas_voicemgt.c, for one synthesizer.  A *)
(* message lists the channels in order of priority, each with the voices   *)
(* that it and all channels before it need (its MIP).  Channels that ask   *)
(* for more voices than there are get muted; the others share out the      *)
(* voices in pools, whose counts say which channel has too many.  The      *)
(* message comes entry by entry, and notes, frames and calls in between.   *)
(*                                                                         *)
(* The life of a voice is that of VoiceManager, without keys: key groups   *)
(* and deferrals are there, and so is VMAllNotesOff, which forgets the     *)
(* pools altogether.                                                       *)
(***************************************************************************)
EXTENDS Integers, FiniteSets

CONSTANTS
    Voices,
    NUM_SYNTH_CHANNELS,
    Mips,           \* the MIP values of messages
    Limits,         \* values EAS_SetPolyphony is called with
    SynthLimits,    \* values EAS_SetSynthPolyphony is called with
    PedalChannels,  \* the channels on which the pedal is used
    PoolModulus     \* pool counts are unsigned of 8 bits: 2^8

Channels == 0 .. NUM_SYNTH_CHANNELS - 1
NoChannel == -1     \* UNASSIGNED_SYNTH_CHANNEL

ASSUME SpMidiAssumption ==
    /\ IsFiniteSet(Voices) /\ Voices # {}
    /\ NUM_SYNTH_CHANNELS \in Nat \ {0}
    /\ Mips \subseteq 1 .. 127
    /\ Limits \subseteq 0 .. Cardinality(Voices)
    /\ SynthLimits \subseteq 1 .. Cardinality(Voices)
    /\ PedalChannels \subseteq Channels
    /\ PoolModulus \in Nat /\ 2 * Cardinality(Voices) < PoolModulus

VARIABLES
    voice,          \* S_VOICE_MGR.voices
    chan,           \* S_SYNTH.channels: pool, mip, CHANNEL_FLAG_MUTE
    pedal,          \* the channels with the sustain pedal down
    poolCount, poolAlloc,
    spMidi,         \* SYNTH_FLAG_SP_MIDI_ON
    resetReq,       \* SYNTH_FLAG_RESET_IS_REQUESTED
    synthPoly,      \* S_SYNTH.maxPolyphony, 0 for no limit
    maxPoly,        \* S_VOICE_MGR.maxPolyphony
    entries,        \* entries of the message under way, -1 for none
    inForce         \* history: what the message in force lists: "none",
                    \* "some" channels, or "all" of them with rising MIPs

limits == <<synthPoly, maxPoly>>
pools  == <<poolCount, poolAlloc>>
vars   == <<voice, chan, pedal, pools, spMidi, resetReq, limits, entries, inForce>>

Wrap(n) == n % PoolModulus
Least(a, b) == IF a < b THEN a ELSE b

FreeVoice == [state |-> "Free", channel |-> NoChannel, next |-> NoChannel, held |-> FALSE]

Busy    == {v \in Voices : voice[v].state # "Free"}
Unmuted == {v \in Busy : voice[v].state # "Muting"}

\* A stolen voice is counted and muted under its next note.
Target(vr) == IF vr.state = "Stolen" THEN vr.next ELSE vr.channel
OfChannel(c) == {v \in Busy : Target(voice[v]) = c}

\* VMInitializeAllChannels.
CleanChannels == [c \in Channels |-> [chan[c] EXCEPT !.pool = 0, !.mute = FALSE]]

Init ==
    /\ voice = [v \in Voices |-> FreeVoice]
    /\ chan = [c \in Channels |-> [pool |-> 0, mip |-> 0, mute |-> FALSE]]
    /\ pedal = {} /\ spMidi = FALSE /\ resetReq = FALSE
    /\ poolCount = [p \in Channels |-> 0]
    /\ poolAlloc = [p \in Channels |-> IF p = 0 THEN Cardinality(Voices) ELSE 0]
    /\ synthPoly = 0 /\ maxPoly = Cardinality(Voices)
    /\ entries = -1 /\ inForce = "none"

-----------------------------------------------------------------------------
(* The counts of the pools.                                                *)

Muted(vr)    == [vr EXCEPT !.state = "Muting", !.held = FALSE]
Released(vr) == IF vr.state \in {"Muting", "Release"} THEN vr
                ELSE [vr EXCEPT !.state = "Release"]

\* Counts n after DecVoicePoolCount of the voices vs of f, by the pools of chs.
PoolLess(n, f, vs, chs) ==
    [p \in Channels |-> Wrap(n[p] - Cardinality(
        {v \in vs : f[v].state # "Muting" /\ chs[Target(f[v])].pool = p}))]

\* IncVoicePoolCount of a voice for channel c.
PoolMore(n, c) == [n EXCEPT ![chan[c].pool] = Wrap(@ + 1)]

\* VMMuteVoice of the voices vs of f.
MuteIn(f, vs) == [v \in Voices |-> IF v \in vs /\ f[v].state # "Free"
                                   THEN Muted(f[v]) ELSE f[v]]

-----------------------------------------------------------------------------
(* VMMIPUpdateChannelMuting, with channels chs and the limits sp and mp.   *)

ChannelMuting(chs, sp, mp) ==
    LET limit == IF sp # 0 THEN sp ELSE mp
    IN  [c \in Channels |->
            [chs[c] EXCEPT !.mute = chs[c].mip = 0 \/ chs[c].mip > limit]]

\* Mutant of Silenced: stolen voices begin their note all the same.
SilencedUnlessStolen(chs) ==
    [v \in Voices |->
        IF v \notin Busy \/ ~chs[Target(voice[v])].mute \/ voice[v].state = "Stolen"
        THEN voice[v] ELSE Released(voice[v])]

\* The voices of muted channels go down.
Silenced(chs) ==
    [v \in Voices |->
        IF v \notin Busy \/ ~chs[Target(voice[v])].mute THEN voice[v]
        ELSE IF voice[v].state = "Stolen" THEN [voice[v] EXCEPT !.state = "Muting"]
        ELSE Released(voice[v])]

\* Mutant of Recount: the voices of muted channels are not counted.
RecountUnmuted(chs) ==
    [p \in Channels |-> Cardinality(
        {v \in Busy : chs[Target(voice[v])].pool = p /\ ~chs[Target(voice[v])].mute})]

\* Every voice of the pool that is left, muting ones of unmuted channels too.
Recount(chs) ==
    [p \in Channels |-> Cardinality(
        {v \in Busy : /\ chs[Target(voice[v])].pool = p
                      /\ chs[Target(voice[v])].mute
                            => voice[v].state \notin {"Stolen", "Muting"}})]

-----------------------------------------------------------------------------
(* The message.                                                            *)

\* VMInitMIPTable.
ClearTable(chs) == [c \in Channels |-> [chs[c] EXCEPT !.pool = 0, !.mip = 0]]

VMInitMIPTable ==
    /\ chan' = ClearTable(chan)
    /\ spMidi' = FALSE /\ inForce' = "none"
    /\ UNCHANGED <<voice, pedal, pools, resetReq, limits>>

TableStart == entries' = 0 /\ VMInitMIPTable

\* A channel number out of range ends the message.
TableBad == entries >= 0 /\ entries' = -1 /\ VMInitMIPTable

\* VMUpdateMIPTable, with the pools and MIPs of chs: the channels in order of
\* priority, up to the first priority that no channel has.
Ranked(chs) == {p \in Channels : \A q \in 0 .. p : \E c \in Channels : chs[c].pool = q}
OfRank(chs, p) == CHOOSE c \in Channels :
    chs[c].pool = p /\ \A d \in Channels : chs[d].pool = p => d <= c
MipOfRank(chs, p) == IF p < 0 THEN 0 ELSE chs[OfRank(chs, p)].mip

\* A channel with another MIP than the one before it begins a pool; the pools
\* are numbered as they begin.
Begins(chs, p) == p = 0 \/ MipOfRank(chs, p) # MipOfRank(chs, p - 1)
PoolNumber(chs, p) == Cardinality({q \in 1 .. p : Begins(chs, q)})

\* Only a channel that joins the pool before it is told its number.
Pooled(chs) ==
    [c \in Channels |->
        LET p == chs[c].pool IN
        IF p \in Ranked(chs) /\ OfRank(chs, p) = c /\ ~Begins(chs, p)
        THEN [chs[c] EXCEPT !.pool = PoolNumber(chs, p)] ELSE chs[c]]

\* Mutant of Allocated: a pool gets the voices of the pools before it too.
AllocatedAll(chs) ==
    [n \in Channels |->
        LET first == {p \in Ranked(chs) : Begins(chs, p) /\ PoolNumber(chs, p) = n}
        IN  IF first = {} THEN poolAlloc[n]
            ELSE LET p == CHOOSE q \in first : TRUE IN Wrap(MipOfRank(chs, p))]

Allocated(chs) ==
    [n \in Channels |->
        LET first == {p \in Ranked(chs) : Begins(chs, p) /\ PoolNumber(chs, p) = n}
        IN  IF first = {} THEN poolAlloc[n]
            ELSE LET p == CHOOSE q \in first : TRUE
                 IN  Wrap(MipOfRank(chs, p) - MipOfRank(chs, p - 1))]

\* Every channel was listed, those of lower priority with higher MIPs.
Regular(chs) ==
    \A c, d \in Channels :
        chs[c].mip # 0 /\ (c # d => chs[c].pool # chs[d].pool
                                    /\ (chs[c].pool < chs[d].pool => chs[c].mip < chs[d].mip))

VMUpdateMIPTable(chs) ==
    LET new == ChannelMuting(Pooled(chs), synthPoly, maxPoly)
    IN  /\ chan' = new
        /\ poolAlloc' = Allocated(chs)
        /\ voice' = Silenced(new) /\ poolCount' = Recount(new)
        /\ spMidi' = TRUE
        /\ inForce' = IF resetReq THEN "none" ELSE IF Regular(chs) THEN "all" ELSE "some"
        /\ UNCHANGED <<pedal, resetReq, limits>>

\* VMSetMIPEntry; the last possible entry ends the message.
VMSetMIPEntry(c, mip) ==
    LET chs == [chan EXCEPT ![c].pool = entries, ![c].mip = mip]
    IN  /\ entries >= 0
        /\ IF entries + 1 = NUM_SYNTH_CHANNELS
           THEN entries' = -1 /\ VMUpdateMIPTable(chs)
           ELSE /\ entries' = entries + 1 /\ chan' = chs
                /\ UNCHANGED <<voice, pedal, pools, spMidi, resetReq, limits, inForce>>

TableEnd ==
    /\ entries >= 0
    /\ entries' = -1 /\ VMUpdateMIPTable(chan)

SpMidiMessage ==
    \/ TableStart \/ TableBad \/ TableEnd
    \/ \E c \in Channels, mip \in Mips : VMSetMIPEntry(c, mip)

-----------------------------------------------------------------------------
(* Notes, the pedal and frames.                                            *)

\* A note of an unmuted channel starts a free voice or steals one.
VMStartNote(c) ==
    LET room == /\ Cardinality(Busy) < maxPoly /\ Busy # Voices
                /\ synthPoly # 0 => Cardinality(Busy) < synthPoly
    IN  /\ ~chan[c].mute
        /\ IF room
           THEN \E v \in Voices \ Busy :
                   /\ voice' = [voice EXCEPT ![v] =
                                   [FreeVoice EXCEPT !.state = "Play", !.channel = c]]
                   /\ poolCount' = PoolMore(poolCount, c)
           ELSE \E v \in Busy :
                   /\ voice' = [voice EXCEPT ![v].state = "Stolen", ![v].next = c,
                                             ![v].held = FALSE]
                   /\ poolCount' = PoolMore(PoolLess(poolCount, voice, {v}, chan), c)
        /\ UNCHANGED <<chan, pedal, poolAlloc, spMidi, resetReq, limits, entries, inForce>>

VoicesOnly ==
    UNCHANGED <<chan, pedal, pools, spMidi, resetReq, limits, entries, inForce>>

\* The note-off of a voice, at once or, for a voice that has just started or
\* is stolen, later.  The pedal holds the note.
VMStopNote(v) ==
    /\ voice[v].state \in {"Play", "Release"}
    /\ voice' = [voice EXCEPT ![v] = IF voice[v].channel \in pedal
                                     THEN [@ EXCEPT !.held = TRUE] ELSE Released(@)]
    /\ VoicesOnly

\* The pedal catches releasing voices, those of muted channels too.
SustainPedalOn(c) ==
    /\ c \in PedalChannels \ pedal
    /\ pedal' = pedal \union {c}
    /\ \E vs \in SUBSET {v \in OfChannel(c) : voice[v].state = "Release"} :
          voice' = [v \in Voices |-> IF v \in vs
                       THEN [voice[v] EXCEPT !.state = "Play", !.held = TRUE] ELSE voice[v]]
    /\ UNCHANGED <<chan, pools, spMidi, resetReq, limits, entries, inForce>>

SustainPedalOff(c) ==
    /\ c \in pedal
    /\ pedal' = pedal \ {c}
    /\ voice' = [v \in Voices |-> IF voice[v].held /\ voice[v].channel = c
                    THEN [Released(voice[v]) EXCEPT !.held = FALSE] ELSE voice[v]]
    /\ UNCHANGED <<chan, pools, spMidi, resetReq, limits, entries, inForce>>

VMMuteAllVoices ==
    /\ voice' = MuteIn(voice, Busy)
    /\ poolCount' = PoolLess(poolCount, voice, Busy, chan)
    /\ UNCHANGED <<chan, pedal, poolAlloc, spMidi, resetReq, limits, entries, inForce>>

\* VMRetargetStolenVoice looks at the channel the voice leaves.
Dropped(v) == voice[v].state = "Stolen" /\ spMidi /\ chan[voice[v].channel].mute

\* A voice that has come to its end is freed, a stolen one begins its note.
Ended(v) ==
    IF voice[v].state # "Stolen" \/ Dropped(v) THEN FreeVoice
    ELSE [FreeVoice EXCEPT !.state = "Play", !.channel = voice[v].next]

\* VMRender: the voices of done have come to their end.  A reset that waited
\* is completed when no voice is left.
VMRender(done) ==
    LET f     == [v \in Voices |-> IF v \in done THEN Ended(v) ELSE voice[v]]
        reset == resetReq /\ \A v \in Voices : f[v].state = "Free"
    IN  /\ voice' = f
        /\ poolCount' = PoolLess(poolCount, voice,
                            {v \in done : f[v].state = "Free"}, chan)
        /\ chan' = IF reset THEN CleanChannels ELSE chan
        /\ pedal' = IF reset THEN {} ELSE pedal
        /\ resetReq' = (resetReq /\ ~reset)
        /\ UNCHANGED <<poolAlloc, spMidi, limits, entries, inForce>>

Frame == \E done \in SUBSET Busy : VMRender(done)

-----------------------------------------------------------------------------
(* Resets and polyphony.                                                   *)

\* What VMReset does when no voice is left.
CompleteReset ==
    /\ chan' = CleanChannels /\ pedal' = {}
    /\ poolCount' = [p \in Channels |-> 0]
    /\ poolAlloc' = [poolAlloc EXCEPT ![0] = IF synthPoly < maxPoly THEN maxPoly ELSE synthPoly]
    /\ resetReq' = FALSE

\* SMF_Reset.
VMResetForce ==
    /\ voice' = [v \in Voices |-> FreeVoice]
    /\ CompleteReset
    /\ inForce' = "none"
    /\ UNCHANGED <<spMidi, limits, entries>>

\* General MIDI On: VMReset, which waits for the voices, and VMInitMIPTable.
GMOn ==
    /\ IF Busy = {}
       THEN /\ chan' = ClearTable(CleanChannels) /\ pedal' = {}
            /\ poolCount' = [p \in Channels |-> 0]
            /\ poolAlloc' = [poolAlloc EXCEPT
                    ![0] = IF synthPoly < maxPoly THEN maxPoly ELSE synthPoly]
            /\ resetReq' = FALSE /\ UNCHANGED voice
       ELSE /\ voice' = MuteIn(voice, Busy)
            /\ poolCount' = PoolLess(poolCount, voice, Busy, chan)
            /\ chan' = ClearTable(chan)
            /\ resetReq' = TRUE /\ UNCHANGED <<pedal, poolAlloc>>
    /\ spMidi' = FALSE /\ inForce' = "none"
    /\ entries' = -1
    /\ UNCHANGED limits

\* What the limits sp and mp leave of the channels, the voices and the counts:
\* with a table in force the channels are looked at again.
Limited(sp, mp) ==
    LET new == ChannelMuting(chan, sp, mp)
    IN  IF spMidi THEN [chs |-> new, f |-> Silenced(new), n |-> Recount(new)]
        ELSE [chs |-> chan, f |-> voice, n |-> poolCount]

\* Then voices vs are muted.
LimitAndMute(l, count, vs) ==
    /\ chan' = l.chs
    /\ voice' = MuteIn(l.f, vs)
    /\ poolCount' = PoolLess(l.n, l.f, vs, l.chs)
    /\ poolAlloc' = IF spMidi THEN poolAlloc ELSE [poolAlloc EXCEPT ![0] = count]
    /\ UNCHANGED <<pedal, spMidi, resetReq, entries, inForce>>

\* Mutant of VMSetSynthPolyphony: the channels are not looked at again.
VMSetSynthPolyphonyOnly(count) ==
    /\ count # maxPoly
    /\ maxPoly' = count
    /\ UNCHANGED <<voice, chan, pedal, pools, spMidi, resetReq, synthPoly, entries, inForce>>

VMSetSynthPolyphony(count) ==
    LET l      == Limited(synthPoly, count)
        sounds == {v \in Voices : l.f[v].state \notin {"Free", "Muting"}}
        excess == Cardinality(sounds) - count
    IN  /\ count # maxPoly
        /\ maxPoly' = count
        /\ \E vs \in SUBSET sounds :
              /\ Cardinality(vs) = IF excess > 0 THEN excess ELSE 0
              /\ LimitAndMute(l, count, vs)
        /\ UNCHANGED synthPoly

\* No limit changes nothing else.  A limit finds only voices that have, or
\* had, a next channel, and may choose muting ones.
VMSetPolyphony(count) ==
    LET l      == Limited(count, maxPoly)
        limit  == Least(count, maxPoly)
        cands  == {v \in Voices : l.f[v].next # NoChannel}
        excess == Cardinality({v \in cands : l.f[v].state \notin {"Free", "Muting"}}) - limit
    IN  /\ synthPoly' = count
        /\ IF count = 0
           THEN UNCHANGED <<voice, chan, pedal, pools, spMidi, resetReq, entries, inForce>>
           ELSE \E vs \in SUBSET cands :
                   /\ IF Cardinality(Busy) <= limit \/ excess <= 0 THEN vs = {}
                      ELSE Cardinality(vs) \in 1 .. excess
                   /\ LimitAndMute(l, limit, vs)
        /\ UNCHANGED maxPoly

-----------------------------------------------------------------------------
Call ==
    \/ VMMuteAllVoices \/ VMResetForce
    \/ \E count \in Limits : VMSetPolyphony(count)
    \/ \E count \in SynthLimits : VMSetSynthPolyphony(count)

Message ==
    \/ SpMidiMessage \/ GMOn
    \/ \E v \in Voices : VMStopNote(v)
    \/ \E c \in Channels : VMStartNote(c) \/ SustainPedalOn(c) \/ SustainPedalOff(c)

Next == Call \/ Message \/ Frame

Spec == Init /\ [][Next]_vars

-----------------------------------------------------------------------------
(* Properties.                                                             *)

TypeOK ==
    /\ voice \in [Voices -> [state : {"Free", "Play", "Release", "Muting", "Stolen"},
                             channel : Channels \union {NoChannel},
                             next : Channels \union {NoChannel}, held : BOOLEAN]]
    /\ chan \in [Channels -> [pool : Channels, mip : Mips \union {0}, mute : BOOLEAN]]
    /\ pedal \subseteq PedalChannels
    /\ poolCount \in [Channels -> 0 .. PoolModulus - 1]
    /\ poolAlloc \in [Channels -> 0 .. PoolModulus - 1]
    /\ spMidi \in BOOLEAN /\ resetReq \in BOOLEAN
    /\ inForce \in {"none", "some", "all"}
    /\ synthPoly \in Limits \union {0}
    /\ maxPoly \in SynthLimits \union {Cardinality(Voices)}
    /\ entries \in -1 .. NUM_SYNTH_CHANNELS - 1

\* VMMIPUpdateChannelMuting "is called after an SP-MIDI message is received
\* and any time the allocated polyphony changes": while a table is in force, a
\* channel is muted exactly if the voices there are do not reach up to it.
MutedExact ==
    inForce # "none" => \A c \in Channels :
        LET limit == IF synthPoly = 0 THEN maxPoly ELSE Least(synthPoly, maxPoly)
        IN  chan[c].mute <=> chan[c].mip = 0 \/ chan[c].mip > limit

\* A voice of a muted channel is going down, or the pedal caught it on its way.
MutedGoesDown ==
    \A v \in Busy :
        chan[Target(voice[v])].mute /\ voice[v].state \notin {"Release", "Muting"}
        => voice[v].held

\* While a table is in force no pool counts fewer voices than it has.  One
\* that did would wrap below zero to 255 when they end, and its channels would
\* give up their voices first from then on.
PoolsCover ==
    spMidi => \A p \in Channels :
        poolCount[p] >= Cardinality({v \in Unmuted : chan[Target(voice[v])].pool = p})

\* "when 2 or more channels have the same MIP setting, they share a common
\* voice pool".
SameMipSharesPool ==
    inForce # "none" => \A c, d \in Channels :
        chan[c].mip = chan[d].mip /\ chan[c].mip # 0 => chan[c].pool = chan[d].pool

\* When a message lists all channels with strictly rising MIPs, each has a pool
\* of its own, with the voices it adds to those of the channels before it.
PoolsShareVoices ==
    inForce = "all" => \A c, d \in {e \in Channels : chan[e].mip # 0} :
        LET below == {m \in Mips \union {0} : m < chan[c].mip /\
                         (m = 0 \/ \E e \in Channels : chan[e].mip = m)}
        IN  /\ chan[c].pool = chan[d].pool => chan[c].mip = chan[d].mip
            /\ \E b \in below : /\ \A m \in below : m <= b
                                /\ poolAlloc[chan[c].pool] = chan[c].mip - b

-----------------------------------------------------------------------------
(* What comments of the code say, and the code does not do.                *)

\* "bad MIP message - unmute channels": without a table no channel is muted.
UnmutedWithoutTable == ~spMidi => \A c \in Channels : ~chan[c].mute

\* VMUpdateMIPTable "assigns channels to the appropriate voice pool based on the
\* MIP setting and calculates the voices allocated for each pool": a channel that
\* is heard is in a pool with voices.  Behind two channels of one MIP a channel
\* that begins a pool stays where its priority puts it, one further on.
HeardHasPool ==
    inForce # "none" /\ (\A c \in Channels : chan[c].mip # 0) =>
        \A c \in Channels : ~chan[c].mute => poolAlloc[chan[c].pool] > 0

\* "make sure new channel hasn't been muted by SP-MIDI since the voice was
\* stolen": the note of an unmuted channel is not dropped.
PendingNotePlays == [][
    Frame => \A v \in Voices :
        voice[v].state = "Stolen" /\ ~chan[voice[v].next].mute
        => voice'[v].state # "Free"]_vars
=============================================================================
