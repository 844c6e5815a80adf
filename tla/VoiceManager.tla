---------------------------- MODULE VoiceManager ----------------------------
(***************************************************************************)
(* The voice manager of the synthesizer (lib_src/eas_voicemgt.c): one pool *)
(* of voices shared by the virtual synthesizers (one per open MIDI         *)
(* stream).  A note takes a free voice or steals a busy one; a stolen      *)
(* voice ramps its old note down and only then starts the new one, so for  *)
(* a frame or two it belongs to two notes, possibly of two synthesizers.   *)
(*                                                                         *)
(* What is kept: voice states, the channel/note/region of the sounding and *)
(* of the pending note, the four deferral flags, the counters, polyphony   *)
(* limits, the sustain pedal, and the order of the steps of a frame.  What *)
(* is abstracted: the age/gain/velocity priority that picks WHICH voice to *)
(* steal (any eligible voice), the envelope that decides WHEN a voice is   *)
(* done (any voice may finish in any frame), gain (silent or not).         *)
(* SP-MIDI messages are not received: every channel is in pool 0, unmuted. *)
(***************************************************************************)
EXTENDS Integers, FiniteSets

CONSTANTS
    Voices,         \* the voices of the pool (MAX_SYNTH_VOICES of them)
    NumSynths,      \* MAX_VIRTUAL_SYNTHESIZERS
    Channels,       \* MIDI channels of a virtual synthesizer
    Notes,          \* MIDI keys
    DefaultKey,     \* DEFAULT_KEY_NUMBER, the key a free voice carries
    Regions,        \* sound-library regions a note may select
    DefaultRegion,  \* DEFAULT_REGION_INDEX, the region of a free voice
    KeyGroup,       \* key group of each region, 0 for none
    SelfExclusive,  \* regions subject to the two-voices-per-key limit
    Limits,         \* values EAS_SetPolyphony is called with, 0 for no limit
    SynthLimits,    \* values EAS_SetSynthPolyphony is called with
    Priorities,     \* values EAS_SetPriority is called with
    DefaultPriority,\* DEFAULT_SYNTH_PRIORITY
    MaxRefs,        \* bound on the references held on one synthesizer
    CountModulus,   \* voice counters are unsigned of 16 bits: 2^16
    PoolModulus     \* pool counters are unsigned of 8 bits: 2^8

Synths == 0 .. NumSynths - 1

\* UNASSIGNED_SYNTH_CHANNEL is 16: read back through GET_VSYNTH and
\* GET_CHANNEL it is channel 0 of virtual synthesizer 1.
Unassigned == <<1, 0>>

ASSUME VoicesAssumption ==
    /\ IsFiniteSet(Voices) /\ Voices # {}
    /\ CountModulus \in Nat /\ Cardinality(Voices) < CountModulus
    /\ PoolModulus \in Nat /\ Cardinality(Voices) < PoolModulus
ASSUME ConstantsAssumption ==
    /\ NumSynths \in Nat \ {0}
    /\ 0 \in Channels
    /\ DefaultRegion \in Regions
    /\ KeyGroup \in [Regions -> Nat]
    /\ SelfExclusive \subseteq Regions
    /\ Limits \subseteq 0 .. Cardinality(Voices)
    /\ SynthLimits \subseteq 1 .. Cardinality(Voices)
    /\ DefaultPriority \in Priorities /\ Priorities \subseteq Nat
    /\ MaxRefs \in Nat \ {0}

VARIABLES
    voice,          \* S_VOICE_MGR.voices
    activeVoices,   \* S_VOICE_MGR.activeVoices (16 bits)
    maxPolyphony,   \* S_VOICE_MGR.maxPolyphony
    numActive,      \* S_SYNTH.numActiveVoices of each synthesizer (16 bits)
    poolCount,      \* S_SYNTH.poolCount[0] of each synthesizer (8 bits)
    synth,          \* the other fields of S_SYNTH
    pedal,          \* channels of each synthesizer with the sustain pedal down
    phase,          \* 0..NumSynths-1: synthesizer VMRender looks at next; or idle
    crashed         \* the S_SYNTH of a closed stream was dereferenced

counters == <<activeVoices, numActive, poolCount>>
frame    == <<phase, crashed>>
vars == <<voice, counters, maxPolyphony, synth, pedal, frame>>

States == {"Free", "Start", "Play", "Release", "Muting", "Stolen"}

\* The flags pfMuteVoice and VMStolenVoice clear.
Deferrals == {"SustainDefer", "NoteOffDefer", "DeferMute"}
Flags     == Deferrals \cup {"NoSamples"}

Keys       == Notes \cup {DefaultKey}
ChannelIds == (Synths \X Channels) \cup {Unassigned}

VoiceRecords ==
    [state : States, channel : ChannelIds, note : Keys, region : Regions,
     nextChannel : ChannelIds, nextNote : Keys, nextRegion : Regions,
     flags : SUBSET Flags, silent : BOOLEAN]

SynthRecords ==
    [refCount : 0 .. MaxRefs, maxPoly : 0 .. Cardinality(Voices),
     priority : Priorities, resetReq : BOOLEAN, pending : BOOLEAN]

\* Counters are unsigned: they wrap below zero.
WrapCount(n) == n % CountModulus
WrapPool(n)  == n % PoolModulus

Idle     == phase = NumSynths
Ready    == Idle /\ ~crashed
Alive(s) == synth[s].refCount > 0

TypeOK ==
    /\ voice \in [Voices -> VoiceRecords]
    /\ activeVoices \in 0 .. CountModulus - 1
    /\ maxPolyphony \in 1 .. Cardinality(Voices)
    /\ numActive \in [Synths -> 0 .. CountModulus - 1]
    /\ poolCount \in [Synths -> 0 .. PoolModulus - 1]
    /\ synth \in [Synths -> SynthRecords]
    /\ pedal \in [Synths -> SUBSET Channels]
    /\ phase \in 0 .. NumSynths
    /\ crashed \in BOOLEAN

Busy     == {v \in Voices : voice[v].state # "Free"}
Unmuted  == {v \in Busy : voice[v].state # "Muting"}

-----------------------------------------------------------------------------
(* Operators on one voice.                                                 *)

\* InitVoice: nothing but the gain survives.
FreeVoice(vr) ==
    [state |-> "Free", channel |-> Unassigned, note |-> DefaultKey,
     region |-> DefaultRegion, nextChannel |-> Unassigned,
     nextNote |-> DefaultKey, nextRegion |-> DefaultRegion,
     flags |-> {}, silent |-> vr.silent]

\* A stolen voice is counted, matched and muted under its next note.
Target(vr)       == IF vr.state = "Stolen" THEN vr.nextChannel ELSE vr.channel
TargetNote(vr)   == IF vr.state = "Stolen" THEN vr.nextNote ELSE vr.note
TargetRegion(vr) == IF vr.state = "Stolen" THEN vr.nextRegion ELSE vr.region

\* pfMuteVoice clears the deferrals; its callers set the state.
Muted(vr) == [vr EXCEPT !.state = "Muting", !.flags = @ \ Deferrals]

\* VMReleaseVoice of a voice that is not stolen.
Released(vr) ==
    IF vr.state \in {"Free", "Muting", "Release"} THEN vr
    ELSE [vr EXCEPT !.state = "Release"]

\* pfSustainPedal of a voice above the sustain level of its envelope.  Below
\* it, pfSustainPedal leaves the voice as it is.
Held(vr) == [vr EXCEPT !.state = "Play", !.flags = @ \cup {"SustainDefer"}]

\* pfStartVoice resets the flags; `quiet' is the gain it starts from.
Started(vr, c, n, r, quiet) ==
    [FreeVoice(vr) EXCEPT !.state = "Start", !.channel = c, !.note = n,
                          !.region = r, !.flags = {"NoSamples"}, !.silent = quiet]

\* Mutant of StolenFor: the deferrals of the old note stay.
StolenForKeeping(vr, c, n, r) ==
    [vr EXCEPT !.state = "Stolen", !.nextChannel = c, !.nextNote = n,
               !.nextRegion = r]

\* VMStolenVoice.
StolenFor(vr, c, n, r) ==
    [vr EXCEPT !.state = "Stolen", !.nextChannel = c, !.nextNote = n,
               !.nextRegion = r, !.flags = @ \ Deferrals]

\* The voices of vs that DecVoicePoolCount takes out of the pool of s.
Leaving(f, vs, s) ==
    {v \in vs : f[v].state # "Muting" /\ Target(f[v])[1] = s}

\* Pool counts p after DecVoicePoolCount of every voice of vs.
PoolLess(p, f, vs) ==
    [s \in Synths |-> WrapPool(p[s] - Cardinality(Leaving(f, vs, s)))]

\* Mutant of MuteIn: a stolen voice is taken for one that is going down.
MuteInUnlessStolen(f, vs) ==
    [v \in Voices |-> IF v \in vs /\ f[v].state \notin {"Free", "Muting", "Stolen"}
                      THEN Muted(f[v]) ELSE f[v]]

\* VMMuteVoice applied to the voices of vs that are neither free nor muting.
MuteIn(f, vs) ==
    [v \in Voices |-> IF v \in vs /\ f[v].state \notin {"Free", "Muting"}
                      THEN Muted(f[v]) ELSE f[v]]
PoolMute(p, f, vs) == PoolLess(p, f, {v \in vs : f[v].state # "Free"})

MuteVoices(vs) ==
    /\ voice' = MuteIn(voice, vs)
    /\ poolCount' = PoolMute(poolCount, voice, vs)

OfSynth(s)      == {v \in Voices : Target(voice[v])[1] = s}
OfChannel(s, c) == {v \in Voices : Target(voice[v]) = <<s, c>>}

\* An S_SYNTH as VMInitMIDI fills it, or (without references) an empty slot.
NewSynth(refs) ==
    [refCount |-> refs, maxPoly |-> 0, priority |-> DefaultPriority,
     resetReq |-> FALSE, pending |-> FALSE]

Init ==
    /\ voice = [v \in Voices |-> FreeVoice([silent |-> TRUE])]
    /\ activeVoices = 0
    /\ maxPolyphony = Cardinality(Voices)
    /\ numActive = [s \in Synths |-> 0]
    /\ poolCount = [s \in Synths |-> 0]
    /\ synth = [s \in Synths |-> NewSynth(0)]
    /\ pedal = [s \in Synths |-> {}]
    /\ phase = NumSynths
    /\ crashed = FALSE

-----------------------------------------------------------------------------
(* Opening and closing streams.  Calls arrive between frames.              *)

\* A new synthesizer takes the first empty slot.
VMInitMIDI(s) ==
    /\ Ready /\ ~Alive(s)
    /\ \A t \in Synths : t < s => Alive(t)
    /\ synth' = [synth EXCEPT ![s] = NewSynth(1)]
    /\ numActive' = [numActive EXCEPT ![s] = 0]
    /\ poolCount' = [poolCount EXCEPT ![s] = 0]
    /\ pedal' = [pedal EXCEPT ![s] = {}]
    /\ UNCHANGED <<voice, activeVoices, maxPolyphony, frame>>

VMIncRefCount(s) ==
    /\ Ready /\ Alive(s)
    /\ synth[s].refCount < MaxRefs
    /\ synth' = [synth EXCEPT ![s].refCount = @ + 1]
    /\ UNCHANGED <<voice, counters, maxPolyphony, pedal, frame>>

\* Mutant of InitializeVoices: only the sounding notes count.
InitializeSounding(s) ==
    voice' = [v \in Voices |-> IF voice[v].channel[1] = s
                               THEN FreeVoice(voice[v]) ELSE voice[v]]

\* VMInitializeAllVoices.
InitializeVoices(s) ==
    voice' = [v \in Voices |-> IF v \in OfSynth(s) THEN FreeVoice(voice[v]) ELSE voice[v]]

\* Mutant of ForcedReset: the voices stay counted.
ForcedResetCounted(s) ==
    /\ numActive' = [numActive EXCEPT ![s] = 0]
    /\ InitializeVoices(s)
    /\ pedal' = [pedal EXCEPT ![s] = {}]
    /\ poolCount' = [poolCount EXCEPT ![s] = 0]
    /\ UNCHANGED activeVoices

\* VMReset with force, and the completion it shares with the other one.
ForcedReset(s) ==
    /\ activeVoices' = WrapCount(activeVoices - numActive[s])
    /\ numActive' = [numActive EXCEPT ![s] = 0]
    /\ InitializeVoices(s)
    /\ pedal' = [pedal EXCEPT ![s] = {}]
    /\ poolCount' = [poolCount EXCEPT ![s] = 0]

VMResetForce(s) ==
    /\ Ready /\ Alive(s)
    /\ ForcedReset(s)
    /\ synth' = [synth EXCEPT ![s].resetReq = FALSE]
    /\ UNCHANGED <<maxPolyphony, frame>>

\* Mutant of VMReset: it waits for voices even when there are none.
VMResetLater(s) ==
    /\ Ready /\ Alive(s)
    /\ MuteVoices(OfSynth(s))
    /\ synth' = [synth EXCEPT ![s].resetReq = TRUE]
    /\ UNCHANGED <<activeVoices, numActive, maxPolyphony, pedal, frame>>

\* Without force the voices are muted, and the last of them completes the
\* reset in a later frame.
VMReset(s) ==
    /\ Ready /\ Alive(s)
    /\ voice' = MuteIn(voice, OfSynth(s))
    /\ LET muted == PoolMute(poolCount, voice, OfSynth(s))
       IN  IF numActive[s] = 0
           THEN /\ pedal' = [pedal EXCEPT ![s] = {}]
                /\ poolCount' = [muted EXCEPT ![s] = 0]
                /\ synth' = [synth EXCEPT ![s].resetReq = FALSE]
           ELSE /\ poolCount' = muted
                /\ synth' = [synth EXCEPT ![s].resetReq = TRUE]
                /\ UNCHANGED pedal
    /\ UNCHANGED <<activeVoices, numActive, maxPolyphony, frame>>

\* The last reference frees the S_SYNTH and empties its slot.
VMMIDIShutdown(s) ==
    /\ Ready /\ Alive(s)
    /\ UNCHANGED <<maxPolyphony, frame>>
    /\ IF synth[s].refCount > 1
       THEN /\ synth' = [synth EXCEPT ![s].refCount = @ - 1]
            /\ UNCHANGED <<voice, counters, pedal>>
       ELSE /\ ForcedReset(s)
            /\ synth' = [synth EXCEPT ![s] = NewSynth(0)]

-----------------------------------------------------------------------------
(* Notes.                                                                  *)

\* Mutant of StealVoice: a steal is counted as a start.
StealVoiceCounted(s, c, n, r, f, p, v) ==
    LET left == PoolLess(p, f, {v})
    IN  /\ voice' = [f EXCEPT ![v] = StolenFor(@, <<s, c>>, n, r)]
        /\ poolCount' = [left EXCEPT ![s] = WrapPool(@ + 1)]
        /\ numActive' = [numActive EXCEPT ![s] = WrapCount(@ + 1)]
        /\ UNCHANGED <<activeVoices, frame>>

\* The voice takes note n when its old note has ramped down; the pool of its
\* old note loses it and the pool of s gains it.
StealVoice(s, c, n, r, f, p, v) ==
    LET left == PoolLess(p, f, {v})
    IN  /\ voice' = [f EXCEPT ![v] = StolenFor(@, <<s, c>>, n, r)]
        /\ poolCount' = [left EXCEPT ![s] = WrapPool(@ + 1)]
        /\ UNCHANGED <<activeVoices, numActive, frame>>

StartVoice(s, c, n, r, f, p, v, quiet) ==
    /\ voice' = [f EXCEPT ![v] = Started(@, <<s, c>>, n, r, quiet)]
    /\ poolCount' = [p EXCEPT ![s] = WrapPool(@ + 1)]
    /\ activeVoices' = WrapCount(activeVoices + 1)
    /\ numActive' = [numActive EXCEPT ![s] = WrapCount(@ + 1)]

\* VMCheckKeyGroup: the voices it concerns, and the pool after it.
KeyGroupMatch(s, c, r) ==
    IF poolCount[s] = 0 \/ KeyGroup[r] = 0 THEN {}
    ELSE {v \in OfChannel(s, c) : KeyGroup[TargetRegion(voice[v])] = KeyGroup[r]}
JustStarted == {v \in Voices : "NoSamples" \in voice[v].flags}

AfterKeyGroup(match) ==
    [v \in Voices |->
        IF v \in match \cap JustStarted
        THEN [voice[v] EXCEPT !.flags = @ \cup {"DeferMute"}]
        ELSE MuteIn(voice, match)[v]]

MaxSynthPoly(s) ==
    IF synth[s].maxPoly = 0 \/ maxPolyphony < synth[s].maxPoly
    THEN maxPolyphony ELSE synth[s].maxPoly

\* Mutant of MayStealFrom: the comparison the other way round.
MayStealFromHigher(s, t) == synth[s].priority >= synth[t].priority

\* VMStealVoice passes over the voices of a stream of higher priority (a lower
\* number is a higher priority).
MayStealFrom(s, t) == synth[s].priority <= synth[t].priority

\* VMStartVoice, which VMStartNote calls for the region its key selects (for
\* each matching region of a layered instrument).  In order: key group, at
\* most two voices on a key, a free voice, a stolen voice, or no voice.
VMStartVoice(s, c, n, r) ==
    LET match == KeyGroupMatch(s, c, r)
        f     == AfterKeyGroup(match)
        p     == PoolMute(poolCount, voice, match \ JustStarted)
        \* VMCheckPolyphonyLimiting
        same     == {v \in Voices : Target(f[v]) = <<s, c>> /\ TargetNote(f[v]) = n}
        oldest   == {v \in same : f[v].state # "Stolen"}
        limited  == /\ poolCount[s] # 0 /\ r \in SelfExclusive
                    /\ Cardinality(same) >= 2 /\ oldest # {}
        \* VMFindAvailableVoice and VMStealVoice
        room     == /\ activeVoices < maxPolyphony
                    /\ numActive[s] < MaxSynthPoly(s)
                    /\ Busy # Voices
        eligible == {v \in Busy : MayStealFrom(s, Target(f[v])[1])}
    IN  /\ Ready /\ Alive(s)
        /\ UNCHANGED <<maxPolyphony, synth, pedal, frame>>
        /\ \/ /\ limited
              /\ \E v \in oldest : StealVoice(s, c, n, r, f, p, v)
           \/ /\ ~limited /\ room
              /\ \E v \in Voices \ Busy, quiet \in BOOLEAN :
                    StartVoice(s, c, n, r, f, p, v, quiet)
           \/ /\ ~limited /\ ~room
              /\ \A v \in Busy : Alive(Target(f[v])[1])
              /\ \/ \E v \in eligible : StealVoice(s, c, n, r, f, p, v)
                 \/ /\ eligible = {}
                    /\ voice' = f /\ poolCount' = p
                    /\ UNCHANGED <<activeVoices, numActive>>

VMStopNote(s, c, n) ==
    LET hit == {v \in OfChannel(s, c) : TargetNote(voice[v]) = n}
        Stop(vr) ==
            CASE vr.state # "Stolen" /\ c \in pedal[s] ->
                    [vr EXCEPT !.flags = @ \cup {"SustainDefer"}]
              [] vr.state = "Stolen" \/ (c \notin pedal[s] /\ "NoSamples" \in vr.flags) ->
                    [vr EXCEPT !.flags = @ \cup {"NoteOffDefer"}]
              [] OTHER -> Released(vr)
        late == {v \in hit \cap JustStarted : voice[v].state # "Stolen"}
    IN  /\ Ready /\ Alive(s)
        /\ voice' = [v \in Voices |-> IF v \in hit THEN Stop(voice[v]) ELSE voice[v]]
        /\ synth' = [synth EXCEPT ![s].pending = @ \/ (late # {} /\ c \notin pedal[s])]
        /\ UNCHANGED <<counters, maxPolyphony, pedal, frame>>

\* MIDI_CONTROLLER_SUSTAIN_PEDAL.  Pressing it catches the releasing voices
\* that are still loud enough.
SustainPedalOn(s, c) ==
    /\ Ready /\ Alive(s)
    /\ c \notin pedal[s]
    /\ \E caught \in SUBSET {v \in OfChannel(s, c) : voice[v].state = "Release"} :
          voice' = [v \in Voices |-> IF v \in caught THEN Held(voice[v]) ELSE voice[v]]
    /\ pedal' = [pedal EXCEPT ![s] = @ \cup {c}]
    /\ UNCHANGED <<counters, maxPolyphony, synth, frame>>

\* VMReleaseAllDeferredNoteOffs on the channels cs.  It never meets a stolen
\* voice (see StolenNeverSustained).
ReleaseDeferred(f, s, cs) ==
    [v \in Voices |->
        IF f[v].channel \in {s} \X cs /\ "SustainDefer" \in f[v].flags
        THEN [Released(f[v]) EXCEPT !.flags = @ \ {"SustainDefer"}] ELSE f[v]]

SustainPedalOff(s, c) ==
    /\ Ready /\ Alive(s)
    /\ c \in pedal[s]
    /\ voice' = ReleaseDeferred(voice, s, {c})
    /\ pedal' = [pedal EXCEPT ![s] = @ \ {c}]
    /\ UNCHANGED <<counters, maxPolyphony, synth, frame>>

\* MIDI_CONTROLLER_RESET_CONTROLLERS.
ResetControllers(s, c) ==
    /\ Ready /\ Alive(s)
    /\ pedal' = [pedal EXCEPT ![s] = @ \ {c}]
    /\ UNCHANGED <<voice, counters, maxPolyphony, synth, frame>>

\* The mode messages mute without VMMuteVoice: the pool count is not updated.
VMAllNotesOff(s, c) ==
    /\ Ready /\ Alive(s)
    /\ voice' = [v \in Voices |-> IF v \in OfChannel(s, c) \cap Busy
                                  THEN Muted(voice[v]) ELSE voice[v]]
    /\ UNCHANGED <<counters, maxPolyphony, synth, pedal, frame>>

VMMuteAllVoices(s) ==
    /\ Ready /\ Alive(s)
    /\ MuteVoices(OfSynth(s))
    /\ UNCHANGED <<activeVoices, numActive, maxPolyphony, synth, pedal, frame>>

VMReleaseAllVoices(s) ==
    LET f == ReleaseDeferred(voice, s, pedal[s])
        stolen == {v \in OfSynth(s) : voice[v].state = "Stolen"}
    IN  /\ Ready /\ Alive(s)
        /\ voice' = [v \in Voices |->
              CASE v \in stolen -> Muted(f[v])
                [] v \in OfSynth(s) \ stolen -> Released(f[v])
                [] OTHER -> f[v]]
        /\ poolCount' = PoolMute(poolCount, f, stolen)
        /\ pedal' = [pedal EXCEPT ![s] = {}]
        /\ UNCHANGED <<activeVoices, numActive, maxPolyphony, synth, frame>>

-----------------------------------------------------------------------------
(* Polyphony and priority.                                                 *)

\* The voices of a synthesizer are sought under nextChannel, which only a
\* stolen voice has; the candidate is muted without checking that it sounds.
VMSetPolyphony(s, count) ==
    LET limit  == IF count < maxPolyphony THEN count ELSE maxPolyphony
        cands  == {v \in Voices : voice[v].nextChannel[1] = s}
        excess == Cardinality(cands \cap Unmuted) - limit
    IN  /\ Ready /\ Alive(s)
        /\ synth' = [synth EXCEPT ![s].maxPoly = count]
        /\ IF count = 0 \/ numActive[s] <= limit \/ excess <= 0
           THEN UNCHANGED <<voice, poolCount>>
           ELSE \E vs \in SUBSET cands :
                   /\ Cardinality(vs) \in 1 .. excess
                   /\ MuteVoices(vs)
        /\ UNCHANGED <<activeVoices, numActive, maxPolyphony, pedal, frame>>

\* The busy voices whose S_SYNTH is gone.
Orphans == {v \in Busy : ~Alive(voice[v].channel[1])}

VMSetSynthPolyphony(count) ==
    LET excess == Cardinality(Unmuted) - count
    IN  /\ Ready
        /\ count # maxPolyphony
        /\ maxPolyphony' = count
        /\ IF activeVoices <= count \/ excess <= 0
           THEN UNCHANGED <<voice, poolCount>>
           ELSE /\ Orphans = {}
                /\ \E vs \in SUBSET Unmuted :
                      /\ Cardinality(vs) = excess
                      /\ MuteVoices(vs)
        /\ UNCHANGED <<activeVoices, numActive, synth, pedal, frame>>

VMSetPriority(s, pri) ==
    /\ Ready /\ Alive(s)
    /\ synth' = [synth EXCEPT ![s].priority = pri]
    /\ UNCHANGED <<voice, counters, maxPolyphony, pedal, frame>>

-----------------------------------------------------------------------------
(* One frame: VMRender.                                                    *)

\* VMRetargetStolenVoice: a stolen voice whose old note has ramped down
\* starts its next note.  nextNote and nextRegion are read of stolen voices
\* only; they are reset with nextChannel.
Retargeted == {v \in Voices : voice[v].state = "Stolen" /\ voice[v].silent}

Begun == [v \in Voices |->
    LET vr == voice[v]
    IN  IF v \notin Retargeted THEN vr
        ELSE [Started(vr, vr.nextChannel, vr.nextNote, vr.nextRegion, TRUE) EXCEPT
                !.flags = @ \cup (vr.flags \cap {"NoteOffDefer"})]]

\* Mutant of Finished: a muting voice is not returned to the pool.
FinishedUnlessMuting(vr, done, quiet) ==
    LET played == [vr EXCEPT !.flags = @ \ {"NoSamples"}, !.silent = quiet]
    IN  CASE ~done \/ vr.state = "Muting" -> played
          [] done /\ vr.state = "Stolen"   -> [played EXCEPT !.silent = TRUE]
          [] done /\ vr.state \notin {"Stolen", "Muting"} -> FreeVoice(played)

\* Mutant of Finished: a stolen voice keeps its gain.
FinishedLoud(vr, done, quiet) ==
    LET played == [vr EXCEPT !.flags = @ \ {"NoSamples"}, !.silent = quiet]
    IN  IF done /\ vr.state # "Stolen" THEN FreeVoice(played)
        ELSE [played EXCEPT !.silent = @ /\ ~done]

\* pfUpdateVoice, and the end of a finished voice: a stolen one is left
\* without gain, so that the next frame retargets it.
Finished(vr, done, quiet) ==
    LET played == [vr EXCEPT !.flags = @ \ {"NoSamples"}, !.silent = quiet]
    IN  CASE ~done -> played
          [] done /\ vr.state = "Stolen" -> [played EXCEPT !.silent = TRUE]
          [] done /\ vr.state # "Stolen" -> FreeVoice(played)

\* The mute that VMCheckKeyGroup put off.
LateMuted(vr) ==
    IF "DeferMute" \notin vr.flags THEN vr
    ELSE [vr EXCEPT !.state = "Muting",
                    !.flags = @ \ (IF vr.state = "Muting"
                                   THEN {"DeferMute", "NoteOffDefer"} ELSE Deferrals)]

\* A voice that was rendered, which advances to Play if it has just started.
Rendered(vr, done, quiet) ==
    LET muted == LateMuted(Finished(vr, done, quiet))
    IN  IF muted.state = "Start" THEN [muted EXCEPT !.state = "Play"] ELSE muted

\* The voices of `done' are those that finish in this frame, those of `quiet'
\* end it with no gain.  A voice that finishes in the frame it was retargeted
\* in is taken off the synthesizer it had before.
VMAddSamples(done, quiet) ==
    LET freed == {v \in done : Begun[v].state # "Stolen"}
        late  == {v \in Busy \ freed : "DeferMute" \in Begun[v].flags}
        Moved(s, t) == {v \in Retargeted : voice[v].channel[1] = s /\ voice[v].nextChannel[1] = t}
        Into(s)  == UNION {Moved(t, s) : t \in Synths}
        OutOf(s) == UNION {Moved(s, t) : t \in Synths}
        Ended(s) == {v \in freed : voice[v].channel[1] = s}
    IN  /\ Ready /\ Orphans = {}
        /\ voice' = [v \in Voices |-> IF v \in Busy
                        THEN Rendered(Begun[v], v \in done, v \in quiet) ELSE voice[v]]
        /\ activeVoices' = WrapCount(activeVoices - Cardinality(freed))
        /\ numActive' = [s \in Synths |-> WrapCount(numActive[s] + Cardinality(Into(s))
                                        - Cardinality(OutOf(s)) - Cardinality(Ended(s)))]
        /\ poolCount' = PoolLess(poolCount, Begun, freed \cup late)
        /\ synth' = [s \in Synths |-> [synth[s] EXCEPT !.pending = @ \/
                \E v \in Into(s) : "NoteOffDefer" \in voice[v].flags]]
        /\ phase' = 0
        /\ UNCHANGED <<maxPolyphony, pedal, crashed>>

\* Mutant of DeferredStop: a note the pedal holds keeps its note-off.
DeferredStopKept(s, held) ==
    [v \in Voices |->
        LET vr   == voice[v]
            kept == [vr EXCEPT !.flags = @ \ {"NoteOffDefer"}]
        IN  IF "NoteOffDefer" \notin vr.flags \/ vr.state = "Stolen" THEN vr
            ELSE IF vr.channel[2] \notin pedal[s] THEN Released(kept)
            ELSE IF v \in held THEN Held(vr) ELSE kept]

\* VMDeferredStopNote: `held' are the voices above their sustain level.
DeferredStop(s, held) ==
    [v \in Voices |->
        LET vr   == voice[v]
            kept == [vr EXCEPT !.flags = @ \ {"NoteOffDefer"}]
        IN  IF "NoteOffDefer" \notin vr.flags \/ vr.state = "Stolen" THEN vr
            ELSE IF vr.channel[2] \notin pedal[s] THEN Released(kept)
            ELSE IF v \in held THEN Held(kept) ELSE kept]

\* What VMRender does for the synthesizer of slot s after the samples: the
\* deferred note-offs, then the completion of a requested reset.
EndOfFrame(s) ==
    /\ phase = s /\ ~crashed
    /\ phase' = s + 1
    /\ UNCHANGED <<activeVoices, numActive, poolCount, maxPolyphony, crashed>>
    /\ \E held \in SUBSET {v \in Busy : "NoteOffDefer" \in voice[v].flags} :
       LET stop  == Alive(s) /\ synth[s].pending
           reset == Alive(s) /\ synth[s].resetReq /\ numActive[s] = 0
           f     == IF stop THEN DeferredStop(s, held) ELSE voice
           again == \E v \in Voices :
                       voice[v].state = "Stolen" /\ "NoteOffDefer" \in voice[v].flags
       IN  /\ stop \/ held = {}
           /\ synth' = [synth EXCEPT ![s].pending  = @ /\ (stop => again),
                                     ![s].resetReq = @ /\ ~reset]
           /\ IF reset
              THEN /\ pedal' = [pedal EXCEPT ![s] = {}]
                   /\ voice' = [v \in Voices |-> IF v \in OfSynth(s)
                                                 THEN FreeVoice(f[v]) ELSE f[v]]
              ELSE /\ voice' = f
                   /\ UNCHANGED pedal

\* The next frame, or a call before it, reads the S_SYNTH of a closed stream
\* through a null pointer.
Dereference ==
    /\ Ready /\ Orphans # {}
    /\ crashed' = TRUE
    /\ UNCHANGED <<voice, counters, maxPolyphony, synth, pedal, phase>>

-----------------------------------------------------------------------------
Call(s) ==
    \/ VMInitMIDI(s)
    \/ VMIncRefCount(s)
    \/ VMMIDIShutdown(s)
    \/ VMReset(s)
    \/ VMResetForce(s)
    \/ VMMuteAllVoices(s)
    \/ VMReleaseAllVoices(s)
    \/ \E count \in Limits : VMSetPolyphony(s, count)
    \/ \E pri \in Priorities : VMSetPriority(s, pri)

Message(s, c) ==
    \/ \E n \in Notes, r \in Regions : VMStartVoice(s, c, n, r)
    \/ \E n \in Notes : VMStopNote(s, c, n)
    \/ SustainPedalOn(s, c)
    \/ SustainPedalOff(s, c)
    \/ ResetControllers(s, c)
    \/ VMAllNotesOff(s, c)

Frame ==
    \/ \E done, quiet \in SUBSET Busy : VMAddSamples(done, quiet)
    \/ \E s \in Synths : EndOfFrame(s)

Next ==
    \/ \E s \in Synths : Call(s)
    \/ \E s \in Synths, c \in Channels : Message(s, c)
    \/ \E count \in SynthLimits : VMSetSynthPolyphony(count)
    \/ Frame
    \/ Dereference

Spec == Init /\ [][Next]_vars

\* The host keeps rendering, and the envelope of a voice that is going down
\* reaches its end (or the sample does) if it keeps being rendered.
Finish(v) ==
    /\ voice[v].state \in {"Release", "Muting", "Stolen"}
    /\ \E done, quiet \in SUBSET Busy : v \in done /\ VMAddSamples(done, quiet)

FairSpec ==
    /\ Spec
    /\ WF_vars(Frame)
    /\ \A v \in Voices : SF_vars(Finish(v))

-----------------------------------------------------------------------------
(* Properties.                                                             *)

\* The counters equal what VMSanityCheck recounts: activeVoices is the
\* number of busy voices, numActiveVoices that of the synthesizer's.
ActiveVoicesExact == activeVoices = Cardinality(Busy)
NumActiveExact ==
    \A s \in Synths : Alive(s) =>
        numActive[s] = Cardinality({v \in Busy : voice[v].channel[1] = s})

\* VMRender only looks for deferred note-offs when the synthesizer has
\* SYNTH_FLAG_DEFERRED_MIDI_NOTE_OFF_PENDING, so no voice may wait for one
\* without it, or its note would never end.  A stolen voice may: retargeting
\* it raises the flag.
DeferredNoteOffScheduled ==
    \A v \in Voices :
        /\ "NoteOffDefer" \in voice[v].flags
        /\ voice[v].state # "Stolen"
        => synth[voice[v].channel[1]].pending

\* Releasing a stolen voice would take it out of its pool twice and start
\* the release of the note that is already being muted: the only path that
\* could, a pedal release, must never find one.
StolenNeverSustained ==
    \A v \in Voices : voice[v].state = "Stolen" => "SustainDefer" \notin voice[v].flags

\* What makes the two hold in every step: a busy voice has a channel; a free
\* one waits for nothing; the next note of a stolen voice belongs to an open
\* stream; and a closed stream has no deferred note-off pending.
VoiceOK(vr) ==
    /\ vr \in VoiceRecords
    /\ vr.state # "Free" => vr.channel \in Synths \X Channels
    /\ vr.state = "Free" => vr.flags \cap {"NoSamples", "NoteOffDefer"} = {}
    /\ vr.state = "Stolen" => /\ vr.nextChannel \in Synths \X Channels
                              /\ "SustainDefer" \notin vr.flags
DeferralInv ==
    /\ \A v \in Voices : VoiceOK(voice[v])
    /\ \A v \in Voices : voice[v].state = "Stolen" => Alive(voice[v].nextChannel[1])
    /\ \A s \in Synths : synth[s].pending => Alive(s)
    /\ DeferredNoteOffScheduled

\* Between frames a requested reset still has a voice to wait for: the frame
\* that ended the last one completed it.
ResetWaitsForVoices ==
    \A s \in Synths : Idle /\ synth[s].resetReq => numActive[s] > 0

\* A note of one stream takes a voice from another only if its stream has at
\* least that priority (a lower number is a higher priority).
PriorityRespected == [][
    \A v \in Voices : \A s \in Synths :
        /\ voice[v].state # "Free" /\ voice'[v].state = "Stolen"
        /\ Target(voice[v])[1] # s /\ Target(voice'[v])[1] = s
        => synth[s].priority <= synth[Target(voice[v])[1]].priority]_vars

\* A released or muted voice does not stay so: it ends, is caught by the
\* pedal, or is stolen.
VoicesLetGo == \A v \in Voices :
    voice[v].state \in {"Release", "Muting"} ~> voice[v].state \notin {"Release", "Muting"}

\* A stolen voice eventually starts its next note (or is muted or reset).
StolenVoicesRestart == \A v \in Voices :
    voice[v].state = "Stolen" ~> voice[v].state # "Stolen"

\* Lowering the synthesizer's polyphony mutes as many voices as it takes,
\* whatever was stolen or muting at that moment.
SynthPolyphonyReached == [][
    maxPolyphony' # maxPolyphony =>
        Cardinality({v \in Voices : voice'[v].state \notin {"Free", "Muting"}})
            <= maxPolyphony']_vars

-----------------------------------------------------------------------------
(* What comments and checks of the code say, and the code does not do.     *)

\* VMSanityCheck: poolCount is the number of unmuted voices of the pool.
PoolCountExact ==
    \A s \in Synths : Alive(s) => poolCount[s] = Cardinality(Unmuted \cap OfSynth(s))

\* VMSanityCheck: numActiveVoices is at most the number of voices.
NumActiveBounded == \A s \in Synths : Alive(s) => numActive[s] <= Cardinality(Voices)

\* VMCheckKeyGroup: a voice of the group that was just started is "set to
\* mute on the next buffer".
KeyGroupMutes == [][
    \A v \in Voices :
        Idle /\ phase' = 0 /\ "DeferMute" \in voice[v].flags
        => voice'[v].state \in {"Muting", "Free"}]_vars

\* VMDeferredStopNote: "voices that have had deferred note-off requests are
\* now put into release", or held by the pedal.
DeferredNoteOffReleases == [][
    \A v \in Voices :
        /\ phase' = phase + 1
        /\ "NoteOffDefer" \in voice[v].flags /\ voice[v].state # "Stolen"
        /\ "NoteOffDefer" \notin voice'[v].flags
        => \/ voice'[v].state \in {"Release", "Muting", "Free"}
           \/ "SustainDefer" \in voice'[v].flags]_vars

\* WT_SustainPedal: a held note is released when "the damper pedal is off".
SustainedOnlyByPedal ==
    \A v \in Busy :
        /\ voice[v].state \in {"Start", "Play"}
        /\ "SustainDefer" \in voice[v].flags
        => voice[v].channel[2] \in pedal[voice[v].channel[1]]

\* EAS_SetPolyphony sets the polyphony of the stream: VMSetPolyphony mutes
\* voices "to reach new target".
PolyphonyReached == [][
    \A s \in Synths :
        /\ synth'[s].maxPoly \notin {0, synth[s].maxPoly}
        => Cardinality({v \in Voices : /\ voice'[v].state \notin {"Free", "Muting"}
                                       /\ Target(voice'[v])[1] = s})
               <= synth'[s].maxPoly]_vars

\* EAS_SetSynthPolyphony sets the polyphony of the synthesizer.
UnmutedWithinPolyphony == Cardinality(Unmuted) <= maxPolyphony
=============================================================================
