------------------------- MODULE VoiceManagerProofs -------------------------
(***************************************************************************)
(* Proofs about VoiceManager, for every number of voices, synthesizers,    *)
(* channels, keys and regions.                                             *)
(***************************************************************************)
EXTENDS VoiceManager, FiniteSetTheorems, TLAPS

\* A count wrapped to its width is a value of that width.
LEMMA WrapType ==
    \A n \in Int : /\ WrapCount(n) \in 0 .. CountModulus - 1
                   /\ WrapPool(n) \in 0 .. PoolModulus - 1
<1>1. CountModulus \in Nat \ {0} /\ PoolModulus \in Nat \ {0}
  <2>1. Cardinality(Voices) \in Nat
    BY VoicesAssumption, FS_CardinalityType
  <2>. QED BY <2>1, VoicesAssumption
<1>. QED BY <1>1 DEF WrapCount, WrapPool

\* Every set of voices has a size.
LEMMA VoicesFinite ==
    \A vs \in SUBSET Voices : /\ IsFiniteSet(vs)
                              /\ Cardinality(vs) \in 0 .. Cardinality(Voices)
BY VoicesAssumption, FS_CardinalityType, FS_Subset

\* Pool counters keep their type.
LEMMA PoolLessType ==
    ASSUME NEW p \in [Synths -> 0 .. PoolModulus - 1], NEW f, NEW vs \in SUBSET Voices
    PROVE  PoolLess(p, f, vs) \in [Synths -> 0 .. PoolModulus - 1]
<1>1. SUFFICES ASSUME NEW s \in Synths
               PROVE  WrapPool(p[s] - Cardinality(Leaving(f, vs, s))) \in 0 .. PoolModulus - 1
  BY DEF PoolLess
<1>2. Cardinality(Leaving(f, vs, s)) \in Nat
  <2>1. Leaving(f, vs, s) \in SUBSET Voices
    BY DEF Leaving
  <2>. QED BY <2>1, VoicesFinite
<1>3. p[s] - Cardinality(Leaving(f, vs, s)) \in Int
  <2>1. PoolModulus \in Nat
    BY VoicesAssumption
  <2>. QED BY <1>2, <2>1
<1>. QED BY <1>3, WrapType

-----------------------------------------------------------------------------
\* What every operation but a note-on, a note-off and a frame does to a voice
\* at most: it makes it neither wait for a note-off nor stolen.
Waiting(vr) == vr.state # "Stolen" /\ "NoteOffDefer" \in vr.flags
Tame(old, new) ==
    /\ VoiceOK(new)
    /\ Waiting(new) => Waiting(old) /\ new.channel = old.channel
    /\ new.state = "Stolen" => old.state = "Stolen" /\ new.nextChannel = old.nextChannel

LEMMA ChannelsExist == Unassigned \in ChannelIds /\ Synths \X Channels \subseteq ChannelIds
BY DEF ChannelIds

LEMMA FreeVoiceTame ==
    ASSUME NEW vr, VoiceOK(vr)
    PROVE  Tame(vr, FreeVoice(vr))
BY ConstantsAssumption, ChannelsExist
   DEF Tame, Waiting, VoiceOK, VoiceRecords, FreeVoice, Keys, States, Flags, Deferrals

LEMMA FreeVoiceIdle ==
    \A vr : ~Waiting(FreeVoice(vr)) /\ FreeVoice(vr).state = "Free"
BY DEF FreeVoice, Waiting

LEMMA MutedTame ==
    ASSUME NEW vr, VoiceOK(vr), vr.state # "Free"
    PROVE  Tame(vr, Muted(vr))
BY DEF Tame, Waiting, VoiceOK, VoiceRecords, Muted, States, Flags, Deferrals

LEMMA ReleasedTame ==
    ASSUME NEW vr, VoiceOK(vr), vr.state # "Stolen"
    PROVE  Tame(vr, Released(vr))
BY DEF Tame, Waiting, VoiceOK, VoiceRecords, Released, States, Flags, Deferrals

LEMMA HeldTame ==
    ASSUME NEW vr, VoiceOK(vr), vr.state \notin {"Free", "Stolen"}
    PROVE  Tame(vr, Held(vr))
BY DEF Tame, Waiting, VoiceOK, VoiceRecords, Held, States, Flags, Deferrals

LEMMA TameReflexive ==
    ASSUME NEW vr, VoiceOK(vr)
    PROVE  Tame(vr, vr)
BY DEF Tame

LEMMA MuteInTame ==
    ASSUME NEW f, \A v \in Voices : VoiceOK(f[v]), NEW vs, NEW v \in Voices
    PROVE  Tame(f[v], MuteIn(f, vs)[v])
<1>1. CASE v \in vs /\ f[v].state \notin {"Free", "Muting"}
  BY <1>1, MutedTame DEF MuteIn
<1>2. CASE ~(v \in vs /\ f[v].state \notin {"Free", "Muting"})
  BY <1>2, TameReflexive DEF MuteIn
<1>. QED BY <1>1, <1>2

\* A waiting voice is busy, so it has a channel, and one of its synthesizers.
LEMMA WaitingHasSynth ==
    ASSUME NEW vr, VoiceOK(vr), Waiting(vr)
    PROVE  vr.channel[1] \in Synths /\ vr.state # "Free"
BY DEF VoiceOK, Waiting

\* DeferralInv with Waiting spelled out.
LEMMA DeferralInvWaiting ==
    DeferralInv =>
        \A v \in Voices : Waiting(voice[v]) => synth[voice[v].channel[1]].pending
BY DEF DeferralInv, DeferredNoteOffScheduled, Waiting

-----------------------------------------------------------------------------
IInv == TypeOK /\ DeferralInv

LEMMA InitInv == Init => IInv
<1>. SUFFICES ASSUME Init PROVE IInv
  OBVIOUS
<1>1. Cardinality(Voices) \in Nat /\ Cardinality(Voices) >= 1
      /\ 0 \in 0 .. CountModulus - 1 /\ 0 \in 0 .. PoolModulus - 1
  <2>1. Cardinality(Voices) \in Nat /\ Cardinality(Voices) # 0
    BY VoicesAssumption, FS_CardinalityType, FS_EmptySet
  <2>. QED BY <2>1, VoicesAssumption
<1>2. \A v \in Voices : VoiceOK(voice[v]) /\ voice[v].state = "Free" /\ voice[v].flags = {}
  BY ConstantsAssumption, ChannelsExist
     DEF Init, FreeVoice, VoiceOK, VoiceRecords, Keys, States, Flags
<1>3. voice \in [Voices -> VoiceRecords]
  BY <1>2 DEF Init, VoiceOK
<1>4. synth \in [Synths -> SynthRecords] /\ \A s \in Synths : ~synth[s].pending
  <2>1. \A s \in Synths : synth[s] \in SynthRecords /\ ~synth[s].pending
    BY <1>1, ConstantsAssumption DEF Init, NewSynth, SynthRecords
  <2>. QED BY <2>1 DEF Init
<1>5. TypeOK
  <2>1. maxPolyphony \in 1 .. Cardinality(Voices) /\ phase \in 0 .. NumSynths
    BY <1>1, ConstantsAssumption DEF Init
  <2>2. /\ numActive \in [Synths -> 0 .. CountModulus - 1]
        /\ poolCount \in [Synths -> 0 .. PoolModulus - 1]
        /\ pedal \in [Synths -> SUBSET Channels]
    BY <1>1 DEF Init
  <2>. QED BY <1>1, <1>3, <1>4, <2>1, <2>2 DEF Init, TypeOK
<1>6. DeferralInv
  BY <1>2, <1>4 DEF DeferralInv, DeferredNoteOffScheduled
<1>. QED BY <1>5, <1>6 DEF IInv

\* The part of the invariant about voices, from what a step does to each.
LEMMA VoiceStep ==
    ASSUME DOMAIN voice' = Voices, voice' = [v \in Voices |-> voice'[v]],
           \A v \in Voices : VoiceOK(voice'[v]),
           \A v \in Voices : Waiting(voice'[v]) => synth'[voice'[v].channel[1]].pending,
           \A v \in Voices : voice'[v].state = "Stolen" =>
                                synth'[voice'[v].nextChannel[1]].refCount > 0,
           \A s \in Synths : synth'[s].pending => synth'[s].refCount > 0
    PROVE  voice' \in [Voices -> VoiceRecords] /\ DeferralInv'
<1>1. voice' \in [Voices -> VoiceRecords]
  BY DEF VoiceOK
<1>2. DeferralInv'
  BY DEF DeferralInv, DeferredNoteOffScheduled, Waiting, Alive, VoiceOK
<1>. QED BY <1>1, <1>2

\* The same for a step that leaves every voice tame or starts a note of an
\* open stream on it, and the synthesizers' references and pending flags as
\* they were.
Fresh(new) ==
    /\ VoiceOK(new)
    /\ ~Waiting(new)
    /\ new.state = "Stolen" => Alive(new.nextChannel[1])

LEMMA TameStep ==
    ASSUME DeferralInv,
           voice' = [v \in Voices |-> voice'[v]],
           \A v \in Voices : Tame(voice[v], voice'[v]) \/ Fresh(voice'[v]),
           \A s \in Synths : /\ synth'[s].pending = synth[s].pending
                             /\ Alive(s) => synth'[s].refCount > 0
    PROVE  voice' \in [Voices -> VoiceRecords] /\ DeferralInv'
<1>1. \A v \in Voices : VoiceOK(voice'[v])
  BY DEF Tame, Fresh
<1>2. \A v \in Voices : Waiting(voice'[v]) => synth'[voice'[v].channel[1]].pending
  <2>. SUFFICES ASSUME NEW v \in Voices, Waiting(voice'[v])
                PROVE  synth'[voice'[v].channel[1]].pending
    OBVIOUS
  <2>1. Waiting(voice[v]) /\ voice'[v].channel = voice[v].channel
    BY DEF Tame, Fresh
  <2>2. voice[v].channel[1] \in Synths
    BY <2>1, WaitingHasSynth DEF DeferralInv
  <2>. QED BY <2>1, <2>2, DeferralInvWaiting
<1>3. \A v \in Voices : voice'[v].state = "Stolen" =>
                           synth'[voice'[v].nextChannel[1]].refCount > 0
  <2>. SUFFICES ASSUME NEW v \in Voices, voice'[v].state = "Stolen"
                PROVE  synth'[voice'[v].nextChannel[1]].refCount > 0
    OBVIOUS
  <2>1. voice'[v].nextChannel[1] \in Synths
    BY <1>1 DEF VoiceOK
  <2>2. Alive(voice'[v].nextChannel[1])
    <3>1. CASE Fresh(voice'[v])
      BY <3>1 DEF Fresh
    <3>2. CASE Tame(voice[v], voice'[v])
      BY <3>2 DEF Tame, DeferralInv
    <3>. QED BY <3>1, <3>2
  <2>. QED BY <2>1, <2>2
<1>4. \A s \in Synths : synth'[s].pending => synth'[s].refCount > 0
  BY DEF DeferralInv
<1>. QED BY <1>1, <1>2, <1>3, <1>4, VoiceStep

-----------------------------------------------------------------------------
(* Each action preserves IInv.                                             *)

\* The typed sets that many steps need.
LEMMA CountsType ==
    /\ Cardinality(Voices) \in Nat \ {0}
    /\ 0 \in 0 .. CountModulus - 1 /\ 0 \in 0 .. PoolModulus - 1
    /\ 0 .. CountModulus - 1 \subseteq Int /\ 0 .. PoolModulus - 1 \subseteq Int
<1>1. Cardinality(Voices) \in Nat /\ Cardinality(Voices) # 0
  BY VoicesAssumption, FS_CardinalityType, FS_EmptySet
<1>. QED BY <1>1, VoicesAssumption

LEMMA PoolMuteType ==
    ASSUME NEW p \in [Synths -> 0 .. PoolModulus - 1], NEW f, NEW vs \in SUBSET Voices
    PROVE  PoolMute(p, f, vs) \in [Synths -> 0 .. PoolModulus - 1]
<1>1. {v \in vs : f[v].state # "Free"} \in SUBSET Voices
  OBVIOUS
<1>. QED BY <1>1, PoolLessType DEF PoolMute

\* Muting any set of voices.
LEMMA MuteStep ==
    ASSUME IInv, NEW vs \in SUBSET Voices, voice' = MuteIn(voice, vs),
           \A s \in Synths : /\ synth'[s].pending = synth[s].pending
                             /\ Alive(s) => synth'[s].refCount > 0
    PROVE  voice' \in [Voices -> VoiceRecords] /\ DeferralInv'
<1>1. \A v \in Voices : Tame(voice[v], voice'[v])
  BY MuteInTame DEF IInv, DeferralInv
<1>2. voice' = [v \in Voices |-> voice'[v]]
  BY DEF MuteIn
<1>. QED BY <1>1, <1>2, TameStep DEF IInv

\* Nothing happens to the voices.
LEMMA SameVoicesStep ==
    ASSUME IInv, voice' = voice,
           \A s \in Synths : /\ synth'[s].pending = synth[s].pending
                             /\ Alive(s) => synth'[s].refCount > 0
    PROVE  voice' \in [Voices -> VoiceRecords] /\ DeferralInv'
<1>1. \A v \in Voices : Tame(voice[v], voice'[v])
  BY TameReflexive DEF IInv, DeferralInv
<1>2. voice' = [v \in Voices |-> voice'[v]]
  BY DEF IInv, TypeOK
<1>. QED BY <1>1, <1>2, TameStep DEF IInv

LEMMA VMInitMIDIInv ==
    ASSUME IInv, NEW s \in Synths, VMInitMIDI(s)
    PROVE  IInv'
<1>1. synth' \in [Synths -> SynthRecords]
  <2>1. NewSynth(1) \in SynthRecords
    BY CountsType, ConstantsAssumption DEF NewSynth, SynthRecords
  <2>. QED BY <2>1 DEF VMInitMIDI, IInv, TypeOK
<1>2. synth'[s] = NewSynth(1) /\ \A t \in Synths \ {s} : synth'[t] = synth[t]
  BY DEF VMInitMIDI, IInv, TypeOK
<1>3. \A t \in Synths : /\ synth'[t].pending = synth[t].pending
                        /\ Alive(t) => synth'[t].refCount > 0
  <2>1. ~synth[s].pending /\ synth[s].pending \in BOOLEAN /\ ~Alive(s)
    BY DEF VMInitMIDI, IInv, DeferralInv, TypeOK, SynthRecords
  <2>2. synth'[s].pending = FALSE
    BY <1>2 DEF NewSynth
  <2>. QED BY <1>2, <2>1, <2>2 DEF Alive
<1>4. voice' \in [Voices -> VoiceRecords] /\ DeferralInv'
  BY <1>3, SameVoicesStep DEF VMInitMIDI
<1>. QED BY <1>1, <1>4, CountsType DEF VMInitMIDI, frame, IInv, TypeOK

LEMMA VMIncRefCountInv ==
    ASSUME IInv, NEW s \in Synths, VMIncRefCount(s)
    PROVE  IInv'
<1>1. synth' \in [Synths -> SynthRecords]
  BY ConstantsAssumption DEF VMIncRefCount, IInv, TypeOK, SynthRecords
<1>2. \A t \in Synths : /\ synth'[t].pending = synth[t].pending
                        /\ Alive(t) => synth'[t].refCount > 0
  BY ConstantsAssumption DEF VMIncRefCount, IInv, TypeOK, SynthRecords, Alive
<1>3. voice' \in [Voices -> VoiceRecords] /\ DeferralInv'
  BY <1>2, SameVoicesStep DEF VMIncRefCount
<1>. QED BY <1>1, <1>3 DEF VMIncRefCount, counters, frame, IInv, TypeOK

\* A forced reset, whatever else the step does to the S_SYNTH of s.
LEMMA ForcedResetStep ==
    ASSUME IInv, NEW s \in Synths, ForcedReset(s),
           \A t \in Synths \ {s} : synth'[t] = synth[t],
           synth'[s].pending => synth'[s].refCount > 0,
           synth'[s].refCount > 0 => synth'[s].pending = synth[s].pending
    PROVE  /\ voice' \in [Voices -> VoiceRecords]
           /\ DeferralInv'
           /\ activeVoices' \in 0 .. CountModulus - 1
           /\ numActive' \in [Synths -> 0 .. CountModulus - 1]
           /\ poolCount' \in [Synths -> 0 .. PoolModulus - 1]
           /\ pedal' \in [Synths -> SUBSET Channels]
<1>1. activeVoices' \in 0 .. CountModulus - 1
  <2>1. activeVoices - numActive[s] \in Int
    BY CountsType DEF IInv, TypeOK
  <2>. QED BY <2>1, WrapType DEF ForcedReset
<1>2. /\ numActive' \in [Synths -> 0 .. CountModulus - 1]
      /\ poolCount' \in [Synths -> 0 .. PoolModulus - 1]
      /\ pedal' \in [Synths -> SUBSET Channels]
  BY CountsType DEF ForcedReset, IInv, TypeOK
<1>3. \A v \in Voices : /\ VoiceOK(voice[v])
                        /\ v \in OfSynth(s) => voice'[v] = FreeVoice(voice[v])
                        /\ v \notin OfSynth(s) => voice'[v] = voice[v]
  BY DEF ForcedReset, InitializeVoices, IInv, DeferralInv
<1>4. \A v \in Voices : Tame(voice[v], voice'[v])
  BY <1>3, FreeVoiceTame, TameReflexive
<1>5. \A v \in Voices : Waiting(voice'[v]) => synth'[voice'[v].channel[1]].pending
  <2>. SUFFICES ASSUME NEW v \in Voices, Waiting(voice'[v])
                PROVE  synth'[voice'[v].channel[1]].pending
    OBVIOUS
  <2>1. v \notin OfSynth(s)
    BY <1>3, FreeVoiceIdle
  <2>2. voice'[v] = voice[v]
    BY <1>3, <2>1
  <2>3. voice[v].channel[1] \in Synths \ {s}
    BY <2>1, <2>2, <1>3, WaitingHasSynth DEF OfSynth, Target, Waiting
  <2>. QED BY <2>2, <2>3, DeferralInvWaiting DEF IInv
<1>6. \A v \in Voices : voice'[v].state = "Stolen" =>
                           synth'[voice'[v].nextChannel[1]].refCount > 0
  <2>. SUFFICES ASSUME NEW v \in Voices, voice'[v].state = "Stolen"
                PROVE  synth'[voice'[v].nextChannel[1]].refCount > 0
    OBVIOUS
  <2>1. v \notin OfSynth(s)
    BY <1>3, FreeVoiceIdle
  <2>2. voice'[v] = voice[v]
    BY <1>3, <2>1
  <2>3. voice[v].nextChannel[1] \in Synths \ {s} /\ Alive(voice[v].nextChannel[1])
    BY <2>1, <2>2, <1>3 DEF OfSynth, Target, VoiceOK, IInv, DeferralInv
  <2>. QED BY <2>2, <2>3 DEF Alive
<1>7. \A t \in Synths : synth'[t].pending => synth'[t].refCount > 0
  BY DEF IInv, DeferralInv, Alive
<1>8. voice' = [v \in Voices |-> voice'[v]] /\ DOMAIN voice' = Voices
  BY DEF ForcedReset, InitializeVoices
<1>9. \A v \in Voices : VoiceOK(voice'[v])
  BY <1>4 DEF Tame
<1>10. voice' \in [Voices -> VoiceRecords] /\ DeferralInv'
  BY <1>5, <1>6, <1>7, <1>8, <1>9, VoiceStep
<1>. QED BY <1>1, <1>2, <1>10

LEMMA VMResetForceInv ==
    ASSUME IInv, NEW s \in Synths, VMResetForce(s)
    PROVE  IInv'
<1>1. synth' \in [Synths -> SynthRecords]
  BY DEF VMResetForce, IInv, TypeOK, SynthRecords
<1>2. /\ \A t \in Synths \ {s} : synth'[t] = synth[t]
      /\ synth'[s].pending = synth[s].pending /\ synth'[s].refCount = synth[s].refCount
  BY DEF VMResetForce, IInv, TypeOK, SynthRecords
<1>3. synth'[s].pending => synth'[s].refCount > 0
  BY <1>2 DEF VMResetForce, Alive
<1>4. ForcedReset(s)
  BY DEF VMResetForce
<1>. QED BY <1>1, <1>2, <1>3, <1>4, ForcedResetStep
         DEF VMResetForce, frame, IInv, TypeOK

LEMMA VMMIDIShutdownInv ==
    ASSUME IInv, NEW s \in Synths, VMMIDIShutdown(s)
    PROVE  IInv'
<1>1. CASE synth[s].refCount > 1
  <2>1. synth' = [synth EXCEPT ![s].refCount = @ - 1] /\ voice' = voice
    BY <1>1 DEF VMMIDIShutdown
  <2>2. synth' \in [Synths -> SynthRecords]
    BY <1>1, <2>1, ConstantsAssumption DEF IInv, TypeOK, SynthRecords
  <2>3. \A t \in Synths : /\ synth'[t].pending = synth[t].pending
                          /\ Alive(t) => synth'[t].refCount > 0
    BY <1>1, <2>1, ConstantsAssumption DEF IInv, TypeOK, SynthRecords, Alive
  <2>4. voice' \in [Voices -> VoiceRecords] /\ DeferralInv'
    BY <2>1, <2>3, SameVoicesStep
  <2>. QED BY <1>1, <2>2, <2>4 DEF VMMIDIShutdown, counters, frame, IInv, TypeOK
<1>2. CASE ~(synth[s].refCount > 1)
  <2>1. synth' = [synth EXCEPT ![s] = NewSynth(0)] /\ ForcedReset(s)
    BY <1>2 DEF VMMIDIShutdown
  <2>2. NewSynth(0) \in SynthRecords
    BY CountsType, ConstantsAssumption DEF NewSynth, SynthRecords
  <2>3. synth' \in [Synths -> SynthRecords]
    BY <2>1, <2>2 DEF IInv, TypeOK
  <2>4. /\ \A t \in Synths \ {s} : synth'[t] = synth[t]
        /\ synth'[s] = NewSynth(0)
    BY <2>1 DEF IInv, TypeOK
  <2>5. synth'[s].refCount = 0 /\ synth'[s].pending = FALSE
    BY <2>4 DEF NewSynth
  <2>. QED BY <2>1, <2>3, <2>4, <2>5, ForcedResetStep
           DEF VMMIDIShutdown, frame, IInv, TypeOK
<1>. QED BY <1>1, <1>2

LEMMA VMResetInv ==
    ASSUME IInv, NEW s \in Synths, VMReset(s)
    PROVE  IInv'
<1>. DEFINE muted == PoolMute(poolCount, voice, OfSynth(s))
<1>1. muted \in [Synths -> 0 .. PoolModulus - 1]
  BY PoolMuteType DEF OfSynth, IInv, TypeOK
<1>2. /\ \E req \in BOOLEAN : synth' = [synth EXCEPT ![s].resetReq = req]
      /\ poolCount' = muted \/ poolCount' = [muted EXCEPT ![s] = 0]
      /\ pedal' = pedal \/ pedal' = [pedal EXCEPT ![s] = {}]
  BY DEF VMReset
<1>. PICK req \in BOOLEAN : synth' = [synth EXCEPT ![s].resetReq = req]
  BY <1>2
<1>3. synth' \in [Synths -> SynthRecords]
  BY DEF IInv, TypeOK, SynthRecords
<1>4. \A t \in Synths : synth'[t].pending = synth[t].pending
                        /\ synth'[t].refCount = synth[t].refCount
  BY DEF IInv, TypeOK, SynthRecords
<1>5. voice' \in [Voices -> VoiceRecords] /\ DeferralInv'
  BY <1>4, MuteStep DEF VMReset, OfSynth, Alive
<1>6. poolCount' \in [Synths -> 0 .. PoolModulus - 1]
  <2>. HIDE DEF muted
  <2>. QED BY <1>1, <1>2, CountsType
<1>7. pedal' \in [Synths -> SUBSET Channels]
  BY <1>2 DEF IInv, TypeOK
<1>. QED BY <1>3, <1>5, <1>6, <1>7 DEF VMReset, frame, IInv, TypeOK

LEMMA VMMuteAllVoicesInv ==
    ASSUME IInv, NEW s \in Synths, VMMuteAllVoices(s)
    PROVE  IInv'
<1>1. poolCount' \in [Synths -> 0 .. PoolModulus - 1]
  BY PoolMuteType DEF VMMuteAllVoices, MuteVoices, OfSynth, IInv, TypeOK
<1>2. voice' \in [Voices -> VoiceRecords] /\ DeferralInv'
  BY MuteStep DEF VMMuteAllVoices, MuteVoices, OfSynth, Alive
<1>. QED BY <1>1, <1>2 DEF VMMuteAllVoices, frame, IInv, TypeOK

LEMMA VMSetPolyphonyInv ==
    ASSUME IInv, NEW s \in Synths, NEW count \in Limits, VMSetPolyphony(s, count)
    PROVE  IInv'
<1>1. synth' = [synth EXCEPT ![s].maxPoly = count]
  BY DEF VMSetPolyphony
<1>2. synth' \in [Synths -> SynthRecords]
  BY <1>1, ConstantsAssumption DEF IInv, TypeOK, SynthRecords
<1>3. \A t \in Synths : synth'[t].pending = synth[t].pending
                        /\ synth'[t].refCount = synth[t].refCount
  BY <1>1 DEF IInv, TypeOK, SynthRecords
<1>4. \/ voice' = voice /\ poolCount' = poolCount
      \/ \E vs \in SUBSET Voices : MuteVoices(vs)
  BY DEF VMSetPolyphony
<1>5. /\ voice' \in [Voices -> VoiceRecords] /\ DeferralInv'
      /\ poolCount' \in [Synths -> 0 .. PoolModulus - 1]
  <2>1. CASE voice' = voice /\ poolCount' = poolCount
    BY <2>1, <1>3, SameVoicesStep DEF Alive, IInv, TypeOK
  <2>2. ASSUME NEW vs \in SUBSET Voices, MuteVoices(vs)
        PROVE  /\ voice' \in [Voices -> VoiceRecords] /\ DeferralInv'
               /\ poolCount' \in [Synths -> 0 .. PoolModulus - 1]
    BY <2>2, <1>3, MuteStep, PoolMuteType DEF MuteVoices, Alive, IInv, TypeOK
  <2>. QED BY <2>1, <2>2, <1>4
<1>. QED BY <1>2, <1>5 DEF VMSetPolyphony, frame, IInv, TypeOK

LEMMA VMSetSynthPolyphonyInv ==
    ASSUME IInv, NEW count \in SynthLimits, VMSetSynthPolyphony(count)
    PROVE  IInv'
<1>1. \A t \in Synths : synth'[t].pending = synth[t].pending
                        /\ synth'[t].refCount = synth[t].refCount
  BY DEF VMSetSynthPolyphony
<1>2. \/ voice' = voice /\ poolCount' = poolCount
      \/ \E vs \in SUBSET Voices : MuteVoices(vs)
  BY DEF VMSetSynthPolyphony, Unmuted, Busy
<1>3. /\ voice' \in [Voices -> VoiceRecords] /\ DeferralInv'
      /\ poolCount' \in [Synths -> 0 .. PoolModulus - 1]
  <2>1. CASE voice' = voice /\ poolCount' = poolCount
    BY <2>1, <1>1, SameVoicesStep DEF Alive, IInv, TypeOK
  <2>2. ASSUME NEW vs \in SUBSET Voices, MuteVoices(vs)
        PROVE  /\ voice' \in [Voices -> VoiceRecords] /\ DeferralInv'
               /\ poolCount' \in [Synths -> 0 .. PoolModulus - 1]
    BY <2>2, <1>1, MuteStep, PoolMuteType DEF MuteVoices, Alive, IInv, TypeOK
  <2>. QED BY <2>1, <2>2, <1>2
<1>. QED BY <1>3, ConstantsAssumption DEF VMSetSynthPolyphony, frame, IInv, TypeOK

LEMMA VMSetPriorityInv ==
    ASSUME IInv, NEW s \in Synths, NEW pri \in Priorities, VMSetPriority(s, pri)
    PROVE  IInv'
<1>1. synth' = [synth EXCEPT ![s].priority = pri] /\ voice' = voice
  BY DEF VMSetPriority
<1>2. synth' \in [Synths -> SynthRecords]
  BY <1>1 DEF IInv, TypeOK, SynthRecords
<1>3. \A t \in Synths : synth'[t].pending = synth[t].pending
                        /\ synth'[t].refCount = synth[t].refCount
  BY <1>1 DEF IInv, TypeOK, SynthRecords
<1>4. voice' \in [Voices -> VoiceRecords] /\ DeferralInv'
  BY <1>1, <1>3, SameVoicesStep DEF Alive
<1>. QED BY <1>2, <1>4 DEF VMSetPriority, counters, frame, IInv, TypeOK

LEMMA ResetControllersInv ==
    ASSUME IInv, NEW s \in Synths, NEW c \in Channels, ResetControllers(s, c)
    PROVE  IInv'
<1>1. voice' \in [Voices -> VoiceRecords] /\ DeferralInv'
  BY SameVoicesStep DEF ResetControllers, Alive
<1>. QED BY <1>1 DEF ResetControllers, counters, frame, IInv, TypeOK

LEMMA SustainPedalOnInv ==
    ASSUME IInv, NEW s \in Synths, NEW c \in Channels, SustainPedalOn(s, c)
    PROVE  IInv'
<1>1. PICK caught \in SUBSET {v \in OfChannel(s, c) : voice[v].state = "Release"} :
        voice' = [v \in Voices |-> IF v \in caught THEN Held(voice[v]) ELSE voice[v]]
  BY DEF SustainPedalOn
<1>2. \A v \in Voices : Tame(voice[v], voice'[v])
  <2>1. \A v \in caught : voice[v].state = "Release"
    OBVIOUS
  <2>. QED BY <1>1, <2>1, HeldTame, TameReflexive DEF IInv, DeferralInv
<1>3. voice' \in [Voices -> VoiceRecords] /\ DeferralInv'
  BY <1>1, <1>2, TameStep DEF SustainPedalOn, IInv, Alive
<1>. QED BY <1>3 DEF SustainPedalOn, counters, frame, IInv, TypeOK

LEMMA ReleaseDeferredTame ==
    ASSUME NEW f, \A v \in Voices : VoiceOK(f[v]), NEW s, NEW cs, NEW v \in Voices
    PROVE  Tame(f[v], ReleaseDeferred(f, s, cs)[v])
<1>1. CASE f[v].channel \in {s} \X cs /\ "SustainDefer" \in f[v].flags
  <2>1. ReleaseDeferred(f, s, cs)[v]
          = [Released(f[v]) EXCEPT !.flags = @ \ {"SustainDefer"}]
    BY <1>1 DEF ReleaseDeferred
  <2>. QED BY <1>1, <2>1
           DEF Tame, Waiting, VoiceOK, VoiceRecords, Released, States, Flags, Deferrals
<1>2. CASE ~(f[v].channel \in {s} \X cs /\ "SustainDefer" \in f[v].flags)
  BY <1>2, TameReflexive DEF ReleaseDeferred
<1>. QED BY <1>1, <1>2

LEMMA SustainPedalOffInv ==
    ASSUME IInv, NEW s \in Synths, NEW c \in Channels, SustainPedalOff(s, c)
    PROVE  IInv'
<1>1. \A v \in Voices : Tame(voice[v], voice'[v])
  BY ReleaseDeferredTame DEF SustainPedalOff, IInv, DeferralInv
<1>2. voice' = [v \in Voices |-> voice'[v]]
  BY DEF SustainPedalOff, ReleaseDeferred
<1>3. voice' \in [Voices -> VoiceRecords] /\ DeferralInv'
  BY <1>1, <1>2, TameStep DEF SustainPedalOff, IInv, Alive
<1>. QED BY <1>3 DEF SustainPedalOff, counters, frame, IInv, TypeOK

LEMMA VMAllNotesOffInv ==
    ASSUME IInv, NEW s \in Synths, NEW c \in Channels, VMAllNotesOff(s, c)
    PROVE  IInv'
<1>1. \A v \in Voices : Tame(voice[v], voice'[v])
  BY MutedTame, TameReflexive DEF VMAllNotesOff, Busy, IInv, DeferralInv
<1>2. voice' = [v \in Voices |-> voice'[v]]
  BY DEF VMAllNotesOff
<1>3. voice' \in [Voices -> VoiceRecords] /\ DeferralInv'
  BY <1>1, <1>2, TameStep DEF VMAllNotesOff, IInv, Alive
<1>. QED BY <1>3 DEF VMAllNotesOff, counters, frame, IInv, TypeOK

LEMMA TameTransitive ==
    ASSUME NEW a, NEW b, NEW c, Tame(a, b), Tame(b, c)
    PROVE  Tame(a, c)
BY DEF Tame

LEMMA VMReleaseAllVoicesInv ==
    ASSUME IInv, NEW s \in Synths, VMReleaseAllVoices(s)
    PROVE  IInv'
<1>. DEFINE f == ReleaseDeferred(voice, s, pedal[s])
            stolen == {v \in OfSynth(s) : voice[v].state = "Stolen"}
<1>1. /\ voice' = [v \in Voices |-> CASE v \in stolen -> Muted(f[v])
                                     [] v \in OfSynth(s) \ stolen -> Released(f[v])
                                     [] OTHER -> f[v]]
      /\ poolCount' = PoolMute(poolCount, f, stolen)
      /\ pedal' = [pedal EXCEPT ![s] = {}]
  BY DEF VMReleaseAllVoices
<1>2. \A v \in Voices : VoiceOK(voice[v])
  BY DEF IInv, DeferralInv
<1>3. \A v \in Voices : Tame(voice[v], f[v])
  BY <1>2, ReleaseDeferredTame
<1>4. \A v \in stolen : f[v] = voice[v]
  BY <1>2 DEF VoiceOK, ReleaseDeferred, OfSynth
<1>. stolen \in SUBSET Voices
  BY DEF OfSynth
<1>5. \A v \in Voices : Tame(voice[v], voice'[v])
  <2>. SUFFICES ASSUME NEW v \in Voices PROVE Tame(voice[v], voice'[v])
    OBVIOUS
  <2>1. CASE v \in stolen
    <3>1. voice'[v] = Muted(f[v]) /\ f[v] = voice[v] /\ f[v].state # "Free"
      BY <1>1, <1>4, <2>1
    <3>. QED BY <3>1, <1>2, MutedTame
  <2>2. CASE v \in OfSynth(s) \ stolen
    <3>1. voice'[v] = Released(f[v])
      BY <1>1, <2>2
    <3>2. Tame(voice[v], f[v]) /\ VoiceOK(f[v]) /\ f[v].state # "Stolen"
      BY <1>3, <2>2 DEF Tame
    <3>3. Tame(f[v], Released(f[v]))
      BY <3>2, ReleasedTame
    <3>. QED BY <3>1, <3>2, <3>3, TameTransitive
  <2>3. CASE v \notin OfSynth(s)
    BY <1>1, <1>3, <2>3
  <2>. QED BY <2>1, <2>2, <2>3
<1>6. voice' \in [Voices -> VoiceRecords] /\ DeferralInv'
  BY <1>1, <1>5, TameStep DEF VMReleaseAllVoices, IInv, Alive
<1>7. poolCount' \in [Synths -> 0 .. PoolModulus - 1]
  <2>. HIDE DEF f, stolen
  <2>. QED BY <1>1, PoolMuteType DEF IInv, TypeOK
<1>8. pedal' \in [Synths -> SUBSET Channels]
  BY <1>1 DEF IInv, TypeOK
<1>. QED BY <1>6, <1>7, <1>8 DEF VMReleaseAllVoices, frame, IInv, TypeOK

\* A note-off: the note it leaves waiting is of the synthesizer it flags.
LEMMA VMStopNoteInv ==
    ASSUME IInv, NEW s \in Synths, NEW c \in Channels, NEW n \in Notes, VMStopNote(s, c, n)
    PROVE  IInv'
<1>. DEFINE hit == {v \in OfChannel(s, c) : TargetNote(voice[v]) = n}
            late == {v \in hit \cap JustStarted : voice[v].state # "Stolen"}
            Marked(vr, flag) == [vr EXCEPT !.flags = @ \cup {flag}]
<1>1. synth' = [synth EXCEPT ![s].pending = @ \/ (late # {} /\ c \notin pedal[s])]
  BY DEF VMStopNote
<1>2. voice' = [v \in Voices |-> voice'[v]]
  BY DEF VMStopNote
<1>3. \A v \in Voices : VoiceOK(voice[v])
  BY DEF IInv, DeferralInv
<1>4. ASSUME NEW v \in Voices
      PROVE  \/ Tame(voice[v], voice'[v])
             \/ /\ VoiceOK(voice'[v]) /\ voice'[v].state # "Stolen"
                /\ v \in late /\ c \notin pedal[s] /\ voice'[v].channel = <<s, c>>
  <2>1. CASE v \notin hit
    <3>1. voice'[v] = voice[v]
      BY <2>1 DEF VMStopNote
    <3>. QED BY <3>1, <1>3, TameReflexive
  <2>2. CASE v \in hit /\ voice[v].state = "Stolen"
    <3>1. voice'[v] = Marked(voice[v], "NoteOffDefer")
      BY <2>2 DEF VMStopNote
    <3>. QED BY <3>1, <2>2, <1>3
             DEF Tame, Waiting, VoiceOK, VoiceRecords, Flags, Deferrals
  <2>3. CASE v \in hit /\ voice[v].state # "Stolen" /\ c \in pedal[s]
    <3>1. voice'[v] = Marked(voice[v], "SustainDefer")
      BY <2>3 DEF VMStopNote
    <3>. QED BY <3>1, <2>3, <1>3
             DEF Tame, Waiting, VoiceOK, VoiceRecords, Flags, Deferrals
  <2>4. CASE /\ v \in hit /\ voice[v].state # "Stolen" /\ c \notin pedal[s]
             /\ "NoSamples" \in voice[v].flags
    <3>1. voice'[v] = Marked(voice[v], "NoteOffDefer")
      BY <2>4 DEF VMStopNote
    <3>2. v \in late /\ voice[v].channel = <<s, c>>
      BY <2>4 DEF JustStarted, OfChannel, Target
    <3>. QED BY <3>1, <3>2, <2>4, <1>3 DEF VoiceOK, VoiceRecords, Flags, Deferrals
  <2>5. CASE /\ v \in hit /\ voice[v].state # "Stolen" /\ c \notin pedal[s]
             /\ "NoSamples" \notin voice[v].flags
    <3>1. voice'[v] = Released(voice[v])
      BY <2>5 DEF VMStopNote
    <3>. QED BY <3>1, <2>5, <1>3, ReleasedTame
  <2>. QED BY <2>1, <2>2, <2>3, <2>4, <2>5
<1>5. /\ synth' \in [Synths -> SynthRecords]
      /\ \A t \in Synths : synth'[t].refCount = synth[t].refCount
      /\ \A t \in Synths : synth[t].pending => synth'[t].pending
      /\ \A t \in Synths : synth'[t].pending => synth[t].pending \/ t = s
      /\ late # {} /\ c \notin pedal[s] => synth'[s].pending
  <2>. HIDE DEF late
  <2>. DEFINE raise == late # {} /\ c \notin pedal[s]
  <2>. HIDE DEF raise
  <2>1. synth' = [synth EXCEPT ![s].pending = @ \/ raise] /\ raise \in BOOLEAN
    BY <1>1 DEF raise
  <2>2. synth'[s] = [synth[s] EXCEPT !.pending = @ \/ raise]
        /\ \A t \in Synths \ {s} : synth'[t] = synth[t]
    BY <2>1 DEF IInv, TypeOK
  <2>3. /\ synth[s] \in SynthRecords /\ (synth[s].pending \/ raise) \in BOOLEAN
        /\ synth'[s].pending = (synth[s].pending \/ raise)
        /\ synth'[s].refCount = synth[s].refCount
    BY <2>1, <2>2 DEF IInv, TypeOK, SynthRecords
  <2>4. synth'[s] \in SynthRecords
    BY <2>2, <2>3 DEF SynthRecords
  <2>5. synth' \in [Synths -> SynthRecords]
    BY <2>1, <2>2, <2>4 DEF IInv, TypeOK
  <2>. QED BY <2>2, <2>3, <2>5 DEF raise
<1>. HIDE DEF late
<1>6. \A v \in Voices : VoiceOK(voice'[v])
  BY <1>4 DEF Tame
<1>7. \A v \in Voices : Waiting(voice'[v]) => synth'[voice'[v].channel[1]].pending
  <2>. SUFFICES ASSUME NEW v \in Voices, Waiting(voice'[v])
                PROVE  synth'[voice'[v].channel[1]].pending
    OBVIOUS
  <2>1. CASE Tame(voice[v], voice'[v])
    <3>1. Waiting(voice[v]) /\ voice'[v].channel = voice[v].channel
      BY <2>1 DEF Tame
    <3>2. voice[v].channel[1] \in Synths
      BY <3>1, <1>3, WaitingHasSynth
    <3>. QED BY <3>1, <3>2, <1>5, DeferralInvWaiting DEF IInv
  <2>2. CASE v \in late /\ c \notin pedal[s] /\ voice'[v].channel = <<s, c>>
    BY <2>2, <1>5
  <2>. QED BY <2>1, <2>2, <1>4
<1>8. \A v \in Voices : voice'[v].state = "Stolen" =>
                           synth'[voice'[v].nextChannel[1]].refCount > 0
  <2>. SUFFICES ASSUME NEW v \in Voices, voice'[v].state = "Stolen"
                PROVE  synth'[voice'[v].nextChannel[1]].refCount > 0
    OBVIOUS
  <2>1. Tame(voice[v], voice'[v])
    BY <1>4
  <2>2. /\ Alive(voice'[v].nextChannel[1])
        /\ voice'[v].nextChannel[1] \in Synths
    BY <2>1, <1>6 DEF Tame, VoiceOK, IInv, DeferralInv
  <2>. QED BY <2>2, <1>5 DEF Alive
<1>9. \A t \in Synths : synth'[t].pending => synth'[t].refCount > 0
  BY <1>5 DEF VMStopNote, IInv, DeferralInv, Alive
<1>10. voice' \in [Voices -> VoiceRecords] /\ DeferralInv'
  BY <1>2, <1>6, <1>7, <1>8, <1>9, VoiceStep
<1>. QED BY <1>5, <1>10 DEF VMStopNote, counters, frame, IInv, TypeOK

-----------------------------------------------------------------------------
(* Note-ons.                                                               *)

\* What each note-on does to a voice before it takes one.
LEMMA AfterKeyGroupTame ==
    ASSUME NEW match, \A v \in Voices : VoiceOK(voice[v]), NEW v \in Voices
    PROVE  Tame(voice[v], AfterKeyGroup(match)[v])
<1>1. CASE v \in match \cap JustStarted
  <2>1. AfterKeyGroup(match)[v] = [voice[v] EXCEPT !.flags = @ \cup {"DeferMute"}]
    BY <1>1 DEF AfterKeyGroup
  <2>. QED BY <2>1 DEF Tame, Waiting, VoiceOK, VoiceRecords, Flags, Deferrals
<1>2. CASE v \notin match \cap JustStarted
  <2>1. AfterKeyGroup(match)[v] = MuteIn(voice, match)[v]
    BY <1>2 DEF AfterKeyGroup
  <2>. QED BY <2>1, MuteInTame
<1>. QED BY <1>1, <1>2

LEMMA StartedFresh ==
    ASSUME NEW vr, VoiceOK(vr), NEW c \in Synths \X Channels, NEW n \in Keys,
           NEW r \in Regions, NEW quiet \in BOOLEAN
    PROVE  Fresh(Started(vr, c, n, r, quiet))
BY ConstantsAssumption, ChannelsExist
   DEF Fresh, Waiting, VoiceOK, VoiceRecords, Started, FreeVoice, Keys, States, Flags, Deferrals

LEMMA StolenForFresh ==
    ASSUME NEW vr, VoiceOK(vr), vr.channel \in Synths \X Channels,
           NEW c \in Synths \X Channels, Alive(c[1]), NEW n \in Keys, NEW r \in Regions
    PROVE  Fresh(StolenFor(vr, c, n, r))
BY ConstantsAssumption, ChannelsExist
   DEF Fresh, Waiting, VoiceOK, VoiceRecords, StolenFor, Keys, States, Flags, Deferrals

LEMMA StealVoiceStep ==
    ASSUME IInv, NEW s \in Synths, NEW c \in Channels, NEW n \in Notes, NEW r \in Regions,
           Alive(s), NEW f, NEW p \in [Synths -> 0 .. PoolModulus - 1], NEW v \in Voices,
           f = [u \in Voices |-> f[u]], \A u \in Voices : Tame(voice[u], f[u]),
           f[v].channel \in Synths \X Channels,
           StealVoice(s, c, n, r, f, p, v), UNCHANGED synth
    PROVE  /\ voice' \in [Voices -> VoiceRecords] /\ DeferralInv'
           /\ poolCount' \in [Synths -> 0 .. PoolModulus - 1]
<1>1. voice' = [f EXCEPT ![v] = StolenFor(f[v], <<s, c>>, n, r)]
  BY DEF StealVoice
<1>2. Fresh(StolenFor(f[v], <<s, c>>, n, r))
  <2>. <<s, c>> \in Synths \X Channels /\ <<s, c>>[1] = s /\ n \in Keys
    BY DEF Keys
  <2>. QED BY StolenForFresh DEF Tame
<1>3. \A u \in Voices : Tame(voice[u], voice'[u]) \/ Fresh(voice'[u])
  BY <1>1, <1>2
<1>4. voice' \in [Voices -> VoiceRecords] /\ DeferralInv'
  BY <1>1, <1>3, TameStep DEF IInv, Alive
<1>5. poolCount' \in [Synths -> 0 .. PoolModulus - 1]
  <2>. DEFINE left == PoolLess(p, f, {v})
  <2>1. left \in [Synths -> 0 .. PoolModulus - 1]
    BY PoolLessType
  <2>2. poolCount' = [left EXCEPT ![s] = WrapPool(left[s] + 1)]
    BY DEF StealVoice
  <2>. HIDE DEF left
  <2>3. WrapPool(left[s] + 1) \in 0 .. PoolModulus - 1
    BY <2>1, WrapType, CountsType
  <2>. QED BY <2>1, <2>2, <2>3
<1>. QED BY <1>4, <1>5

LEMMA StartVoiceStep ==
    ASSUME IInv, NEW s \in Synths, NEW c \in Channels, NEW n \in Notes, NEW r \in Regions,
           NEW f, NEW p \in [Synths -> 0 .. PoolModulus - 1], NEW v \in Voices,
           NEW quiet \in BOOLEAN,
           f = [u \in Voices |-> f[u]], \A u \in Voices : Tame(voice[u], f[u]),
           StartVoice(s, c, n, r, f, p, v, quiet), UNCHANGED synth
    PROVE  /\ voice' \in [Voices -> VoiceRecords] /\ DeferralInv'
           /\ poolCount' \in [Synths -> 0 .. PoolModulus - 1]
           /\ activeVoices' \in 0 .. CountModulus - 1
           /\ numActive' \in [Synths -> 0 .. CountModulus - 1]
<1>1. voice' = [f EXCEPT ![v] = Started(f[v], <<s, c>>, n, r, quiet)]
  BY DEF StartVoice
<1>2. Fresh(Started(f[v], <<s, c>>, n, r, quiet))
  <2>. <<s, c>> \in Synths \X Channels /\ n \in Keys
    BY DEF Keys
  <2>. QED BY StartedFresh DEF Tame
<1>3. \A u \in Voices : Tame(voice[u], voice'[u]) \/ Fresh(voice'[u])
  BY <1>1, <1>2
<1>4. voice' \in [Voices -> VoiceRecords] /\ DeferralInv'
  BY <1>1, <1>3, TameStep DEF IInv, Alive
<1>5. poolCount' \in [Synths -> 0 .. PoolModulus - 1]
  BY WrapType, CountsType DEF StartVoice
<1>6. activeVoices' \in 0 .. CountModulus - 1
  BY WrapType, CountsType DEF StartVoice, IInv, TypeOK
<1>7. numActive' \in [Synths -> 0 .. CountModulus - 1]
  BY WrapType, CountsType DEF StartVoice, IInv, TypeOK
<1>. QED BY <1>4, <1>5, <1>6, <1>7

LEMMA VMStartVoiceInv ==
    ASSUME IInv, NEW s \in Synths, NEW c \in Channels, NEW n \in Notes, NEW r \in Regions,
           VMStartVoice(s, c, n, r)
    PROVE  IInv'
<1>. DEFINE match == KeyGroupMatch(s, c, r)
            f == AfterKeyGroup(match)
            p == PoolMute(poolCount, voice, match \ JustStarted)
            same     == {v \in Voices : Target(f[v]) = <<s, c>> /\ TargetNote(f[v]) = n}
            oldest   == {v \in same : f[v].state # "Stolen"}
            eligible == {v \in Busy : MayStealFrom(s, Target(f[v])[1])}
<1>1. /\ UNCHANGED <<maxPolyphony, synth, pedal, frame>>
      /\ Alive(s)
      /\ \/ \E v \in oldest : StealVoice(s, c, n, r, f, p, v)
         \/ \E v \in Voices \ Busy, quiet \in BOOLEAN :
                StartVoice(s, c, n, r, f, p, v, quiet)
         \/ \E v \in eligible : StealVoice(s, c, n, r, f, p, v)
         \/ /\ voice' = f /\ poolCount' = p
            /\ UNCHANGED <<activeVoices, numActive>>
  BY DEF VMStartVoice
<1>2. p \in [Synths -> 0 .. PoolModulus - 1]
  <2>. match \ JustStarted \in SUBSET Voices
    BY DEF KeyGroupMatch, OfChannel
  <2>. QED BY PoolMuteType DEF IInv, TypeOK
<1>3. f = [u \in Voices |-> f[u]]
  BY DEF AfterKeyGroup
<1>4. \A u \in Voices : Tame(voice[u], f[u])
  BY AfterKeyGroupTame DEF IInv, DeferralInv
<1>5. \A v \in oldest : v \in Voices /\ f[v].channel \in Synths \X Channels
  BY DEF Target
<1>6. \A v \in eligible : v \in Voices /\ f[v].channel \in Synths \X Channels
  <2>. SUFFICES ASSUME NEW v \in eligible
                PROVE  v \in Voices /\ f[v].channel \in Synths \X Channels
    OBVIOUS
  <2>1. v \in Voices /\ voice[v].channel \in Synths \X Channels
    BY DEF Busy, IInv, DeferralInv, VoiceOK
  <2>2. f[v].channel = voice[v].channel
    <3>1. VoiceOK(voice[v])
      BY <2>1 DEF IInv, DeferralInv
    <3>2. MuteIn(voice, match)[v].channel = voice[v].channel
      BY <2>1, <3>1 DEF MuteIn, Muted, VoiceOK, VoiceRecords
    <3>. QED BY <2>1, <3>1, <3>2 DEF AfterKeyGroup, VoiceOK, VoiceRecords
  <2>. QED BY <2>1, <2>2
<1>. HIDE DEF f, p, oldest, eligible
<1>7. CASE \E v \in oldest : StealVoice(s, c, n, r, f, p, v)
  <2>. PICK v \in oldest : StealVoice(s, c, n, r, f, p, v)
    BY <1>7
  <2>1. voice' \in [Voices -> VoiceRecords] /\ DeferralInv'
        /\ poolCount' \in [Synths -> 0 .. PoolModulus - 1]
    BY <1>1, <1>2, <1>3, <1>4, <1>5, StealVoiceStep
  <2>. QED BY <1>1, <2>1 DEF StealVoice, frame, IInv, TypeOK
<1>8. CASE \E v \in eligible : StealVoice(s, c, n, r, f, p, v)
  <2>. PICK v \in eligible : StealVoice(s, c, n, r, f, p, v)
    BY <1>8
  <2>1. voice' \in [Voices -> VoiceRecords] /\ DeferralInv'
        /\ poolCount' \in [Synths -> 0 .. PoolModulus - 1]
    BY <1>1, <1>2, <1>3, <1>4, <1>6, StealVoiceStep
  <2>. QED BY <1>1, <2>1 DEF StealVoice, frame, IInv, TypeOK
<1>9. CASE \E v \in Voices \ Busy, quiet \in BOOLEAN :
              StartVoice(s, c, n, r, f, p, v, quiet)
  <2>. PICK v \in Voices \ Busy, quiet \in BOOLEAN : StartVoice(s, c, n, r, f, p, v, quiet)
    BY <1>9
  <2>1. /\ voice' \in [Voices -> VoiceRecords] /\ DeferralInv'
        /\ poolCount' \in [Synths -> 0 .. PoolModulus - 1]
        /\ activeVoices' \in 0 .. CountModulus - 1
        /\ numActive' \in [Synths -> 0 .. CountModulus - 1]
    BY <1>1, <1>2, <1>3, <1>4, StartVoiceStep
  <2>. QED BY <1>1, <2>1 DEF frame, IInv, TypeOK
<1>10. CASE voice' = f /\ poolCount' = p /\ UNCHANGED <<activeVoices, numActive>>
  <2>1. voice' \in [Voices -> VoiceRecords] /\ DeferralInv'
    BY <1>1, <1>3, <1>4, <1>10, TameStep DEF IInv, Alive
  <2>. QED BY <1>1, <1>2, <1>10, <2>1 DEF frame, IInv, TypeOK
<1>. QED BY <1>1, <1>7, <1>8, <1>9, <1>10

-----------------------------------------------------------------------------
(* The frame.                                                              *)

\* Rendering a busy voice ends it, mutes it or plays on.
LEMMA RenderedTame ==
    ASSUME NEW vr, VoiceOK(vr), vr.state # "Free", NEW done \in BOOLEAN, NEW quiet \in BOOLEAN
    PROVE  Tame(vr, Rendered(vr, done, quiet))
<1>. DEFINE played == [vr EXCEPT !.flags = @ \ {"NoSamples"}, !.silent = quiet]
            Playing(x) == IF x.state = "Start" THEN [x EXCEPT !.state = "Play"] ELSE x
<1>1. /\ VoiceOK(played) /\ played.state # "Free" /\ Tame(vr, played)
      /\ played.state = vr.state
  BY DEF Tame, Waiting, VoiceOK, VoiceRecords, Flags, Deferrals
<1>2. VoiceOK([played EXCEPT !.silent = TRUE]) /\ Tame(played, [played EXCEPT !.silent = TRUE])
  BY <1>1 DEF Tame, Waiting, VoiceOK, VoiceRecords
<1>. HIDE DEF played
<1>3. ASSUME NEW x, VoiceOK(x), x.state = "Free" => x.flags = {}
      PROVE  Tame(x, LateMuted(x)) /\ VoiceOK(LateMuted(x))
  BY <1>3 DEF LateMuted, Tame, Waiting, VoiceOK, VoiceRecords, States, Flags, Deferrals
<1>4. ASSUME NEW x, VoiceOK(x)
      PROVE  Tame(x, Playing(x))
  BY <1>4 DEF Tame, Waiting, VoiceOK, VoiceRecords, States, Flags, Deferrals
<1>5. CASE ~done
  <2>1. Rendered(vr, done, quiet) = Playing(LateMuted(played))
    BY <1>5 DEF Rendered, Finished, played
  <2>. HIDE DEF Playing
  <2>. QED BY <2>1, <1>1, <1>3, <1>4, TameTransitive
<1>6. CASE done /\ vr.state = "Stolen"
  <2>. DEFINE down == [played EXCEPT !.silent = TRUE]
  <2>1. Rendered(vr, done, quiet) = Playing(LateMuted(down))
    BY <1>6 DEF Rendered, Finished, played
  <2>2. down.state # "Free"
    BY <1>1
  <2>. HIDE DEF Playing, down
  <2>3. Tame(vr, down) /\ VoiceOK(down)
    BY <1>1, <1>2, TameTransitive DEF down
  <2>. QED BY <2>1, <2>2, <2>3, <1>3, <1>4, TameTransitive
<1>7. CASE done /\ vr.state # "Stolen"
  <2>. DEFINE freed == FreeVoice(played)
  <2>1. Rendered(vr, done, quiet) = Playing(LateMuted(freed))
    BY <1>7 DEF Rendered, Finished, played
  <2>2. freed.flags = {}
    BY DEF FreeVoice
  <2>. HIDE DEF Playing, freed
  <2>3. Tame(vr, freed) /\ VoiceOK(freed)
    BY <1>1, FreeVoiceTame, TameTransitive DEF freed, Tame
  <2>. QED BY <2>1, <2>2, <2>3, <1>3, <1>4, TameTransitive
<1>. QED BY <1>5, <1>6, <1>7

\* A retargeted voice starts a note of an open stream, and waits for its
\* note-off only if that came while it was stolen.
LEMMA BegunOK ==
    ASSUME DeferralInv, NEW v \in Retargeted
    PROVE  /\ VoiceOK(Begun[v]) /\ Begun[v].state = "Start"
           /\ Begun[v].channel = voice[v].nextChannel
           /\ Waiting(Begun[v]) => "NoteOffDefer" \in voice[v].flags
           /\ voice[v].nextChannel[1] \in Synths /\ Alive(voice[v].nextChannel[1])
           /\ voice[v].channel[1] \in Synths
<1>. DEFINE vr == voice[v]
            st == Started(vr, vr.nextChannel, vr.nextNote, vr.nextRegion, TRUE)
<1>1. v \in Voices /\ VoiceOK(vr) /\ vr.state = "Stolen" /\ Alive(vr.nextChannel[1])
  BY DEF Retargeted, DeferralInv
<1>2. /\ vr.nextChannel \in Synths \X Channels /\ vr.nextNote \in Keys
      /\ vr.nextRegion \in Regions /\ vr.flags \in SUBSET Flags
      /\ vr.channel \in Synths \X Channels
  BY <1>1 DEF VoiceOK, VoiceRecords
<1>3. VoiceOK(st) /\ st.state = "Start" /\ st.channel = vr.nextChannel /\ st.flags = {"NoSamples"}
  BY <1>1, <1>2, StartedFresh DEF Fresh, Started, FreeVoice
<1>4. Begun[v] = [st EXCEPT !.flags = @ \cup (vr.flags \cap {"NoteOffDefer"})]
  BY <1>1 DEF Begun
<1>. HIDE DEF st
<1>5. VoiceOK(Begun[v]) /\ Begun[v].state = "Start" /\ Begun[v].channel = vr.nextChannel
      /\ Begun[v].flags = {"NoSamples"} \cup (vr.flags \cap {"NoteOffDefer"})
  BY <1>2, <1>3, <1>4 DEF VoiceOK, VoiceRecords, Flags
<1>. QED BY <1>1, <1>2, <1>5 DEF Waiting

LEMMA VMAddSamplesInv ==
    ASSUME IInv, NEW done \in SUBSET Busy, NEW quiet \in SUBSET Busy,
           VMAddSamples(done, quiet)
    PROVE  IInv'
<1>. DEFINE freed == {v \in done : Begun[v].state # "Stolen"}
            late  == {v \in Busy \ freed : "DeferMute" \in Begun[v].flags}
            Moved(s, t) == {v \in Retargeted : voice[v].channel[1] = s /\ voice[v].nextChannel[1] = t}
            Into(s)  == UNION {Moved(t, s) : t \in Synths}
            OutOf(s) == UNION {Moved(s, t) : t \in Synths}
            Ended(s) == {v \in freed : voice[v].channel[1] = s}
            raise(s) == \E v \in Into(s) : "NoteOffDefer" \in voice[v].flags
<1>1. /\ voice' = [v \in Voices |-> IF v \in Busy
                        THEN Rendered(Begun[v], v \in done, v \in quiet) ELSE voice[v]]
      /\ activeVoices' = WrapCount(activeVoices - Cardinality(freed))
      /\ numActive' = [s \in Synths |-> WrapCount(numActive[s] + Cardinality(Into(s))
                                        - Cardinality(OutOf(s)) - Cardinality(Ended(s)))]
      /\ poolCount' = PoolLess(poolCount, Begun, freed \cup late)
      /\ synth' = [s \in Synths |-> [synth[s] EXCEPT !.pending = @ \/ raise(s)]]
      /\ phase' = 0
      /\ UNCHANGED <<maxPolyphony, pedal, crashed>>
  BY DEF VMAddSamples
<1>2. /\ Busy \subseteq Voices /\ Retargeted \subseteq Busy
      /\ freed \subseteq Voices /\ late \subseteq Voices
      /\ \A s : Into(s) \subseteq Retargeted
      /\ \A s : OutOf(s) \subseteq Retargeted /\ Ended(s) \subseteq Voices
  BY DEF Busy, Retargeted
<1>3. \A v \in Voices : /\ VoiceOK(voice[v])
                        /\ v \notin Retargeted => Begun[v] = voice[v]
  BY DEF Begun, IInv, DeferralInv
<1>4. \A v \in Retargeted : v \in Into(voice[v].nextChannel[1])
  BY BegunOK DEF IInv
<1>. HIDE DEF raise
<1>5. \A s \in Synths :
        /\ synth'[s] \in SynthRecords
        /\ synth'[s].refCount = synth[s].refCount
        /\ synth'[s].pending = (synth[s].pending \/ raise(s))
  <2>. SUFFICES ASSUME NEW s \in Synths
                PROVE  /\ synth'[s] \in SynthRecords
                       /\ synth'[s].refCount = synth[s].refCount
                       /\ synth'[s].pending = (synth[s].pending \/ raise(s))
    OBVIOUS
  <2>1. synth[s] \in SynthRecords /\ (synth[s].pending \/ raise(s)) \in BOOLEAN
    BY DEF IInv, TypeOK
  <2>2. synth'[s] = [synth[s] EXCEPT !.pending = @ \/ raise(s)]
    BY <1>1
  <2>. QED BY <2>1, <2>2 DEF SynthRecords
<1>6. synth' \in [Synths -> SynthRecords]
  BY <1>1, <1>5
<1>. HIDE DEF freed, late, Into, OutOf, Ended
<1>7. ASSUME NEW v \in Busy
      PROVE  Tame(Begun[v], voice'[v])
  <2>1. VoiceOK(Begun[v]) /\ Begun[v].state # "Free"
    BY <1>2, <1>3, <1>7, BegunOK DEF IInv, Busy
  <2>2. voice'[v] = Rendered(Begun[v], v \in done, v \in quiet)
    BY <1>1, <1>2, <1>7
  <2>3. (v \in done) \in BOOLEAN /\ (v \in quiet) \in BOOLEAN
    OBVIOUS
  <2>. QED BY <2>1, <2>2, <2>3, RenderedTame
<1>8. \A v \in Voices \ Busy : voice'[v] = voice[v]
  BY <1>1
<1>9. \A v \in Voices : VoiceOK(voice'[v])
  BY <1>3, <1>7, <1>8 DEF Tame
<1>10. \A v \in Voices : Waiting(voice'[v]) => synth'[voice'[v].channel[1]].pending
  <2>. SUFFICES ASSUME NEW v \in Voices, Waiting(voice'[v])
                PROVE  synth'[voice'[v].channel[1]].pending
    OBVIOUS
  <2>1. v \in Busy
    BY <1>8, <1>3, WaitingHasSynth DEF Busy
  <2>2. Waiting(Begun[v]) /\ voice'[v].channel = Begun[v].channel
    BY <2>1, <1>7 DEF Tame
  <2>3. CASE v \in Retargeted
    <3>1. /\ "NoteOffDefer" \in voice[v].flags
          /\ voice'[v].channel[1] = voice[v].nextChannel[1]
          /\ voice[v].nextChannel[1] \in Synths
      BY <2>2, <2>3, BegunOK DEF IInv
    <3>2. raise(voice[v].nextChannel[1])
      BY <3>1, <2>3, <1>4 DEF raise
    <3>. QED BY <3>1, <3>2, <1>5
  <2>4. CASE v \notin Retargeted
    <3>1. Waiting(voice[v]) /\ voice'[v].channel = voice[v].channel
      BY <2>2, <2>4, <1>3
    <3>2. voice[v].channel[1] \in Synths /\ synth[voice[v].channel[1]].pending
      BY <3>1, <1>3, WaitingHasSynth, DeferralInvWaiting DEF IInv
    <3>. QED BY <3>1, <3>2, <1>5
  <2>. QED BY <2>3, <2>4
<1>11. \A v \in Voices : voice'[v].state = "Stolen" =>
                            synth'[voice'[v].nextChannel[1]].refCount > 0
  <2>. SUFFICES ASSUME NEW v \in Voices, voice'[v].state = "Stolen"
                PROVE  synth'[voice'[v].nextChannel[1]].refCount > 0
    OBVIOUS
  <2>1. voice[v].state = "Stolen" /\ voice'[v].nextChannel = voice[v].nextChannel
    <3>1. CASE v \in Busy
      <4>1. Begun[v].state = "Stolen" /\ voice'[v].nextChannel = Begun[v].nextChannel
        BY <3>1, <1>7 DEF Tame
      <4>2. v \notin Retargeted
        BY <4>1, BegunOK DEF IInv
      <4>. QED BY <4>1, <4>2, <1>3
    <3>2. CASE v \notin Busy
      BY <3>2, <1>8
    <3>. QED BY <3>1, <3>2
  <2>2. Alive(voice[v].nextChannel[1]) /\ voice[v].nextChannel[1] \in Synths
    BY <2>1 DEF IInv, DeferralInv, VoiceOK
  <2>. QED BY <2>1, <2>2, <1>5 DEF Alive
<1>12. \A s \in Synths : synth'[s].pending => synth'[s].refCount > 0
  <2>. SUFFICES ASSUME NEW s \in Synths, synth'[s].pending PROVE Alive(s)
    BY <1>5 DEF Alive
  <2>1. CASE synth[s].pending
    BY <2>1 DEF IInv, DeferralInv
  <2>2. CASE raise(s)
    <3>1. PICK v \in Into(s) : TRUE
      BY <2>2 DEF raise
    <3>2. v \in Retargeted /\ voice[v].nextChannel[1] = s
      BY <3>1, <1>2 DEF Into
    <3>. QED BY <3>2, BegunOK DEF IInv
  <2>. QED BY <1>5, <2>1, <2>2
<1>13. voice' \in [Voices -> VoiceRecords] /\ DeferralInv'
  <2>. voice' = [v \in Voices |-> voice'[v]]
    BY <1>1
  <2>. QED BY <1>9, <1>10, <1>11, <1>12, VoiceStep
<1>14. activeVoices' \in 0 .. CountModulus - 1
  <2>1. Cardinality(freed) \in Int
    BY <1>2, VoicesFinite
  <2>. QED BY <1>1, <2>1, WrapType, CountsType DEF IInv, TypeOK
<1>15. numActive' \in [Synths -> 0 .. CountModulus - 1]
  <2>1. \A s \in Synths : numActive[s] + Cardinality(Into(s)) - Cardinality(OutOf(s))
                              - Cardinality(Ended(s)) \in Int
    <3>1. \A s \in Synths : /\ Cardinality(Into(s)) \in Int
                            /\ Cardinality(OutOf(s)) \in Int
                            /\ Cardinality(Ended(s)) \in Int
      BY <1>2, VoicesFinite
    <3>. QED BY <3>1, CountsType DEF IInv, TypeOK
  <2>. QED BY <1>1, <2>1, WrapType
<1>16. poolCount' \in [Synths -> 0 .. PoolModulus - 1]
  <2>1. freed \cup late \in SUBSET Voices
    BY <1>2
  <2>. QED BY <1>1, <2>1, PoolLessType DEF IInv, TypeOK
<1>17. 0 \in 0 .. NumSynths
  BY ConstantsAssumption
<1>. QED BY <1>1, <1>6, <1>13, <1>14, <1>15, <1>16, <1>17 DEF IInv, TypeOK

\* VMDeferredStopNote leaves no voice waiting.
LEMMA DeferredStopTame ==
    ASSUME \A v \in Voices : VoiceOK(voice[v]), NEW s, NEW held \in SUBSET Busy, NEW v \in Voices
    PROVE  /\ Tame(voice[v], DeferredStop(s, held)[v])
           /\ ~Waiting(DeferredStop(s, held)[v])
<1>. DEFINE vr   == voice[v]
            kept == [vr EXCEPT !.flags = @ \ {"NoteOffDefer"}]
            new  == DeferredStop(s, held)[v]
<1>1. Tame(vr, kept) /\ "NoteOffDefer" \notin kept.flags /\ kept.state = vr.state
  BY DEF Tame, Waiting, VoiceOK, VoiceRecords
<1>2. CASE "NoteOffDefer" \notin vr.flags \/ vr.state = "Stolen"
  <2>1. new = vr
    BY <1>2 DEF DeferredStop
  <2>. QED BY <1>2, <2>1, TameReflexive DEF Waiting
<1>3. CASE ~("NoteOffDefer" \notin vr.flags \/ vr.state = "Stolen")
  <2>1. new = Released(kept) \/ (v \in held /\ new = Held(kept)) \/ new = kept
    BY <1>3 DEF DeferredStop
  <2>2. kept.state # "Stolen" /\ VoiceOK(kept)
    BY <1>1, <1>3 DEF Tame
  <2>. HIDE DEF kept
  <2>3. CASE new = Released(kept)
    <3>1. Tame(vr, Released(kept))
      BY <1>1, <2>2, ReleasedTame, TameTransitive
    <3>2. "NoteOffDefer" \notin Released(kept).flags
      BY <1>1, <2>2 DEF Released, VoiceOK, VoiceRecords
    <3>. QED BY <2>3, <3>1, <3>2 DEF Waiting
  <2>4. CASE v \in held /\ new = Held(kept)
    <3>1. kept.state # "Free"
      BY <2>4, <1>1 DEF Busy
    <3>2. Tame(vr, Held(kept))
      BY <3>1, <1>1, <2>2, HeldTame, TameTransitive
    <3>3. "NoteOffDefer" \notin Held(kept).flags
      BY <1>1, <2>2 DEF Held, VoiceOK, VoiceRecords
    <3>. QED BY <2>4, <3>2, <3>3 DEF Waiting
  <2>5. CASE new = kept
    BY <2>5, <1>1 DEF Waiting
  <2>. QED BY <2>1, <2>3, <2>4, <2>5
<1>. QED BY <1>2, <1>3

LEMMA EndOfFrameInv ==
    ASSUME IInv, NEW s \in Synths, EndOfFrame(s)
    PROVE  IInv'
<1>. DEFINE stop  == Alive(s) /\ synth[s].pending
            reset == Alive(s) /\ synth[s].resetReq /\ numActive[s] = 0
            again == \E v \in Voices :
                        voice[v].state = "Stolen" /\ "NoteOffDefer" \in voice[v].flags
            after(held) == IF stop THEN DeferredStop(s, held) ELSE voice
<1>1. PICK held \in SUBSET Busy :
        /\ synth' = [synth EXCEPT ![s].pending  = @ /\ (stop => again),
                                  ![s].resetReq = @ /\ ~reset]
        /\ IF reset
           THEN /\ pedal' = [pedal EXCEPT ![s] = {}]
                /\ voice' = [v \in Voices |-> IF v \in OfSynth(s)
                                THEN FreeVoice(after(held)[v]) ELSE after(held)[v]]
           ELSE voice' = after(held) /\ UNCHANGED pedal
  BY DEF EndOfFrame
<1>. DEFINE f == after(held)
<1>2. \A v \in Voices : VoiceOK(voice[v])
  BY DEF IInv, DeferralInv
<1>3. \A v \in Voices : Tame(voice[v], f[v]) /\ (stop => ~Waiting(f[v]))
  BY <1>2, DeferredStopTame, TameReflexive
<1>4. f = [v \in Voices |-> f[v]]
  BY DEF DeferredStop, IInv, TypeOK
<1>. HIDE DEF stop, reset, again, f
<1>5. ASSUME NEW v \in Voices
      PROVE  Tame(voice[v], voice'[v]) /\ (stop => ~Waiting(voice'[v]))
  <2>1. voice'[v] = FreeVoice(f[v]) \/ voice'[v] = f[v]
    BY <1>1 DEF f
  <2>2. Tame(f[v], FreeVoice(f[v])) /\ ~Waiting(FreeVoice(f[v]))
    BY <1>3, FreeVoiceTame, FreeVoiceIdle DEF Tame
  <2>. QED BY <2>1, <2>2, <1>3, TameTransitive
<1>6. /\ synth'[s] = [synth[s] EXCEPT !.pending = @ /\ (stop => again), !.resetReq = @ /\ ~reset]
      /\ \A t \in Synths \ {s} : synth'[t] = synth[t]
  BY <1>1 DEF IInv, TypeOK
<1>7. /\ synth[s] \in SynthRecords
      /\ (synth[s].pending /\ (stop => again)) \in BOOLEAN
      /\ (synth[s].resetReq /\ ~reset) \in BOOLEAN
  BY DEF IInv, TypeOK
<1>8. /\ synth'[s].refCount = synth[s].refCount
      /\ synth'[s].pending => synth[s].pending
      /\ ~stop => synth'[s].pending = synth[s].pending
      /\ synth'[s] \in SynthRecords
  BY <1>6, <1>7 DEF SynthRecords
<1>9. synth' \in [Synths -> SynthRecords]
  BY <1>1, <1>6, <1>8 DEF IInv, TypeOK
<1>10. voice' = [v \in Voices |-> voice'[v]]
  BY <1>1, <1>4 DEF f
<1>11. \A v \in Voices : VoiceOK(voice'[v])
  BY <1>5 DEF Tame
<1>12. \A v \in Voices : Waiting(voice'[v]) => synth'[voice'[v].channel[1]].pending
  <2>. SUFFICES ASSUME NEW v \in Voices, Waiting(voice'[v])
                PROVE  synth'[voice'[v].channel[1]].pending
    OBVIOUS
  <2>1. ~stop /\ Waiting(voice[v]) /\ voice'[v].channel = voice[v].channel
    BY <1>5 DEF Tame
  <2>2. voice[v].channel[1] \in Synths /\ synth[voice[v].channel[1]].pending
    BY <2>1, <1>2, WaitingHasSynth, DeferralInvWaiting DEF IInv
  <2>. QED BY <2>1, <2>2, <1>6, <1>8
<1>13. \A v \in Voices : voice'[v].state = "Stolen" =>
                            synth'[voice'[v].nextChannel[1]].refCount > 0
  <2>. SUFFICES ASSUME NEW v \in Voices, voice'[v].state = "Stolen"
                PROVE  synth'[voice'[v].nextChannel[1]].refCount > 0
    OBVIOUS
  <2>1. voice[v].state = "Stolen" /\ voice'[v].nextChannel = voice[v].nextChannel
    BY <1>5 DEF Tame
  <2>2. Alive(voice[v].nextChannel[1]) /\ voice[v].nextChannel[1] \in Synths
    BY <2>1 DEF IInv, DeferralInv, VoiceOK
  <2>. QED BY <2>1, <2>2, <1>6, <1>8 DEF Alive
<1>14. \A t \in Synths : synth'[t].pending => synth'[t].refCount > 0
  BY <1>6, <1>8 DEF IInv, DeferralInv, Alive
<1>15. voice' \in [Voices -> VoiceRecords] /\ DeferralInv'
  BY <1>10, <1>11, <1>12, <1>13, <1>14, VoiceStep
<1>16. pedal' \in [Synths -> SUBSET Channels]
  <2>1. pedal' = pedal \/ pedal' = [pedal EXCEPT ![s] = {}]
    BY <1>1
  <2>. QED BY <2>1 DEF IInv, TypeOK
<1>17. phase' \in 0 .. NumSynths
  BY ConstantsAssumption DEF EndOfFrame, Synths
<1>. QED BY <1>9, <1>15, <1>16, <1>17 DEF EndOfFrame, IInv, TypeOK

LEMMA DereferenceInv ==
    ASSUME IInv, Dereference
    PROVE  IInv'
<1>1. voice' \in [Voices -> VoiceRecords] /\ DeferralInv'
  BY SameVoicesStep DEF Dereference, Alive
<1>. QED BY <1>1 DEF Dereference, counters, IInv, TypeOK

LEMMA StutterInv ==
    ASSUME IInv, UNCHANGED vars
    PROVE  IInv'
<1>1. voice' \in [Voices -> VoiceRecords] /\ DeferralInv'
  BY SameVoicesStep DEF vars, Alive
<1>. QED BY <1>1 DEF vars, counters, frame, IInv, TypeOK

-----------------------------------------------------------------------------
(* The theorems.                                                           *)

\* IInv is inductive: every call, message and frame preserves it.
THEOREM Inductive == IInv /\ [Next]_vars => IInv'
<1>. SUFFICES ASSUME IInv, [Next]_vars PROVE IInv'
  OBVIOUS
<1>1. ASSUME NEW s \in Synths, Call(s) PROVE IInv'
  BY <1>1, VMInitMIDIInv, VMIncRefCountInv, VMMIDIShutdownInv, VMResetInv, VMResetForceInv,
     VMMuteAllVoicesInv, VMReleaseAllVoicesInv, VMSetPolyphonyInv, VMSetPriorityInv DEF Call
<1>2. ASSUME NEW s \in Synths, NEW c \in Channels, Message(s, c) PROVE IInv'
  BY <1>2, VMStartVoiceInv, VMStopNoteInv, SustainPedalOnInv, SustainPedalOffInv,
     ResetControllersInv, VMAllNotesOffInv DEF Message
<1>3. ASSUME NEW count \in SynthLimits, VMSetSynthPolyphony(count) PROVE IInv'
  BY <1>3, VMSetSynthPolyphonyInv
<1>4. CASE Frame
  BY <1>4, VMAddSamplesInv, EndOfFrameInv DEF Frame
<1>5. CASE Dereference
  BY <1>5, DereferenceInv
<1>6. CASE UNCHANGED vars
  BY <1>6, StutterInv
<1>. QED BY <1>1, <1>2, <1>3, <1>4, <1>5, <1>6 DEF Next

\* Every variable of the voice manager keeps the range of its C type, whatever
\* is called in whatever order, with any number of voices and streams.
THEOREM TypeCorrect == Spec => []TypeOK
<1>1. IInv => TypeOK
  BY DEF IInv
<1>. QED BY <1>1, InitInv, Inductive, PTL DEF Spec

\* A note-off that VMStopNote put off is never forgotten by the synthesizer:
\* its pending flag is up as long as a voice waits, through steals across
\* streams, resets and the closing of streams.
THEOREM NoteOffsScheduled == Spec => []DeferredNoteOffScheduled
<1>1. IInv => DeferredNoteOffScheduled
  BY DEF IInv, DeferralInv
<1>. QED BY <1>1, InitInv, Inductive, PTL DEF Spec

\* A pedal release never finds a stolen voice.
THEOREM StolenVoicesNotSustained == Spec => []StolenNeverSustained
<1>1. IInv => StolenNeverSustained
  BY DEF IInv, DeferralInv, VoiceOK, StolenNeverSustained
<1>. QED BY <1>1, InitInv, Inductive, PTL DEF Spec

\* The strengthened invariant itself, which a run checks too.
THEOREM DeferralsConsistent == Spec => []DeferralInv
<1>1. IInv => DeferralInv
  BY DEF IInv
<1>. QED BY <1>1, InitInv, Inductive, PTL DEF Spec

-----------------------------------------------------------------------------
(* Which voices are busy, and for whom.                                    *)

\* What all but a note-on, a forced reset and a frame do to a voice at most:
\* it is neither freed nor taken, nor stolen for a note.
Steady(old, new) ==
    /\ new.state = "Free" <=> old.state = "Free"
    /\ new.state = "Free" => new.channel = old.channel
    /\ new.state = "Stolen" => old.state = "Stolen" /\ new.nextChannel = old.nextChannel

Settled == \A v \in Voices : Steady(voice[v], voice'[v])

LEMMA SteadyTransitive ==
    ASSUME NEW x, NEW y, NEW z, Steady(x, y), Steady(y, z) PROVE Steady(x, z)
BY DEF Steady

LEMMA MutedSteady == ASSUME NEW vr, VoiceOK(vr), vr.state # "Free" PROVE Steady(vr, Muted(vr))
BY DEF Steady, VoiceOK, VoiceRecords, Muted

LEMMA ReleasedSteady == ASSUME NEW vr, VoiceOK(vr) PROVE Steady(vr, Released(vr))
BY DEF Steady, VoiceOK, VoiceRecords, Released

LEMMA HeldSteady == ASSUME NEW vr, VoiceOK(vr), vr.state \notin {"Free", "Stolen"} PROVE Steady(vr, Held(vr))
BY DEF Steady, VoiceOK, VoiceRecords, Held

LEMMA FlagsSteady == ASSUME NEW vr, VoiceOK(vr), NEW fl PROVE Steady(vr, [vr EXCEPT !.flags = fl])
BY DEF Steady, VoiceOK, VoiceRecords

LEMMA MuteInSteady ==
    ASSUME NEW f, \A v \in Voices : VoiceOK(f[v]), NEW vs, NEW v \in Voices
    PROVE  Steady(f[v], MuteIn(f, vs)[v])
<1>1. CASE v \in vs /\ f[v].state \notin {"Free", "Muting"}
  BY <1>1, MutedSteady DEF MuteIn
<1>2. CASE ~(v \in vs /\ f[v].state \notin {"Free", "Muting"})
  BY <1>2 DEF MuteIn, Steady
<1>. QED BY <1>1, <1>2

LEMMA ReleaseDeferredSteady ==
    ASSUME \A v \in Voices : VoiceOK(voice[v]), NEW s, NEW cs, NEW v \in Voices
    PROVE  /\ VoiceOK(ReleaseDeferred(voice, s, cs)[v])
           /\ Steady(voice[v], ReleaseDeferred(voice, s, cs)[v])
<1>. DEFINE vr == voice[v]
            g == ReleaseDeferred(voice, s, cs)[v]
<1>1. VoiceOK(g)
  BY ReleaseDeferredTame DEF Tame
<1>2. CASE vr.channel \in {s} \X cs /\ "SustainDefer" \in vr.flags
  <2>1. g = [Released(vr) EXCEPT !.flags = @ \ {"SustainDefer"}]
    BY <1>2 DEF ReleaseDeferred
  <2>2. vr.state # "Stolen"
    BY <1>2 DEF VoiceOK
  <2>3. VoiceOK(Released(vr))
    BY <2>2, ReleasedTame DEF Tame
  <2>. QED BY <1>1, <2>1, <2>3, ReleasedSteady, FlagsSteady, SteadyTransitive
<1>3. CASE ~(vr.channel \in {s} \X cs /\ "SustainDefer" \in vr.flags)
  <2>1. g = vr
    BY <1>3 DEF ReleaseDeferred
  <2>. QED BY <1>1, <2>1 DEF Steady
<1>. QED BY <1>2, <1>3

LEMMA StopNoteSteady ==
    ASSUME IInv, NEW s \in Synths, NEW c \in Channels, NEW n \in Notes, VMStopNote(s, c, n)
    PROVE  Settled
<1>. DEFINE hit == {v \in OfChannel(s, c) : TargetNote(voice[v]) = n}
<1>1. \A v \in Voices :
         \/ voice'[v] = voice[v]
         \/ voice'[v] = [voice[v] EXCEPT !.flags = @ \cup {"SustainDefer"}]
         \/ voice'[v] = [voice[v] EXCEPT !.flags = @ \cup {"NoteOffDefer"}]
         \/ voice'[v] = Released(voice[v])
  BY DEF VMStopNote
<1>2. \A v \in Voices : VoiceOK(voice[v])
  BY DEF IInv, DeferralInv
<1>. SUFFICES ASSUME NEW v \in Voices PROVE Steady(voice[v], voice'[v])
  BY DEF Settled
<1>3. Steady(voice[v], voice[v])
  BY DEF Steady
<1>4. /\ Steady(voice[v], Released(voice[v]))
      /\ Steady(voice[v], [voice[v] EXCEPT !.flags = @ \cup {"SustainDefer"}])
      /\ Steady(voice[v], [voice[v] EXCEPT !.flags = @ \cup {"NoteOffDefer"}])
  BY <1>2, ReleasedSteady, FlagsSteady
<1>. QED BY Zenon, <1>1, <1>3, <1>4

LEMMA ReleaseAllSteady ==
    ASSUME IInv, NEW s \in Synths, VMReleaseAllVoices(s) PROVE Settled
<1>. DEFINE f == ReleaseDeferred(voice, s, pedal[s])
            stolen == {v \in OfSynth(s) : voice[v].state = "Stolen"}
<1>1. \A v \in Voices : VoiceOK(voice[v])
  BY DEF IInv, DeferralInv
<1>2. \A v \in Voices : VoiceOK(f[v]) /\ Steady(voice[v], f[v])
  BY <1>1, ReleaseDeferredSteady
<1>3. \A v \in Voices : \/ v \in stolen /\ voice'[v] = Muted(f[v])
                        \/ voice'[v] = Released(f[v]) \/ voice'[v] = f[v]
  BY DEF VMReleaseAllVoices
<1>. HIDE DEF f
<1>. SUFFICES ASSUME NEW v \in Voices PROVE Steady(voice[v], voice'[v])
  BY DEF Settled
<1>4. v \in stolen => f[v].state # "Free"
  BY <1>2 DEF Steady
<1>. QED BY <1>2, <1>3, <1>4, MutedSteady, ReleasedSteady, SteadyTransitive

LEMMA CallsSettled ==
    ASSUME IInv, NEW s \in Synths,
           \/ VMInitMIDI(s) \/ VMIncRefCount(s) \/ VMReset(s) \/ VMMuteAllVoices(s)
           \/ \E count \in Limits : VMSetPolyphony(s, count)
           \/ \E pri \in Priorities : VMSetPriority(s, pri)
           \/ \E c \in Channels : \/ SustainPedalOn(s, c) \/ SustainPedalOff(s, c)
                                  \/ ResetControllers(s, c) \/ VMAllNotesOff(s, c)
           \/ \E count \in SynthLimits : VMSetSynthPolyphony(count)
           \/ Dereference \/ UNCHANGED vars
    PROVE  Settled
<1>1. \A v \in Voices : VoiceOK(voice[v])
  BY DEF IInv, DeferralInv
<1>2. CASE UNCHANGED voice
  BY <1>2 DEF Settled, Steady
<1>3. ASSUME NEW vs, voice' = MuteIn(voice, vs) PROVE Settled
  BY <1>1, <1>3, MuteInSteady DEF Settled
<1>4. CASE VMReset(s) \/ VMMuteAllVoices(s)
  BY Zenon, <1>3, <1>4 DEF VMReset, VMMuteAllVoices, MuteVoices
<1>5. CASE \/ \E count \in Limits : VMSetPolyphony(s, count)
           \/ \E count \in SynthLimits : VMSetSynthPolyphony(count)
  <2>1. voice' = voice \/ \E vs \in SUBSET Voices : voice' = MuteIn(voice, vs)
    BY <1>5 DEF VMSetPolyphony, VMSetSynthPolyphony, MuteVoices, Unmuted, Busy
  <2>. QED BY Zenon, <1>2, <1>3, <2>1
<1>6. ASSUME NEW c \in Channels, SustainPedalOn(s, c) PROVE Settled
  <2>1. \A v \in Voices : \/ voice'[v] = voice[v]
                          \/ voice[v].state = "Release" /\ voice'[v] = Held(voice[v])
    BY <1>6 DEF SustainPedalOn
  <2>2. \A v \in Voices : voice[v].state = "Release" => voice[v].state \notin {"Free", "Stolen"}
    OBVIOUS
  <2>. QED BY <1>1, <2>1, <2>2, HeldSteady DEF Settled, Steady
<1>7. ASSUME NEW c \in Channels, SustainPedalOff(s, c) PROVE Settled
  BY Zenon, <1>1, <1>7, ReleaseDeferredSteady DEF SustainPedalOff, Settled
<1>8. ASSUME NEW c \in Channels, VMAllNotesOff(s, c) PROVE Settled
  <2>1. \A v \in Voices : \/ voice'[v] = voice[v]
                          \/ voice[v].state # "Free" /\ voice'[v] = Muted(voice[v])
    BY <1>8 DEF VMAllNotesOff, Busy
  <2>. QED BY <1>1, <2>1, MutedSteady DEF Settled, Steady
<1>. QED BY Zenon, <1>2, <1>4, <1>5, <1>6, <1>7, <1>8 DEF VMInitMIDI, VMIncRefCount, VMSetPriority,
        ResetControllers, Dereference, vars

\* A frame gives no voice to a note, and frees only what it counts out.
LEMMA FinishedSteady ==
    ASSUME NEW vr, VoiceOK(vr), vr.state # "Free", NEW done \in BOOLEAN, NEW quiet \in BOOLEAN
    PROVE  /\ Rendered(vr, done, quiet).state = "Free" <=> done = TRUE /\ vr.state # "Stolen"
           /\ Rendered(vr, done, quiet).state = "Free" => Rendered(vr, done, quiet).channel = Unassigned
           /\ Rendered(vr, done, quiet).state = "Stolen" =>
                 vr.state = "Stolen" /\ Rendered(vr, done, quiet).nextChannel = vr.nextChannel
<1>. DEFINE played == [vr EXCEPT !.flags = @ \ {"NoSamples"}, !.silent = quiet]
            x == Finished(vr, done, quiet)
            y == LateMuted(x)
            z == Rendered(vr, done, quiet)
<1>1. z = IF y.state = "Start" THEN [y EXCEPT !.state = "Play"] ELSE y
  BY DEF Rendered
<1>2. VoiceOK(played) /\ played.state = vr.state /\ played.nextChannel = vr.nextChannel
  BY DEF VoiceOK, VoiceRecords, Flags, Deferrals
<1>3. VoiceOK([played EXCEPT !.silent = TRUE]) /\ [played EXCEPT !.silent = TRUE].state = vr.state
      /\ [played EXCEPT !.silent = TRUE].nextChannel = vr.nextChannel
  BY <1>2 DEF VoiceOK, VoiceRecords
<1>4. CASE done = TRUE /\ vr.state # "Stolen"
  <2>1. x = FreeVoice(played)
    BY <1>4 DEF Finished
  <2>2. x.flags = {} /\ x.state = "Free" /\ x.channel = Unassigned
    BY <2>1 DEF FreeVoice
  <2>. HIDE DEF x
  <2>3. y = x
    BY <2>2 DEF LateMuted
  <2>. QED BY <1>1, <1>4, <2>2, <2>3
<1>5. CASE ~(done = TRUE /\ vr.state # "Stolen")
  <2>1. x = played \/ x = [played EXCEPT !.silent = TRUE]
    BY <1>5 DEF Finished
  <2>2. VoiceOK(x) /\ x.state = vr.state /\ x.nextChannel = vr.nextChannel
    BY <1>2, <1>3, <2>1
  <2>. HIDE DEF x
  <2>3. y = x \/ (VoiceOK(x) /\ y.state = "Muting")
    BY <2>2 DEF LateMuted, VoiceOK, VoiceRecords
  <2>. HIDE DEF y
  <2>4. z.state # "Free" /\ (z.state = "Stolen" => z = x)
    <3>1. CASE y = x
      BY <1>1, <2>2, <3>1 DEF VoiceOK, VoiceRecords
    <3>2. CASE y.state = "Muting"
      BY <1>1, <3>2
    <3>. QED BY <2>3, <3>1, <3>2
  <2>. QED BY Zenon, <1>5, <2>2, <2>4
<1>. QED BY <1>4, <1>5

LEMMA AddSamplesVoices ==
    ASSUME IInv, NEW done \in SUBSET Busy, NEW quiet \in SUBSET Busy, VMAddSamples(done, quiet)
    PROVE  \A v \in Voices :
              /\ voice'[v].state = "Free" <=> v \notin Busy \/ (v \in done /\ Begun[v].state # "Stolen")
              /\ voice'[v].state = "Free" => voice'[v].channel = Unassigned \/ voice'[v] = voice[v]
              /\ voice'[v].state = "Stolen" =>
                    voice[v].state = "Stolen" /\ voice'[v].nextChannel = voice[v].nextChannel
<1>. SUFFICES ASSUME NEW v \in Voices
              PROVE  /\ voice'[v].state = "Free" <=> v \notin Busy \/ (v \in done /\ Begun[v].state # "Stolen")
                     /\ voice'[v].state = "Free" => voice'[v].channel = Unassigned \/ voice'[v] = voice[v]
                     /\ voice'[v].state = "Stolen" =>
                           voice[v].state = "Stolen" /\ voice'[v].nextChannel = voice[v].nextChannel
  OBVIOUS
<1>1. voice' = [u \in Voices |-> IF u \in Busy
                    THEN Rendered(Begun[u], u \in done, u \in quiet) ELSE voice[u]]
  BY DEF VMAddSamples
<1>2. CASE v \notin Busy
  <2>1. voice'[v] = voice[v] /\ voice[v].state = "Free"
    BY <1>1, <1>2 DEF Busy
  <2>. QED BY <1>2, <2>1
<1>3. CASE v \in Busy
  <2>1. voice'[v] = Rendered(Begun[v], v \in done, v \in quiet)
    BY <1>1, <1>3
  <2>2. /\ VoiceOK(Begun[v]) /\ Begun[v].state # "Free"
        /\ Begun[v].state = "Stolen" => Begun[v] = voice[v]
    <3>1. CASE v \in Retargeted
      BY <3>1, BegunOK DEF IInv
    <3>2. CASE v \notin Retargeted
      <4>1. Begun[v] = voice[v]
        BY <3>2 DEF Begun
      <4>. QED BY <1>3, <4>1 DEF IInv, DeferralInv, Busy
    <3>. QED BY <3>1, <3>2
  <2>3. (v \in done) \in BOOLEAN /\ (v \in quiet) \in BOOLEAN
    OBVIOUS
  <2>4. /\ voice'[v].state = "Free" <=> v \in done /\ Begun[v].state # "Stolen"
        /\ voice'[v].state = "Free" => voice'[v].channel = Unassigned
        /\ voice'[v].state = "Stolen" =>
              Begun[v].state = "Stolen" /\ voice'[v].nextChannel = Begun[v].nextChannel
    <3>. DEFINE x == Rendered(Begun[v], v \in done, v \in quiet)
    <3>1. /\ x.state = "Free" <=> (v \in done) = TRUE /\ Begun[v].state # "Stolen"
          /\ x.state = "Free" => x.channel = Unassigned
          /\ x.state = "Stolen" => Begun[v].state = "Stolen" /\ x.nextChannel = Begun[v].nextChannel
      BY <2>2, <2>3, FinishedSteady
    <3>. HIDE DEF x
    <3>. QED BY <2>1, <3>1 DEF x
  <2>. QED BY Zenon, <1>3, <2>2, <2>4
<1>. QED BY <1>2, <1>3

LEMMA DeferredStopSteady ==
    ASSUME \A v \in Voices : VoiceOK(voice[v]), NEW s, NEW held \in SUBSET Busy, NEW v \in Voices
    PROVE  Steady(voice[v], DeferredStop(s, held)[v])
<1>. DEFINE vr   == voice[v]
            kept == [vr EXCEPT !.flags = @ \ {"NoteOffDefer"}]
            new  == DeferredStop(s, held)[v]
<1>1. Steady(vr, vr)
  BY DEF Steady
<1>2. \/ new = vr
      \/ /\ vr.state # "Stolen"
         /\ new = Released(kept) \/ (v \in held /\ new = Held(kept)) \/ new = kept
  BY DEF DeferredStop
<1>3. Steady(vr, kept) /\ VoiceOK(kept) /\ kept.state = vr.state
  BY DEF Steady, VoiceOK, VoiceRecords
<1>. HIDE DEF kept, new
<1>4. v \in held => vr.state # "Free"
  BY DEF Busy
<1>5. Steady(kept, Released(kept))
  BY <1>3, ReleasedSteady
<1>6. v \in held /\ vr.state # "Stolen" => Steady(kept, Held(kept))
  BY <1>3, <1>4, HeldSteady
<1>7. Steady(vr, Released(kept))
  BY <1>3, <1>5, SteadyTransitive
<1>8. v \in held /\ vr.state # "Stolen" => Steady(vr, Held(kept))
  BY <1>3, <1>6, SteadyTransitive
<1>9. Steady(vr, new)
  BY Zenon, <1>1, <1>2, <1>3, <1>7, <1>8
<1>. QED BY <1>9 DEF new

\* The end of a frame: the note-offs, and then the voices of a completed reset.
LEMMA EndOfFrameVoices ==
    ASSUME IInv, NEW s \in Synths, EndOfFrame(s)
    PROVE  \E f : /\ \A v \in Voices : Steady(voice[v], f[v])
                  /\ \A v \in Voices : \/ voice'[v] = f[v]
                                       \/ numActive[s] = 0 /\ v \in OfSynth(s) /\ voice'[v] = FreeVoice(f[v])
<1>. DEFINE stop  == Alive(s) /\ synth[s].pending
            reset == Alive(s) /\ synth[s].resetReq /\ numActive[s] = 0
            after(held) == IF stop THEN DeferredStop(s, held) ELSE voice
<1>1. PICK held \in SUBSET Busy :
        IF reset
        THEN voice' = [v \in Voices |-> IF v \in OfSynth(s)
                                        THEN FreeVoice(after(held)[v]) ELSE after(held)[v]]
        ELSE voice' = after(held)
  BY DEF EndOfFrame
<1>2. \A v \in Voices : VoiceOK(voice[v])
  BY DEF IInv, DeferralInv
<1>3. \A v \in Voices : Steady(voice[v], after(held)[v])
  <2>. SUFFICES ASSUME NEW v \in Voices PROVE Steady(voice[v], after(held)[v])
    OBVIOUS
  <2>1. Steady(voice[v], voice[v])
    BY DEF Steady
  <2>. QED BY <1>2, <2>1, DeferredStopSteady
<1>. DEFINE f == after(held)
<1>4. \A v \in Voices : \/ voice'[v] = f[v]
                        \/ numActive[s] = 0 /\ v \in OfSynth(s) /\ voice'[v] = FreeVoice(f[v])
  <2>. HIDE DEF f
  <2>1. CASE reset
    BY <1>1, <2>1 DEF f
  <2>2. CASE ~reset
    BY <1>1, <2>2 DEF f
  <2>. QED BY <2>1, <2>2
<1>5. \A v \in Voices : Steady(voice[v], f[v])
  BY <1>3
<1>. HIDE DEF f
<1>. QED BY Zenon, <1>4, <1>5

LEMMA AfterKeyGroupSteady ==
    ASSUME NEW match, \A v \in Voices : VoiceOK(voice[v]), NEW v \in Voices
    PROVE  /\ Steady(voice[v], AfterKeyGroup(match)[v])
           /\ v \notin match => AfterKeyGroup(match)[v] = voice[v]
<1>1. CASE v \in match \cap JustStarted
  <2>1. AfterKeyGroup(match)[v] = [voice[v] EXCEPT !.flags = @ \cup {"DeferMute"}]
    BY <1>1 DEF AfterKeyGroup
  <2>. QED BY <1>1, <2>1, FlagsSteady
<1>2. CASE v \notin match \cap JustStarted
  <2>1. AfterKeyGroup(match)[v] = MuteIn(voice, match)[v]
    BY <1>2 DEF AfterKeyGroup
  <2>2. v \notin match => MuteIn(voice, match)[v] = voice[v]
    BY DEF MuteIn
  <2>. QED BY <2>1, <2>2, MuteInSteady
<1>. QED BY <1>1, <1>2

\* What a note-on does to the voices: it starts a free one, or steals one that
\* is its own or that it may take, or only mutes the key group.
LEMMA NoteOnVoices ==
    ASSUME IInv, NEW s \in Synths, NEW c \in Channels, NEW n \in Notes, NEW r \in Regions,
           VMStartVoice(s, c, n, r)
    PROVE  \E f :
             /\ \A v \in Voices : /\ Steady(voice[v], f[v]) /\ VoiceOK(f[v])
                                  /\ Target(voice[v])[1] # s => f[v] = voice[v]
             /\ \/ /\ \A v \in Voices : voice'[v] = f[v]
                   /\ UNCHANGED <<activeVoices, numActive>>
                \/ \E v \in Voices :
                      /\ \A u \in Voices : u # v => voice'[u] = f[u]
                      /\ voice'[v] = StolenFor(f[v], <<s, c>>, n, r)
                      /\ \/ Target(f[v])[1] = s /\ f[v].channel = <<s, c>>
                         \/ v \in Busy /\ MayStealFrom(s, Target(f[v])[1])
                      /\ UNCHANGED <<activeVoices, numActive>>
                \/ \E v \in Voices \ Busy, quiet \in BOOLEAN :
                      /\ \A u \in Voices : u # v => voice'[u] = f[u]
                      /\ voice'[v] = Started(f[v], <<s, c>>, n, r, quiet)
                      /\ numActive[s] < MaxSynthPoly(s)
                      /\ activeVoices' = WrapCount(activeVoices + 1)
                      /\ numActive' = [numActive EXCEPT ![s] = WrapCount(numActive[s] + 1)]
<1>. DEFINE match == KeyGroupMatch(s, c, r)
            f == AfterKeyGroup(match)
            p == PoolMute(poolCount, voice, match \ JustStarted)
            same     == {v \in Voices : Target(f[v]) = <<s, c>> /\ TargetNote(f[v]) = n}
            oldest   == {v \in same : f[v].state # "Stolen"}
            eligible == {v \in Busy : MayStealFrom(s, Target(f[v])[1])}
<1>1. \/ \E v \in oldest : StealVoice(s, c, n, r, f, p, v)
      \/ /\ numActive[s] < MaxSynthPoly(s)
         /\ \E v \in Voices \ Busy, quiet \in BOOLEAN :
                StartVoice(s, c, n, r, f, p, v, quiet)
      \/ \E v \in eligible : StealVoice(s, c, n, r, f, p, v)
      \/ voice' = f /\ UNCHANGED <<activeVoices, numActive>>
  BY DEF VMStartVoice
<1>2. \A v \in Voices : VoiceOK(voice[v])
  BY DEF IInv, DeferralInv
<1>3. \A v \in Voices : /\ Steady(voice[v], f[v]) /\ VoiceOK(f[v])
                        /\ Target(voice[v])[1] # s => f[v] = voice[v]
  <2>. SUFFICES ASSUME NEW v \in Voices
                PROVE  /\ Steady(voice[v], f[v]) /\ VoiceOK(f[v])
                       /\ Target(voice[v])[1] # s => f[v] = voice[v]
    OBVIOUS
  <2>1. Target(voice[v])[1] # s => v \notin match
    BY DEF KeyGroupMatch, OfChannel
  <2>. HIDE DEF match
  <2>2. VoiceOK(AfterKeyGroup(match)[v])
    BY <1>2, AfterKeyGroupTame DEF Tame
  <2>. QED BY <1>2, <2>1, <2>2, AfterKeyGroupSteady
<1>4. f = [u \in Voices |-> f[u]]
  BY DEF AfterKeyGroup
<1>5. \A v \in oldest : v \in Voices /\ Target(f[v])[1] = s /\ f[v].channel = <<s, c>>
  BY DEF Target
<1>6. \A v \in eligible : v \in Voices /\ v \in Busy /\ MayStealFrom(s, Target(f[v])[1])
  BY DEF Busy
<1>. HIDE DEF f, p, oldest, eligible
<1>7. ASSUME NEW v \in Voices, StealVoice(s, c, n, r, f, p, v)
      PROVE  /\ \A u \in Voices : u # v => voice'[u] = f[u]
             /\ voice'[v] = StolenFor(f[v], <<s, c>>, n, r)
             /\ UNCHANGED <<activeVoices, numActive>>
  BY <1>4, <1>7 DEF StealVoice
<1>8. ASSUME NEW v \in Voices \ Busy, NEW quiet \in BOOLEAN, StartVoice(s, c, n, r, f, p, v, quiet)
      PROVE  /\ \A u \in Voices : u # v => voice'[u] = f[u]
             /\ voice'[v] = Started(f[v], <<s, c>>, n, r, quiet)
             /\ activeVoices' = WrapCount(activeVoices + 1)
             /\ numActive' = [numActive EXCEPT ![s] = WrapCount(numActive[s] + 1)]
  BY <1>4, <1>8 DEF StartVoice
<1>. QED BY Zenon, <1>1, <1>3, <1>5, <1>6, <1>7, <1>8

\* Only a note-on steals a voice.
LEMMA StolenKept ==
    ASSUME IInv, [Next]_vars,
           ~ \E s \in Synths, c \in Channels, n \in Notes, r \in Regions : VMStartVoice(s, c, n, r)
    PROVE  \A v \in Voices : voice'[v].state = "Stolen" =>
                voice[v].state = "Stolen" /\ voice'[v].nextChannel = voice[v].nextChannel
<1>. DEFINE Kept == \A v \in Voices : voice'[v].state = "Stolen" =>
                       voice[v].state = "Stolen" /\ voice'[v].nextChannel = voice[v].nextChannel
<1>1. Settled => Kept
  BY DEF Settled, Steady
<1>2. ASSUME NEW s \in Synths, ForcedReset(s) PROVE Kept
  BY <1>2 DEF ForcedReset, InitializeVoices, FreeVoice
<1>3. ASSUME NEW s \in Synths, VMMIDIShutdown(s) PROVE Kept
  <2>1. ForcedReset(s) \/ voice' = voice
    BY <1>3 DEF VMMIDIShutdown
  <2>. QED BY Zenon, <1>2, <2>1
<1>4. ASSUME NEW s \in Synths, EndOfFrame(s) PROVE Kept
  <2>1. PICK f : /\ \A v \in Voices : Steady(voice[v], f[v])
                 /\ \A v \in Voices : \/ voice'[v] = f[v]
                                      \/ numActive[s] = 0 /\ v \in OfSynth(s) /\ voice'[v] = FreeVoice(f[v])
    BY <1>4, EndOfFrameVoices
  <2>2. \A x : FreeVoice(x).state # "Stolen"
    BY DEF FreeVoice
  <2>. QED BY Zenon, <2>1, <2>2 DEF Steady
<1>5. ASSUME NEW done \in SUBSET Busy, NEW quiet \in SUBSET Busy, VMAddSamples(done, quiet) PROVE Kept
  BY <1>5, AddSamplesVoices
<1>6. Synths # {}
  BY ConstantsAssumption DEF Synths
<1>. HIDE DEF Kept
<1>7. ASSUME NEW s \in Synths, Call(s) PROVE Kept
  <2>1. CASE VMResetForce(s)
    BY Zenon, <1>2, <2>1 DEF VMResetForce
  <2>2. CASE VMReleaseAllVoices(s)
    BY Zenon, <1>1, <2>2, ReleaseAllSteady
  <2>. QED BY Zenon, <1>1, <1>3, <1>7, <2>1, <2>2, CallsSettled DEF Call
<1>8. ASSUME NEW s \in Synths, NEW c \in Channels, Message(s, c) PROVE Kept
  BY Zenon, <1>1, <1>8, StopNoteSteady, CallsSettled DEF Message
<1>9. ASSUME \/ \E count \in SynthLimits : VMSetSynthPolyphony(count)
             \/ Dereference \/ UNCHANGED vars
      PROVE  Kept
  BY Zenon, <1>1, <1>6, <1>9, CallsSettled
<1>10. ASSUME Frame PROVE Kept
  BY Zenon, <1>4, <1>5, <1>10 DEF Frame
<1>11. Kept
  BY <1>7, <1>8, <1>9, <1>10 DEF Next
<1>. QED BY <1>11 DEF Kept

\* No note of a stream takes a voice from a stream of higher priority, whichever
\* rule of VMStartVoice picks it: the limit on a key looks at voices of the
\* stream alone, and VMStealVoice passes the others over (PriorityRespected).
THEOREM StealsRespectPriority == Spec => PriorityRespected
<1>1. ASSUME IInv, [Next]_vars, NEW v \in Voices, NEW s \in Synths,
             voice[v].state # "Free", voice'[v].state = "Stolen",
             Target(voice[v])[1] # s, Target(voice'[v])[1] = s
      PROVE  synth[s].priority <= synth[Target(voice[v])[1]].priority
  <2>1. ~(voice[v].state = "Stolen" /\ voice'[v].nextChannel = voice[v].nextChannel)
    BY <1>1 DEF Target
  <2>2. PICK t \in Synths, c \in Channels, n \in Notes, r \in Regions : VMStartVoice(t, c, n, r)
    BY Zenon, <1>1, <2>1, StolenKept
  <2>3. PICK f :
          /\ \A u \in Voices : /\ Steady(voice[u], f[u]) /\ VoiceOK(f[u])
                               /\ Target(voice[u])[1] # t => f[u] = voice[u]
          /\ \/ /\ \A u \in Voices : voice'[u] = f[u]
                /\ UNCHANGED <<activeVoices, numActive>>
             \/ \E u \in Voices :
                   /\ \A w \in Voices : w # u => voice'[w] = f[w]
                   /\ voice'[u] = StolenFor(f[u], <<t, c>>, n, r)
                   /\ \/ Target(f[u])[1] = t /\ f[u].channel = <<t, c>>
                      \/ u \in Busy /\ MayStealFrom(t, Target(f[u])[1])
                   /\ UNCHANGED <<activeVoices, numActive>>
             \/ \E u \in Voices \ Busy, quiet \in BOOLEAN :
                   /\ \A w \in Voices : w # u => voice'[w] = f[w]
                   /\ voice'[u] = Started(f[u], <<t, c>>, n, r, quiet)
                   /\ numActive[t] < MaxSynthPoly(t)
                   /\ activeVoices' = WrapCount(activeVoices + 1)
                   /\ numActive' = [numActive EXCEPT ![t] = WrapCount(numActive[t] + 1)]
    BY <1>1, <2>2, NoteOnVoices
  <2>4. voice'[v] # f[v]
    BY Zenon, <1>1, <2>1, <2>3 DEF Steady
  <2>5. v \in Busy
    BY <1>1 DEF Busy
  <2>6. /\ voice'[v] = StolenFor(f[v], <<t, c>>, n, r)
        /\ Target(f[v])[1] = t \/ MayStealFrom(t, Target(f[v])[1])
    BY Zenon, <2>3, <2>4, <2>5
  <2>7. t = s
    <3>1. voice'[v].nextChannel = <<t, c>>
      BY <2>3, <2>6 DEF StolenFor, VoiceOK, VoiceRecords
    <3>. QED BY <1>1, <3>1 DEF Target
  <2>8. f[v] = voice[v]
    BY Zenon, <1>1, <2>3, <2>7
  <2>9. MayStealFrom(s, Target(voice[v])[1])
    BY Zenon, <1>1, <2>6, <2>7, <2>8
  <2>. QED BY <2>9 DEF MayStealFrom
<1>2. IInv /\ [Next]_vars =>
        [\A v \in Voices : \A s \in Synths :
           /\ voice[v].state # "Free" /\ voice'[v].state = "Stolen"
           /\ Target(voice[v])[1] # s /\ Target(voice'[v])[1] = s
           => synth[s].priority <= synth[Target(voice[v])[1]].priority]_vars
  BY Zenon, <1>1
<1>. QED BY <1>2, InitInv, Inductive, PTL DEF Spec, PriorityRespected

-----------------------------------------------------------------------------
(* A reset that waits for its voices.                                      *)

\* A stream that waits has a voice, once the frame has come to it: the frame
\* completes the reset if it has none. What starts a voice counts below the
\* number of voices, so no count wraps to 0.
ResetInv ==
    \A s \in Synths : synth[s].resetReq = TRUE => Alive(s) /\ (s < phase => numActive[s] > 0)

LEMMA ResetKept ==
    ASSUME ResetInv, NEW s \in Synths, phase' = phase \/ phase' = 0,
           numActive'[s] > 0 \/ numActive'[s] = numActive[s],
           Alive(s)' <=> Alive(s), synth'[s].resetReq = synth[s].resetReq
    PROVE  synth'[s].resetReq = TRUE => Alive(s)' /\ (s < phase' => numActive'[s] > 0)
<1>1. s \in Nat
  BY DEF Synths
<1>. QED BY <1>1 DEF ResetInv

\* A step that leaves the requests and the counts alone.
LEMMA ResetSame ==
    ASSUME ResetInv, numActive' = numActive, phase' = phase \/ phase' = 0,
           \A t \in Synths : /\ synth'[t].refCount > 0 <=> synth[t].refCount > 0
                             /\ synth'[t].resetReq = synth[t].resetReq
    PROVE  ResetInv'
<1>. SUFFICES ASSUME NEW t \in Synths
              PROVE  synth'[t].resetReq = TRUE => Alive(t)' /\ (t < phase' => numActive'[t] > 0)
  BY DEF ResetInv
<1>1. Alive(t)' <=> Alive(t)
  BY DEF Alive
<1>. QED BY <1>1, ResetKept

LEMMA ResetCalls ==
    ASSUME IInv, ResetInv, NEW s \in Synths,
           \/ VMIncRefCount(s) \/ VMMuteAllVoices(s) \/ VMReleaseAllVoices(s)
           \/ \E count \in Limits : VMSetPolyphony(s, count)
           \/ \E pri \in Priorities : VMSetPriority(s, pri)
           \/ \E c \in Channels, n \in Notes : VMStopNote(s, c, n)
           \/ \E c \in Channels : \/ SustainPedalOn(s, c) \/ SustainPedalOff(s, c)
                                  \/ ResetControllers(s, c) \/ VMAllNotesOff(s, c)
           \/ \E count \in SynthLimits : VMSetSynthPolyphony(count)
           \/ Dereference \/ UNCHANGED vars
    PROVE  ResetInv'
<1>1. numActive' = numActive /\ (phase' = phase \/ phase' = 0)
  <2>1. CASE \E count \in SynthLimits : VMSetSynthPolyphony(count)
    BY <2>1 DEF VMSetSynthPolyphony, frame
  <2>. QED BY <2>1 DEF VMIncRefCount, VMMuteAllVoices, VMReleaseAllVoices, VMSetPolyphony, VMSetPriority,
        VMStopNote, SustainPedalOn, SustainPedalOff, ResetControllers, VMAllNotesOff,
        VMSetSynthPolyphony, Dereference, counters, frame, vars
<1>2. \/ synth' = synth
      \/ synth' = [synth EXCEPT ![s].refCount = synth[s].refCount + 1]
         /\ synth[s].refCount > 0
      \/ \E x : \/ synth' = [synth EXCEPT ![s].maxPoly = x]
                \/ synth' = [synth EXCEPT ![s].priority = x]
                \/ synth' = [synth EXCEPT ![s].pending = x]
  <2>1. CASE VMIncRefCount(s)
    BY <2>1 DEF VMIncRefCount, Alive
  <2>2. CASE \/ \E count \in Limits : VMSetPolyphony(s, count)
             \/ \E pri \in Priorities : VMSetPriority(s, pri)
    BY Zenon, <2>2 DEF VMSetPolyphony, VMSetPriority
  <2>3. CASE \E c \in Channels, n \in Notes : VMStopNote(s, c, n)
    <3>1. \E b : synth' = [synth EXCEPT ![s].pending = synth[s].pending \/ b]
      BY Zenon, <2>3 DEF VMStopNote
    <3>. QED BY Zenon, <3>1
  <2>4. CASE \E count \in SynthLimits : VMSetSynthPolyphony(count)
    BY <2>4 DEF VMSetSynthPolyphony
  <2>. QED BY <2>1, <2>2, <2>3, <2>4 DEF VMMuteAllVoices, VMReleaseAllVoices,
        SustainPedalOn, SustainPedalOff, ResetControllers, VMAllNotesOff, Dereference, vars
<1>3. \A t \in Synths : /\ synth'[t].refCount > 0 <=> synth[t].refCount > 0
                        /\ synth'[t].resetReq = synth[t].resetReq
  <2>. SUFFICES ASSUME NEW t \in Synths
                PROVE  /\ synth'[t].refCount > 0 <=> synth[t].refCount > 0
                       /\ synth'[t].resetReq = synth[t].resetReq
    OBVIOUS
  <2>1. CASE synth' = [synth EXCEPT ![s].refCount = synth[s].refCount + 1] /\ synth[s].refCount > 0
    BY <2>1, ConstantsAssumption DEF IInv, TypeOK, SynthRecords
  <2>2. CASE \E x : \/ synth' = [synth EXCEPT ![s].maxPoly = x]
                    \/ synth' = [synth EXCEPT ![s].priority = x]
                    \/ synth' = [synth EXCEPT ![s].pending = x]
    <3>1. PICK x : \/ synth' = [synth EXCEPT ![s].maxPoly = x]
                   \/ synth' = [synth EXCEPT ![s].priority = x]
                   \/ synth' = [synth EXCEPT ![s].pending = x]
      BY <2>2
    <3>2. synth'[t].refCount = synth[t].refCount /\ synth'[t].resetReq = synth[t].resetReq
      <4>1. synth \in [Synths -> SynthRecords]
        BY DEF IInv, TypeOK
      <4>2. CASE synth' = [synth EXCEPT ![s].maxPoly = x]
        BY <4>1, <4>2 DEF SynthRecords
      <4>3. CASE synth' = [synth EXCEPT ![s].priority = x]
        BY <4>1, <4>3 DEF SynthRecords
      <4>4. CASE synth' = [synth EXCEPT ![s].pending = x]
        BY <4>1, <4>4 DEF SynthRecords
      <4>. QED BY <3>1, <4>2, <4>3, <4>4
    <3>. QED BY <3>2
  <2>. QED BY Zenon, <1>2, <2>1, <2>2
<1>. QED BY <1>1, <1>3, ResetSame

\* A step that empties the counts of s and its request with them.
LEMMA ResetCleared ==
    ASSUME ResetInv, NEW s \in Synths, synth'[s].resetReq = FALSE, phase' = phase,
           \A t \in Synths : t # s => synth'[t] = synth[t] /\ numActive'[t] = numActive[t]
    PROVE  ResetInv'
<1>. SUFFICES ASSUME NEW t \in Synths
              PROVE  synth'[t].resetReq = TRUE => Alive(t)' /\ (t < phase' => numActive'[t] > 0)
  BY DEF ResetInv
<1>1. CASE t = s
  BY <1>1
<1>2. CASE t # s
  BY <1>2, ResetKept DEF Alive
<1>. QED BY <1>1, <1>2

LEMMA ResetByForce ==
    ASSUME IInv, ResetInv, NEW s \in Synths,
           VMInitMIDI(s) \/ VMResetForce(s) \/ VMMIDIShutdown(s)
    PROVE  ResetInv'
<1>1. synth \in [Synths -> SynthRecords] /\ numActive \in [Synths -> 0 .. CountModulus - 1]
  BY DEF IInv, TypeOK
<1>2. CASE VMInitMIDI(s)
  <2>1. synth'[s].resetReq = FALSE /\ phase' = phase
    BY <1>1, <1>2 DEF VMInitMIDI, NewSynth, frame
  <2>. QED BY <1>1, <1>2, <2>1, ResetCleared DEF VMInitMIDI
<1>3. CASE VMResetForce(s)
  <2>1. synth'[s].resetReq = FALSE /\ phase' = phase
    BY <1>1, <1>3 DEF VMResetForce, SynthRecords, frame
  <2>. QED BY <1>1, <1>3, <2>1, ResetCleared DEF VMResetForce, ForcedReset
<1>4. CASE VMMIDIShutdown(s) /\ ~(synth[s].refCount > 1)
  <2>1. synth'[s].resetReq = FALSE /\ phase' = phase
    BY <1>1, <1>4 DEF VMMIDIShutdown, NewSynth, frame
  <2>. QED BY <1>1, <1>4, <2>1, ResetCleared DEF VMMIDIShutdown, ForcedReset
<1>5. CASE VMMIDIShutdown(s) /\ synth[s].refCount > 1
  <2>1. /\ synth' = [synth EXCEPT ![s].refCount = synth[s].refCount - 1]
        /\ numActive' = numActive /\ phase' = phase
    BY <1>5 DEF VMMIDIShutdown, counters, frame
  <2>2. \A t \in Synths : /\ synth'[t].refCount > 0 <=> synth[t].refCount > 0
                          /\ synth'[t].resetReq = synth[t].resetReq
    BY <1>1, <1>5, <2>1, ConstantsAssumption DEF SynthRecords
  <2>. QED BY <2>1, <2>2, ResetSame
<1>. QED BY <1>2, <1>3, <1>4, <1>5

LEMMA ResetAsked ==
    ASSUME IInv, ResetInv, NEW s \in Synths, VMReset(s)
    PROVE  ResetInv'
<1>1. synth \in [Synths -> SynthRecords] /\ numActive \in [Synths -> 0 .. CountModulus - 1]
  BY DEF IInv, TypeOK
<1>2. /\ synth' = [synth EXCEPT ![s].resetReq = (numActive[s] # 0)]
      /\ numActive' = numActive /\ phase' = phase
  BY DEF VMReset, frame
<1>. SUFFICES ASSUME NEW t \in Synths
              PROVE  synth'[t].resetReq = TRUE => Alive(t)' /\ (t < phase' => numActive'[t] > 0)
  BY DEF ResetInv
<1>3. CASE t = s
  <2>1. /\ numActive[s] # 0 => numActive[s] > 0
        /\ synth'[s].resetReq = TRUE => numActive[s] # 0
    <3>1. CASE numActive[s] = 0
      <4>1. synth' = [synth EXCEPT ![s].resetReq = FALSE]
        BY <3>1 DEF VMReset
      <4>2. synth'[s].resetReq = FALSE
        BY <1>1, <4>1 DEF SynthRecords
      <4>. QED BY <3>1, <4>2
    <3>2. CASE numActive[s] # 0
      BY <1>1, <3>2, VoicesAssumption
    <3>. QED BY <3>1, <3>2
  <2>2. Alive(s)'
    BY <1>1, <1>2 DEF VMReset, Alive, SynthRecords
  <2>. QED BY <1>2, <1>3, <2>1, <2>2
<1>4. CASE t # s
  BY <1>1, <1>2, <1>4, ResetKept DEF Alive
<1>. QED BY <1>3, <1>4

\* A start below the polyphony limit does not wrap.
LEMMA StartCounts ==
    ASSUME IInv, NEW s \in Synths, numActive[s] < MaxSynthPoly(s)
    PROVE  /\ numActive[s] \in Nat /\ numActive[s] + 1 <= Cardinality(Voices)
           /\ WrapCount(numActive[s] + 1) = numActive[s] + 1
<1>1. /\ numActive[s] \in 0 .. CountModulus - 1
      /\ maxPolyphony \in 1 .. Cardinality(Voices)
      /\ synth[s].maxPoly \in 0 .. Cardinality(Voices)
  BY DEF IInv, TypeOK, SynthRecords
<1>2. MaxSynthPoly(s) \in Int /\ MaxSynthPoly(s) <= Cardinality(Voices)
  BY <1>1, CountsType DEF MaxSynthPoly
<1>. QED BY <1>1, <1>2, CountsType, VoicesAssumption DEF WrapCount

LEMMA ResetNoteOn ==
    ASSUME IInv, ResetInv, NEW s \in Synths, NEW c \in Channels, NEW n \in Notes, NEW r \in Regions,
           VMStartVoice(s, c, n, r)
    PROVE  ResetInv'
<1>1. synth' = synth /\ phase' = phase
  BY DEF VMStartVoice, StealVoice, frame
<1>2. \/ numActive' = numActive
      \/ /\ numActive[s] < MaxSynthPoly(s)
         /\ numActive' = [numActive EXCEPT ![s] = WrapCount(numActive[s] + 1)]
  BY Zenon, NoteOnVoices
<1>3. \A t \in Synths : numActive'[t] > 0 \/ numActive'[t] = numActive[t]
  BY <1>2, StartCounts DEF IInv, TypeOK
<1>. SUFFICES ASSUME NEW t \in Synths
              PROVE  synth'[t].resetReq = TRUE => Alive(t)' /\ (t < phase' => numActive'[t] > 0)
  BY DEF ResetInv
<1>. QED BY <1>1, <1>3, ResetKept DEF Alive

LEMMA ResetFrame ==
    ASSUME IInv, ResetInv, Frame
    PROVE  ResetInv'
<1>1. synth \in [Synths -> SynthRecords] /\ numActive \in [Synths -> 0 .. CountModulus - 1]
  BY DEF IInv, TypeOK
<1>2. ASSUME NEW done \in SUBSET Busy, NEW quiet \in SUBSET Busy, VMAddSamples(done, quiet)
      PROVE  ResetInv'
  <2>. SUFFICES ASSUME NEW t \in Synths
                PROVE  synth'[t].resetReq = TRUE => Alive(t)' /\ (t < phase' => numActive'[t] > 0)
    BY DEF ResetInv
  <2>1. phase' = 0
    BY <1>2 DEF VMAddSamples
  <2>2. \E b : synth'[t] = [synth[t] EXCEPT !.pending = b]
    BY Zenon, <1>2 DEF VMAddSamples
  <2>3. synth'[t].resetReq = synth[t].resetReq /\ synth'[t].refCount = synth[t].refCount
    BY <1>1, <2>2 DEF SynthRecords
  <2>4. t \in Nat
    BY DEF Synths
  <2>. QED BY <2>1, <2>3, <2>4 DEF ResetInv, Alive
<1>3. ASSUME NEW s \in Synths, EndOfFrame(s) PROVE ResetInv'
  <2>. DEFINE reset == Alive(s) /\ synth[s].resetReq /\ numActive[s] = 0
  <2>1. phase = s /\ phase' = s + 1 /\ numActive' = numActive
    BY <1>3 DEF EndOfFrame
  <2>2. \E b : synth' = [synth EXCEPT ![s].pending = b, ![s].resetReq = synth[s].resetReq /\ ~reset]
    BY <1>3 DEF EndOfFrame
  <2>3. synth[s].resetReq \in BOOLEAN
    BY <1>1 DEF SynthRecords
  <2>4. /\ synth'[s].resetReq = (synth[s].resetReq /\ ~reset)
        /\ synth'[s].refCount = synth[s].refCount
        /\ \A t \in Synths : t # s => synth'[t] = synth[t]
    <3>. HIDE DEF reset
    <3>. QED BY <1>1, <2>2 DEF SynthRecords
  <2>. SUFFICES ASSUME NEW t \in Synths
                PROVE  synth'[t].resetReq = TRUE => Alive(t)' /\ (t < phase' => numActive'[t] > 0)
    BY DEF ResetInv
  <2>5. CASE t = s
    <3>1. synth'[s].resetReq = TRUE => synth[s].resetReq = TRUE /\ ~reset
      BY <2>3, <2>4
    <3>2. synth'[s].resetReq = TRUE => Alive(s) /\ numActive[s] # 0
      BY <3>1 DEF ResetInv
    <3>. QED BY <1>1, <2>1, <2>4, <2>5, <3>2, VoicesAssumption DEF Alive
  <2>6. CASE t # s
    <3>1. t \in Int /\ s \in Int
      BY DEF Synths
    <3>. QED BY <2>1, <2>4, <2>6, <3>1 DEF ResetInv, Alive
  <2>. QED BY <2>5, <2>6
<1>. QED BY <1>2, <1>3 DEF Frame

\* A requested reset is never forgotten: between frames it has a voice of the
\* stream to wait for, whose end lets the frame complete it, because a frame
\* that counts no voice completes it at once (ResetWaitsForVoices).
THEOREM ResetsWait == Spec => []ResetWaitsForVoices
<1>1. Init => ResetInv
  BY DEF Init, ResetInv, NewSynth
<1>2. IInv /\ ResetInv /\ [Next]_vars => ResetInv'
  <2>. SUFFICES ASSUME IInv, ResetInv, [Next]_vars PROVE ResetInv'
    OBVIOUS
  <2>1. ASSUME NEW s \in Synths, Call(s) PROVE ResetInv'
    BY Zenon, <2>1, ResetCalls, ResetByForce, ResetAsked DEF Call
  <2>2. ASSUME NEW s \in Synths, NEW c \in Channels, Message(s, c) PROVE ResetInv'
    BY Zenon, <2>2, ResetCalls, ResetNoteOn DEF Message
  <2>3. Synths # {}
    BY ConstantsAssumption DEF Synths
  <2>4. CASE \/ \E count \in SynthLimits : VMSetSynthPolyphony(count)
             \/ Dereference \/ UNCHANGED vars
    BY Zenon, <2>3, <2>4, ResetCalls
  <2>. QED BY Zenon, <2>1, <2>2, <2>4, ResetFrame DEF Next
<1>3. IInv /\ ResetInv => ResetWaitsForVoices
  <2>. SUFFICES ASSUME IInv, ResetInv, NEW s \in Synths, Idle, synth[s].resetReq
                PROVE  numActive[s] > 0
    BY DEF ResetWaitsForVoices
  <2>1. s < phase
    BY ConstantsAssumption DEF Idle, Synths
  <2>. QED BY <2>1 DEF ResetInv
<1>. QED BY <1>1, <1>2, <1>3, InitInv, Inductive, PTL DEF Spec

-----------------------------------------------------------------------------
(* The counters of one stream.                                             *)

\* With one stream the counters are exact. A free voice is on no channel, so
\* the limit on a key never steals one; without a stream no voice sounds.
CountInv ==
    /\ \A v \in Voices : voice[v].state = "Free" => voice[v].channel = Unassigned
    /\ activeVoices = Cardinality(Busy)
    /\ numActive[0] = Cardinality(Busy)
    /\ ~Alive(0) => Busy = {}

LEMMA BusyFinite ==
    /\ IsFiniteSet(Busy) /\ Cardinality(Busy) \in Nat
    /\ Cardinality(Busy) <= Cardinality(Voices) /\ Cardinality(Busy) < CountModulus
    /\ WrapCount(Cardinality(Busy)) = Cardinality(Busy)
<1>1. Busy \in SUBSET Voices
  BY DEF Busy
<1>. QED BY <1>1, VoicesFinite, CountsType, VoicesAssumption DEF WrapCount

\* A step that leaves the busy voices and the counts.
LEMMA CountSame ==
    ASSUME CountInv, Busy' = Busy,
           \A v \in Voices : voice'[v].state = "Free" => voice'[v].channel = Unassigned,
           activeVoices' = activeVoices, numActive'[0] = numActive[0],
           Alive(0) => Alive(0)' \/ Busy = {}
    PROVE  CountInv'
BY DEF CountInv

LEMMA SettledBusy ==
    ASSUME CountInv, Settled
    PROVE  /\ Busy' = Busy
           /\ \A v \in Voices : voice'[v].state = "Free" => voice'[v].channel = Unassigned
BY DEF CountInv, Settled, Steady, Busy

\* The only synthesizer is 0, and every busy voice is of it.
LEMMA OneStream ==
    ASSUME NumSynths = 1
    PROVE  /\ Synths = {0}
           /\ IInv => \A v \in Busy : Target(voice[v])[1] = 0 /\ voice[v].channel[1] = 0
<1>1. Synths = {0}
  BY DEF Synths
<1>2. IInv => \A v \in Busy : Target(voice[v])[1] = 0 /\ voice[v].channel[1] = 0
  BY <1>1 DEF IInv, DeferralInv, VoiceOK, Target, Busy
<1>. QED BY <1>1, <1>2

LEMMA CountForced ==
    ASSUME NumSynths = 1, IInv, CountInv, ForcedReset(0)
    PROVE  CountInv' /\ Busy' = {}
<1>1. \A v \in Voices : voice'[v].state = "Free"
                        /\ voice'[v].channel = Unassigned
  <2>. SUFFICES ASSUME NEW v \in Voices PROVE voice'[v].state = "Free" /\ voice'[v].channel = Unassigned
    OBVIOUS
  <2>1. voice'[v] = IF v \in OfSynth(0) THEN FreeVoice(voice[v]) ELSE voice[v]
    BY DEF ForcedReset, InitializeVoices
  <2>2. v \notin OfSynth(0) => voice[v].state = "Free"
    BY OneStream DEF OfSynth, Busy
  <2>. QED BY <2>1, <2>2 DEF FreeVoice, CountInv
<1>2. Busy' = {}
  BY <1>1 DEF Busy
<1>3. 0 \in Synths /\ numActive \in [Synths -> 0 .. CountModulus - 1]
  BY OneStream DEF IInv, TypeOK
<1>4. activeVoices' = WrapCount(activeVoices - numActive[0]) /\ numActive'[0] = 0
  BY <1>3 DEF ForcedReset
<1>5. activeVoices - numActive[0] = 0
  BY BusyFinite DEF CountInv
<1>6. WrapCount(0) = 0
  BY VoicesAssumption, CountsType DEF WrapCount
<1>7. Cardinality({}) = 0
  BY FS_EmptySet
<1>. QED BY <1>1, <1>2, <1>4, <1>5, <1>6, <1>7 DEF CountInv

LEMMA CountNoteOn ==
    ASSUME NumSynths = 1, IInv, CountInv, NEW s \in Synths, NEW c \in Channels, NEW n \in Notes,
           NEW r \in Regions, VMStartVoice(s, c, n, r)
    PROVE  CountInv'
<1>1. s = 0 /\ Synths = {0} /\ Alive(0) /\ synth' = synth
  BY OneStream DEF VMStartVoice
<1>2. Alive(0)'
  BY <1>1 DEF Alive
<1>3. PICK f :
        /\ \A v \in Voices : /\ Steady(voice[v], f[v]) /\ VoiceOK(f[v])
                             /\ Target(voice[v])[1] # s => f[v] = voice[v]
        /\ \/ /\ \A v \in Voices : voice'[v] = f[v]
              /\ UNCHANGED <<activeVoices, numActive>>
           \/ \E v \in Voices :
                 /\ \A u \in Voices : u # v => voice'[u] = f[u]
                 /\ voice'[v] = StolenFor(f[v], <<s, c>>, n, r)
                 /\ \/ Target(f[v])[1] = s /\ f[v].channel = <<s, c>>
                    \/ v \in Busy /\ MayStealFrom(s, Target(f[v])[1])
                 /\ UNCHANGED <<activeVoices, numActive>>
           \/ \E v \in Voices \ Busy, quiet \in BOOLEAN :
                 /\ \A u \in Voices : u # v => voice'[u] = f[u]
                 /\ voice'[v] = Started(f[v], <<s, c>>, n, r, quiet)
                 /\ numActive[s] < MaxSynthPoly(s)
                 /\ activeVoices' = WrapCount(activeVoices + 1)
                 /\ numActive' = [numActive EXCEPT ![s] = WrapCount(numActive[s] + 1)]
  BY NoteOnVoices
<1>4. \A v \in Voices : /\ f[v].state = "Free" <=> v \notin Busy
                        /\ f[v].state = "Free" => f[v].channel = Unassigned
  BY <1>3 DEF Steady, Busy, CountInv
<1>5. CASE /\ \A v \in Voices : voice'[v] = f[v]
           /\ UNCHANGED <<activeVoices, numActive>>
  <2>1. Busy' = Busy
    BY <1>4, <1>5 DEF Busy
  <2>. QED BY <1>2, <1>4, <1>5, <2>1, CountSame
<1>6. ASSUME NEW v \in Voices,
             \A u \in Voices : u # v => voice'[u] = f[u],
             voice'[v] = StolenFor(f[v], <<s, c>>, n, r),
             \/ Target(f[v])[1] = s /\ f[v].channel = <<s, c>>
             \/ v \in Busy /\ MayStealFrom(s, Target(f[v])[1]),
             UNCHANGED <<activeVoices, numActive>>
      PROVE  CountInv'
  <2>1. v \in Busy
    <3>1. f[v].channel = <<s, c>> => f[v].channel # Unassigned
      BY <1>1 DEF Unassigned
    <3>. QED BY <1>4, <1>6, <3>1
  <2>2. voice'[v].state = "Stolen"
    BY <1>3, <1>6 DEF StolenFor, VoiceOK, VoiceRecords
  <2>3. Busy' = Busy
    BY <1>4, <1>6, <2>1, <2>2 DEF Busy
  <2>4. \A u \in Voices : voice'[u].state = "Free" => voice'[u].channel = Unassigned
    BY <1>4, <1>6, <2>2
  <2>. QED BY <1>2, <1>6, <2>3, <2>4, CountSame
<1>7. ASSUME NEW v \in Voices \ Busy, NEW quiet \in BOOLEAN,
             \A u \in Voices : u # v => voice'[u] = f[u],
             voice'[v] = Started(f[v], <<s, c>>, n, r, quiet),
             numActive[s] < MaxSynthPoly(s),
             activeVoices' = WrapCount(activeVoices + 1),
             numActive' = [numActive EXCEPT ![s] = WrapCount(numActive[s] + 1)]
      PROVE  CountInv'
  <2>1. voice'[v].state = "Start"
    BY <1>7 DEF Started, FreeVoice
  <2>2. Busy' = Busy \cup {v}
    BY <1>4, <1>7, <2>1 DEF Busy
  <2>3. Cardinality(Busy') = Cardinality(Busy) + 1
    BY <1>7, <2>2, BusyFinite, FS_AddElement
  <2>4. \A u \in Voices : voice'[u].state = "Free" => voice'[u].channel = Unassigned
    BY <1>4, <1>7, <2>1
  <2>5. WrapCount(Cardinality(Busy) + 1) = Cardinality(Busy) + 1
    BY <1>1, <1>7, StartCounts DEF CountInv
  <2>6. numActive'[0] = WrapCount(numActive[0] + 1)
    BY <1>1, <1>7 DEF IInv, TypeOK
  <2>. QED BY <1>2, <1>7, <2>3, <2>4, <2>5, <2>6 DEF CountInv
<1>. QED BY Zenon, <1>3, <1>5, <1>6, <1>7

LEMMA CountSamples ==
    ASSUME NumSynths = 1, IInv, CountInv, NEW done \in SUBSET Busy, NEW quiet \in SUBSET Busy,
           VMAddSamples(done, quiet)
    PROVE  CountInv'
<1>. DEFINE freed == {v \in done : Begun[v].state # "Stolen"}
            Moved(s, t) == {v \in Retargeted : voice[v].channel[1] = s /\ voice[v].nextChannel[1] = t}
            Into(s)  == UNION {Moved(t, s) : t \in Synths}
            OutOf(s) == UNION {Moved(s, t) : t \in Synths}
            Ended(s) == {v \in freed : voice[v].channel[1] = s}
<1>1. /\ activeVoices' = WrapCount(activeVoices - Cardinality(freed))
      /\ \A s \in Synths : numActive'[s] = WrapCount(numActive[s] + Cardinality(Into(s))
                                        - Cardinality(OutOf(s)) - Cardinality(Ended(s)))
      /\ \A s \in Synths : synth'[s].refCount = synth[s].refCount
  <2>1. \A s \in Synths : \E b : synth'[s] = [synth[s] EXCEPT !.pending = b]
    BY Zenon DEF VMAddSamples
  <2>2. \A s \in Synths : synth'[s].refCount = synth[s].refCount
    BY <2>1 DEF IInv, TypeOK, SynthRecords
  <2>. QED BY <2>2 DEF VMAddSamples
<1>2. Into(0) = OutOf(0)
  BY OneStream
<1>3. Ended(0) = freed
  BY OneStream
<1>4. freed \subseteq Busy
  OBVIOUS
<1>5. Busy' = Busy \ freed
  BY AddSamplesVoices DEF Busy
<1>6. \A v \in Voices : voice'[v].state = "Free" => voice'[v].channel = Unassigned
  <2>1. \A v \in Voices : voice'[v].state = "Free" => voice'[v].channel = Unassigned \/ voice'[v] = voice[v]
    BY AddSamplesVoices
  <2>. QED BY <2>1 DEF CountInv
<1>7. Cardinality(Into(0)) \in Nat
  <2>1. Into(0) \in SUBSET Voices
    BY DEF Retargeted
  <2>. QED BY <2>1, VoicesFinite
<1>. HIDE DEF freed, Into, OutOf, Ended
<1>8. /\ Cardinality(freed) \in Nat
      /\ Cardinality(Busy') = Cardinality(Busy) - Cardinality(freed)
  <2>1. Busy \cap freed = freed
    BY <1>4
  <2>2. IsFiniteSet(freed)
    BY <1>4, BusyFinite, FS_Subset
  <2>3. Cardinality(freed) \in Nat
    BY <2>2, FS_CardinalityType
  <2>4. Cardinality(Busy \ freed) = Cardinality(Busy) - Cardinality(Busy \cap freed)
    BY BusyFinite, FS_Difference
  <2>. QED BY <1>5, <2>1, <2>3, <2>4
<1>9. WrapCount(Cardinality(Busy) - Cardinality(freed)) = Cardinality(Busy')
  <2>1. Cardinality(Busy') \in Nat /\ Cardinality(Busy') < CountModulus
    <3>1. Busy' \subseteq Busy
      BY <1>5
    <3>2. IsFiniteSet(Busy') /\ Cardinality(Busy') <= Cardinality(Busy)
      BY <3>1, BusyFinite, FS_Subset
    <3>. QED BY <3>2, BusyFinite, FS_CardinalityType, VoicesAssumption
  <2>. QED BY <1>8, <2>1, VoicesAssumption DEF WrapCount
<1>10. activeVoices' = Cardinality(Busy')
  BY <1>1, <1>9 DEF CountInv
<1>11. numActive'[0] = Cardinality(Busy')
  <2>1. 0 \in Synths
    BY OneStream
  <2>2. numActive'[0] = WrapCount(Cardinality(Busy) + Cardinality(Into(0)) - Cardinality(Into(0)) - Cardinality(freed))
    BY <1>1, <1>2, <1>3, <2>1 DEF CountInv
  <2>3. Cardinality(Busy) + Cardinality(Into(0)) - Cardinality(Into(0)) - Cardinality(freed)
          = Cardinality(Busy) - Cardinality(freed)
    BY <1>7, <1>8, BusyFinite
  <2>. QED BY <1>9, <2>2, <2>3
<1>12. ~Alive(0)' => Busy' = {}
  BY <1>1, <1>5, OneStream DEF CountInv, Alive
<1>. QED BY <1>6, <1>10, <1>11, <1>12 DEF CountInv

LEMMA CountEnd ==
    ASSUME NumSynths = 1, IInv, CountInv, NEW s \in Synths, EndOfFrame(s)
    PROVE  CountInv'
<1>1. PICK f : /\ \A v \in Voices : Steady(voice[v], f[v])
               /\ \A v \in Voices : \/ voice'[v] = f[v]
                                    \/ numActive[s] = 0 /\ v \in OfSynth(s) /\ voice'[v] = FreeVoice(f[v])
  BY EndOfFrameVoices
<1>2. s = 0 /\ 0 \in Synths /\ numActive \in [Synths -> 0 .. CountModulus - 1]
  BY OneStream DEF IInv, TypeOK
<1>3. numActive[s] = 0 => Busy = {}
  BY <1>2, BusyFinite, FS_EmptySet DEF CountInv
<1>4. \A v \in Voices : /\ voice'[v].state = "Free" <=> voice[v].state = "Free"
                        /\ voice'[v].state = "Free" => voice'[v].channel = Unassigned
  <2>. SUFFICES ASSUME NEW v \in Voices
                PROVE  /\ voice'[v].state = "Free" <=> voice[v].state = "Free"
                       /\ voice'[v].state = "Free" => voice'[v].channel = Unassigned
    OBVIOUS
  <2>1. CASE voice'[v] = f[v]
    BY <1>1, <2>1 DEF Steady, CountInv
  <2>2. CASE numActive[s] = 0 /\ voice'[v] = FreeVoice(f[v])
    <3>1. voice[v].state = "Free"
      BY <1>3, <2>2 DEF Busy
    <3>2. voice'[v].state = "Free" /\ voice'[v].channel = Unassigned
      BY <2>2 DEF FreeVoice
    <3>. QED BY <3>1, <3>2
  <2>. QED BY <1>1, <2>1, <2>2
<1>5. Busy' = Busy
  BY <1>4 DEF Busy
<1>6. activeVoices' = activeVoices /\ numActive' = numActive
  BY DEF EndOfFrame
<1>7. synth'[0].refCount = synth[0].refCount
  <2>1. \E a, b : synth' = [synth EXCEPT ![s].pending = a, ![s].resetReq = b]
    BY Zenon DEF EndOfFrame
  <2>. QED BY <1>2, <2>1 DEF IInv, TypeOK, SynthRecords
<1>. QED BY <1>4, <1>5, <1>6, <1>7, CountSame DEF Alive

LEMMA CountCalls ==
    ASSUME NumSynths = 1, IInv, CountInv, NEW s \in Synths,
           \/ VMInitMIDI(s) \/ VMIncRefCount(s) \/ VMReset(s) \/ VMMuteAllVoices(s)
           \/ VMReleaseAllVoices(s)
           \/ \E count \in Limits : VMSetPolyphony(s, count)
           \/ \E pri \in Priorities : VMSetPriority(s, pri)
           \/ \E c \in Channels, n \in Notes : VMStopNote(s, c, n)
           \/ \E c \in Channels : \/ SustainPedalOn(s, c) \/ SustainPedalOff(s, c)
                                  \/ ResetControllers(s, c) \/ VMAllNotesOff(s, c)
           \/ \E count \in SynthLimits : VMSetSynthPolyphony(count)
           \/ Dereference \/ UNCHANGED vars
    PROVE  CountInv'
<1>1. Settled
  BY Zenon, CallsSettled, ReleaseAllSteady, StopNoteSteady
<1>2. /\ Busy' = Busy
      /\ \A v \in Voices : voice'[v].state = "Free" => voice'[v].channel = Unassigned
  BY <1>1, SettledBusy
<1>3. s = 0 /\ Synths = {0} /\ numActive \in [Synths -> 0 .. CountModulus - 1]
      /\ synth \in [Synths -> SynthRecords]
  BY OneStream DEF IInv, TypeOK
<1>4. CASE VMInitMIDI(s)
  <2>1. ~Alive(0) /\ Busy = {} /\ numActive[0] = 0
    BY <1>3, <1>4, FS_EmptySet DEF VMInitMIDI, CountInv
  <2>2. activeVoices' = activeVoices /\ numActive'[0] = 0
    BY <1>3, <1>4 DEF VMInitMIDI
  <2>. QED BY <1>2, <2>1, <2>2, CountSame
<1>5. CASE ~VMInitMIDI(s)
  <2>1. activeVoices' = activeVoices /\ numActive' = numActive
    <3>1. CASE \E count \in SynthLimits : VMSetSynthPolyphony(count)
      BY <3>1 DEF VMSetSynthPolyphony
    <3>. QED BY <1>5, <3>1 DEF VMIncRefCount, VMReset, VMMuteAllVoices, VMReleaseAllVoices, VMSetPolyphony,
          VMSetPriority, VMStopNote, SustainPedalOn, SustainPedalOff, ResetControllers, VMAllNotesOff,
          Dereference, counters, vars
  <2>2. \/ synth' = synth
        \/ synth' = [synth EXCEPT ![s].refCount = synth[s].refCount + 1]
        \/ \E x : \/ synth' = [synth EXCEPT ![s].maxPoly = x]
                  \/ synth' = [synth EXCEPT ![s].priority = x]
                  \/ synth' = [synth EXCEPT ![s].pending = x]
                  \/ synth' = [synth EXCEPT ![s].resetReq = x]
    <3>1. CASE VMReset(s)
      BY <3>1 DEF VMReset
    <3>2. CASE \/ \E count \in Limits : VMSetPolyphony(s, count)
               \/ \E pri \in Priorities : VMSetPriority(s, pri)
      BY Zenon, <3>2 DEF VMSetPolyphony, VMSetPriority
    <3>3. CASE \E c \in Channels, n \in Notes : VMStopNote(s, c, n)
      <4>1. \E b : synth' = [synth EXCEPT ![s].pending = synth[s].pending \/ b]
        BY Zenon, <3>3 DEF VMStopNote
      <4>. QED BY Zenon, <4>1
    <3>4. CASE \E count \in SynthLimits : VMSetSynthPolyphony(count)
      BY <3>4 DEF VMSetSynthPolyphony
    <3>. QED BY <1>5, <3>1, <3>2, <3>3, <3>4 DEF VMIncRefCount, VMMuteAllVoices, VMReleaseAllVoices,
          SustainPedalOn, SustainPedalOff, ResetControllers, VMAllNotesOff, Dereference, vars
  <2>3. Alive(0) => Alive(0)'
    <3>1. CASE synth' = [synth EXCEPT ![s].refCount = synth[s].refCount + 1]
      BY <1>3, <3>1, ConstantsAssumption DEF Alive, SynthRecords
    <3>2. ASSUME NEW x, \/ synth' = [synth EXCEPT ![s].maxPoly = x]
                        \/ synth' = [synth EXCEPT ![s].priority = x]
                        \/ synth' = [synth EXCEPT ![s].pending = x]
                        \/ synth' = [synth EXCEPT ![s].resetReq = x]
          PROVE  Alive(0) => Alive(0)'
      <4>1. CASE synth' = [synth EXCEPT ![s].maxPoly = x]
        BY <1>3, <4>1 DEF Alive, SynthRecords
      <4>2. CASE synth' = [synth EXCEPT ![s].priority = x]
        BY <1>3, <4>2 DEF Alive, SynthRecords
      <4>3. CASE synth' = [synth EXCEPT ![s].pending = x]
        BY <1>3, <4>3 DEF Alive, SynthRecords
      <4>4. CASE synth' = [synth EXCEPT ![s].resetReq = x]
        BY <1>3, <4>4 DEF Alive, SynthRecords
      <4>. QED BY <3>2, <4>1, <4>2, <4>3, <4>4
    <3>3. CASE synth' = synth
      BY <3>3 DEF Alive
    <3>. QED BY Zenon, <2>2, <3>1, <3>2, <3>3
  <2>. QED BY <1>2, <2>1, <2>3, CountSame
<1>. QED BY <1>4, <1>5

LEMMA CountShutdown ==
    ASSUME NumSynths = 1, IInv, CountInv, NEW s \in Synths, VMMIDIShutdown(s) \/ VMResetForce(s)
    PROVE  CountInv'
<1>1. s = 0 /\ synth \in [Synths -> SynthRecords]
  BY OneStream DEF IInv, TypeOK
<1>2. CASE ForcedReset(0)
  BY <1>2, CountForced
<1>3. CASE VMMIDIShutdown(s) /\ synth[s].refCount > 1
  <2>1. /\ synth' = [synth EXCEPT ![s].refCount = synth[s].refCount - 1]
        /\ voice' = voice /\ activeVoices' = activeVoices /\ numActive' = numActive
    BY <1>3 DEF VMMIDIShutdown, counters
  <2>2. Alive(0)'
    BY <1>1, <1>3, <2>1, ConstantsAssumption DEF Alive, SynthRecords
  <2>3. Busy' = Busy
    BY <2>1 DEF Busy
  <2>. QED BY <2>1, <2>2, <2>3, CountSame DEF CountInv
<1>. QED BY <1>1, <1>2, <1>3 DEF VMMIDIShutdown, VMResetForce

LEMMA CountInductive ==
    ASSUME NumSynths = 1
    PROVE  /\ Init => CountInv
           /\ IInv /\ CountInv /\ [Next]_vars => CountInv'
<1>1. Init => CountInv
  <2>. SUFFICES ASSUME Init PROVE CountInv
    OBVIOUS
  <2>1. Busy = {} /\ Cardinality({}) = 0
    BY FS_EmptySet DEF Busy, Init, FreeVoice
  <2>. QED BY <2>1, OneStream DEF CountInv, Init, FreeVoice
<1>2. ASSUME IInv, CountInv, [Next]_vars PROVE CountInv'
  <2>1. ASSUME NEW s \in Synths, Call(s) PROVE CountInv'
    BY Zenon, <1>2, <2>1, CountCalls, CountShutdown DEF Call
  <2>2. ASSUME NEW s \in Synths, NEW c \in Channels, Message(s, c) PROVE CountInv'
    BY Zenon, <1>2, <2>2, CountCalls, CountNoteOn DEF Message
  <2>3. 0 \in Synths
    BY OneStream
  <2>4. CASE \/ \E count \in SynthLimits : VMSetSynthPolyphony(count)
             \/ Dereference \/ UNCHANGED vars
    BY Zenon, <1>2, <2>3, <2>4, CountCalls
  <2>5. CASE Frame
    BY Zenon, <1>2, <2>5, CountSamples, CountEnd DEF Frame
  <2>. QED BY Zenon, <1>2, <2>1, <2>2, <2>4, <2>5 DEF Next
<1>. QED BY <1>1, <1>2

\* With one stream activeVoices is the number of voices that sound, whatever was
\* stolen, retargeted, finished in the same frame or reset by force.
THEOREM ActiveVoicesCounted ==
    ASSUME NumSynths = 1
    PROVE  Spec => []ActiveVoicesExact
<1>1. CountInv => ActiveVoicesExact
  BY DEF CountInv, ActiveVoicesExact
<1>2. Init => CountInv
  BY CountInductive
<1>3. IInv /\ CountInv /\ [Next]_vars => CountInv'
  BY CountInductive
<1>. QED BY <1>1, <1>2, <1>3, InitInv, Inductive, PTL DEF Spec

\* So is numActiveVoices of the stream: a steal moves no voice in or out of it.
THEOREM NumActiveCounted ==
    ASSUME NumSynths = 1
    PROVE  Spec => []NumActiveExact
<1>1. IInv /\ CountInv => NumActiveExact
  <2>. SUFFICES ASSUME IInv, CountInv, NEW s \in Synths
                PROVE  numActive[s] = Cardinality({v \in Busy : voice[v].channel[1] = s})
    BY DEF NumActiveExact
  <2>1. s = 0 /\ {v \in Busy : voice[v].channel[1] = s} = Busy
    BY OneStream
  <2>. QED BY <2>1 DEF CountInv
<1>2. Init => CountInv
  BY CountInductive
<1>3. IInv /\ CountInv /\ [Next]_vars => CountInv'
  BY CountInductive
<1>. QED BY <1>1, <1>2, <1>3, InitInv, Inductive, PTL DEF Spec

\* With one stream, lowering the polyphony of the synthesizer (VMSetSynthPolyphony)
\* mutes as many voices as it takes: the early return it takes on activeVoices
\* is right because that count is.
THEOREM SynthPolyphonyMutes ==
    ASSUME NumSynths = 1
    PROVE  Spec => SynthPolyphonyReached
<1>1. ASSUME IInv, CountInv, [Next]_vars, maxPolyphony' # maxPolyphony
      PROVE  Cardinality({v \in Voices : voice'[v].state \notin {"Free", "Muting"}}) <= maxPolyphony'
  <2>1. PICK count \in SynthLimits : VMSetSynthPolyphony(count)
    <3>1. ASSUME NEW s \in Synths, Call(s) PROVE FALSE
      BY <1>1, <3>1 DEF Call, VMInitMIDI, VMIncRefCount, VMMIDIShutdown, VMReset, VMResetForce, VMMuteAllVoices,
            VMReleaseAllVoices, VMSetPolyphony, VMSetPriority
    <3>2. ASSUME NEW s \in Synths, NEW c \in Channels, Message(s, c) PROVE FALSE
      BY <1>1, <3>2 DEF Message, VMStartVoice, VMStopNote, SustainPedalOn, SustainPedalOff, ResetControllers,
            VMAllNotesOff
    <3>3. ASSUME Frame PROVE FALSE
      BY <1>1, <3>3 DEF Frame, VMAddSamples, EndOfFrame
    <3>. QED BY Zenon, <1>1, <3>1, <3>2, <3>3 DEF Next, Dereference, vars
  <2>. DEFINE left == {v \in Voices : voice'[v].state \notin {"Free", "Muting"}}
              excess == Cardinality(Unmuted) - count
  <2>2. maxPolyphony' = count /\ count \in Nat
    BY <2>1, ConstantsAssumption, CountsType DEF VMSetSynthPolyphony
  <2>3. IsFiniteSet(Unmuted) /\ Cardinality(Unmuted) \in Nat /\ Cardinality(Unmuted) <= Cardinality(Busy)
    BY BusyFinite, FS_Subset, FS_CardinalityType DEF Unmuted
  <2>4. CASE UNCHANGED voice /\ (activeVoices <= count \/ excess <= 0)
    <3>1. left = Unmuted
      BY <2>4 DEF Unmuted, Busy
    <3>2. Cardinality(Unmuted) <= count
      BY <1>1, <2>2, <2>3, <2>4, BusyFinite DEF CountInv
    <3>. QED BY <2>2, <3>1, <3>2
  <2>5. ASSUME NEW vs \in SUBSET Unmuted, Cardinality(vs) = excess, voice' = MuteIn(voice, vs)
        PROVE  Cardinality(left) <= maxPolyphony'
    <3>1. left = Unmuted \ vs
      BY <1>1, <2>5 DEF Unmuted, Busy, MuteIn, Muted, IInv, TypeOK, VoiceRecords
    <3>2. Unmuted \cap vs = vs
      BY <2>5
    <3>3. Cardinality(left) = Cardinality(Unmuted) - Cardinality(vs)
      BY <2>3, <3>1, <3>2, FS_Difference
    <3>. QED BY <2>2, <2>3, <2>5, <3>3
  <2>6. \/ UNCHANGED voice /\ (activeVoices <= count \/ excess <= 0)
        \/ \E vs \in SUBSET Unmuted : Cardinality(vs) = excess /\ voice' = MuteIn(voice, vs)
    BY <2>1 DEF VMSetSynthPolyphony, MuteVoices
  <2>. QED BY <2>4, <2>5, <2>6
<1>2. IInv /\ CountInv /\ [Next]_vars =>
        [maxPolyphony' # maxPolyphony =>
           Cardinality({v \in Voices : voice'[v].state \notin {"Free", "Muting"}}) <= maxPolyphony']_vars
  BY Zenon, <1>1
<1>3. Init => CountInv
  BY CountInductive
<1>4. IInv /\ CountInv /\ [Next]_vars => CountInv'
  BY CountInductive
<1>. QED BY <1>2, <1>3, <1>4, InitInv, Inductive, PTL DEF Spec, SynthPolyphonyReached
==============================================================================
