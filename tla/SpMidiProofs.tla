---------------------------- MODULE SpMidiProofs ----------------------------
(***************************************************************************)
(* Proofs about SpMidi, for any voices, channels, tables and limits.       *)
(***************************************************************************)
EXTENDS SpMidi, TLAPS, FiniteSetTheorems, WellFoundedInduction

States == {"Free", "Play", "Release", "Muting", "Stolen"}
AVoice == [state : States, channel : Channels \union {NoChannel},
           next : Channels \union {NoChannel}, held : BOOLEAN]
AChannel == [pool : Channels, mip : Mips \union {0}, mute : BOOLEAN]
Counts   == [Channels -> 0 .. PoolModulus - 1]

\* The parts of the invariant, over voices f, channels chs and counts n, which an
\* action takes through several values.

\* A voice that sounds has a channel, and a stolen one a channel to go to; the
\* pedal holds no free voice and no stolen one.
Targeted(f) ==
    \A v \in Voices :
        /\ f[v].state = "Free" => f[v].next = NoChannel /\ f[v].held = FALSE
        /\ f[v].state # "Free" => f[v].channel \in Channels
        /\ f[v].state = "Stolen" => f[v].next \in Channels /\ f[v].held = FALSE

\* The voices of muted channels go down (MutedGoesDown).
GoesDown(f, chs) ==
    \A v \in Voices :
        /\ f[v].state \notin {"Free", "Release", "Muting"}
        /\ chs[Target(f[v])].mute
        => f[v].held

\* The voices a pool must count, and the muting ones it may count besides: they
\* were in it when it was last counted anew.
InPool(f, chs, p) ==
    {v \in Voices : f[v].state \notin {"Free", "Muting"} /\ chs[Target(f[v])].pool = p}
Tight(n, f, chs) ==
    \A p \in Channels :
        /\ Cardinality(InPool(f, chs, p)) <= n[p]
        /\ n[p] <= Cardinality(InPool(f, chs, p)) + Cardinality(Voices)

\* A table is in force only when it is complete, and a reset forgets it.
TableComplete ==
    /\ entries >= 0 => spMidi = FALSE /\ inForce = "none"
    /\ resetReq = TRUE => inForce = "none"
    /\ inForce # "none" => spMidi = TRUE

IInv ==
    /\ TypeOK /\ Targeted(voice) /\ GoesDown(voice, chan) /\ TableComplete
    /\ spMidi = TRUE => Tight(poolCount, voice, chan)

\* The channels are muted by the limits as the code compares them.
MutedByLimit ==
    inForce # "none" => \A c \in Channels :
        chan[c].mute <=> chan[c].mip = 0 \/ chan[c].mip > IF synthPoly # 0 THEN synthPoly ELSE maxPoly

LEMMA Constants ==
    /\ IsFiniteSet(Voices) /\ Cardinality(Voices) \in Nat /\ Cardinality(Voices) > 0
    /\ NUM_SYNTH_CHANNELS \in Nat \ {0} /\ 0 \in Channels /\ Channels \subseteq Nat
    /\ PoolModulus \in Nat /\ 2 * Cardinality(Voices) < PoolModulus
    /\ NoChannel \notin Channels
<1>1. Cardinality(Voices) \in Nat
  BY SpMidiAssumption, FS_CardinalityType
<1>2. Cardinality(Voices) # 0
  BY SpMidiAssumption, FS_EmptySet
<1>. QED BY <1>1, <1>2, SpMidiAssumption DEF Channels, NoChannel

LEMMA WrapInRange ==
    ASSUME NEW n \in Int PROVE Wrap(n) \in 0 .. PoolModulus - 1
BY Constants DEF Wrap

LEMMA WrapSmall ==
    ASSUME NEW n \in 0 .. PoolModulus - 1 PROVE Wrap(n) = n
BY Constants DEF Wrap

LEMMA SetCount ==
    ASSUME NEW S \in SUBSET Voices
    PROVE  IsFiniteSet(S) /\ Cardinality(S) \in Nat /\ Cardinality(S) <= Cardinality(Voices)
BY Constants, FS_Subset, FS_CardinalityType

LEMMA InPoolCount ==
    ASSUME NEW f, NEW chs, NEW p
    PROVE  /\ IsFiniteSet(InPool(f, chs, p))
           /\ Cardinality(InPool(f, chs, p)) \in Nat
           /\ Cardinality(InPool(f, chs, p)) <= Cardinality(Voices)
<1>1. InPool(f, chs, p) \in SUBSET Voices
  BY DEF InPool
<1>. QED BY <1>1, SetCount

-----------------------------------------------------------------------------
(* One voice.                                                              *)

LEMMA MutedVoice ==
    ASSUME NEW vr \in AVoice
    PROVE  /\ Muted(vr) \in AVoice /\ Muted(vr).state = "Muting" /\ Muted(vr).held = FALSE
           /\ Muted(vr).channel = vr.channel /\ Muted(vr).next = vr.next
BY DEF Muted, AVoice, States

LEMMA ReleasedVoice ==
    ASSUME NEW vr \in AVoice
    PROVE  /\ Released(vr) \in AVoice /\ Released(vr).state \in {"Muting", "Release"}
           /\ vr.state # "Muting" => Released(vr).state = "Release"
           /\ Released(vr).held = vr.held
           /\ Released(vr).channel = vr.channel /\ Released(vr).next = vr.next
BY DEF Released, AVoice, States

LEMMA FreeVoiceType ==
    /\ FreeVoice \in AVoice /\ FreeVoice.state = "Free" /\ FreeVoice.next = NoChannel
    /\ FreeVoice.held = FALSE
BY DEF FreeVoice, AVoice, States

\* A free voice that starts a note.
Playing(c) == [FreeVoice EXCEPT !.state = "Play", !.channel = c]

LEMMA PlayingVoice ==
    ASSUME NEW c \in Channels
    PROVE  /\ Playing(c) \in AVoice /\ Playing(c).state = "Play" /\ Playing(c).held = FALSE
           /\ Playing(c).channel = c /\ Target(Playing(c)) = c
BY DEF Playing, FreeVoice, AVoice, States, Target

-----------------------------------------------------------------------------
(* The counts of the pools.                                                *)

LEMMA PoolLessType ==
    ASSUME NEW n \in Counts, NEW f, NEW vs \in SUBSET Voices, NEW chs
    PROVE  PoolLess(n, f, vs, chs) \in Counts
<1>. DEFINE D(p) == {v \in vs : f[v].state # "Muting" /\ chs[Target(f[v])].pool = p}
<1>1. \A p \in Channels : n[p] - Cardinality(D(p)) \in Int
  <2>. TAKE p \in Channels
  <2>1. D(p) \in SUBSET Voices
    OBVIOUS
  <2>2. Cardinality(D(p)) \in Nat
    BY <2>1, SetCount
  <2>3. n[p] \in Int
    BY Constants DEF Counts
  <2>. QED BY <2>2, <2>3
<1>2. PoolLess(n, f, vs, chs) = [p \in Channels |-> Wrap(n[p] - Cardinality(D(p)))]
  BY DEF PoolLess
<1>. QED BY <1>1, <1>2, WrapInRange DEF Counts

LEMMA PoolMoreType ==
    ASSUME TypeOK, NEW n \in Counts, NEW c \in Channels
    PROVE  PoolMore(n, c) \in Counts
<1>1. chan[c].pool \in Channels
  BY DEF TypeOK
<1>2. n[chan[c].pool] + 1 \in Int
  BY <1>1, Constants DEF Counts
<1>. QED BY <1>1, <1>2, WrapInRange DEF PoolMore, Counts

\* Voices leave the pools: those of vs, counted as f has them.
LEMMA TightLess ==
    ASSUME NEW n \in Counts, NEW f, NEW g, NEW chs, NEW vs \in SUBSET Voices, Tight(n, f, chs),
           \A v \in vs : f[v].state # "Free",
           \A p \in Channels : InPool(g, chs, p) = InPool(f, chs, p) \ vs
    PROVE  Tight(PoolLess(n, f, vs, chs), g, chs)
<1>. SUFFICES ASSUME NEW p \in Channels
              PROVE  /\ Cardinality(InPool(g, chs, p)) <= PoolLess(n, f, vs, chs)[p]
                     /\ PoolLess(n, f, vs, chs)[p]
                        <= Cardinality(InPool(g, chs, p)) + Cardinality(Voices)
  BY Zenon DEF Tight
<1>. DEFINE P == InPool(f, chs, p)
            D == {v \in vs : f[v].state # "Muting" /\ chs[Target(f[v])].pool = p}
<1>1. D = P \cap vs
  BY DEF InPool
<1>2. IsFiniteSet(P) /\ Cardinality(P) \in Nat /\ Cardinality(P) <= Cardinality(Voices)
  BY InPoolCount
<1>3. Cardinality(P \ vs) = Cardinality(P) - Cardinality(D)
  <2>. HIDE DEF P, D
  <2>1. Cardinality(P \ vs) = Cardinality(P) - Cardinality(P \cap vs)
    BY Zenon, <1>2, FS_Difference
  <2>. QED BY Zenon, <1>1, <2>1
<1>4. Cardinality(D) \in Nat
  <2>1. D \in SUBSET Voices
    OBVIOUS
  <2>. QED BY <2>1, SetCount
<1>5. PoolLess(n, f, vs, chs)[p] = Wrap(n[p] - Cardinality(D))
  BY DEF PoolLess
<1>6. InPool(g, chs, p) = P \ vs
  OBVIOUS
<1>7. Cardinality(InPool(g, chs, p)) \in Nat
  BY InPoolCount
<1>8. /\ Cardinality(P) <= n[p] /\ n[p] <= Cardinality(P) + Cardinality(Voices)
      /\ n[p] \in 0 .. PoolModulus - 1
  BY Zenon DEF Tight, Counts
<1>. HIDE DEF P, D
<1>9. n[p] - Cardinality(D) \in 0 .. PoolModulus - 1
  BY <1>2, <1>3, <1>4, <1>6, <1>7, <1>8, Constants
<1>10. PoolLess(n, f, vs, chs)[p] = n[p] - Cardinality(D)
  BY <1>5, <1>9, WrapSmall
<1>. QED BY <1>2, <1>3, <1>4, <1>6, <1>8, <1>10, Constants

\* A voice joins the pool of channel c.
LEMMA TightMore ==
    ASSUME TypeOK, NEW n \in Counts, NEW f, NEW g, NEW v \in Voices, NEW c \in Channels,
           Tight(n, f, chan),
           \A p \in Channels :
               /\ v \notin InPool(f, chan, p)
               /\ InPool(g, chan, p) = IF p = chan[c].pool THEN InPool(f, chan, p) \union {v}
                                       ELSE InPool(f, chan, p)
    PROVE  Tight(PoolMore(n, c), g, chan)
<1>. SUFFICES ASSUME NEW p \in Channels
              PROVE  /\ Cardinality(InPool(g, chan, p)) <= PoolMore(n, c)[p]
                     /\ PoolMore(n, c)[p]
                        <= Cardinality(InPool(g, chan, p)) + Cardinality(Voices)
  BY Zenon DEF Tight
<1>1. chan[c].pool \in Channels /\ n[p] \in 0 .. PoolModulus - 1
  BY DEF TypeOK, Counts
<1>2. /\ Cardinality(InPool(f, chan, p)) <= n[p]
      /\ n[p] <= Cardinality(InPool(f, chan, p)) + Cardinality(Voices)
  BY Zenon DEF Tight
<1>3. /\ Cardinality(InPool(g, chan, p)) \in Nat
      /\ Cardinality(InPool(g, chan, p)) <= Cardinality(Voices)
  BY Zenon, InPoolCount
<1>4. IsFiniteSet(InPool(f, chan, p)) /\ Cardinality(InPool(f, chan, p)) \in Nat
  BY Zenon, InPoolCount
<1>5. CASE p = chan[c].pool
  <2>1. Cardinality(InPool(g, chan, p)) = Cardinality(InPool(f, chan, p)) + 1
    <3>1. InPool(g, chan, p) = InPool(f, chan, p) \union {v} /\ v \notin InPool(f, chan, p)
      BY Zenon, <1>5
    <3>2. Cardinality(InPool(f, chan, p) \union {v}) =
            IF v \in InPool(f, chan, p) THEN Cardinality(InPool(f, chan, p))
            ELSE Cardinality(InPool(f, chan, p)) + 1
      BY Zenon, <1>4, FS_AddElement
    <3>. QED BY Zenon, <3>1, <3>2
  <2>2. n[p] + 1 \in 0 .. PoolModulus - 1
    BY <1>1, <1>2, <1>3, <1>4, <2>1, Constants
  <2>3. PoolMore(n, c)[p] = Wrap(n[p] + 1)
    BY <1>5 DEF PoolMore, Counts
  <2>4. PoolMore(n, c)[p] = n[p] + 1
    BY <2>2, <2>3, WrapSmall
  <2>. QED BY <1>1, <1>2, <1>4, <2>1, <2>4, Constants
<1>6. CASE p # chan[c].pool
  <2>1. InPool(g, chan, p) = InPool(f, chan, p)
    BY Zenon, <1>6
  <2>2. PoolMore(n, c)[p] = n[p]
    BY <1>6 DEF PoolMore, Counts
  <2>. QED BY <1>2, <2>1, <2>2
<1>. QED BY <1>5, <1>6

\* Voices that move, and stay in their pools.
LEMMA TightSame ==
    ASSUME NEW n, NEW f, NEW g, NEW chs, Tight(n, f, chs),
           \A p \in Channels : InPool(g, chs, p) = InPool(f, chs, p)
    PROVE  Tight(n, g, chs)
BY Zenon DEF Tight

-----------------------------------------------------------------------------
(* The steps that several actions take.                                    *)

\* Voices are muted.
LEMMA MuteKeeps ==
    ASSUME NEW f \in [Voices -> AVoice], NEW chs, NEW n \in Counts, NEW vs \in SUBSET Voices,
           Targeted(f)
    PROVE  /\ MuteIn(f, vs) \in [Voices -> AVoice]
           /\ Targeted(MuteIn(f, vs))
           /\ GoesDown(f, chs) => GoesDown(MuteIn(f, vs), chs)
           /\ (\A v \in vs : f[v].state # "Free") /\ Tight(n, f, chs)
              => Tight(PoolLess(n, f, vs, chs), MuteIn(f, vs), chs)
<1>. DEFINE g == MuteIn(f, vs)
<1>1. \A v \in Voices : g[v] = IF v \in vs /\ f[v].state # "Free" THEN Muted(f[v]) ELSE f[v]
  BY DEF MuteIn
<1>2. \A v \in Voices : f[v] \in AVoice
  OBVIOUS
<1>3. g \in [Voices -> AVoice]
  BY <1>2, MutedVoice DEF MuteIn
<1>. HIDE DEF g
<1>4. \A v \in Voices : \/ g[v] = f[v]
                        \/ /\ f[v].state # "Free" /\ v \in vs /\ g[v].state = "Muting"
                           /\ g[v].channel = f[v].channel
  <2>. TAKE v \in Voices
  <2>1. Muted(f[v]).state = "Muting" /\ Muted(f[v]).channel = f[v].channel
    BY Zenon, <1>2, MutedVoice
  <2>. QED BY Zenon, <1>1, <2>1
<1>5. Targeted(g)
  BY <1>4 DEF Targeted
<1>6. ASSUME GoesDown(f, chs) PROVE GoesDown(g, chs)
  <2>. SUFFICES ASSUME NEW v \in Voices, g[v].state \notin {"Free", "Release", "Muting"},
                       chs[Target(g[v])].mute
                PROVE  g[v].held
    BY Zenon DEF GoesDown
  <2>1. g[v] = f[v]
    BY <1>4
  <2>. QED BY Zenon, <1>6, <2>1 DEF GoesDown
<1>7. ASSUME \A v \in vs : f[v].state # "Free", Tight(n, f, chs)
      PROVE  Tight(PoolLess(n, f, vs, chs), g, chs)
  <2>1. \A v \in Voices : /\ v \in vs => g[v].state = "Muting"
                          /\ v \notin vs => g[v] = f[v]
    <3>. TAKE v \in Voices
    <3>1. Muted(f[v]).state = "Muting"
      BY Zenon, <1>2, MutedVoice
    <3>. QED BY Zenon, <1>1, <1>7, <3>1
  <2>2. \A p \in Channels : InPool(g, chs, p) = InPool(f, chs, p) \ vs
    BY <2>1 DEF InPool
  <2>. QED BY Zenon, <1>7, <2>2, TightLess
<1>. QED BY Zenon, <1>3, <1>5, <1>6, <1>7 DEF g

\* The channels are looked at again, and the voices counted anew.
LEMMA SilenceKeeps ==
    ASSUME TypeOK, Targeted(voice), NEW chs \in [Channels -> AChannel]
    PROVE  /\ Silenced(chs) \in [Voices -> AVoice] /\ Targeted(Silenced(chs))
           /\ GoesDown(Silenced(chs), chs)
           /\ Recount(chs) \in Counts /\ Tight(Recount(chs), Silenced(chs), chs)
<1>. DEFINE g == Silenced(chs)
            muted(v) == v \in Busy /\ chs[Target(voice[v])].mute
<1>1. \A v \in Voices : voice[v] \in AVoice
  BY DEF TypeOK, AVoice, States
<1>2. \A v \in Voices :
         /\ ~muted(v) => g[v] = voice[v]
         /\ muted(v) /\ voice[v].state = "Stolen" => g[v] = [voice[v] EXCEPT !.state = "Muting"]
         /\ muted(v) /\ voice[v].state # "Stolen" => g[v] = Released(voice[v])
  BY DEF Silenced
<1>3. \A v \in Voices :
         /\ g[v] \in AVoice /\ g[v].channel = voice[v].channel /\ g[v].next = voice[v].next
         /\ g[v].held = voice[v].held
         /\ muted(v) => g[v].state \in {"Muting", "Release"}
         /\ muted(v) /\ voice[v].state \in {"Stolen", "Muting"} => g[v].state = "Muting"
  <2>. TAKE v \in Voices
  <2>1. voice[v] \in AVoice
    BY <1>1
  <2>2. CASE ~muted(v)
    BY Zenon, <1>2, <2>1, <2>2
  <2>3. CASE muted(v) /\ voice[v].state = "Stolen"
    <3>1. g[v] = [voice[v] EXCEPT !.state = "Muting"]
      BY Zenon, <1>2, <2>3
    <3>. QED BY <2>1, <3>1 DEF AVoice, States
  <2>4. CASE muted(v) /\ voice[v].state # "Stolen"
    <3>1. g[v] = Released(voice[v])
      BY Zenon, <1>2, <2>4
    <3>2. voice[v].state = "Muting" => Released(voice[v]).state = "Muting"
      BY DEF Released
    <3>3. Released(voice[v]).state \in {"Muting", "Release"}
      BY Zenon, <2>1, ReleasedVoice
    <3>4. /\ Released(voice[v]) \in AVoice /\ Released(voice[v]).held = voice[v].held
          /\ Released(voice[v]).channel = voice[v].channel
          /\ Released(voice[v]).next = voice[v].next
      BY Zenon, <2>1, ReleasedVoice
    <3>. QED BY <2>4, <3>1, <3>2, <3>3, <3>4
  <2>. QED BY Zenon, <2>2, <2>3, <2>4
<1>4. g \in [Voices -> AVoice]
  <2>1. g = [v \in Voices |-> g[v]]
    BY DEF Silenced
  <2>. HIDE DEF g
  <2>. QED BY <1>3, <2>1
<1>. HIDE DEF g
<1>5. Targeted(g)
  <2>. SUFFICES ASSUME NEW v \in Voices
                PROVE  /\ g[v].state = "Free" => g[v].next = NoChannel /\ g[v].held = FALSE
                       /\ g[v].state # "Free" => g[v].channel \in Channels
                       /\ g[v].state = "Stolen" => g[v].next \in Channels /\ g[v].held = FALSE
    BY Zenon DEF Targeted
  <2>1. /\ voice[v].state = "Free" => voice[v].next = NoChannel /\ voice[v].held = FALSE
        /\ voice[v].state # "Free" => voice[v].channel \in Channels
        /\ voice[v].state = "Stolen" => voice[v].next \in Channels /\ voice[v].held = FALSE
    BY Zenon DEF Targeted
  <2>2. CASE muted(v)
    <3>1. voice[v].state # "Free"
      BY <2>2 DEF Busy
    <3>. QED BY <1>3, <2>1, <2>2, <3>1
  <2>3. CASE ~muted(v)
    BY Zenon, <1>2, <2>1, <2>3
  <2>. QED BY <2>2, <2>3
<1>6. GoesDown(g, chs)
  <2>. SUFFICES ASSUME NEW v \in Voices, g[v].state \notin {"Free", "Release", "Muting"},
                       chs[Target(g[v])].mute
                PROVE  FALSE
    BY Zenon DEF GoesDown
  <2>1. ~muted(v)
    BY <1>3
  <2>2. g[v] = voice[v]
    BY Zenon, <1>2, <2>1
  <2>3. v \in Busy
    BY <2>2 DEF Busy
  <2>. QED BY Zenon, <2>1, <2>2, <2>3
<1>7. \A p \in Channels :
        LET R == {v \in Busy : /\ chs[Target(voice[v])].pool = p
                               /\ chs[Target(voice[v])].mute
                                     => voice[v].state \notin {"Stolen", "Muting"}}
        IN  /\ R \in SUBSET Voices /\ Recount(chs)[p] = Cardinality(R)
            /\ InPool(g, chs, p) \subseteq R
  <2>. TAKE p \in Channels
  <2>. DEFINE R == {v \in Busy : /\ chs[Target(voice[v])].pool = p
                                 /\ chs[Target(voice[v])].mute
                                       => voice[v].state \notin {"Stolen", "Muting"}}
  <2>1. R \in SUBSET Voices /\ Recount(chs)[p] = Cardinality(R)
    BY DEF Busy, Recount
  <2>2. ASSUME NEW v \in InPool(g, chs, p) PROVE v \in R
    <3>1. /\ v \in Voices /\ g[v].state \notin {"Free", "Muting"}
          /\ chs[Target(g[v])].pool = p
      BY <2>2 DEF InPool
    <3>2. CASE ~muted(v)
      <4>1. g[v] = voice[v]
        BY Zenon, <1>2, <3>1, <3>2
      <4>2. v \in Busy
        BY <3>1, <4>1 DEF Busy
      <4>. QED BY Zenon, <3>1, <3>2, <4>1, <4>2
    <3>3. CASE muted(v)
      <4>1. voice[v].state \notin {"Stolen", "Muting"}
        BY <1>3, <3>1, <3>3
      <4>2. g[v].state # "Stolen" /\ g[v].channel = voice[v].channel
        BY <1>3, <3>1, <3>3
      <4>3. Target(g[v]) = Target(voice[v])
        BY Zenon, <4>1, <4>2 DEF Target
      <4>. QED BY Zenon, <3>1, <3>3, <4>1, <4>3
    <3>. QED BY <3>2, <3>3
  <2>. QED BY Zenon, <2>1, <2>2
<1>8. \A p \in Channels :
        /\ Recount(chs)[p] \in 0 .. PoolModulus - 1
        /\ Cardinality(InPool(g, chs, p)) <= Recount(chs)[p]
        /\ Recount(chs)[p] <= Cardinality(InPool(g, chs, p)) + Cardinality(Voices)
  <2>. TAKE p \in Channels
  <2>1. PICK R \in SUBSET Voices : Recount(chs)[p] = Cardinality(R) /\ InPool(g, chs, p) \subseteq R
    BY Zenon, <1>7
  <2>2. IsFiniteSet(R) /\ Cardinality(R) \in Nat /\ Cardinality(R) <= Cardinality(Voices)
    BY SetCount
  <2>3. Cardinality(InPool(g, chs, p)) <= Cardinality(R)
    BY <2>1, <2>2, FS_Subset
  <2>4. Cardinality(InPool(g, chs, p)) \in Nat
    BY Zenon, InPoolCount
  <2>. QED BY <2>1, <2>2, <2>3, <2>4, Constants
<1>9. Recount(chs) \in Counts
  <2>1. Recount(chs) = [p \in Channels |-> Recount(chs)[p]]
    BY DEF Recount
  <2>. QED BY <1>8, <2>1 DEF Counts
<1>10. Tight(Recount(chs), g, chs)
  BY Zenon, <1>8 DEF Tight
<1>. QED BY Zenon, <1>4, <1>5, <1>6, <1>9, <1>10 DEF g

-----------------------------------------------------------------------------
(* The table.                                                              *)

LEMMA Minimum ==
    ASSUME NEW S \in SUBSET Nat, S # {}
    PROVE  \E x \in S : \A y \in S : x <= y
<1>1. PICK x \in S : \A y \in S : ~(<<y, x>> \in OpToRel(<, Nat))
  BY NatLessThanWellFounded, WFMin
<1>2. \A y \in S : y < x => <<y, x>> \in OpToRel(<, Nat)
  BY DEF OpToRel
<1>3. \A y \in S : ~(y < x)
  BY <1>1, <1>2
<1>4. x \in Nat /\ \A y \in S : y \in Nat
  OBVIOUS
<1>. QED BY <1>3, <1>4

LEMMA Maximum ==
    ASSUME NEW n \in Nat, NEW S \in SUBSET (0 .. n), S # {}
    PROVE  \E x \in S : \A y \in S : y <= x
<1>. DEFINE T == {n - y : y \in S}
<1>1. T \in SUBSET Nat
  OBVIOUS
<1>2. T # {}
  <2>1. PICK y \in S : TRUE
    OBVIOUS
  <2>. QED BY <2>1
<1>3. PICK t \in T : \A u \in T : t <= u
  BY <1>1, <1>2, Minimum
<1>4. PICK x \in S : t = n - x
  BY <1>3
<1>5. \A y \in S : n - x <= n - y
  BY <1>3, <1>4
<1>. QED BY <1>4, <1>5

LEMMA MutingType ==
    ASSUME NEW chs \in [Channels -> AChannel], NEW sp, NEW mp
    PROVE  /\ ChannelMuting(chs, sp, mp) \in [Channels -> AChannel]
           /\ \A c \in Channels :
                 /\ ChannelMuting(chs, sp, mp)[c].pool = chs[c].pool
                 /\ ChannelMuting(chs, sp, mp)[c].mip = chs[c].mip
<1>. DEFINE m(c) == chs[c].mip = 0 \/ chs[c].mip > IF sp # 0 THEN sp ELSE mp
<1>1. ChannelMuting(chs, sp, mp) = [c \in Channels |-> [chs[c] EXCEPT !.mute = m(c)]]
  BY DEF ChannelMuting
<1>2. \A c \in Channels : m(c) \in BOOLEAN
  OBVIOUS
<1>. HIDE DEF m
<1>3. \A c \in Channels : /\ [chs[c] EXCEPT !.mute = m(c)] \in AChannel
                          /\ [chs[c] EXCEPT !.mute = m(c)].pool = chs[c].pool
                          /\ [chs[c] EXCEPT !.mute = m(c)].mip = chs[c].mip
  <2>. TAKE c \in Channels
  <2>1. chs[c] \in AChannel /\ m(c) \in BOOLEAN
    BY <1>2
  <2>. QED BY <2>1 DEF AChannel
<1>. QED BY <1>1, <1>3

LEMMA MutingIs ==
    ASSUME NEW chs \in [Channels -> AChannel], NEW sp, NEW mp, NEW c \in Channels
    PROVE  /\ ChannelMuting(chs, sp, mp)[c].mute \in BOOLEAN
           /\ \/ chs[c].mip = 0
              \/ chs[c].mip > IF sp # 0 THEN sp ELSE mp
              => ChannelMuting(chs, sp, mp)[c].mute
           /\ ChannelMuting(chs, sp, mp)[c].mute
              => \/ chs[c].mip = 0
                 \/ chs[c].mip > IF sp # 0 THEN sp ELSE mp
<1>. DEFINE m == chs[c].mip = 0 \/ chs[c].mip > IF sp # 0 THEN sp ELSE mp
<1>1. ChannelMuting(chs, sp, mp)[c] = [chs[c] EXCEPT !.mute = m]
  BY DEF ChannelMuting
<1>2. m \in BOOLEAN /\ chs[c] \in AChannel
  OBVIOUS
<1>3. [chs[c] EXCEPT !.mute = m].mute = m
  <2>. HIDE DEF m
  <2>. QED BY <1>2 DEF AChannel
<1>4. ChannelMuting(chs, sp, mp)[c].mute = m
  BY Zenon, <1>1, <1>3
<1>. QED BY Zenon, <1>2, <1>4

\* The channel of a priority is one that has it.
LEMMA RankedChannel ==
    ASSUME NEW chs \in [Channels -> AChannel], NEW p \in Ranked(chs)
    PROVE  /\ p \in Channels /\ OfRank(chs, p) \in Channels
           /\ chs[OfRank(chs, p)].pool = p
           /\ \A q \in 0 .. p : q \in Ranked(chs)
<1>. DEFINE S == {c \in Channels : chs[c].pool = p}
<1>1. p \in Channels /\ p \in Nat /\ S # {}
  BY Constants DEF Ranked, Channels
<1>2. NUM_SYNTH_CHANNELS - 1 \in Nat /\ S \in SUBSET (0 .. NUM_SYNTH_CHANNELS - 1)
  BY Constants DEF Channels
<1>3. PICK c \in S : \A d \in S : d <= c
  BY <1>1, <1>2, Maximum
<1>4. \E b \in Channels : chs[b].pool = p /\ \A d \in Channels : chs[d].pool = p => d <= b
  BY Zenon, <1>3
<1>5. /\ OfRank(chs, p) \in Channels /\ chs[OfRank(chs, p)].pool = p
  BY Zenon, <1>4 DEF OfRank
<1>6. \A q \in 0 .. p : q \in Ranked(chs)
  BY <1>1, Constants DEF Ranked, Channels
<1>. QED BY Zenon, <1>1, <1>5, <1>6

LEMMA PoolNumberType ==
    ASSUME NEW chs, NEW p \in Channels
    PROVE  PoolNumber(chs, p) \in Channels
<1>. DEFINE S == {q \in 1 .. p : Begins(chs, q)}
<1>1. p \in Nat
  BY Constants
<1>2. IsFiniteSet(1 .. p) /\ Cardinality(1 .. p) = p
  BY <1>1, FS_Interval
<1>3. S \in SUBSET (1 .. p)
  OBVIOUS
<1>4. IsFiniteSet(S) /\ Cardinality(S) <= p /\ Cardinality(S) \in Nat
  BY <1>2, <1>3, FS_Subset, FS_CardinalityType
<1>5. PoolNumber(chs, p) = Cardinality(S)
  BY DEF PoolNumber
<1>6. NUM_SYNTH_CHANNELS \in Nat /\ p \in 0 .. NUM_SYNTH_CHANNELS - 1
  BY Constants DEF Channels
<1>. HIDE DEF S
<1>7. Cardinality(S) \in 0 .. NUM_SYNTH_CHANNELS - 1
  BY <1>1, <1>2, <1>4, <1>6
<1>. QED BY <1>5, <1>7 DEF Channels

LEMMA PooledType ==
    ASSUME NEW chs \in [Channels -> AChannel]
    PROVE  /\ Pooled(chs) \in [Channels -> AChannel]
           /\ \A c \in Channels : Pooled(chs)[c].mip = chs[c].mip
<1>1. \A c \in Channels : /\ chs[c] \in AChannel
                          /\ [chs[c] EXCEPT !.pool = PoolNumber(chs, chs[c].pool)] \in AChannel
                          /\ [chs[c] EXCEPT !.pool = PoolNumber(chs, chs[c].pool)].mip = chs[c].mip
  <2>. TAKE c \in Channels
  <2>1. chs[c] \in AChannel /\ chs[c].pool \in Channels
    BY DEF AChannel
  <2>2. PoolNumber(chs, chs[c].pool) \in Channels
    BY <2>1, PoolNumberType
  <2>. QED BY <2>1, <2>2 DEF AChannel
<1>. QED BY <1>1 DEF Pooled

LEMMA AllocatedType ==
    ASSUME TypeOK, NEW chs \in [Channels -> AChannel]
    PROVE  Allocated(chs) \in Counts
<1>1. \A n \in Channels : poolAlloc[n] \in 0 .. PoolModulus - 1
  BY DEF TypeOK
<1>2. \A p \in Ranked(chs) : MipOfRank(chs, p) \in Int
  <2>. TAKE p \in Ranked(chs)
  <2>1. OfRank(chs, p) \in Channels /\ p \in Channels
    BY Zenon, RankedChannel
  <2>2. chs[OfRank(chs, p)] \in AChannel
    BY <2>1
  <2>3. chs[OfRank(chs, p)].mip \in Mips \union {0}
    BY <2>2 DEF AChannel
  <2>4. \A m \in Mips \union {0} : m \in Int
    BY SpMidiAssumption
  <2>5. chs[OfRank(chs, p)].mip \in Int
    BY Zenon, <2>3, <2>4
  <2>6. ~(p < 0)
    BY <2>1, Constants
  <2>. QED BY Zenon, <2>5, <2>6 DEF MipOfRank
<1>3. \A p \in Ranked(chs) : MipOfRank(chs, p - 1) \in Int
  <2>. TAKE p \in Ranked(chs)
  <2>1. p \in Nat
    BY RankedChannel, Constants
  <2>2. CASE p = 0
    BY <2>2 DEF MipOfRank
  <2>3. CASE p # 0
    <3>1. p - 1 \in 0 .. p
      BY <2>1, <2>3
    <3>2. p - 1 \in Ranked(chs)
      BY <3>1, RankedChannel
    <3>. QED BY <1>2, <3>2
  <2>. QED BY <2>2, <2>3
<1>4. \A n \in Channels : Allocated(chs)[n] \in 0 .. PoolModulus - 1
  <2>. TAKE n \in Channels
  <2>. DEFINE first == {p \in Ranked(chs) : Begins(chs, p) /\ PoolNumber(chs, p) = n}
              q == CHOOSE x \in first : TRUE
  <2>1. CASE first = {}
    BY <1>1, <2>1 DEF Allocated
  <2>2. CASE first # {}
    <3>1. q \in Ranked(chs)
      BY <2>2
    <3>2. Allocated(chs)[n] = Wrap(MipOfRank(chs, q) - MipOfRank(chs, q - 1))
      BY <2>2 DEF Allocated
    <3>. HIDE DEF q
    <3>3. MipOfRank(chs, q) - MipOfRank(chs, q - 1) \in Int
      BY <1>2, <1>3, <3>1
    <3>. QED BY <3>2, <3>3, WrapInRange
  <2>. QED BY <2>1, <2>2
<1>. QED BY <1>4 DEF Allocated, Counts

-----------------------------------------------------------------------------
(* What the invariant says of a state, and what it takes of the next.      *)

LEMMA Now ==
    ASSUME IInv
    PROVE  /\ TypeOK /\ voice \in [Voices -> AVoice] /\ chan \in [Channels -> AChannel]
           /\ pedal \subseteq PedalChannels
           /\ poolCount \in Counts /\ poolAlloc \in Counts
           /\ spMidi \in BOOLEAN /\ resetReq \in BOOLEAN
           /\ inForce \in {"none", "some", "all"}
           /\ synthPoly \in Limits \union {0}
           /\ maxPoly \in SynthLimits \union {Cardinality(Voices)}
           /\ entries \in -1 .. NUM_SYNTH_CHANNELS - 1
           /\ Targeted(voice) /\ GoesDown(voice, chan) /\ TableComplete
           /\ spMidi = TRUE => Tight(poolCount, voice, chan)
BY Zenon DEF IInv, TypeOK, AVoice, States, AChannel, Counts

LEMMA Later ==
    ASSUME voice' \in [Voices -> AVoice], chan' \in [Channels -> AChannel],
           pedal' \subseteq PedalChannels,
           poolCount' \in Counts, poolAlloc' \in Counts,
           spMidi' \in BOOLEAN, resetReq' \in BOOLEAN,
           inForce' \in {"none", "some", "all"},
           synthPoly' \in Limits \union {0},
           maxPoly' \in SynthLimits \union {Cardinality(Voices)},
           entries' \in -1 .. NUM_SYNTH_CHANNELS - 1,
           Targeted(voice'), GoesDown(voice', chan'), TableComplete',
           spMidi' = TRUE => Tight(poolCount', voice', chan')
    PROVE  IInv'
<1>1. TypeOK'
  BY Zenon DEF TypeOK, AVoice, States, AChannel, Counts
<1>2. Targeted(voice)' /\ GoesDown(voice, chan)'
  BY DEF Targeted, GoesDown
<1>3. (spMidi = TRUE => Tight(poolCount, voice, chan))'
  BY Zenon DEF Tight, InPool
<1>. QED BY Zenon, <1>1, <1>2, <1>3 DEF IInv

LEMMA LimitsSmall ==
    ASSUME IInv
    PROVE  /\ synthPoly \in 0 .. PoolModulus - 1
           /\ maxPoly \in 0 .. PoolModulus - 1
           /\ \A n \in Limits \union SynthLimits : n \in 0 .. PoolModulus - 1
<1>1. Limits \subseteq 0 .. Cardinality(Voices) /\ SynthLimits \subseteq 1 .. Cardinality(Voices)
  BY SpMidiAssumption
<1>2. synthPoly \in Limits \union {0} /\ maxPoly \in SynthLimits \union {Cardinality(Voices)}
  BY Now
<1>. QED BY <1>1, <1>2, Constants

LEMMA TargetIn ==
    ASSUME NEW f, Targeted(f), NEW v \in Voices, f[v].state # "Free"
    PROVE  Target(f[v]) \in Channels
BY DEF Targeted, Target

\* Channels that are unmuted make no voice go down.
LEMMA GoesDownLess ==
    ASSUME NEW f, NEW chs, NEW new, Targeted(f), GoesDown(f, chs),
           \A c \in Channels : new[c].mute => chs[c].mute
    PROVE  GoesDown(f, new)
<1>. SUFFICES ASSUME NEW v \in Voices, f[v].state \notin {"Free", "Release", "Muting"},
                     new[Target(f[v])].mute
              PROVE  f[v].held
  BY Zenon DEF GoesDown
<1>1. Target(f[v]) \in Channels
  BY TargetIn
<1>. QED BY Zenon, <1>1 DEF GoesDown

LEMMA ClearedType ==
    ASSUME NEW chs \in [Channels -> AChannel]
    PROVE  /\ ClearTable(chs) \in [Channels -> AChannel]
           /\ \A c \in Channels : ClearTable(chs)[c].mute = chs[c].mute
<1>1. \A c \in Channels : /\ [chs[c] EXCEPT !.pool = 0, !.mip = 0] \in AChannel
                          /\ [chs[c] EXCEPT !.pool = 0, !.mip = 0].mute = chs[c].mute
  <2>. TAKE c \in Channels
  <2>1. chs[c] \in AChannel /\ 0 \in Channels
    BY Constants
  <2>. QED BY <2>1 DEF AChannel
<1>. QED BY <1>1 DEF ClearTable

LEMMA CleanType ==
    ASSUME chan \in [Channels -> AChannel]
    PROVE  /\ CleanChannels \in [Channels -> AChannel]
           /\ \A c \in Channels : CleanChannels[c].mute = FALSE
<1>1. \A c \in Channels : /\ [chan[c] EXCEPT !.pool = 0, !.mute = FALSE] \in AChannel
                          /\ [chan[c] EXCEPT !.pool = 0, !.mute = FALSE].mute = FALSE
  <2>. TAKE c \in Channels
  <2>1. chan[c] \in AChannel /\ 0 \in Channels
    BY Constants
  <2>. QED BY <2>1 DEF AChannel
<1>. QED BY <1>1 DEF CleanChannels

LEMMA ZeroCounts == [p \in Channels |-> 0] \in Counts
BY Constants DEF Counts

LEMMA InitIInv == Init => IInv
<1>. SUFFICES ASSUME Init PROVE IInv
  OBVIOUS
<1>1. voice \in [Voices -> AVoice] /\ \A v \in Voices : voice[v] = FreeVoice
  BY FreeVoiceType DEF Init
<1>2. chan \in [Channels -> AChannel]
  BY Constants DEF Init, AChannel
<1>3. poolCount \in Counts
  BY ZeroCounts DEF Init
<1>4. poolAlloc \in Counts
  <2>1. Cardinality(Voices) \in 0 .. PoolModulus - 1 /\ 0 \in 0 .. PoolModulus - 1
    BY Constants
  <2>. QED BY <2>1 DEF Init, Counts
<1>5. entries = -1 /\ -1 \in -1 .. NUM_SYNTH_CHANNELS - 1
  BY Constants DEF Init
<1>6. TypeOK
  BY <1>1, <1>2, <1>3, <1>4, <1>5 DEF TypeOK, Init, AVoice, States, AChannel, Counts
<1>7. Targeted(voice)
  BY <1>1, FreeVoiceType DEF Targeted
<1>8. GoesDown(voice, chan)
  BY <1>1, FreeVoiceType DEF GoesDown
<1>9. TableComplete
  BY <1>5 DEF Init, TableComplete
<1>. QED BY <1>6, <1>7, <1>8, <1>9 DEF IInv, Init

-----------------------------------------------------------------------------
(* The actions: the table.                                                 *)

LEMMA TableStartKeeps == ASSUME IInv, TableStart \/ TableBad PROVE IInv'
<1>. USE Now
<1>1. /\ chan' = ClearTable(chan) /\ spMidi' = FALSE /\ inForce' = "none"
      /\ UNCHANGED <<voice, pedal, poolCount, poolAlloc, resetReq, synthPoly, maxPoly>>
  BY DEF TableStart, TableBad, VMInitMIPTable, pools, limits
<1>2. entries' \in -1 .. NUM_SYNTH_CHANNELS - 1
  BY Constants DEF TableStart, TableBad
<1>3. chan' \in [Channels -> AChannel] /\ \A c \in Channels : chan'[c].mute => chan[c].mute
  BY Zenon, <1>1, ClearedType
<1>4. GoesDown(voice, chan')
  BY Zenon, <1>3, GoesDownLess
<1>5. TableComplete'
  BY Zenon, <1>1 DEF TableComplete
<1>6. spMidi' # TRUE /\ spMidi' \in BOOLEAN /\ inForce' \in {"none", "some", "all"}
  BY <1>1
<1>. QED BY Zenon, <1>1, <1>2, <1>3, <1>4, <1>5, <1>6, Later

\* The table is complete, with the priorities and the MIPs of chs.
LEMMA TableKeeps ==
    ASSUME IInv, NEW chs \in [Channels -> AChannel], VMUpdateMIPTable(chs), entries' = -1
    PROVE  IInv'
<1>. USE Now
<1>. DEFINE new == ChannelMuting(Pooled(chs), synthPoly, maxPoly)
<1>1. /\ chan' = new /\ poolAlloc' = Allocated(chs)
      /\ voice' = Silenced(new) /\ poolCount' = Recount(new) /\ spMidi' = TRUE
      /\ inForce' = IF resetReq THEN "none" ELSE IF Regular(chs) THEN "all" ELSE "some"
      /\ UNCHANGED <<pedal, resetReq, synthPoly, maxPoly>>
  BY Zenon DEF VMUpdateMIPTable, limits
<1>2. new \in [Channels -> AChannel]
  BY Zenon, PooledType, MutingType
<1>. HIDE DEF new
<1>3. /\ Silenced(new) \in [Voices -> AVoice] /\ Targeted(Silenced(new))
      /\ GoesDown(Silenced(new), new)
      /\ Recount(new) \in Counts /\ Tight(Recount(new), Silenced(new), new)
  BY Zenon, <1>2, SilenceKeeps
<1>4. Allocated(chs) \in Counts
  BY Zenon, AllocatedType
<1>5. inForce' \in {"none", "some", "all"} /\ (resetReq = TRUE => inForce' = "none")
  BY <1>1
<1>6. entries' \in -1 .. NUM_SYNTH_CHANNELS - 1 /\ ~(entries' >= 0)
  BY Constants
<1>7. TableComplete'
  BY <1>1, <1>5, <1>6 DEF TableComplete
<1>8. spMidi' \in BOOLEAN
  BY <1>1
<1>. QED BY Zenon, <1>1, <1>2, <1>3, <1>4, <1>5, <1>6, <1>7, <1>8, Later

LEMMA TableEndKeeps == ASSUME IInv, TableEnd PROVE IInv'
BY Zenon, Now, TableKeeps DEF TableEnd

LEMMA VMSetMIPEntryKeeps ==
    ASSUME IInv, NEW c \in Channels, NEW mip \in Mips, VMSetMIPEntry(c, mip)
    PROVE  IInv'
<1>. USE Now
<1>. DEFINE chs == [chan EXCEPT ![c].pool = entries, ![c].mip = mip]
<1>1. entries \in Channels
  BY Constants DEF VMSetMIPEntry, Channels
<1>2. chs \in [Channels -> AChannel] /\ \A d \in Channels : chs[d].mute => chan[d].mute
  <2>1. chan[c] \in AChannel
    OBVIOUS
  <2>2. /\ [chan[c] EXCEPT !.pool = entries, !.mip = mip] \in AChannel
        /\ [chan[c] EXCEPT !.pool = entries, !.mip = mip].mute = chan[c].mute
    BY <1>1, <2>1 DEF AChannel
  <2>3. \A d \in Channels : chs[d] = IF d = c THEN [chan[c] EXCEPT !.pool = entries, !.mip = mip]
                                     ELSE chan[d]
    OBVIOUS
  <2>4. chs = [d \in Channels |-> chs[d]]
    OBVIOUS
  <2>. HIDE DEF chs
  <2>. QED BY <2>2, <2>3, <2>4
<1>3. CASE entries + 1 = NUM_SYNTH_CHANNELS
  <2>1. entries' = -1 /\ VMUpdateMIPTable(chs)
    BY <1>3 DEF VMSetMIPEntry
  <2>. HIDE DEF chs
  <2>. QED BY Zenon, <1>2, <2>1, TableKeeps
<1>4. CASE entries + 1 # NUM_SYNTH_CHANNELS
  <2>1. /\ entries' = entries + 1 /\ chan' = chs
        /\ UNCHANGED <<voice, pedal, poolCount, poolAlloc, spMidi, resetReq, synthPoly, maxPoly,
                       inForce>>
    BY <1>4 DEF VMSetMIPEntry, pools, limits
  <2>2. entries >= 0 /\ entries' \in -1 .. NUM_SYNTH_CHANNELS - 1
    BY <1>4, <2>1, Constants DEF VMSetMIPEntry
  <2>3. spMidi = FALSE /\ inForce = "none"
    BY <2>2 DEF TableComplete
  <2>4. TableComplete' /\ spMidi' # TRUE
    BY Zenon, <2>1, <2>3 DEF TableComplete
  <2>. HIDE DEF chs
  <2>5. GoesDown(voice, chan')
    BY Zenon, <1>2, <2>1, GoesDownLess
  <2>. QED BY Zenon, <1>2, <2>1, <2>2, <2>4, <2>5, Later
<1>. QED BY <1>3, <1>4

-----------------------------------------------------------------------------
(* The actions: notes, the pedal and frames.                               *)

\* Only voices change, and none changes its pool.
LEMMA VoicesKeep ==
    ASSUME IInv, voice' \in [Voices -> AVoice], Targeted(voice'), GoesDown(voice', chan),
           \A p \in Channels : InPool(voice', chan, p) = InPool(voice, chan, p),
           pedal' \subseteq PedalChannels,
           UNCHANGED <<chan, poolCount, poolAlloc, spMidi, resetReq, synthPoly, maxPoly,
                       entries, inForce>>
    PROVE  IInv'
<1>. USE Now
<1>1. TableComplete'
  BY Zenon DEF TableComplete
<1>2. spMidi' = TRUE => Tight(poolCount', voice', chan')
  BY Zenon, TightSame
<1>. QED BY Zenon, <1>1, <1>2, Later

LEMMA VMStartNoteKeeps == ASSUME IInv, NEW c \in Channels, VMStartNote(c) PROVE IInv'
<1>. USE Now
<1>1. UNCHANGED <<chan, pedal, poolAlloc, spMidi, resetReq, synthPoly, maxPoly, entries, inForce>>
  BY DEF VMStartNote, limits
<1>2. ~chan[c].mute
  BY DEF VMStartNote
<1>3. TableComplete'
  BY Zenon, <1>1 DEF TableComplete
<1>4. ASSUME NEW v \in Voices, NEW f \in [Voices -> AVoice], NEW n \in Counts,
             Targeted(f), GoesDown(f, chan), f[v].state \in {"Free", "Muting"},
             spMidi = TRUE => Tight(n, f, chan),
             voice' \in [Voices -> AVoice], \A w \in Voices \ {v} : voice'[w] = f[w],
             voice'[v].state \in {"Play", "Stolen"}, voice'[v].held = FALSE,
             voice'[v].channel \in Channels, Target(voice'[v]) = c,
             poolCount' = PoolMore(n, c)
      PROVE  IInv'
  <2>1. Targeted(voice')
    <3>. SUFFICES ASSUME NEW w \in Voices
                  PROVE  /\ voice'[w].state = "Free"
                            => voice'[w].next = NoChannel /\ voice'[w].held = FALSE
                         /\ voice'[w].state # "Free" => voice'[w].channel \in Channels
                         /\ voice'[w].state = "Stolen"
                            => voice'[w].next \in Channels /\ voice'[w].held = FALSE
      BY Zenon DEF Targeted
    <3>1. CASE w = v
      BY <1>4, <3>1 DEF Target
    <3>2. CASE w # v
      BY Zenon, <1>4, <3>2 DEF Targeted
    <3>. QED BY <3>1, <3>2
  <2>2. GoesDown(voice', chan)
    <3>. SUFFICES ASSUME NEW w \in Voices, voice'[w].state \notin {"Free", "Release", "Muting"},
                         chan[Target(voice'[w])].mute
                  PROVE  voice'[w].held
      BY Zenon DEF GoesDown
    <3>1. w # v
      BY Zenon, <1>2, <1>4
    <3>. QED BY Zenon, <1>4, <3>1 DEF GoesDown
  <2>3. poolCount' \in Counts
    BY Zenon, <1>4, PoolMoreType
  <2>4. \A p \in Channels :
           /\ v \notin InPool(f, chan, p)
           /\ InPool(voice', chan, p) = IF p = chan[c].pool THEN InPool(f, chan, p) \union {v}
                                        ELSE InPool(f, chan, p)
    BY <1>4 DEF InPool
  <2>5. ASSUME spMidi' = TRUE PROVE Tight(poolCount', voice', chan')
    <3>1. Tight(n, f, chan)
      BY Zenon, <1>1, <1>4, <2>5
    <3>2. Tight(PoolMore(n, c), voice', chan)
      BY Zenon, <2>4, <3>1, TightMore
    <3>. QED BY Zenon, <1>1, <1>4, <3>2
  <2>. QED BY Zenon, <1>1, <1>3, <1>4, <2>1, <2>2, <2>3, <2>5, Later
<1>5. ASSUME NEW v \in Voices \ Busy,
             voice' = [voice EXCEPT ![v] = [FreeVoice EXCEPT !.state = "Play", !.channel = c]],
             poolCount' = PoolMore(poolCount, c)
      PROVE  IInv'
  <2>1. voice' = [voice EXCEPT ![v] = Playing(c)]
    BY Zenon, <1>5 DEF Playing
  <2>2. /\ Playing(c) \in AVoice /\ Playing(c).state = "Play" /\ Playing(c).held = FALSE
        /\ Playing(c).channel = c /\ Target(Playing(c)) = c
    BY Zenon, PlayingVoice
  <2>3. /\ voice' \in [Voices -> AVoice] /\ \A w \in Voices \ {v} : voice'[w] = voice[w]
        /\ voice'[v] = Playing(c)
    BY <2>1, <2>2
  <2>4. voice[v].state \in {"Free", "Muting"} /\ v \in Voices
    BY DEF Busy
  <2>5. voice'[v].state \in {"Play", "Stolen"}
    BY <2>2, <2>3
  <2>. QED BY Zenon, <1>4, <1>5, <2>2, <2>3, <2>4, <2>5
<1>6. ASSUME NEW v \in Busy,
             voice' = [voice EXCEPT ![v].state = "Stolen", ![v].next = c, ![v].held = FALSE],
             poolCount' = PoolMore(PoolLess(poolCount, voice, {v}, chan), c)
      PROVE  IInv'
  <2>. DEFINE f == MuteIn(voice, {v})
              n == PoolLess(poolCount, voice, {v}, chan)
              vr == [voice[v] EXCEPT !.state = "Stolen", !.next = c, !.held = FALSE]
  <2>1. v \in Voices /\ {v} \in SUBSET Voices /\ \A w \in {v} : voice[w].state # "Free"
    BY DEF Busy
  <2>2. f \in [Voices -> AVoice] /\ Targeted(f) /\ GoesDown(f, chan)
    BY Zenon, <2>1, MuteKeeps
  <2>3. n \in Counts
    BY Zenon, <2>1, PoolLessType
  <2>4. spMidi = TRUE => Tight(n, f, chan)
    BY Zenon, <2>1, MuteKeeps
  <2>5. voice[v] \in AVoice /\ voice[v].channel \in Channels
    BY <2>1 DEF Targeted
  <2>6. /\ vr \in AVoice /\ vr.state = "Stolen" /\ vr.held = FALSE /\ vr.next = c
        /\ vr.channel = voice[v].channel
    BY <2>5 DEF AVoice, States
  <2>7. voice' = [voice EXCEPT ![v] = vr]
    BY <1>6, <2>1
  <2>8. f[v] = Muted(voice[v]) /\ \A w \in Voices \ {v} : f[w] = voice[w]
    BY <2>1 DEF MuteIn
  <2>9. f[v].state \in {"Free", "Muting"}
    <3>1. Muted(voice[v]).state = "Muting"
      BY Zenon, <2>5, MutedVoice
    <3>. QED BY <2>8, <3>1
  <2>. HIDE DEF f, n, vr
  <2>10. /\ voice' \in [Voices -> AVoice] /\ voice'[v] = vr
         /\ \A w \in Voices \ {v} : voice'[w] = f[w]
    BY <2>1, <2>6, <2>7, <2>8
  <2>11. Target(voice'[v]) = c /\ voice'[v].state \in {"Play", "Stolen"}
    BY <2>6, <2>10 DEF Target
  <2>12. poolCount' = PoolMore(n, c)
    BY <1>6 DEF n
  <2>. QED BY Zenon, <1>4, <2>1, <2>2, <2>3, <2>4, <2>5, <2>6, <2>9, <2>10, <2>11, <2>12
<1>. QED BY Zenon, <1>5, <1>6 DEF VMStartNote

\* One voice changes within its pool.
LEMMA OneVoiceKeeps ==
    ASSUME IInv, NEW v \in Voices, NEW vr \in AVoice, voice' = [voice EXCEPT ![v] = vr],
           voice[v].state \in {"Play", "Release"}, vr.state \in {"Play", "Release"},
           vr.channel = voice[v].channel, vr.state = "Play" => vr.held = TRUE, VoicesOnly
    PROVE  IInv'
<1>. USE Now
<1>1. UNCHANGED <<chan, pedal, poolCount, poolAlloc, spMidi, resetReq, synthPoly, maxPoly,
                  entries, inForce>>
  BY DEF VoicesOnly, pools, limits
<1>2. voice' \in [Voices -> AVoice] /\ voice'[v] = vr /\ \A w \in Voices \ {v} : voice'[w] = voice[w]
  OBVIOUS
<1>3. Targeted(voice')
  BY <1>2 DEF Targeted
<1>4. Target(vr) = Target(voice[v])
  BY DEF Target
<1>5. GoesDown(voice', chan)
  <2>. SUFFICES ASSUME NEW w \in Voices, voice'[w].state \notin {"Free", "Release", "Muting"},
                       chan[Target(voice'[w])].mute
                PROVE  voice'[w].held
    BY Zenon DEF GoesDown
  <2>1. CASE w = v
    BY <1>2, <2>1
  <2>2. CASE w # v
    BY Zenon, <1>2, <2>2 DEF GoesDown
  <2>. QED BY <2>1, <2>2
<1>6. \A p \in Channels : InPool(voice', chan, p) = InPool(voice, chan, p)
  BY <1>2, <1>4 DEF InPool
<1>. QED BY Zenon, <1>1, <1>2, <1>3, <1>5, <1>6, VoicesKeep

LEMMA VMStopNoteKeeps == ASSUME IInv, NEW v \in Voices, VMStopNote(v) PROVE IInv'
<1>. USE Now
<1>1. voice[v] \in AVoice /\ voice[v].state \in {"Play", "Release"} /\ VoicesOnly
  BY DEF VMStopNote
<1>2. CASE voice[v].channel \in pedal
  <2>1. voice' = [voice EXCEPT ![v] = [voice[v] EXCEPT !.held = TRUE]]
    BY <1>2 DEF VMStopNote
  <2>2. /\ [voice[v] EXCEPT !.held = TRUE] \in AVoice
        /\ [voice[v] EXCEPT !.held = TRUE].state = voice[v].state
        /\ [voice[v] EXCEPT !.held = TRUE].channel = voice[v].channel
        /\ [voice[v] EXCEPT !.held = TRUE].held = TRUE
    BY <1>1 DEF AVoice
  <2>. QED BY Zenon, <1>1, <2>1, <2>2, OneVoiceKeeps
<1>3. CASE voice[v].channel \notin pedal
  <2>1. voice' = [voice EXCEPT ![v] = Released(voice[v])]
    BY <1>3 DEF VMStopNote
  <2>2. /\ Released(voice[v]) \in AVoice /\ Released(voice[v]).channel = voice[v].channel
        /\ voice[v].state # "Muting" => Released(voice[v]).state = "Release"
    BY Zenon, <1>1, ReleasedVoice
  <2>3. Released(voice[v]).state = "Release"
    BY <1>1, <2>2
  <2>4. Released(voice[v]).state # "Play" /\ Released(voice[v]).state \in {"Play", "Release"}
    BY <2>3
  <2>. QED BY Zenon, <1>1, <2>1, <2>2, <2>4, OneVoiceKeeps
<1>. QED BY <1>2, <1>3

LEMMA SustainPedalOnKeeps == ASSUME IInv, NEW c \in Channels, SustainPedalOn(c) PROVE IInv'
<1>. USE Now
<1>1. /\ UNCHANGED <<chan, poolCount, poolAlloc, spMidi, resetReq, synthPoly, maxPoly,
                     entries, inForce>>
      /\ pedal' \subseteq PedalChannels
  BY DEF SustainPedalOn, pools, limits
<1>2. PICK vs \in SUBSET {v \in OfChannel(c) : voice[v].state = "Release"} :
         voice' = [v \in Voices |-> IF v \in vs
                       THEN [voice[v] EXCEPT !.state = "Play", !.held = TRUE] ELSE voice[v]]
  BY Zenon DEF SustainPedalOn
<1>3. \A v \in Voices : voice[v] \in AVoice /\ (v \in vs => voice[v].state = "Release")
  OBVIOUS
<1>4. \A v \in Voices :
         LET vr == [voice[v] EXCEPT !.state = "Play", !.held = TRUE]
         IN  /\ vr \in AVoice /\ vr.state = "Play" /\ vr.held = TRUE
             /\ vr.channel = voice[v].channel
  BY <1>3 DEF AVoice, States
<1>5. voice' \in [Voices -> AVoice]
  BY <1>2, <1>3, <1>4
<1>6. \A v \in Voices : \/ voice'[v] = voice[v]
                        \/ /\ voice[v].state = "Release" /\ voice'[v].state = "Play"
                           /\ voice'[v].held = TRUE /\ voice'[v].channel = voice[v].channel
  <2>. TAKE v \in Voices
  <2>1. voice'[v] = IF v \in vs THEN [voice[v] EXCEPT !.state = "Play", !.held = TRUE]
                    ELSE voice[v]
    BY <1>2
  <2>. QED BY Zenon, <1>3, <1>4, <2>1
<1>7. Targeted(voice')
  BY <1>6 DEF Targeted
<1>8. \A v \in Voices : Target(voice'[v]) = Target(voice[v])
  BY <1>6 DEF Target
<1>9. GoesDown(voice', chan)
  <2>. SUFFICES ASSUME NEW w \in Voices, voice'[w].state \notin {"Free", "Release", "Muting"},
                       chan[Target(voice'[w])].mute
                PROVE  voice'[w].held
    BY Zenon DEF GoesDown
  <2>1. CASE voice'[w] = voice[w]
    BY Zenon, <2>1 DEF GoesDown
  <2>2. CASE voice'[w].held = TRUE
    BY <2>2
  <2>. QED BY Zenon, <1>6, <2>1, <2>2
<1>10. \A p \in Channels : InPool(voice', chan, p) = InPool(voice, chan, p)
  <2>1. \A v \in Voices : voice'[v].state \in {"Free", "Muting"} <=> voice[v].state \in {"Free", "Muting"}
    BY <1>6
  <2>. QED BY <1>8, <2>1 DEF InPool
<1>. QED BY Zenon, <1>1, <1>5, <1>7, <1>9, <1>10, VoicesKeep

LEMMA SustainPedalOffKeeps == ASSUME IInv, NEW c \in Channels, SustainPedalOff(c) PROVE IInv'
<1>. USE Now
<1>1. /\ UNCHANGED <<chan, poolCount, poolAlloc, spMidi, resetReq, synthPoly, maxPoly,
                     entries, inForce>>
      /\ pedal' \subseteq PedalChannels
  BY DEF SustainPedalOff, pools, limits
<1>. DEFINE up(v) == voice[v].held /\ voice[v].channel = c
            vr(v) == [Released(voice[v]) EXCEPT !.held = FALSE]
<1>2. voice' = [v \in Voices |-> IF up(v) THEN vr(v) ELSE voice[v]]
  BY DEF SustainPedalOff
<1>3. \A v \in Voices : voice[v] \in AVoice
  OBVIOUS
<1>4. \A v \in Voices :
         /\ vr(v) \in AVoice /\ vr(v).state \in {"Muting", "Release"}
         /\ voice[v].state # "Muting" => vr(v).state = "Release"
         /\ vr(v).channel = voice[v].channel
  <2>. TAKE v \in Voices
  <2>1. /\ Released(voice[v]) \in AVoice /\ Released(voice[v]).state \in {"Muting", "Release"}
        /\ voice[v].state # "Muting" => Released(voice[v]).state = "Release"
        /\ Released(voice[v]).channel = voice[v].channel
    BY Zenon, <1>3, ReleasedVoice
  <2>. QED BY <2>1 DEF AVoice
<1>5. \A v \in Voices : voice'[v] = IF up(v) THEN vr(v) ELSE voice[v]
  BY <1>2
<1>6. voice' \in [Voices -> AVoice]
  <2>. HIDE DEF up, vr
  <2>. QED BY <1>2, <1>3, <1>4
<1>7. \A v \in Voices : up(v) => voice[v].state \in {"Play", "Release", "Muting"}
  <2>. SUFFICES ASSUME NEW v \in Voices, up(v)
                PROVE  voice[v].state \in {"Play", "Release", "Muting"}
    OBVIOUS
  <2>1. voice[v].held # FALSE
    OBVIOUS
  <2>2. voice[v].state # "Free" /\ voice[v].state # "Stolen"
    BY Zenon, <2>1 DEF Targeted
  <2>. QED BY <1>3, <2>2 DEF AVoice, States
<1>8. \A v \in Voices : voice[v].state = "Muting" /\ up(v) => vr(v).state = "Muting"
  BY <1>3 DEF Released, AVoice
<1>9. \A v \in Voices :
         \/ voice'[v] = voice[v]
         \/ /\ voice[v].state \in {"Play", "Release", "Muting"}
            /\ voice'[v].state \in {"Release", "Muting"}
            /\ voice[v].state = "Muting" <=> voice'[v].state = "Muting"
            /\ voice'[v].channel = voice[v].channel
  <2>. TAKE v \in Voices
  <2>1. CASE ~up(v)
    BY Zenon, <1>5, <2>1
  <2>2. CASE up(v)
    <3>1. voice'[v] = vr(v)
      BY Zenon, <1>5, <2>2
    <3>. HIDE DEF vr, up
    <3>. QED BY <1>4, <1>7, <1>8, <2>2, <3>1
  <2>. QED BY <2>1, <2>2
<1>. HIDE DEF up, vr
<1>10. Targeted(voice')
  <2>. SUFFICES ASSUME NEW w \in Voices
                PROVE  /\ voice'[w].state = "Free"
                          => voice'[w].next = NoChannel /\ voice'[w].held = FALSE
                       /\ voice'[w].state # "Free" => voice'[w].channel \in Channels
                       /\ voice'[w].state = "Stolen"
                          => voice'[w].next \in Channels /\ voice'[w].held = FALSE
    BY Zenon DEF Targeted
  <2>1. CASE voice'[w] = voice[w]
    BY Zenon, <2>1 DEF Targeted
  <2>2. CASE voice'[w] # voice[w]
    <3>1. voice[w].channel \in Channels
      BY <1>9, <2>2 DEF Targeted
    <3>. QED BY <1>9, <2>2, <3>1
  <2>. QED BY <2>1, <2>2
<1>11. \A v \in Voices : Target(voice'[v]) = Target(voice[v])
  BY <1>9 DEF Target
<1>12. GoesDown(voice', chan)
  <2>. SUFFICES ASSUME NEW w \in Voices, voice'[w].state \notin {"Free", "Release", "Muting"},
                       chan[Target(voice'[w])].mute
                PROVE  voice'[w].held
    BY Zenon DEF GoesDown
  <2>1. voice'[w] = voice[w]
    BY <1>9
  <2>. QED BY Zenon, <2>1 DEF GoesDown
<1>13. \A p \in Channels : InPool(voice', chan, p) = InPool(voice, chan, p)
  <2>1. \A v \in Voices : voice'[v].state \in {"Free", "Muting"} <=> voice[v].state \in {"Free", "Muting"}
    BY <1>9
  <2>. QED BY <1>11, <2>1 DEF InPool
<1>. QED BY Zenon, <1>1, <1>6, <1>10, <1>12, <1>13, VoicesKeep

LEMMA VMMuteAllVoicesKeeps == ASSUME IInv, VMMuteAllVoices PROVE IInv'
<1>. USE Now
<1>1. /\ voice' = MuteIn(voice, Busy) /\ poolCount' = PoolLess(poolCount, voice, Busy, chan)
      /\ UNCHANGED <<chan, pedal, poolAlloc, spMidi, resetReq, synthPoly, maxPoly, entries,
                     inForce>>
  BY DEF VMMuteAllVoices, limits
<1>2. Busy \in SUBSET Voices /\ \A v \in Busy : voice[v].state # "Free"
  BY DEF Busy
<1>3. /\ MuteIn(voice, Busy) \in [Voices -> AVoice] /\ Targeted(MuteIn(voice, Busy))
      /\ GoesDown(MuteIn(voice, Busy), chan)
      /\ Tight(poolCount, voice, chan)
         => Tight(PoolLess(poolCount, voice, Busy, chan), MuteIn(voice, Busy), chan)
  BY Zenon, <1>2, MuteKeeps
<1>4. PoolLess(poolCount, voice, Busy, chan) \in Counts
  BY Zenon, <1>2, PoolLessType
<1>5. TableComplete'
  BY Zenon, <1>1 DEF TableComplete
<1>6. spMidi' = TRUE => Tight(poolCount', voice', chan')
  BY Zenon, <1>1, <1>3
<1>. QED BY Zenon, <1>1, <1>3, <1>4, <1>5, <1>6, Later

\* No voice is left: the pools count none.
LEMMA AllFree ==
    ASSUME NEW f, \A v \in Voices : f[v].state = "Free"
    PROVE  /\ \A chs, p : InPool(f, chs, p) = {}
           /\ \A chs : GoesDown(f, chs)
           /\ \A chs : Tight([p \in Channels |-> 0], f, chs)
<1>1. \A chs, p : InPool(f, chs, p) = {}
  BY DEF InPool
<1>2. \A chs : GoesDown(f, chs)
  BY DEF GoesDown
<1>3. ASSUME NEW chs PROVE Tight([p \in Channels |-> 0], f, chs)
  <2>1. \A p \in Channels : Cardinality(InPool(f, chs, p)) = 0
    BY Zenon, <1>1, FS_EmptySet
  <2>. QED BY <2>1, Constants DEF Tight
<1>. QED BY Zenon, <1>1, <1>2, <1>3

LEMMA VMRenderKeeps == ASSUME IInv, NEW done \in SUBSET Busy, VMRender(done) PROVE IInv'
<1>. USE Now
<1>. DEFINE f     == [v \in Voices |-> IF v \in done THEN Ended(v) ELSE voice[v]]
            reset == resetReq /\ \A v \in Voices : f[v].state = "Free"
            gone  == {v \in done : f[v].state = "Free"}
<1>1. /\ voice' = f /\ poolCount' = PoolLess(poolCount, voice, gone, chan)
      /\ chan' = IF reset THEN CleanChannels ELSE chan
      /\ pedal' = IF reset THEN {} ELSE pedal
      /\ resetReq' = (resetReq /\ ~reset)
      /\ UNCHANGED <<poolAlloc, spMidi, synthPoly, maxPoly, entries, inForce>>
  BY DEF VMRender, limits
<1>2. done \in SUBSET Voices /\ \A v \in done : voice[v].state # "Free"
  BY DEF Busy
<1>3. \A v \in Voices : v \notin done => f[v] = voice[v]
  OBVIOUS
<1>4. \A v \in done :
         \/ f[v] = FreeVoice
         \/ /\ voice[v].state = "Stolen" /\ voice[v].next \in Channels
            /\ f[v] = Playing(voice[v].next)
  <2>. TAKE v \in done
  <2>1. f[v] = Ended(v)
    BY <1>2
  <2>2. CASE voice[v].state # "Stolen" \/ Dropped(v)
    BY Zenon, <2>1, <2>2 DEF Ended
  <2>3. CASE voice[v].state = "Stolen" /\ ~Dropped(v)
    <3>1. f[v] = Playing(voice[v].next)
      BY Zenon, <2>1, <2>3 DEF Ended, Playing
    <3>2. voice[v].next \in Channels
      BY Zenon, <1>2, <2>3 DEF Targeted
    <3>. QED BY Zenon, <2>3, <3>1, <3>2
  <2>. QED BY Zenon, <2>2, <2>3
<1>5. \A v \in Voices : f[v] \in AVoice
  <2>. TAKE v \in Voices
  <2>1. voice[v] \in AVoice
    OBVIOUS
  <2>. QED BY Zenon, <1>3, <1>4, <2>1, FreeVoiceType, PlayingVoice
<1>6. f \in [Voices -> AVoice]
  <2>1. f = [v \in Voices |-> f[v]]
    OBVIOUS
  <2>. HIDE DEF f
  <2>. QED BY <1>5, <2>1
<1>7. gone \in SUBSET done
  OBVIOUS
<1>8. \A v \in done : v \in gone <=> f[v].state = "Free"
  OBVIOUS
<1>9. reset => resetReq = TRUE /\ \A v \in Voices : f[v].state = "Free"
  OBVIOUS
<1>10. resetReq' \in BOOLEAN /\ (resetReq' = TRUE => resetReq = TRUE)
  <2>1. reset \in BOOLEAN
    OBVIOUS
  <2>. HIDE DEF reset
  <2>. QED BY <1>1, <2>1
<1>. HIDE DEF f, gone, reset
<1>11. Targeted(f)
  <2>. SUFFICES ASSUME NEW w \in Voices
                PROVE  /\ f[w].state = "Free" => f[w].next = NoChannel /\ f[w].held = FALSE
                       /\ f[w].state # "Free" => f[w].channel \in Channels
                       /\ f[w].state = "Stolen" => f[w].next \in Channels /\ f[w].held = FALSE
    BY Zenon DEF Targeted
  <2>1. CASE w \notin done
    BY Zenon, <1>3, <2>1 DEF Targeted
  <2>2. CASE w \in done /\ f[w] = FreeVoice
    BY <2>2, FreeVoiceType
  <2>3. CASE w \in done /\ f[w] # FreeVoice
    <3>1. voice[w].next \in Channels /\ f[w] = Playing(voice[w].next)
      BY Zenon, <1>4, <2>3
    <3>2. f[w].state = "Play" /\ f[w].channel \in Channels
      BY Zenon, <3>1, PlayingVoice
    <3>. QED BY <3>2
  <2>. QED BY <2>1, <2>2, <2>3
<1>12. GoesDown(f, chan)
  <2>. SUFFICES ASSUME NEW w \in Voices, f[w].state \notin {"Free", "Release", "Muting"},
                       chan[Target(f[w])].mute
                PROVE  f[w].held
    BY Zenon DEF GoesDown
  <2>1. CASE w \notin done
    BY Zenon, <1>3, <2>1 DEF GoesDown
  <2>2. CASE w \in done
    <3>1. voice[w].state = "Stolen" /\ voice[w].next \in Channels /\ f[w] = Playing(voice[w].next)
      BY Zenon, <1>4, <2>2, FreeVoiceType
    <3>2. Target(f[w]) = voice[w].next
      BY Zenon, <3>1, PlayingVoice
    <3>3. Target(voice[w]) = voice[w].next
      BY Zenon, <3>1 DEF Target
    <3>4. voice[w].state \notin {"Free", "Release", "Muting"}
      BY <3>1
    <3>5. voice[w].held
      BY Zenon, <3>2, <3>3, <3>4 DEF GoesDown
    <3>6. voice[w].held = FALSE
      BY Zenon, <3>1 DEF Targeted
    <3>. QED BY Zenon, <3>5, <3>6
  <2>. QED BY <2>1, <2>2
<1>13. \A p \in Channels : InPool(f, chan, p) = InPool(voice, chan, p) \ gone
  <2>1. ASSUME NEW w \in done
        PROVE  \/ w \in gone /\ f[w].state = "Free"
               \/ /\ w \notin gone /\ f[w].state = "Play" /\ voice[w].state = "Stolen"
                  /\ Target(f[w]) = Target(voice[w])
    <3>1. CASE f[w] = FreeVoice
      BY <1>8, <3>1, FreeVoiceType
    <3>2. CASE f[w] # FreeVoice
      <4>1. voice[w].state = "Stolen" /\ voice[w].next \in Channels /\ f[w] = Playing(voice[w].next)
        BY Zenon, <1>4, <3>2
      <4>2. Target(f[w]) = voice[w].next /\ f[w].state = "Play"
        BY Zenon, <4>1, PlayingVoice
      <4>3. Target(voice[w]) = voice[w].next
        BY Zenon, <4>1 DEF Target
      <4>4. w \notin gone
        BY <1>8, <4>2
      <4>. QED BY <4>1, <4>2, <4>3, <4>4
    <3>. QED BY <3>1, <3>2
  <2>2. \A w \in Voices : w \notin done => w \notin gone /\ f[w] = voice[w]
    BY <1>3, <1>7
  <2>. QED BY <2>1, <2>2 DEF InPool
<1>14. /\ gone \in SUBSET Voices /\ \A v \in gone : voice[v].state # "Free"
  BY <1>2, <1>7
<1>15. poolCount' \in Counts
  BY Zenon, <1>1, <1>14, PoolLessType
<1>16. spMidi = TRUE => Tight(poolCount', f, chan)
  BY Zenon, <1>1, <1>13, <1>14, TightLess
<1>17. TableComplete'
  BY Zenon, <1>1, <1>10 DEF TableComplete
<1>18. CASE ~reset
  <2>1. chan' = chan /\ pedal' = pedal
    BY <1>1, <1>18
  <2>. QED BY Zenon, <1>1, <1>6, <1>10, <1>11, <1>12, <1>15, <1>16, <1>17, <2>1, Later
<1>19. CASE reset
  <2>1. chan' = CleanChannels /\ pedal' = {} /\ {} \subseteq PedalChannels
    BY <1>1, <1>19
  <2>2. CleanChannels \in [Channels -> AChannel]
    BY Zenon, CleanType
  <2>3. \A p \in Channels : InPool(f, chan, p) = {} /\ InPool(f, CleanChannels, p) = {}
    BY Zenon, <1>9, <1>19, AllFree
  <2>4. GoesDown(f, CleanChannels)
    BY Zenon, <1>9, <1>19, AllFree
  <2>5. spMidi = TRUE => Tight(poolCount', f, CleanChannels)
    BY Zenon, <1>16, <2>3 DEF Tight
  <2>. QED BY Zenon, <1>1, <1>6, <1>10, <1>11, <1>15, <1>17, <2>1, <2>2, <2>4, <2>5, Later
<1>. QED BY <1>18, <1>19

-----------------------------------------------------------------------------
(* The actions: resets and polyphony.                                      *)

\* The first pool is given the voices of a limit.
LEMMA AllocType ==
    ASSUME IInv, NEW n \in 0 .. PoolModulus - 1
    PROVE  [poolAlloc EXCEPT ![0] = n] \in Counts
<1>1. poolAlloc \in Counts
  BY Now
<1>. QED BY <1>1 DEF Counts

LEMMA ResetAlloc ==
    ASSUME IInv
    PROVE  [poolAlloc EXCEPT ![0] = IF synthPoly < maxPoly THEN maxPoly ELSE synthPoly] \in Counts
<1>1. (IF synthPoly < maxPoly THEN maxPoly ELSE synthPoly) \in 0 .. PoolModulus - 1
  BY LimitsSmall
<1>. QED BY Zenon, <1>1, AllocType

LEMMA VMResetForceKeeps == ASSUME IInv, VMResetForce PROVE IInv'
<1>. USE Now
<1>1. /\ voice' = [v \in Voices |-> FreeVoice] /\ chan' = CleanChannels /\ pedal' = {}
      /\ poolCount' = [p \in Channels |-> 0] /\ resetReq' = FALSE /\ inForce' = "none"
      /\ poolAlloc' = [poolAlloc EXCEPT ![0] = IF synthPoly < maxPoly THEN maxPoly ELSE synthPoly]
      /\ UNCHANGED <<spMidi, synthPoly, maxPoly, entries>>
  BY Zenon DEF VMResetForce, CompleteReset, limits
<1>2. voice' \in [Voices -> AVoice] /\ \A v \in Voices : voice'[v] = FreeVoice
  BY Zenon, <1>1, FreeVoiceType
<1>3. \A v \in Voices : voice'[v].state = "Free"
  BY Zenon, <1>2, FreeVoiceType
<1>4. Targeted(voice')
  BY <1>2, FreeVoiceType DEF Targeted
<1>5. chan' \in [Channels -> AChannel]
  BY Zenon, <1>1, CleanType
<1>6. GoesDown(voice', chan') /\ Tight(poolCount', voice', chan')
  BY Zenon, <1>1, <1>3, AllFree
<1>7. poolCount' \in Counts /\ poolAlloc' \in Counts
  BY Zenon, <1>1, ZeroCounts, ResetAlloc
<1>8. TableComplete'
  BY <1>1 DEF TableComplete
<1>9. pedal' \subseteq PedalChannels /\ resetReq' \in BOOLEAN /\ inForce' \in {"none", "some", "all"}
  BY <1>1
<1>. QED BY Zenon, <1>1, <1>2, <1>4, <1>5, <1>6, <1>7, <1>8, <1>9, Later

LEMMA GMOnKeeps == ASSUME IInv, GMOn PROVE IInv'
<1>. USE Now
<1>1. /\ spMidi' = FALSE /\ inForce' = "none" /\ entries' = -1
      /\ UNCHANGED <<synthPoly, maxPoly>>
  BY DEF GMOn, limits
<1>2. TableComplete' /\ spMidi' # TRUE /\ spMidi' \in BOOLEAN /\ inForce' \in {"none", "some", "all"}
  BY <1>1 DEF TableComplete
<1>3. entries' \in -1 .. NUM_SYNTH_CHANNELS - 1
  BY <1>1, Constants
<1>4. CASE Busy = {}
  <2>1. /\ chan' = ClearTable(CleanChannels) /\ pedal' = {} /\ poolCount' = [p \in Channels |-> 0]
        /\ poolAlloc' = [poolAlloc EXCEPT ![0] = IF synthPoly < maxPoly THEN maxPoly ELSE synthPoly]
        /\ resetReq' = FALSE /\ UNCHANGED voice
    BY Zenon, <1>4 DEF GMOn
  <2>2. chan' \in [Channels -> AChannel]
    BY Zenon, <2>1, CleanType, ClearedType
  <2>3. \A v \in Voices : voice[v].state = "Free"
    BY <1>4 DEF Busy
  <2>4. GoesDown(voice', chan')
    BY Zenon, <2>1, <2>3, AllFree
  <2>5. poolCount' \in Counts /\ poolAlloc' \in Counts
    BY Zenon, <2>1, ZeroCounts, ResetAlloc
  <2>6. pedal' \subseteq PedalChannels /\ resetReq' \in BOOLEAN
    BY <2>1
  <2>. QED BY Zenon, <1>1, <1>2, <1>3, <2>1, <2>2, <2>4, <2>5, <2>6, Later
<1>5. CASE Busy # {}
  <2>1. /\ voice' = MuteIn(voice, Busy) /\ poolCount' = PoolLess(poolCount, voice, Busy, chan)
        /\ chan' = ClearTable(chan) /\ resetReq' = TRUE /\ UNCHANGED <<pedal, poolAlloc>>
    BY Zenon, <1>5 DEF GMOn
  <2>2. Busy \in SUBSET Voices
    BY DEF Busy
  <2>3. /\ MuteIn(voice, Busy) \in [Voices -> AVoice] /\ Targeted(MuteIn(voice, Busy))
        /\ GoesDown(MuteIn(voice, Busy), chan)
    BY Zenon, <2>2, MuteKeeps
  <2>4. PoolLess(poolCount, voice, Busy, chan) \in Counts
    BY Zenon, <2>2, PoolLessType
  <2>5. chan' \in [Channels -> AChannel] /\ \A c \in Channels : chan'[c].mute => chan[c].mute
    BY Zenon, <2>1, ClearedType
  <2>6. GoesDown(voice', chan')
    BY Zenon, <2>1, <2>3, <2>5, GoesDownLess
  <2>7. resetReq' \in BOOLEAN
    BY <2>1
  <2>. QED BY Zenon, <1>1, <1>2, <1>3, <2>1, <2>3, <2>4, <2>5, <2>6, <2>7, Later
<1>. QED BY <1>4, <1>5

LEMMA LimitedKeeps ==
    ASSUME IInv, NEW sp, NEW mp
    PROVE  /\ Limited(sp, mp).chs \in [Channels -> AChannel]
           /\ Limited(sp, mp).f \in [Voices -> AVoice] /\ Limited(sp, mp).n \in Counts
           /\ Targeted(Limited(sp, mp).f) /\ GoesDown(Limited(sp, mp).f, Limited(sp, mp).chs)
           /\ spMidi = TRUE => Tight(Limited(sp, mp).n, Limited(sp, mp).f, Limited(sp, mp).chs)
<1>. USE Now
<1>. DEFINE new == ChannelMuting(chan, sp, mp)
<1>1. CASE spMidi
  <2>1. /\ Limited(sp, mp).chs = new /\ Limited(sp, mp).f = Silenced(new)
        /\ Limited(sp, mp).n = Recount(new)
    BY <1>1 DEF Limited
  <2>2. new \in [Channels -> AChannel]
    BY Zenon, MutingType
  <2>. HIDE DEF new
  <2>3. /\ Silenced(new) \in [Voices -> AVoice] /\ Targeted(Silenced(new))
        /\ GoesDown(Silenced(new), new)
        /\ Recount(new) \in Counts /\ Tight(Recount(new), Silenced(new), new)
    BY Zenon, <2>2, SilenceKeeps
  <2>. QED BY Zenon, <2>1, <2>2, <2>3
<1>2. CASE ~spMidi
  <2>1. /\ Limited(sp, mp).chs = chan /\ Limited(sp, mp).f = voice
        /\ Limited(sp, mp).n = poolCount
    BY <1>2 DEF Limited
  <2>2. spMidi # TRUE
    BY Zenon, <1>2
  <2>. QED BY Zenon, <2>1, <2>2
<1>. QED BY Zenon, <1>1, <1>2

LEMMA LimitKeeps ==
    ASSUME IInv, NEW sp, NEW mp, NEW count \in 0 .. PoolModulus - 1, NEW vs \in SUBSET Voices,
           \A v \in vs : Limited(sp, mp).f[v].state # "Free",
           LimitAndMute(Limited(sp, mp), count, vs),
           synthPoly' \in Limits \union {0}, maxPoly' \in SynthLimits \union {Cardinality(Voices)}
    PROVE  IInv'
<1>. USE Now
<1>. DEFINE l == Limited(sp, mp)
<1>1. /\ l.chs \in [Channels -> AChannel] /\ l.f \in [Voices -> AVoice] /\ l.n \in Counts
      /\ Targeted(l.f) /\ GoesDown(l.f, l.chs)
      /\ spMidi = TRUE => Tight(l.n, l.f, l.chs)
  BY Zenon, LimitedKeeps
<1>. HIDE DEF l
<1>2. /\ chan' = l.chs /\ voice' = MuteIn(l.f, vs) /\ poolCount' = PoolLess(l.n, l.f, vs, l.chs)
      /\ poolAlloc' = IF spMidi THEN poolAlloc ELSE [poolAlloc EXCEPT ![0] = count]
      /\ UNCHANGED <<pedal, spMidi, resetReq, entries, inForce>>
  BY Zenon DEF LimitAndMute, l
<1>3. \A v \in vs : l.f[v].state # "Free"
  BY Zenon DEF l
<1>4. /\ MuteIn(l.f, vs) \in [Voices -> AVoice] /\ Targeted(MuteIn(l.f, vs))
      /\ GoesDown(MuteIn(l.f, vs), l.chs)
      /\ spMidi = TRUE => Tight(PoolLess(l.n, l.f, vs, l.chs), MuteIn(l.f, vs), l.chs)
  BY Zenon, <1>1, <1>3, MuteKeeps
<1>5. PoolLess(l.n, l.f, vs, l.chs) \in Counts
  BY Zenon, <1>1, PoolLessType
<1>6. poolAlloc' \in Counts
  BY Zenon, <1>2, AllocType
<1>7. TableComplete'
  BY Zenon, <1>2 DEF TableComplete
<1>8. spMidi' = TRUE => Tight(poolCount', voice', chan')
  BY Zenon, <1>2, <1>4
<1>. QED BY Zenon, <1>1, <1>2, <1>4, <1>5, <1>6, <1>7, <1>8, Later

LEMMA VMSetSynthPolyphonyKeeps ==
    ASSUME IInv, NEW count \in SynthLimits, VMSetSynthPolyphony(count) PROVE IInv'
<1>. USE Now
<1>. DEFINE sounds == {v \in Voices : Limited(synthPoly, count).f[v].state \notin {"Free", "Muting"}}
<1>1. maxPoly' = count /\ synthPoly' = synthPoly
  BY DEF VMSetSynthPolyphony
<1>2. PICK vs \in SUBSET sounds : LimitAndMute(Limited(synthPoly, count), count, vs)
  BY Zenon DEF VMSetSynthPolyphony
<1>3. vs \in SUBSET Voices /\ \A v \in vs : Limited(synthPoly, count).f[v].state # "Free"
  OBVIOUS
<1>4. count \in 0 .. PoolModulus - 1 /\ maxPoly' \in SynthLimits \union {Cardinality(Voices)}
  BY <1>1, LimitsSmall
<1>5. synthPoly' \in Limits \union {0}
  BY <1>1
<1>. QED BY Zenon, <1>2, <1>3, <1>4, <1>5, LimitKeeps

LEMMA VMSetPolyphonyKeeps ==
    ASSUME IInv, NEW count \in Limits, VMSetPolyphony(count) PROVE IInv'
<1>. USE Now
<1>. DEFINE l     == Limited(count, maxPoly)
            cands == {v \in Voices : l.f[v].next # NoChannel}
<1>1. synthPoly' = count /\ maxPoly' = maxPoly
  BY Zenon DEF VMSetPolyphony
<1>2. synthPoly' \in Limits \union {0}
  BY <1>1
<1>3. CASE count = 0
  <2>1. UNCHANGED <<voice, chan, pedal, poolCount, poolAlloc, spMidi, resetReq, entries, inForce>>
    BY Zenon, <1>3 DEF VMSetPolyphony, pools
  <2>2. TableComplete'
    BY Zenon, <2>1 DEF TableComplete
  <2>. QED BY Zenon, <1>1, <1>2, <2>1, <2>2, Later
<1>4. CASE count # 0
  <2>1. PICK vs \in SUBSET cands : LimitAndMute(l, Least(count, maxPoly), vs)
    BY Zenon, <1>4 DEF VMSetPolyphony
  <2>2. Targeted(l.f)
    BY Zenon, LimitedKeeps
  <2>. HIDE DEF l
  <2>3. vs \in SUBSET Voices /\ \A v \in vs : l.f[v].state # "Free"
    BY <2>2 DEF Targeted
  <2>4. count \in 0 .. PoolModulus - 1 /\ maxPoly \in 0 .. PoolModulus - 1
    BY LimitsSmall
  <2>5. Least(count, maxPoly) \in 0 .. PoolModulus - 1
    BY Zenon, <2>4 DEF Least
  <2>. QED BY Zenon, <1>1, <1>2, <2>1, <2>3, <2>5, LimitKeeps DEF l
<1>. QED BY <1>3, <1>4

-----------------------------------------------------------------------------
LEMMA StepIInv == ASSUME IInv, [Next]_vars PROVE IInv'
<1>1. CASE UNCHANGED vars
  <2>. USE <1>1 DEF vars, pools, limits
  <2>1. TypeOK' /\ TableComplete'
    BY Now DEF TypeOK, TableComplete
  <2>2. Targeted(voice)' /\ GoesDown(voice, chan)'
    BY Now DEF Targeted, GoesDown
  <2>3. (spMidi = TRUE => Tight(poolCount, voice, chan))'
    BY Zenon, Now DEF Tight, InPool
  <2>. QED BY Zenon, <2>1, <2>2, <2>3 DEF IInv
<1>2. CASE Call
  BY Zenon, <1>2, VMMuteAllVoicesKeeps, VMResetForceKeeps, VMSetPolyphonyKeeps,
     VMSetSynthPolyphonyKeeps DEF Call
<1>3. CASE Message
  BY Zenon, <1>3, TableStartKeeps, TableEndKeeps, VMSetMIPEntryKeeps, GMOnKeeps, VMStopNoteKeeps,
     VMStartNoteKeeps, SustainPedalOnKeeps, SustainPedalOffKeeps DEF Message, SpMidiMessage
<1>4. CASE Frame
  BY Zenon, <1>4, VMRenderKeeps DEF Frame
<1>. QED BY Zenon, <1>1, <1>2, <1>3, <1>4 DEF Next

LEMMA AlwaysIInv == Spec => []IInv
BY InitIInv, StepIInv, PTL DEF Spec

\* The voices, the channels and the counts of the pools keep their types; every
\* count stays below its modulus.
THEOREM TypeCorrect == Spec => []TypeOK
<1>1. IInv => TypeOK
  BY DEF IInv
<1>. QED BY <1>1, AlwaysIInv, PTL

\* Whatever comes between the entries of the table, the note-offs, the pedal and
\* the limits: no voice of a muted channel sounds on (MutedGoesDown).
THEOREM MutedVoicesGo == Spec => []MutedGoesDown
<1>1. IInv => MutedGoesDown
  <2>. SUFFICES ASSUME IInv, NEW v \in Busy, chan[Target(voice[v])].mute,
                       voice[v].state \notin {"Release", "Muting"}
                PROVE  voice[v].held
    BY Zenon DEF MutedGoesDown
  <2>1. v \in Voices /\ voice[v].state \notin {"Free", "Release", "Muting"}
    BY DEF Busy
  <2>. QED BY Zenon, <2>1, Now DEF GoesDown
<1>. QED BY <1>1, AlwaysIInv, PTL

\* No count of a pool falls below the voices that are left to be counted out, so
\* none wraps below zero (PoolsCover).
THEOREM CountsCover == Spec => []PoolsCover
<1>1. IInv => PoolsCover
  <2>. SUFFICES ASSUME IInv, spMidi, NEW p \in Channels
                PROVE  poolCount[p] >= Cardinality(
                            {v \in Unmuted : chan[Target(voice[v])].pool = p})
    BY Zenon DEF PoolsCover
  <2>1. {v \in Unmuted : chan[Target(voice[v])].pool = p} = InPool(voice, chan, p)
    BY DEF Unmuted, Busy, InPool
  <2>2. Cardinality(InPool(voice, chan, p)) <= poolCount[p]
    <3>1. spMidi = TRUE
      BY Zenon, Now
    <3>. QED BY Zenon, <3>1, Now DEF Tight
  <2>3. poolCount[p] \in 0 .. PoolModulus - 1
    BY Now DEF Counts
  <2>4. Cardinality(InPool(voice, chan, p)) \in Nat
    BY Zenon, InPoolCount
  <2>. HIDE DEF InPool
  <2>. QED BY <2>1, <2>2, <2>3, <2>4
<1>. QED BY <1>1, AlwaysIInv, PTL

-----------------------------------------------------------------------------
(* The channels that are muted.                                            *)

MuteRule(chs, sp, mp) ==
    \A c \in Channels :
        /\ chs[c].mute => chs[c].mip = 0 \/ chs[c].mip > IF sp # 0 THEN sp ELSE mp
        /\ chs[c].mip = 0 \/ chs[c].mip > (IF sp # 0 THEN sp ELSE mp) => chs[c].mute

RuleInv == inForce # "none" => MuteRule(chan, synthPoly, maxPoly)

LEMMA RuleHolds ==
    ASSUME NEW chs \in [Channels -> AChannel], NEW sp, NEW mp
    PROVE  MuteRule(ChannelMuting(chs, sp, mp), sp, mp)
<1>. SUFFICES ASSUME NEW c \in Channels
              PROVE  LET new == ChannelMuting(chs, sp, mp)[c]
                         m   == new.mip = 0 \/ new.mip > IF sp # 0 THEN sp ELSE mp
                     IN  (new.mute => m) /\ (m => new.mute)
  BY Zenon DEF MuteRule
<1>1. \A d \in Channels : ChannelMuting(chs, sp, mp)[d].mip = chs[d].mip
  BY MutingType
<1>2. ChannelMuting(chs, sp, mp)[c].mip = chs[c].mip
  BY Zenon, <1>1
<1>. QED BY Zenon, <1>2, MutingIs

\* A step that changes no limit and no channel, or forgets the table.
LEMMA RuleKept ==
    ASSUME RuleInv, \/ inForce' = "none"
                    \/ inForce' = inForce /\ UNCHANGED <<chan, synthPoly, maxPoly>>
    PROVE  RuleInv'
BY Zenon DEF RuleInv, MuteRule

\* An entry completes the table, or leaves none in force.
LEMMA EntryTable ==
    ASSUME IInv, NEW c \in Channels, NEW mip \in Mips, VMSetMIPEntry(c, mip)
    PROVE  \/ \E chs \in [Channels -> AChannel] : VMUpdateMIPTable(chs)
           \/ inForce' = "none"
<1>. DEFINE chs == [chan EXCEPT ![c].pool = entries, ![c].mip = mip]
<1>1. CASE entries + 1 = NUM_SYNTH_CHANNELS
  <2>1. VMUpdateMIPTable(chs)
    BY <1>1 DEF VMSetMIPEntry
  <2>2. entries \in Channels
    BY Now, Constants DEF VMSetMIPEntry, Channels
  <2>3. chan[c] \in AChannel /\ chan \in [Channels -> AChannel]
    BY Now
  <2>4. [chan[c] EXCEPT !.pool = entries, !.mip = mip] \in AChannel
    BY <2>2, <2>3 DEF AChannel
  <2>5. chs = [chan EXCEPT ![c] = [chan[c] EXCEPT !.pool = entries, !.mip = mip]]
    BY <2>3
  <2>6. chs \in [Channels -> AChannel]
    BY <2>3, <2>4, <2>5
  <2>. HIDE DEF chs
  <2>. QED BY Zenon, <2>1, <2>6
<1>2. CASE entries + 1 # NUM_SYNTH_CHANNELS
  <2>1. entries >= 0 /\ inForce' = inForce
    BY Zenon, <1>2 DEF VMSetMIPEntry
  <2>. QED BY Zenon, <2>1, Now DEF TableComplete
<1>. QED BY Zenon, <1>1, <1>2

LEMMA RuleTable ==
    ASSUME IInv, NEW chs \in [Channels -> AChannel], VMUpdateMIPTable(chs) PROVE RuleInv'
<1>1. Pooled(chs) \in [Channels -> AChannel]
  BY Zenon, PooledType
<1>2. /\ chan' = ChannelMuting(Pooled(chs), synthPoly, maxPoly)
      /\ synthPoly' = synthPoly /\ maxPoly' = maxPoly
  BY DEF VMUpdateMIPTable, limits
<1>3. MuteRule(chan', synthPoly', maxPoly')
  BY Zenon, <1>1, <1>2, RuleHolds
<1>. QED BY Zenon, <1>3 DEF RuleInv, MuteRule

LEMMA RuleLimit ==
    ASSUME IInv, NEW sp, NEW mp, NEW count, NEW vs, LimitAndMute(Limited(sp, mp), count, vs),
           synthPoly' = sp, maxPoly' = mp
    PROVE  RuleInv'
<1>. SUFFICES ASSUME inForce' # "none" PROVE MuteRule(chan', synthPoly', maxPoly')
  BY Zenon DEF RuleInv, MuteRule
<1>1. inForce' = inForce /\ chan' = Limited(sp, mp).chs
  BY Zenon DEF LimitAndMute
<1>2. spMidi = TRUE
  BY Zenon, <1>1, Now DEF TableComplete
<1>3. Limited(sp, mp).chs = ChannelMuting(chan, sp, mp)
  BY <1>2 DEF Limited
<1>. QED BY Zenon, <1>1, <1>3, RuleHolds, Now

LEMMA RuleStep == ASSUME 0 \notin Limits, IInv, RuleInv, [Next]_vars PROVE RuleInv'
<1>1. CASE UNCHANGED vars
  BY Zenon, <1>1, RuleKept DEF vars, limits
<1>2. CASE Call
  <2>1. CASE VMMuteAllVoices
    BY Zenon, <2>1, RuleKept DEF VMMuteAllVoices, limits
  <2>2. CASE VMResetForce
    BY Zenon, <2>2, RuleKept DEF VMResetForce
  <2>3. ASSUME NEW count \in Limits, VMSetPolyphony(count) PROVE RuleInv'
    <3>1. count # 0
      BY Zenon, <2>3
    <3>2. PICK vs : LimitAndMute(Limited(count, maxPoly), Least(count, maxPoly), vs)
      BY Zenon, <2>3, <3>1 DEF VMSetPolyphony
    <3>3. synthPoly' = count /\ maxPoly' = maxPoly
      BY Zenon, <2>3 DEF VMSetPolyphony
    <3>. QED BY Zenon, <3>2, <3>3, RuleLimit
  <2>4. ASSUME NEW count \in SynthLimits, VMSetSynthPolyphony(count) PROVE RuleInv'
    <3>1. PICK vs : LimitAndMute(Limited(synthPoly, count), count, vs)
      BY Zenon, <2>4 DEF VMSetSynthPolyphony
    <3>2. synthPoly' = synthPoly /\ maxPoly' = count
      BY Zenon, <2>4 DEF VMSetSynthPolyphony
    <3>. QED BY Zenon, <3>1, <3>2, RuleLimit
  <2>. QED BY Zenon, <1>2, <2>1, <2>2, <2>3, <2>4 DEF Call
<1>3. CASE SpMidiMessage
  <2>1. CASE TableStart \/ TableBad
    BY Zenon, <2>1, RuleKept DEF TableStart, TableBad, VMInitMIPTable
  <2>2. CASE TableEnd
    BY Zenon, <2>2, Now, RuleTable DEF TableEnd
  <2>3. ASSUME NEW c \in Channels, NEW mip \in Mips, VMSetMIPEntry(c, mip) PROVE RuleInv'
    BY Zenon, <2>3, EntryTable, RuleTable, RuleKept
  <2>. QED BY Zenon, <1>3, <2>1, <2>2, <2>3 DEF SpMidiMessage
<1>4. CASE GMOn
  BY Zenon, <1>4, RuleKept DEF GMOn
<1>5. ASSUME NEW v \in Voices, VMStopNote(v) PROVE RuleInv'
  BY Zenon, <1>5, RuleKept DEF VMStopNote, VoicesOnly, limits
<1>6. ASSUME NEW c \in Channels, VMStartNote(c) \/ SustainPedalOn(c) \/ SustainPedalOff(c)
      PROVE  RuleInv'
  BY Zenon, <1>6, RuleKept DEF VMStartNote, SustainPedalOn, SustainPedalOff, limits
<1>7. ASSUME NEW done \in SUBSET Busy, VMRender(done) PROVE RuleInv'
  <2>1. inForce' = inForce /\ UNCHANGED <<synthPoly, maxPoly>>
    BY Zenon, <1>7 DEF VMRender, limits
  <2>2. CASE chan' = chan
    BY Zenon, <2>1, <2>2, RuleKept
  <2>3. CASE chan' # chan
    <3>1. resetReq
      BY Zenon, <1>7, <2>3 DEF VMRender
    <3>2. resetReq = TRUE
      BY Zenon, <3>1, Now
    <3>3. inForce = "none"
      BY Zenon, <3>2, Now DEF TableComplete
    <3>. QED BY Zenon, <2>1, <3>3, RuleKept
  <2>. QED BY <2>2, <2>3
<1>. QED BY Zenon, <1>1, <1>2, <1>3, <1>4, <1>5, <1>6, <1>7 DEF Next, Message, Frame

\* While a table is in force a channel is muted exactly if the voices there are
\* do not reach up to its MIP (MutedExact), if EAS_SetPolyphony is never called
\* with 0 and never with more voices than the synthesizer has.
THEOREM TableMutes ==
    ASSUME 0 \notin Limits, \A l \in Limits, s \in SynthLimits \union {Cardinality(Voices)} : l <= s
    PROVE  Spec => []MutedExact
<1>1. Init => RuleInv
  BY DEF Init, RuleInv
<1>2. RuleInv /\ IInv /\ [Next]_vars => RuleInv'
  BY RuleStep
<1>3. RuleInv /\ IInv => MutedExact
  <2>. SUFFICES ASSUME RuleInv, IInv, inForce # "none", NEW c \in Channels
                PROVE  LET limit == IF synthPoly = 0 THEN maxPoly ELSE Least(synthPoly, maxPoly)
                       IN  chan[c].mute <=> chan[c].mip = 0 \/ chan[c].mip > limit
    BY Zenon DEF MutedExact
  <2>. DEFINE limit == IF synthPoly = 0 THEN maxPoly ELSE Least(synthPoly, maxPoly)
              rule  == IF synthPoly # 0 THEN synthPoly ELSE maxPoly
  <2>1. limit = rule
    <3>1. CASE synthPoly = 0
      BY <3>1
    <3>2. CASE synthPoly # 0
      <4>1. synthPoly \in Limits /\ maxPoly \in SynthLimits \union {Cardinality(Voices)}
        BY <3>2, Now
      <4>2. synthPoly <= maxPoly
        BY Zenon, <4>1
      <4>3. synthPoly \in Int /\ maxPoly \in Int
        BY LimitsSmall
      <4>4. Least(synthPoly, maxPoly) = synthPoly
        BY <4>2, <4>3 DEF Least
      <4>. QED BY Zenon, <3>2, <4>4
    <3>. QED BY <3>1, <3>2
  <2>2. chan[c].mute \in BOOLEAN
    BY Now DEF AChannel
  <2>3. /\ chan[c].mute => chan[c].mip = 0 \/ chan[c].mip > rule
        /\ chan[c].mip = 0 \/ chan[c].mip > rule => chan[c].mute
    BY Zenon DEF RuleInv, MuteRule
  <2>. HIDE DEF limit, rule
  <2>4. chan[c].mute <=> chan[c].mip = 0 \/ chan[c].mip > limit
    BY Zenon, <2>1, <2>2, <2>3
  <2>. QED BY Zenon, <2>4 DEF limit
<1>. QED BY <1>1, <1>2, <1>3, AlwaysIInv, PTL DEF Spec

-----------------------------------------------------------------------------
(* A table that lists every channel with rising MIPs.                      *)

\* As Regular, for any channels.
Rising(chs) ==
    \A c, d \in Channels :
        /\ chs[c].mip # 0
        /\ c # d => chs[c].pool # chs[d].pool
        /\ c # d /\ chs[c].pool < chs[d].pool => chs[c].mip < chs[d].mip

\* The channel of each pool has the voices by which its MIP exceeds that of the
\* channel before it.
Shares(chs, alloc) ==
    \A c \in Channels :
        /\ chs[c].pool = 0 => alloc[chs[c].pool] = chs[c].mip
        /\ chs[c].pool # 0 =>
              \E d \in Channels : /\ chs[d].pool = chs[c].pool - 1
                                  /\ alloc[chs[c].pool] = chs[c].mip - chs[d].mip

SharesInv == inForce = "all" => Rising(chan) /\ Shares(chan, poolAlloc)

LEMMA RegularRises == ASSUME NEW chs, Regular(chs) PROVE Rising(chs)
BY Zenon DEF Regular, Rising

\* As many pools as channels: each has one.
LEMMA EveryPool ==
    ASSUME NEW chs \in [Channels -> AChannel], Rising(chs), NEW p \in Channels
    PROVE  \E c \in Channels : chs[c].pool = p
<1>. SUFFICES ASSUME \A c \in Channels : chs[c].pool # p PROVE FALSE
  OBVIOUS
<1>. DEFINE S == Channels
            T == Channels \ {p}
            f == [c \in S |-> chs[c].pool]
<1>1. IsFiniteSet(S) /\ Cardinality(S) \in Nat
  <2>1. IsFiniteSet(0 .. NUM_SYNTH_CHANNELS - 1)
    BY Constants, FS_Interval
  <2>. QED BY <2>1, FS_CardinalityType DEF Channels
<1>2. IsFiniteSet(T) /\ Cardinality(T) = Cardinality(S) - 1
  <2>. HIDE DEF S
  <2>1. S = Channels
    BY DEF S
  <2>. QED BY Zenon, <1>1, <2>1, FS_RemoveElement
<1>3. f \in [S -> T]
  BY DEF AChannel
<1>. HIDE DEF S, T, f
<1>4. Cardinality(T) < Cardinality(S)
  BY <1>1, <1>2
<1>5. \E x, y \in S : x # y /\ f[x] = f[y]
  BY <1>1, <1>2, <1>3, <1>4, FS_PigeonHole
<1>6. \A c \in S : c \in Channels /\ f[c] = chs[c].pool
  BY DEF S, f
<1>. QED BY Zenon, <1>5, <1>6 DEF Rising

LEMMA RisingTable ==
    ASSUME NEW chs \in [Channels -> AChannel], Rising(chs), NEW p \in Channels
    PROVE  /\ p \in Ranked(chs) /\ OfRank(chs, p) \in Channels
           /\ chs[OfRank(chs, p)].pool = p
           /\ MipOfRank(chs, p) = chs[OfRank(chs, p)].mip
           /\ MipOfRank(chs, p) \in Mips
           /\ p # 0 => p - 1 \in Channels /\ MipOfRank(chs, p - 1) < MipOfRank(chs, p)
           /\ Begins(chs, p)
<1>1. \A q \in Channels : q \in Ranked(chs)
  <2>. SUFFICES ASSUME NEW q \in Channels PROVE q \in Ranked(chs)
    OBVIOUS
  <2>1. \A r \in 0 .. q : r \in Channels
    BY Constants DEF Channels
  <2>2. \A r \in 0 .. q : \E c \in Channels : chs[c].pool = r
    BY Zenon, <2>1, EveryPool
  <2>. QED BY Zenon, <2>2 DEF Ranked
<1>2. \A q \in Channels : OfRank(chs, q) \in Channels /\ chs[OfRank(chs, q)].pool = q
  BY Zenon, <1>1, RankedChannel
<1>3. \A q \in Channels : MipOfRank(chs, q) = chs[OfRank(chs, q)].mip
  BY Constants DEF MipOfRank
<1>4. \A q \in Channels : MipOfRank(chs, q) \in Mips
  <2>. SUFFICES ASSUME NEW q \in Channels PROVE MipOfRank(chs, q) \in Mips
    OBVIOUS
  <2>1. chs[OfRank(chs, q)].mip \in Mips \union {0}
    BY <1>2 DEF AChannel
  <2>2. chs[OfRank(chs, q)].mip # 0
    BY Zenon, <1>2 DEF Rising
  <2>. QED BY <1>3, <2>1, <2>2
<1>5. p # 0 => p - 1 \in Channels /\ p - 1 < p
  BY Constants DEF Channels
<1>6. ASSUME p # 0 PROVE MipOfRank(chs, p - 1) < MipOfRank(chs, p)
  <2>. DEFINE c == OfRank(chs, p)
              d == OfRank(chs, p - 1)
  <2>1. c \in Channels /\ d \in Channels /\ chs[c].pool = p /\ chs[d].pool = p - 1
    BY Zenon, <1>2, <1>5, <1>6
  <2>2. chs[c].mip = MipOfRank(chs, p) /\ chs[d].mip = MipOfRank(chs, p - 1)
    BY Zenon, <1>3, <1>5, <1>6
  <2>. HIDE DEF c, d
  <2>3. chs[d].pool < chs[c].pool
    BY <1>5, <1>6, <2>1
  <2>4. c # d
    BY <2>1, <2>3, Constants
  <2>5. chs[d].mip < chs[c].mip
    BY Zenon, <2>1, <2>3, <2>4 DEF Rising
  <2>. QED BY Zenon, <2>2, <2>5
<1>7. Begins(chs, p)
  <2>1. p # 0 => MipOfRank(chs, p) # MipOfRank(chs, p - 1)
    <3>. SUFFICES ASSUME p # 0 PROVE MipOfRank(chs, p) # MipOfRank(chs, p - 1)
      OBVIOUS
    <3>1. MipOfRank(chs, p) \in Mips /\ MipOfRank(chs, p - 1) \in Mips
      BY Zenon, <1>4, <1>5
    <3>2. \A m \in Mips : m \in Int
      BY SpMidiAssumption
    <3>3. MipOfRank(chs, p) \in Int /\ MipOfRank(chs, p - 1) \in Int
      BY Zenon, <3>1, <3>2
    <3>. QED BY <1>6, <3>3
  <2>. QED BY Zenon, <2>1 DEF Begins
<1>. QED BY Zenon, <1>1, <1>2, <1>3, <1>4, <1>5, <1>6, <1>7

LEMMA RisingPools ==
    ASSUME NEW chs \in [Channels -> AChannel], Rising(chs)
    PROVE  Pooled(chs) = chs
<1>1. \A c \in Channels : Begins(chs, chs[c].pool)
  <2>. TAKE c \in Channels
  <2>1. chs[c].pool \in Channels
    BY DEF AChannel
  <2>. QED BY Zenon, <2>1, RisingTable
<1>2. Pooled(chs) = [c \in Channels |-> chs[c]]
  BY <1>1 DEF Pooled
<1>. QED BY <1>2

LEMMA RisingNumber ==
    ASSUME NEW chs \in [Channels -> AChannel], Rising(chs), NEW p \in Channels
    PROVE  PoolNumber(chs, p) = p
<1>1. p \in Nat /\ \A q \in 1 .. p : q \in Channels
  BY Constants DEF Channels
<1>2. \A q \in 1 .. p : Begins(chs, q)
  BY Zenon, <1>1, RisingTable
<1>3. {q \in 1 .. p : Begins(chs, q)} = 1 .. p
  BY <1>2
<1>4. Cardinality(1 .. p) = p
  BY <1>1, FS_Interval
<1>. QED BY Zenon, <1>3, <1>4 DEF PoolNumber

LEMMA RisingShares ==
    ASSUME \A m \in Mips : m < PoolModulus,
           NEW chs \in [Channels -> AChannel], Rising(chs)
    PROVE  Shares(chs, Allocated(chs))
<1>1. \A p \in Channels : Allocated(chs)[p] = Wrap(MipOfRank(chs, p) - MipOfRank(chs, p - 1))
  <2>. TAKE p \in Channels
  <2>. DEFINE first == {q \in Ranked(chs) : Begins(chs, q) /\ PoolNumber(chs, q) = p}
  <2>1. \A q \in Ranked(chs) : q \in Channels
    BY DEF Ranked
  <2>2. \A q \in Channels : q \in first <=> q = p
    BY Zenon, RisingTable, RisingNumber
  <2>3. first = {p}
    BY <2>1, <2>2
  <2>4. first # {} /\ (CHOOSE q \in first : TRUE) = p
    BY <2>3
  <2>. QED BY <2>4 DEF Allocated
<1>2. \A c \in Channels : /\ chs[c].pool \in Channels /\ OfRank(chs, chs[c].pool) = c
                          /\ chs[c].mip = MipOfRank(chs, chs[c].pool)
  <2>. TAKE c \in Channels
  <2>1. chs[c].pool \in Channels
    BY DEF AChannel
  <2>2. /\ OfRank(chs, chs[c].pool) \in Channels
        /\ chs[OfRank(chs, chs[c].pool)].pool = chs[c].pool
        /\ MipOfRank(chs, chs[c].pool) = chs[OfRank(chs, chs[c].pool)].mip
    BY Zenon, <2>1, RisingTable
  <2>3. OfRank(chs, chs[c].pool) = c
    BY Zenon, <2>2 DEF Rising
  <2>. QED BY Zenon, <2>1, <2>2, <2>3
<1>3. \A m \in Mips : m \in 1 .. PoolModulus - 1
  BY SpMidiAssumption, Constants
<1>4. \A p \in Channels : MipOfRank(chs, p) \in 1 .. PoolModulus - 1
  BY Zenon, <1>3, RisingTable
<1>. SUFFICES ASSUME NEW c \in Channels
              PROVE  /\ chs[c].pool = 0 => Allocated(chs)[chs[c].pool] = chs[c].mip
                     /\ chs[c].pool # 0 =>
                           \E d \in Channels :
                              /\ chs[d].pool = chs[c].pool - 1
                              /\ Allocated(chs)[chs[c].pool] = chs[c].mip - chs[d].mip
  BY Zenon DEF Shares
<1>. DEFINE p == chs[c].pool
<1>5. p \in Channels /\ chs[c].mip = MipOfRank(chs, p) /\ p \in Nat
  <2>1. p \in Channels /\ chs[c].mip = MipOfRank(chs, p)
    BY Zenon, <1>2
  <2>. QED BY <2>1, Constants
<1>. HIDE DEF p
<1>6. ASSUME p = 0 PROVE Allocated(chs)[p] = chs[c].mip
  <2>1. MipOfRank(chs, p - 1) = 0
    BY <1>6 DEF MipOfRank
  <2>2. MipOfRank(chs, p) - 0 = MipOfRank(chs, p) /\ MipOfRank(chs, p) \in 0 .. PoolModulus - 1
    BY <1>4, <1>5
  <2>. QED BY Zenon, <1>1, <1>5, <2>1, <2>2, WrapSmall
<1>7. ASSUME p # 0
      PROVE  \E d \in Channels : /\ chs[d].pool = p - 1
                                 /\ Allocated(chs)[p] = chs[c].mip - chs[d].mip
  <2>. DEFINE d == OfRank(chs, p - 1)
  <2>1. p - 1 \in Channels /\ MipOfRank(chs, p - 1) < MipOfRank(chs, p)
    BY Zenon, <1>5, <1>7, RisingTable
  <2>2. d \in Channels /\ chs[d].pool = p - 1 /\ chs[d].mip = MipOfRank(chs, p - 1)
    BY Zenon, <2>1, RisingTable
  <2>3. MipOfRank(chs, p) - MipOfRank(chs, p - 1) \in 0 .. PoolModulus - 1
    <3>1. /\ MipOfRank(chs, p) \in 1 .. PoolModulus - 1
          /\ MipOfRank(chs, p - 1) \in 1 .. PoolModulus - 1
      BY Zenon, <1>4, <1>5, <2>1
    <3>. QED BY <2>1, <3>1, Constants
  <2>4. Allocated(chs)[p] = MipOfRank(chs, p) - MipOfRank(chs, p - 1)
    BY Zenon, <1>1, <1>5, <2>3, WrapSmall
  <2>. HIDE DEF d
  <2>5. Allocated(chs)[p] = chs[c].mip - chs[d].mip
    BY <1>5, <2>2, <2>4
  <2>. QED BY Zenon, <2>2, <2>5
<1>. QED BY Zenon, <1>6, <1>7 DEF p

\* Only what is muted changes.
LEMMA SharesKept ==
    ASSUME SharesInv,
           \/ inForce' # "all"
           \/ /\ inForce' = inForce /\ poolAlloc' = poolAlloc
              /\ \A c \in Channels : chan'[c].pool = chan[c].pool /\ chan'[c].mip = chan[c].mip
    PROVE  SharesInv'
<1>. SUFFICES ASSUME inForce' = "all" PROVE Rising(chan') /\ Shares(chan', poolAlloc')
  BY Zenon DEF SharesInv, Rising, Shares
<1>1. /\ inForce = "all" /\ poolAlloc' = poolAlloc
      /\ \A c \in Channels : chan'[c].pool = chan[c].pool /\ chan'[c].mip = chan[c].mip
  BY Zenon
<1>2. Rising(chan) /\ Shares(chan, poolAlloc)
  BY Zenon, <1>1 DEF SharesInv
<1>3. Rising(chan')
  BY <1>1, <1>2 DEF Rising
<1>4. Shares(chan', poolAlloc')
  <2>. SUFFICES ASSUME NEW c \in Channels
                PROVE  /\ chan'[c].pool = 0 => poolAlloc'[chan'[c].pool] = chan'[c].mip
                       /\ chan'[c].pool # 0 =>
                             \E d \in Channels :
                                /\ chan'[d].pool = chan'[c].pool - 1
                                /\ poolAlloc'[chan'[c].pool] = chan'[c].mip - chan'[d].mip
    BY Zenon DEF Shares
  <2>1. chan'[c].pool = 0 => poolAlloc'[chan'[c].pool] = chan'[c].mip
    BY Zenon, <1>1, <1>2 DEF Shares
  <2>2. ASSUME chan'[c].pool # 0
        PROVE  \E d \in Channels : /\ chan'[d].pool = chan'[c].pool - 1
                                   /\ poolAlloc'[chan'[c].pool] = chan'[c].mip - chan'[d].mip
    <3>1. PICK d \in Channels : /\ chan[d].pool = chan[c].pool - 1
                                /\ poolAlloc[chan[c].pool] = chan[c].mip - chan[d].mip
      BY Zenon, <1>1, <1>2, <2>2 DEF Shares
    <3>2. /\ chan'[d].pool = chan'[c].pool - 1
          /\ poolAlloc'[chan'[c].pool] = chan'[c].mip - chan'[d].mip
      BY <1>1, <3>1
    <3>. QED BY Zenon, <3>2
  <2>. QED BY Zenon, <2>1, <2>2
<1>. QED BY <1>3, <1>4

LEMMA SharesTable ==
    ASSUME \A m \in Mips : m < PoolModulus, IInv, SharesInv,
           NEW chs \in [Channels -> AChannel], VMUpdateMIPTable(chs)
    PROVE  SharesInv'
<1>. SUFFICES ASSUME inForce' = "all" PROVE Rising(chan') /\ Shares(chan', poolAlloc')
  BY Zenon DEF SharesInv, Rising, Shares
<1>1. Regular(chs)
  BY DEF VMUpdateMIPTable
<1>2. Rising(chs)
  BY <1>1, RegularRises
<1>3. chan' = ChannelMuting(chs, synthPoly, maxPoly) /\ poolAlloc' = Allocated(chs)
  BY Zenon, <1>2, RisingPools DEF VMUpdateMIPTable
<1>4. \A c \in Channels : chan'[c].pool = chs[c].pool /\ chan'[c].mip = chs[c].mip
  BY <1>3, MutingType
<1>5. Shares(chs, poolAlloc')
  BY Zenon, <1>2, <1>3, RisingShares
<1>6. Rising(chan')
  BY <1>2, <1>4 DEF Rising
<1>7. Shares(chan', poolAlloc')
  <2>. SUFFICES ASSUME NEW c \in Channels
                PROVE  /\ chan'[c].pool = 0 => poolAlloc'[chan'[c].pool] = chan'[c].mip
                       /\ chan'[c].pool # 0 =>
                             \E d \in Channels :
                                /\ chan'[d].pool = chan'[c].pool - 1
                                /\ poolAlloc'[chan'[c].pool] = chan'[c].mip - chan'[d].mip
    BY Zenon DEF Shares
  <2>1. chan'[c].pool = 0 => poolAlloc'[chan'[c].pool] = chan'[c].mip
    BY Zenon, <1>4, <1>5 DEF Shares
  <2>2. ASSUME chan'[c].pool # 0
        PROVE  \E d \in Channels : /\ chan'[d].pool = chan'[c].pool - 1
                                   /\ poolAlloc'[chan'[c].pool] = chan'[c].mip - chan'[d].mip
    <3>1. PICK d \in Channels : /\ chs[d].pool = chs[c].pool - 1
                                /\ poolAlloc'[chs[c].pool] = chs[c].mip - chs[d].mip
      BY Zenon, <1>4, <1>5, <2>2 DEF Shares
    <3>2. /\ chan'[d].pool = chan'[c].pool - 1
          /\ poolAlloc'[chan'[c].pool] = chan'[c].mip - chan'[d].mip
      BY <1>4, <3>1
    <3>. QED BY Zenon, <3>2
  <2>. QED BY Zenon, <2>1, <2>2
<1>. QED BY <1>6, <1>7

LEMMA SharesLimit ==
    ASSUME IInv, SharesInv, NEW sp, NEW mp, NEW count, NEW vs,
           LimitAndMute(Limited(sp, mp), count, vs)
    PROVE  SharesInv'
<1>1. CASE inForce = "none"
  BY Zenon, <1>1, SharesKept DEF LimitAndMute
<1>2. CASE inForce # "none"
  <2>1. spMidi = TRUE
    BY Zenon, <1>2, Now DEF TableComplete
  <2>2. Limited(sp, mp).chs = ChannelMuting(chan, sp, mp)
    BY <2>1 DEF Limited
  <2>3. /\ inForce' = inForce /\ poolAlloc' = poolAlloc
        /\ chan' = ChannelMuting(chan, sp, mp)
    BY Zenon, <2>1, <2>2 DEF LimitAndMute
  <2>4. \A c \in Channels : chan'[c].pool = chan[c].pool /\ chan'[c].mip = chan[c].mip
    BY <2>3, Now, MutingType
  <2>. QED BY Zenon, <2>3, <2>4, SharesKept
<1>. QED BY <1>1, <1>2

LEMMA SharesStep ==
    ASSUME \A m \in Mips : m < PoolModulus, IInv, SharesInv, [Next]_vars PROVE SharesInv'
<1>0. ASSUME inForce' = inForce, UNCHANGED <<chan, poolAlloc>> PROVE SharesInv'
  BY Zenon, <1>0, SharesKept
<1>1. CASE UNCHANGED vars
  BY Zenon, <1>0, <1>1 DEF vars, pools
<1>2. CASE Call
  <2>1. CASE VMMuteAllVoices
    BY Zenon, <1>0, <2>1 DEF VMMuteAllVoices
  <2>2. CASE VMResetForce
    BY Zenon, <2>2, SharesKept DEF VMResetForce
  <2>3. ASSUME NEW count \in Limits, VMSetPolyphony(count) PROVE SharesInv'
    <3>1. CASE count = 0
      BY Zenon, <1>0, <2>3, <3>1 DEF VMSetPolyphony, pools
    <3>2. CASE count # 0
      <4>1. PICK vs : LimitAndMute(Limited(count, maxPoly), Least(count, maxPoly), vs)
        BY Zenon, <2>3, <3>2 DEF VMSetPolyphony
      <4>. QED BY Zenon, <4>1, SharesLimit
    <3>. QED BY <3>1, <3>2
  <2>4. ASSUME NEW count \in SynthLimits, VMSetSynthPolyphony(count) PROVE SharesInv'
    <3>1. PICK vs : LimitAndMute(Limited(synthPoly, count), count, vs)
      BY Zenon, <2>4 DEF VMSetSynthPolyphony
    <3>. QED BY Zenon, <3>1, SharesLimit
  <2>. QED BY Zenon, <1>2, <2>1, <2>2, <2>3, <2>4 DEF Call
<1>3. CASE SpMidiMessage
  <2>1. CASE TableStart \/ TableBad
    BY Zenon, <2>1, SharesKept DEF TableStart, TableBad, VMInitMIPTable
  <2>2. CASE TableEnd
    BY Zenon, <2>2, Now, SharesTable DEF TableEnd
  <2>3. ASSUME NEW c \in Channels, NEW mip \in Mips, VMSetMIPEntry(c, mip) PROVE SharesInv'
    BY Zenon, <2>3, EntryTable, SharesTable, SharesKept
  <2>. QED BY Zenon, <1>3, <2>1, <2>2, <2>3 DEF SpMidiMessage
<1>4. CASE GMOn
  BY Zenon, <1>4, SharesKept DEF GMOn
<1>5. ASSUME NEW v \in Voices, VMStopNote(v) PROVE SharesInv'
  BY Zenon, <1>0, <1>5 DEF VMStopNote, VoicesOnly, pools
<1>6. ASSUME NEW c \in Channels, VMStartNote(c) \/ SustainPedalOn(c) \/ SustainPedalOff(c)
      PROVE  SharesInv'
  BY Zenon, <1>0, <1>6 DEF VMStartNote, SustainPedalOn, SustainPedalOff, pools
<1>7. ASSUME NEW done \in SUBSET Busy, VMRender(done) PROVE SharesInv'
  <2>1. inForce' = inForce /\ UNCHANGED poolAlloc
    BY Zenon, <1>7 DEF VMRender
  <2>2. CASE chan' = chan
    BY Zenon, <1>0, <2>1, <2>2
  <2>3. CASE chan' # chan
    <3>1. resetReq
      BY Zenon, <1>7, <2>3 DEF VMRender
    <3>2. resetReq = TRUE
      BY Zenon, <3>1, Now
    <3>3. inForce = "none"
      BY Zenon, <3>2, Now DEF TableComplete
    <3>. QED BY Zenon, <2>1, <3>3, SharesKept
  <2>. QED BY <2>2, <2>3
<1>. QED BY Zenon, <1>1, <1>2, <1>3, <1>4, <1>5, <1>6, <1>7 DEF Next, Message, Frame

LEMMA SharesGive ==
    ASSUME IInv, Rising(chan), Shares(chan, poolAlloc) PROVE PoolsShareVoices
<1>. USE Now
<1>. DEFINE below(c) == {m \in Mips \union {0} : m < chan[c].mip /\
                            (m = 0 \/ \E e \in Channels : chan[e].mip = m)}
<1>1. \A c \in Channels : /\ chan[c].pool \in Nat /\ chan[c].mip \in Nat \ {0}
                          /\ chan[c].mip \in Mips
  <2>. TAKE c \in Channels
  <2>1. chan[c].pool \in Channels /\ chan[c].mip \in Mips \union {0}
    BY DEF AChannel
  <2>2. chan[c].mip # 0
    BY Zenon DEF Rising
  <2>3. \A p \in Channels : p \in Nat
    BY Constants
  <2>4. \A m \in Mips : m \in Nat \ {0}
    BY SpMidiAssumption
  <2>5. chan[c].mip \in Mips
    BY <2>1, <2>2
  <2>. QED BY Zenon, <2>1, <2>3, <2>4, <2>5
<1>2. \A c, d \in Channels : chan[c].pool = chan[d].pool => chan[c].mip = chan[d].mip
  BY Zenon DEF Rising
<1>3. \A c, e \in Channels : chan[e].mip < chan[c].mip => chan[e].pool < chan[c].pool
  <2>. SUFFICES ASSUME NEW c \in Channels, NEW e \in Channels, chan[e].mip < chan[c].mip,
                       ~(chan[e].pool < chan[c].pool)
                PROVE  FALSE
    OBVIOUS
  <2>1. c # e
    BY <1>1
  <2>2. chan[c].pool # chan[e].pool
    BY Zenon, <2>1 DEF Rising
  <2>3. chan[c].pool < chan[e].pool
    BY <1>1, <2>2
  <2>4. chan[c].mip < chan[e].mip
    BY Zenon, <2>1, <2>3 DEF Rising
  <2>. QED BY <1>1, <2>4
<1>4. ASSUME NEW c \in Channels
      PROVE  \E b \in below(c) : /\ \A m \in below(c) : m <= b
                                 /\ poolAlloc[chan[c].pool] = chan[c].mip - b
  <2>1. CASE chan[c].pool = 0
    <3>1. 0 \in below(c)
      BY <1>1
    <3>2. \A m \in below(c) : m <= 0
      BY <1>1, <1>3, <2>1
    <3>3. poolAlloc[chan[c].pool] = chan[c].mip - 0
      BY <1>1, <2>1 DEF Shares
    <3>. QED BY <3>1, <3>2, <3>3
  <2>2. CASE chan[c].pool # 0
    <3>1. PICK d \in Channels : /\ chan[d].pool = chan[c].pool - 1
                                /\ poolAlloc[chan[c].pool] = chan[c].mip - chan[d].mip
      BY Zenon, <2>2 DEF Shares
    <3>2. chan[d].pool < chan[c].pool /\ c # d
      BY <1>1, <3>1
    <3>3. chan[d].mip < chan[c].mip
      BY Zenon, <3>2 DEF Rising
    <3>4. chan[d].mip \in below(c)
      BY <1>1, <3>3
    <3>5. ASSUME NEW m \in below(c) PROVE m <= chan[d].mip
      <4>1. CASE m = 0
        BY <1>1, <4>1
      <4>2. CASE m # 0
        <5>1. PICK e \in Channels : chan[e].mip = m /\ m < chan[c].mip
          BY <4>2
        <5>2. chan[e].pool < chan[c].pool
          BY <1>3, <5>1
        <5>3. chan[e].pool = chan[d].pool \/ chan[e].pool < chan[d].pool
          BY <1>1, <3>1, <5>2
        <5>4. CASE chan[e].pool = chan[d].pool
          <6>1. chan[e].mip = chan[d].mip
            BY Zenon, <1>2, <5>4
          <6>. QED BY <1>1, <5>1, <6>1
        <5>5. CASE chan[e].pool < chan[d].pool
          <6>1. e # d
            BY <1>1, <5>5
          <6>2. chan[e].mip < chan[d].mip
            BY Zenon, <5>5, <6>1 DEF Rising
          <6>. QED BY <1>1, <5>1, <6>2
        <5>. QED BY <5>3, <5>4, <5>5
      <4>. QED BY <4>1, <4>2
    <3>. QED BY <3>1, <3>4, <3>5
  <2>. QED BY <2>1, <2>2
<1>. SUFFICES ASSUME NEW c \in Channels, NEW d \in Channels
              PROVE  /\ chan[c].pool = chan[d].pool => chan[c].mip = chan[d].mip
                     /\ \E b \in below(c) : /\ \A m \in below(c) : m <= b
                                            /\ poolAlloc[chan[c].pool] = chan[c].mip - b
  BY DEF PoolsShareVoices
<1>. HIDE DEF below
<1>. QED BY Zenon, <1>2, <1>4

\* A table that lists every channel with rising MIPs gives each channel a pool of
\* its own with the voices it adds (PoolsShareVoices), and no limit, note or frame
\* takes them away while it is in force. A MIP must fit a count, as 127 does.
THEOREM TableShares ==
    ASSUME \A m \in Mips : m < PoolModulus PROVE Spec => []PoolsShareVoices
<1>1. Init => SharesInv
  BY DEF Init, SharesInv
<1>2. SharesInv /\ IInv /\ [Next]_vars => SharesInv'
  BY SharesStep
<1>3. SharesInv /\ IInv => PoolsShareVoices
  <2>. SUFFICES ASSUME SharesInv, IInv PROVE PoolsShareVoices
    OBVIOUS
  <2>1. CASE inForce = "all"
    BY Zenon, <2>1, SharesGive DEF SharesInv
  <2>2. CASE inForce # "all"
    BY Zenon, <2>2 DEF PoolsShareVoices
  <2>. QED BY <2>1, <2>2
<1>. QED BY <1>1, <1>2, <1>3, AlwaysIInv, PTL DEF Spec
==============================================================================
