-------------------------- MODULE StreamTableProofs --------------------------
(***************************************************************************)
(* Proofs about StreamTable, for any number of slots, synthesizers, file   *)
(* handles and collections, and any files.                                 *)
(***************************************************************************)
EXTENDS StreamTable, FiniteSetTheorems, WellFoundedInduction, TLAPS

(***************************************************************************)
(* The inductive invariant.                                                *)
(***************************************************************************)

AnyFile == [format : FileFormats \cup {"none", "midi"}, tracks : Nat, dls : BOOLEAN]
HandleOrNull == Handles \cup {NULL}
DlsOrNull == Collections \cup {NULL}

StreamRecords ==
    [file : AnyFile, state : {"CLOSED", "OPEN", "READY"}, synth : Synths \cup {NULL},
     handle : HandleOrNull, tracks : Seq(HandleOrNull), numStreams : Nat,
     dls : DlsOrNull, stray : BOOLEAN]
SynthRecords == [refs : Nat, dls : DlsOrNull]

\* The types of the table and of the synthesizers.  What EAS_Shutdown leaves of
\* the heap is computed slot by slot; CollInv below types its counts.
TableOK ==
    /\ streams \in [Slots -> StreamRecords]
    /\ synths \in [Synths -> SynthRecords]
    /\ globalDLS \in DlsOrNull

\* The tracks of a song, of which there are some, are set up all or not at all,
\* and a raw MIDI stream has a synthesizer.
ShapeOK(r) ==
    /\ Len(r.tracks) \in {0, r.file.tracks}
    /\ r.numStreams \in {0, Len(r.tracks)}
    /\ r.file.format = "midi" => r.synth \in Synths
    /\ r.file.format \in FileFormats => r.file.tracks > 0

\* The handles a stream has, whether its close will see them or not.
Owned(r) == ({r.handle} \cup {r.tracks[i] : i \in DOMAIN r.tracks}) \ {NULL}

\* No two tracks have the same handle, and none has that of the song.
Distinct(r) ==
    \A i \in DOMAIN r.tracks : r.tracks[i] # NULL =>
        /\ r.tracks[i] # r.handle
        /\ \A j \in DOMAIN r.tracks : r.tracks[i] = r.tracks[j] => i = j

HandlesOwned ==
    /\ \A s \in Slots : Owned(streams[s]) \subseteq open /\ Distinct(streams[s])
    /\ \A s, t \in Slots : s # t => Owned(streams[s]) \cap Owned(streams[t]) = {}

IInv ==
    /\ TableOK
    /\ \A s \in Slots : ShapeOK(streams[s])
    /\ SynthsAlive
    /\ HandlesOwned

(***************************************************************************)
(* Sets and sequences.                                                     *)
(***************************************************************************)

\* A set of natural numbers has a least one.
LEMMA MinInSet ==
    ASSUME NEW S, S \subseteq Nat, S # {}
    PROVE  Min(S) \in S
<1>1. \E x \in S : \A y \in S : ~ (<<y, x>> \in OpToRel(<, Nat))
  BY NatLessThanWellFounded, WFMin
<1>2. PICK x \in S : \A y \in S : ~ (<<y, x>> \in OpToRel(<, Nat))
  BY <1>1
<1>3. ASSUME NEW y \in S PROVE x <= y
  <2>1. ~ (<<y, x>> \in OpToRel(<, Nat))
    BY <1>2
  <2>. QED BY <2>1 DEF OpToRel
<1>. QED BY <1>3 DEF Min

\* A function on 1..n is a sequence.
LEMMA IsSequence ==
    ASSUME NEW S, NEW n \in Nat, NEW f \in [1 .. n -> S]
    PROVE  f \in Seq(S) /\ Len(f) = n /\ DOMAIN f = 1 .. n
OBVIOUS

\* The handles that are free can be put in a row.
LEMMA SpareHandles ==
    ASSUME TableAssumption, NEW h
    PROVE  /\ NumSpare(h) \in Nat
           /\ Spare(h) \in [1 .. NumSpare(h) -> Handles \ h.open]
           /\ \A i, j \in 1 .. NumSpare(h) : Spare(h)[i] = Spare(h)[j] => i = j
<1> DEFINE S == Handles \ h.open
<1>1. IsFiniteSet(S)
  <2>1. IsFiniteSet(Handles)
    BY FS_Interval DEF TableAssumption, Handles
  <2>. QED BY <2>1, FS_Subset
<1>2. NumSpare(h) \in Nat /\ ExistsBijection(1 .. NumSpare(h), S)
  BY <1>1, FS_CardinalityType DEF NumSpare
<1>3. \E f \in [1 .. Cardinality(S) -> S] : IsInjective(f)
  <2>1. PICK f \in [1 .. NumSpare(h) -> S] :
           \A a, b \in 1 .. NumSpare(h) : f[a] = f[b] => a = b
    BY <1>2 DEF ExistsBijection, Bijection, Injection, IsInjective
  <2>. QED BY <2>1 DEF NumSpare, IsInjective
<1>4. Spare(h) \in [1 .. Cardinality(S) -> S] /\ IsInjective(Spare(h))
  BY <1>3 DEF Spare, SetToSeq
<1>. QED BY <1>2, <1>4 DEF NumSpare, IsInjective

(***************************************************************************)
(* The heap: what each of its operators does to the counts of the          *)
(* synthesizers and to the open files.                                     *)
(***************************************************************************)

HeapOK(h) ==
    /\ DOMAIN h = {"synths", "refs", "open"}
    /\ h.synths \in [Synths -> SynthRecords]

\* From heap h to heap g nothing changes but collections.
SameCounts(h, g) ==
    /\ HeapOK(g) /\ g.open = h.open
    /\ \A y \in Synths : g.synths[y].refs = h.synths[y].refs

\* A synthesizer that had no reference has one.
NewSynth(h, g, y) ==
    /\ HeapOK(g) /\ g.open = h.open
    /\ \A z \in Synths : g.synths[z].refs = IF z = y THEN 1 ELSE h.synths[z].refs

LEMMA HeapIsOK ==
    ASSUME TableOK
    PROVE  HeapOK(heap) /\ heap.synths = synths /\ heap.open = open
BY DEF HeapOK, heap, TableOK

LEMMA DLSAddRefSame ==
    ASSUME NEW h, HeapOK(h), NEW c
    PROVE  SameCounts(h, DLSAddRef(h, c)) /\ DLSAddRef(h, c).synths = h.synths
BY DEF DLSAddRef, SameCounts, HeapOK

LEMMA DLSCleanupSame ==
    ASSUME NEW h, HeapOK(h), NEW c
    PROVE  SameCounts(h, DLSCleanup(h, c))
BY DEF DLSCleanup, SameCounts, HeapOK

LEMMA LoadSame ==
    ASSUME NEW h, HeapOK(h), NEW c
    PROVE  SameCounts(h, Load(h, c))
BY DEF Load, SameCounts, HeapOK

LEMMA VMSetDLSLibSame ==
    ASSUME NEW h, HeapOK(h), NEW y, NEW c \in DlsOrNull
    PROVE  SameCounts(h, VMSetDLSLib(h, y, c))
BY DEF VMSetDLSLib, SameCounts, HeapOK, SynthRecords

LEMMA SameTwice ==
    ASSUME NEW f, NEW g, NEW h, SameCounts(f, g), SameCounts(g, h)
    PROVE  SameCounts(f, h)
BY DEF SameCounts

LEMMA ShareSame ==
    ASSUME NEW h, HeapOK(h), NEW y, NEW c \in DlsOrNull
    PROVE  SameCounts(h, Share(h, y, c))
<1>1. SameCounts(h, VMSetDLSLib(h, y, c))
  BY VMSetDLSLibSame
<1>2. SameCounts(VMSetDLSLib(h, y, c), DLSAddRef(VMSetDLSLib(h, y, c), c))
  BY <1>1, DLSAddRefSame DEF SameCounts
<1>. QED BY <1>1, <1>2, SameTwice DEF Share

LEMMA VMInitMIDINew ==
    ASSUME NEW h, HeapOK(h), NEW y \in Synths, globalDLS \in DlsOrNull
    PROVE  NewSynth(h, VMInitMIDI(h, y), y)
<1> DEFINE g == DLSAddRef(h, globalDLS)
<1>1. SameCounts(h, g) /\ g.synths = h.synths
  BY DLSAddRefSame
<1>2. VMInitMIDI(h, y) = [g EXCEPT !.synths[y] = [refs |-> 1, dls |-> globalDLS]]
  BY DEF VMInitMIDI
<1>. HIDE DEF g
<1>. QED BY <1>1, <1>2 DEF NewSynth, SameCounts, HeapOK, SynthRecords

LEMMA VMIncRefCountOne ==
    ASSUME NEW h, HeapOK(h), NEW y \in Synths
    PROVE  /\ HeapOK(VMIncRefCount(h, y)) /\ VMIncRefCount(h, y).open = h.open
           /\ \A z \in Synths : VMIncRefCount(h, y).synths[z].refs =
                 IF z = y THEN h.synths[z].refs + 1 ELSE h.synths[z].refs
BY DEF VMIncRefCount, HeapOK, SynthRecords

LEMMA VMMIDIShutdownOne ==
    ASSUME TableAssumption, NEW h, HeapOK(h), NEW y \in Synths
    PROVE  /\ HeapOK(VMMIDIShutdown(h, y)) /\ VMMIDIShutdown(h, y).open = h.open
           /\ VMMIDIShutdown(h, y).synths[y].refs >= h.synths[y].refs - 1
           /\ \A z \in Synths \ {y} : VMMIDIShutdown(h, y).synths[z].refs = h.synths[z].refs
<1>1. CASE h.synths[y].refs > 1
  <2>1. VMMIDIShutdown(h, y) = [h EXCEPT !.synths[y].refs = @ - 1]
    BY <1>1 DEF VMMIDIShutdown
  <2>. QED BY <1>1, <2>1 DEF HeapOK, SynthRecords
<1>2. CASE ~ (h.synths[y].refs > 1)
  <2> DEFINE g == [h EXCEPT !.synths[y] = NoSynth]
  <2>1. HeapOK(g) /\ g.open = h.open /\ g.synths[y].refs = 0
        /\ \A z \in Synths \ {y} : g.synths[z].refs = h.synths[z].refs
    BY DEF HeapOK, SynthRecords, NoSynth, DlsOrNull
  <2>2. VMMIDIShutdown(h, y) = DLSCleanup(g, h.synths[y].dls)
    BY <1>2 DEF VMMIDIShutdown
  <2>3. h.synths[y].refs \in Nat
    BY DEF HeapOK, SynthRecords
  <2>. HIDE DEF g
  <2>4. SameCounts(g, VMMIDIShutdown(h, y))
    BY <2>1, <2>2, DLSCleanupSame
  <2>. QED BY <1>2, <2>1, <2>3, <2>4 DEF SameCounts
<1>. QED BY <1>1, <1>2

(***************************************************************************)
(* Who points to a synthesizer, as one stream changes.                     *)
(***************************************************************************)

HoldersIn(f, y) == {s \in Slots : f[s].synth = y}

LEMMA HoldersChange ==
    ASSUME TableAssumption, NEW f, NEW g, NEW s \in Slots, NEW y,
           \A t \in Slots \ {s} : g[t] = f[t]
    PROVE  /\ Cardinality(HoldersIn(f, y)) \in Nat
           /\ Cardinality(HoldersIn(g, y)) \in Nat
           /\ Cardinality(HoldersIn(g, y)) <= Cardinality(HoldersIn(f, y)) + 1
           /\ g[s].synth # y => Cardinality(HoldersIn(g, y)) <= Cardinality(HoldersIn(f, y))
           /\ g[s].synth = f[s].synth => Cardinality(HoldersIn(g, y)) <= Cardinality(HoldersIn(f, y))
           /\ f[s].synth = y /\ g[s].synth # y =>
                 Cardinality(HoldersIn(g, y)) <= Cardinality(HoldersIn(f, y)) - 1
<1> DEFINE F == HoldersIn(f, y)
           G == HoldersIn(g, y)
<1>1. IsFiniteSet(F) /\ IsFiniteSet(G)
  <2>1. IsFiniteSet(Slots)
    BY FS_Interval DEF TableAssumption, Slots
  <2>. QED BY <2>1, FS_Subset DEF HoldersIn
<1>2. Cardinality(F) \in Nat /\ Cardinality(G) \in Nat
  BY <1>1, FS_CardinalityType
<1>3. CASE g[s].synth = y /\ f[s].synth = y
  <2>1. G = F
    BY <1>3 DEF HoldersIn
  <2>. QED BY <1>2, <1>3, <2>1
<1>4. CASE g[s].synth = y /\ f[s].synth # y
  <2>1. G = F \cup {s} /\ s \notin F
    BY <1>4 DEF HoldersIn
  <2>2. Cardinality(G) = Cardinality(F) + 1
    BY <1>1, <2>1, FS_AddElement
  <2>. QED BY <1>2, <1>4, <2>2
<1>5. CASE g[s].synth # y /\ f[s].synth = y
  <2>1. G = F \ {s} /\ s \in F
    BY <1>5 DEF HoldersIn
  <2>2. Cardinality(G) = Cardinality(F) - 1
    BY <1>1, <2>1, FS_RemoveElement
  <2>. QED BY <1>2, <1>5, <2>2
<1>6. CASE g[s].synth # y /\ f[s].synth # y
  <2>1. G = F
    BY <1>6 DEF HoldersIn
  <2>. QED BY <1>2, <1>6, <2>1
<1>. QED BY <1>3, <1>4, <1>5, <1>6

LEMMA HoldersNone ==
    ASSUME TableAssumption, NEW f, NEW y, Cardinality(HoldersIn(f, y)) = 0
    PROVE  \A s \in Slots : f[s].synth # y
<1>1. IsFiniteSet(HoldersIn(f, y))
  <2>1. IsFiniteSet(Slots)
    BY FS_Interval DEF TableAssumption, Slots
  <2>. QED BY <2>1, FS_Subset DEF HoldersIn
<1>2. HoldersIn(f, y) = {}
  BY <1>1, FS_EmptySet
<1>. QED BY <1>2 DEF HoldersIn

(***************************************************************************)
(* Preparing.                                                              *)
(***************************************************************************)

\* A stream that fits into a heap.
Fits(r, h) ==
    /\ r \in StreamRecords /\ ShapeOK(r) /\ HeapOK(h)
    /\ Owned(r) \subseteq h.open /\ Distinct(r)

\* The handles of r and h become those of p and g: what r had stays, or is no
\* longer known to it; what p has besides was free.
Keeps(r, h, p, g) ==
    /\ Fits(p, g) /\ p.file = r.file
    /\ h.open \subseteq g.open
    /\ Owned(p) \subseteq Owned(r) \cup (Handles \ h.open)

\* From r and h to p and g no handle is lost: the stream has those that are new, and,
\* where it had no tracks yet, what it had.
Finds(r, h, p, g) ==
    /\ g.open \ h.open \subseteq SMF_Handles(p)
    /\ r.tracks = <<>> => SMF_Handles(r) \subseteq SMF_Handles(p)

\* SMF_ParseHeader leaves no handle with two owners, and none without, wherever it
\* stops, and the synthesizers alone.
LEMMA ParseHeaderKeeps ==
    ASSUME TableAssumption, NEW r, NEW h, Fits(r, h), r.file.tracks > 0,
           r.file.format # "midi",
           NEW o \in SMF_ParseHeader(r, h)
    PROVE  /\ Keeps(r, h, o.stream, o.heap) /\ Finds(r, h, o.stream, o.heap)
           /\ o.stream.synth = r.synth /\ o.stream.state = r.state
           /\ o.stream.dls = r.dls /\ o.heap.synths = h.synths /\ o.heap.refs = h.refs
<1> DEFINE n == r.file.tracks
           S == Spare(h)
           Of(i) == IF i = 1 THEN r.handle ELSE S[i - 1]
           Old(i) == IF r.tracks = <<>> THEN NULL ELSE r.tracks[i]
           Tracks(k) == [i \in 1 .. n |-> IF i <= k THEN Of(i) ELSE Old(i)]
           Used(k, isNext) == IF isNext THEN k + 1 ELSE k
           Stream(k, isNext) ==
              [r EXCEPT !.tracks = Tracks(k), !.numStreams = n,
                        !.handle = IF isNext THEN Of(k + 1) ELSE NULL, !.stray = FALSE]
           Heap(k, isNext) ==
              [h EXCEPT !.open = @ \cup {Of(i) : i \in 1 .. Used(k, isNext)}]
<1>1. /\ r \in StreamRecords /\ ShapeOK(r) /\ HeapOK(h) /\ Owned(r) \subseteq h.open /\ Distinct(r)
      /\ n \in Nat
  BY DEF Fits, StreamRecords, AnyFile
<1>2. CASE r.handle = NULL
  <2>1. o = Outcome(r, h, "crash")
    BY <1>2 DEF SMF_ParseHeader
  <2>. QED BY <2>1 DEF Outcome, Keeps, Fits, Finds
<1>3. CASE r.handle # NULL /\ o = Outcome([r EXCEPT !.numStreams = 0], h, "failure")
  <2> DEFINE p == [r EXCEPT !.numStreams = 0]
  <2>1. /\ p \in StreamRecords /\ p.tracks = r.tracks /\ p.handle = r.handle /\ p.file = r.file
        /\ p.numStreams = 0 /\ p.synth = r.synth /\ p.state = r.state /\ p.dls = r.dls
    BY <1>1 DEF StreamRecords
  <2>2. o.stream = p /\ o.heap = h
    BY <1>3 DEF Outcome
  <2>. HIDE DEF p
  <2>3. ShapeOK(p) /\ Owned(p) = Owned(r) /\ Distinct(p)
    BY <1>1, <2>1 DEF ShapeOK, Owned, Distinct
  <2>4. r.tracks = <<>> => SMF_Handles(r) \subseteq SMF_Handles(p)
    BY <1>1, <2>1 DEF ShapeOK, SMF_Handles
  <2>. QED BY <1>1, <2>1, <2>2, <2>3, <2>4 DEF Keeps, Fits, Finds
<1>4. CASE r.handle # NULL /\ o # Outcome([r EXCEPT !.numStreams = 0], h, "failure")
  <2>1. PICK k \in 0 .. n, isNext \in BOOLEAN :
           /\ o.stream = Stream(k, isNext) /\ o.heap = Heap(k, isNext)
           /\ IF isNext THEN k < n ELSE k > 0
           /\ Used(k, isNext) <= NumSpare(h) + 1
    <3> DEFINE Made(k, isNext) ==
                  Outcome(Stream(k, isNext), Heap(k, isNext),
                          IF k = n /\ ~isNext THEN "success" ELSE "failure")
    <3>1. \/ \E k \in {i \in 0 .. n - 1 : (i + 1) - 1 <= NumSpare(h)} : o = Made(k, TRUE)
          \/ \E k \in {i \in 1 .. n : i - 1 <= NumSpare(h)} : o = Made(k, FALSE)
          \/ \E i \in {j \in {n} : j - 1 <= NumSpare(h)} : o = [Made(n, FALSE) EXCEPT !.result = "failure"]
      BY <1>4, Zenon DEF SMF_ParseHeader
    <3>2. ASSUME NEW k, NEW isNext
          PROVE  /\ Made(k, isNext).stream = Stream(k, isNext)
                 /\ Made(k, isNext).heap = Heap(k, isNext)
                 /\ [Made(k, isNext) EXCEPT !.result = "failure"].stream = Stream(k, isNext)
                 /\ [Made(k, isNext) EXCEPT !.result = "failure"].heap = Heap(k, isNext)
      <4>. HIDE DEF Stream, Heap
      <4>. QED BY DEF Outcome
    <3>3. NumSpare(h) \in Nat
      BY SpareHandles
    <3>. HIDE DEF Made, Stream, Heap
    <3>4. CASE \E k \in {i \in 0 .. n - 1 : (i + 1) - 1 <= NumSpare(h)} : o = Made(k, TRUE)
      <4>1. PICK k \in {i \in 0 .. n - 1 : (i + 1) - 1 <= NumSpare(h)} : o = Made(k, TRUE)
        BY <3>4
      <4>2. k \in 0 .. n /\ k < n /\ Used(k, TRUE) <= NumSpare(h) + 1
        BY <4>1, <3>3, <1>1
      <4>. QED BY <3>2, <4>1, <4>2
    <3>5. CASE \E k \in {i \in 1 .. n : i - 1 <= NumSpare(h)} : o = Made(k, FALSE)
      <4>1. PICK k \in 1 .. n : k - 1 <= NumSpare(h) /\ o = Made(k, FALSE)
        BY <3>5
      <4>2. k \in 0 .. n /\ k > 0 /\ Used(k, FALSE) <= NumSpare(h) + 1
        BY <4>1, <3>3, <1>1
      <4>. QED BY <3>2, <4>1, <4>2
    <3>6. CASE \E i \in {j \in {n} : j - 1 <= NumSpare(h)} : o = [Made(n, FALSE) EXCEPT !.result = "failure"]
      <4>1. n \in 0 .. n /\ n > 0 /\ Used(n, FALSE) <= NumSpare(h) + 1
        BY <3>6, <3>3, <1>1
      <4>. QED BY <3>2, <3>6, <4>1
    <3>. QED BY <3>1, <3>4, <3>5, <3>6
  <2> DEFINE p == Stream(k, isNext)
             g == Heap(k, isNext)
             u == Used(k, isNext)
  <2>2. /\ \A i \in 1 .. u : Of(i) \in Handles
        /\ \A i \in 1 .. u : i # 1 => Of(i) \notin h.open
        /\ Of(1) = r.handle /\ r.handle \in h.open /\ r.handle \in Owned(r)
        /\ \A i, j \in 1 .. u : Of(i) = Of(j) => i = j
    <3>1. /\ NumSpare(h) \in Nat /\ S \in [1 .. NumSpare(h) -> Handles \ h.open]
          /\ \A i, j \in 1 .. NumSpare(h) : S[i] = S[j] => i = j
      BY SpareHandles
    <3>2. r.handle \in Handles /\ r.handle \in h.open /\ r.handle \in Owned(r)
      BY <1>1, <1>4 DEF StreamRecords, HandleOrNull, Owned
    <3>3. u \in Nat /\ u - 1 <= NumSpare(h)
      BY <2>1, <3>1, <1>1
    <3>. HIDE DEF S, u
    <3>4. \A i \in 1 .. u : i # 1 => i - 1 \in 1 .. NumSpare(h)
      BY <3>1, <3>3
    <3>5. \A i \in 1 .. u : i # 1 => Of(i) = S[i - 1] /\ S[i - 1] \in Handles \ h.open
      BY <3>1, <3>4
    <3>6. ASSUME NEW i \in 1 .. u, NEW j \in 1 .. u, Of(i) = Of(j) PROVE i = j
      <4>1. CASE i = 1 \/ j = 1
        BY <4>1, <3>6, <3>5, <3>2
      <4>2. CASE i # 1 /\ j # 1
        <5>1. S[i - 1] = S[j - 1]
          BY <4>2, <3>6
        <5>2. i - 1 = j - 1
          BY <4>2, <5>1, <3>4, <3>1
        <5>. QED BY <5>2, <3>3
      <4>. QED BY <4>1, <4>2
    <3>. QED BY <3>2, <3>5, <3>6
  <2>3. /\ \A i \in 1 .. n : Old(i) \in HandleOrNull
        /\ \A i \in 1 .. n : Old(i) # NULL => Old(i) \in Owned(r) /\ Old(i) # r.handle
        /\ \A i, j \in 1 .. n : Old(i) # NULL /\ Old(i) = Old(j) => i = j
    <3>1. CASE r.tracks = <<>>
      BY <3>1 DEF HandleOrNull
    <3>2. CASE r.tracks # <<>>
      <4>1. DOMAIN r.tracks = 1 .. n /\ r.tracks \in [1 .. n -> HandleOrNull]
        BY <1>1, <3>2 DEF StreamRecords, ShapeOK
      <4>2. \A i \in 1 .. n : Old(i) = r.tracks[i]
        BY <3>2
      <4>. QED BY <1>1, <4>1, <4>2 DEF Owned, Distinct
    <3>. QED BY <3>1, <3>2
  <2>4. /\ k \in Nat /\ k <= n /\ u \in Nat /\ k <= u /\ u > 0
        /\ u = IF isNext THEN k + 1 ELSE k
    BY <2>1, <1>1
  <2>. HIDE DEF Of, Old, u
  <2>5. /\ Tracks(k) \in [1 .. n -> HandleOrNull]
        /\ \A i \in 1 .. n : Tracks(k)[i] = IF i <= k THEN Of(i) ELSE Old(i)
    BY <2>2, <2>3, <2>4, <1>1 DEF HandleOrNull
  <2> DEFINE handle == IF isNext THEN Of(k + 1) ELSE NULL
  <2>6. /\ p \in StreamRecords /\ p.tracks = Tracks(k) /\ p.numStreams = n /\ p.handle = handle
        /\ p.file = r.file /\ p.synth = r.synth /\ p.state = r.state /\ p.dls = r.dls
        /\ Len(p.tracks) = n /\ DOMAIN p.tracks = 1 .. n
    <3>1. Tracks(k) \in Seq(HandleOrNull) /\ Len(Tracks(k)) = n /\ DOMAIN Tracks(k) = 1 .. n
      BY <2>5, <1>1, IsSequence
    <3>2. handle \in HandleOrNull
      BY <2>2, <2>4 DEF HandleOrNull
    <3>. HIDE DEF Tracks, handle
    <3>3. p = [r EXCEPT !.tracks = Tracks(k), !.numStreams = n, !.handle = handle, !.stray = FALSE]
      BY DEF handle
    <3>. HIDE DEF p
    <3>. QED BY <1>1, <3>1, <3>2, <3>3 DEF StreamRecords
  <2>7. /\ DOMAIN g = {"synths", "refs", "open"} /\ g.synths = h.synths /\ g.refs = h.refs
        /\ g.open = h.open \cup {Of(i) : i \in 1 .. u}
    BY <1>1 DEF HeapOK, u
  <2>8. o.stream = p /\ o.heap = g
    BY <2>1
  <2>. HIDE DEF p, g, Tracks
  <2>9. ShapeOK(p)
    BY <2>6 DEF ShapeOK
  <2>10. \A x \in Owned(p) : x \in Owned(r) \/ (\E i \in 1 .. u : x = Of(i))
    <3>1. ASSUME NEW x \in Owned(p), x = p.handle
          PROVE  \E i \in 1 .. u : x = Of(i)
      BY <3>1, <2>4, <2>6 DEF Owned
    <3>2. ASSUME NEW x \in Owned(p), NEW i \in 1 .. n, x = Tracks(k)[i]
          PROVE  x \in Owned(r) \/ (\E j \in 1 .. u : x = Of(j))
      <4>1. CASE i <= k
        BY <4>1, <3>2, <2>5, <2>4, <1>1
      <4>2. CASE ~ (i <= k)
        BY <4>2, <3>2, <2>5, <2>3 DEF Owned
      <4>. QED BY <4>1, <4>2
    <3>. QED BY <3>1, <3>2, <2>6 DEF Owned
  <2>11. Owned(p) \subseteq g.open /\ Owned(p) \subseteq Owned(r) \cup (Handles \ h.open)
    BY <2>10, <2>7, <2>2, <1>1
  <2>12. Distinct(p)
    <3>1. ASSUME NEW i \in 1 .. n, Tracks(k)[i] # NULL PROVE Tracks(k)[i] # p.handle
      <4>1. CASE i <= k
        <5>1. Tracks(k)[i] = Of(i) /\ i \in 1 .. u
          BY <4>1, <2>5, <2>4, <1>1
        <5>2. isNext => i # k + 1 /\ k + 1 \in 1 .. u
          BY <4>1, <2>4, <1>1
        <5>. QED BY <5>1, <5>2, <3>1, <2>2, <2>6
      <4>2. CASE ~ (i <= k)
        <5>1. Tracks(k)[i] = Old(i)
          BY <4>2, <2>5
        <5>2. CASE ~ isNext
          BY <5>2, <3>1, <2>6
        <5>3. CASE isNext
          <6>1. k + 1 \in 1 .. u /\ p.handle = Of(k + 1)
            BY <5>3, <2>4, <2>6
          <6>2. k + 1 = 1 => p.handle = r.handle
            BY <6>1, <2>2
          <6>3. k + 1 # 1 => p.handle \notin h.open
            BY <6>1, <2>2
          <6>. QED BY <5>1, <3>1, <6>2, <6>3, <2>3, <1>1
        <5>. QED BY <5>2, <5>3
      <4>. QED BY <4>1, <4>2
    <3>2. ASSUME NEW i \in 1 .. n, NEW j \in 1 .. n, Tracks(k)[i] # NULL,
                 Tracks(k)[i] = Tracks(k)[j], i <= j
          PROVE  i = j
      <4>1. CASE j <= k
        BY <4>1, <3>2, <2>5, <2>4, <2>2, <1>1
      <4>2. CASE i <= k /\ ~ (j <= k)
        <5>1. Tracks(k)[i] = Of(i) /\ Tracks(k)[j] = Old(j) /\ i \in 1 .. u
          BY <4>2, <2>5, <2>4, <1>1
        <5>2. Old(j) \in h.open /\ Old(j) # r.handle
          BY <5>1, <3>2, <2>3, <1>1
        <5>3. Of(i) = Old(j)
          BY <5>1, <3>2
        <5>4. i = 1
          BY <5>1, <5>2, <5>3, <2>2
        <5>. QED BY <5>2, <5>3, <5>4, <2>2
      <4>3. CASE ~ (i <= k) /\ ~ (j <= k)
        BY <4>3, <3>2, <2>5, <2>3
      <4>. QED BY <4>1, <4>2, <4>3, <2>4, <1>1
    <3>. QED BY <3>1, <3>2, <2>6, <1>1 DEF Distinct
  <2>13. HeapOK(g)
    BY <2>7, <1>1 DEF HeapOK
  <2>14. Keeps(r, h, p, g)
    BY <2>6, <2>7, <2>9, <2>11, <2>12, <2>13 DEF Keeps, Fits
  <2>15. \A i \in 1 .. u : Of(i) \in SMF_Handles(p)
    <3>1. ASSUME NEW i \in 1 .. u PROVE Of(i) \in SMF_Handles(p)
      <4>1. Of(i) # NULL
        BY <2>2, <1>1 DEF TableAssumption
      <4>2. CASE i <= k
        BY <4>1, <4>2, <2>4, <2>5, <2>6, <1>1 DEF SMF_Handles
      <4>3. CASE ~ (i <= k)
        <5>1. isNext /\ i = k + 1
          BY <4>3, <2>4
        <5>. QED BY <4>1, <5>1, <2>6 DEF SMF_Handles
      <4>. QED BY <4>2, <4>3
    <3>. QED BY <3>1
  <2>16. r.tracks = <<>> => SMF_Handles(r) \subseteq {r.handle}
    BY <1>1 DEF ShapeOK, SMF_Handles
  <2>17. Finds(r, h, p, g)
    BY <2>2, <2>4, <2>7, <2>15, <2>16 DEF Finds
  <2>. QED BY <2>6, <2>7, <2>8, <2>14, <2>17
<1>. QED BY <1>2, <1>3, <1>4

\* The stream has the synthesizer it had, or none, or a new one.
Gets(r, h, p, g) ==
    \/ /\ p.synth \in {r.synth, NULL}
       /\ \A z \in Synths : g.synths[z].refs = h.synths[z].refs
    \/ \E y \in Synths :
          /\ h.synths[y].refs = 0 /\ p.synth = y
          /\ \A z \in Synths : g.synths[z].refs = IF z = y THEN 1 ELSE h.synths[z].refs

LEMMA FreeSynthIsSynth ==
    ASSUME TableAssumption, NEW h, FreeSynths(h) # {}
    PROVE  Min(FreeSynths(h)) \in Synths /\ h.synths[Min(FreeSynths(h))].refs = 0
<1>1. FreeSynths(h) \subseteq Nat
  BY DEF FreeSynths, Synths, TableAssumption
<1>2. Min(FreeSynths(h)) \in FreeSynths(h)
  BY <1>1, MinInSet
<1>. QED BY <1>2 DEF FreeSynths

\* A stream of a file in a heap.
IsSong(r) == r.file.tracks > 0 /\ r.file.format # "midi"

LEMMA SMFPrepareKeeps ==
    ASSUME TableAssumption, globalDLS \in DlsOrNull, NEW r, NEW h, Fits(r, h), IsSong(r),
           NEW o \in SMF_Prepare(r, h)
    PROVE  Keeps(r, h, o.stream, o.heap) /\ Gets(r, h, o.stream, o.heap)
<1>1. CASE FreeSynths(h) = {}
  <2> DEFINE p == [r EXCEPT !.synth = NULL]
  <2>1. o = Outcome(p, h, "failure")
    BY <1>1 DEF SMF_Prepare
  <2>2. /\ p \in StreamRecords /\ p.tracks = r.tracks /\ p.handle = r.handle /\ p.file = r.file
        /\ p.numStreams = r.numStreams /\ p.synth = NULL
    BY DEF Fits, StreamRecords
  <2>3. o.stream = p /\ o.heap = h
    BY <2>1 DEF Outcome
  <2>. HIDE DEF p
  <2>4. ShapeOK(p) /\ Owned(p) = Owned(r) /\ Distinct(p)
    BY <2>2 DEF Fits, IsSong, ShapeOK, Owned, Distinct
  <2>. QED BY <2>2, <2>3, <2>4 DEF Keeps, Fits, Gets
<1>2. CASE FreeSynths(h) # {}
  <2> DEFINE y == Min(FreeSynths(h))
             g == VMInitMIDI(h, y)
  <2>1. y \in Synths /\ h.synths[y].refs = 0
    BY <1>2, FreeSynthIsSynth
  <2>2. PICK q \in SMF_ParseHeader(r, g) :
           o = Outcome([q.stream EXCEPT !.synth = y,
                                        !.state = IF q.result = "success" THEN "READY" ELSE r.state],
                       q.heap, q.result)
    BY <1>2, Zenon DEF SMF_Prepare
  <2>. HIDE DEF y, g
  <2>3. NewSynth(h, g, y)
    BY <2>1, VMInitMIDINew DEF Fits, g
  <2>4. Fits(r, g)
    BY <2>3 DEF Fits, NewSynth
  <2>5. /\ Keeps(r, g, q.stream, q.heap) /\ q.heap.synths = g.synths
        /\ r.file.tracks > 0 /\ r.file.format # "midi"
    BY <2>4, ParseHeaderKeeps DEF IsSong
  <2> DEFINE state == IF q.result = "success" THEN "READY" ELSE r.state
             p == [q.stream EXCEPT !.synth = y, !.state = state]
  <2>6. state \in {"CLOSED", "OPEN", "READY"}
    BY DEF Fits, StreamRecords
  <2>. HIDE DEF state
  <2>7. /\ p \in StreamRecords /\ p.tracks = q.stream.tracks /\ p.handle = q.stream.handle
        /\ p.file = q.stream.file /\ p.numStreams = q.stream.numStreams /\ p.synth = y
    BY <2>1, <2>5, <2>6 DEF Keeps, Fits, StreamRecords
  <2>8. o.stream = p /\ o.heap = q.heap
    BY <2>2 DEF Outcome, state
  <2>. HIDE DEF p
  <2>9. ShapeOK(p) /\ Owned(p) = Owned(q.stream) /\ Distinct(p)
    BY <2>1, <2>5, <2>7 DEF Keeps, Fits, ShapeOK, Owned, Distinct
  <2>10. Keeps(r, g, p, q.heap)
    BY <2>5, <2>7, <2>9 DEF Keeps, Fits
  <2>11. Keeps(r, h, p, q.heap)
    BY <2>3, <2>10 DEF Keeps, NewSynth
  <2>12. Gets(r, h, p, q.heap)
    BY <2>1, <2>3, <2>5, <2>7 DEF Gets, NewSynth
  <2>. QED BY <2>8, <2>11, <2>12
<1>. QED BY <1>1, <1>2

\* The stream takes its collection from its file, and nothing else changes.
LEMMA ParseDLSKeeps ==
    ASSUME NEW r, NEW h, Fits(r, h), NEW p \in ParseDLS(r, h)
    PROVE  /\ Keeps(r, h, p.stream, p.heap)
           /\ SameCounts(h, p.heap) /\ p.stream.synth = r.synth
<1> DEFINE stray == (r.handle = NULL)
           Moved(c) == [r EXCEPT !.dls = c, !.stray = stray]
<1>1. ASSUME NEW c \in DlsOrNull, NEW g, SameCounts(h, g),
             p.stream = Moved(c), p.heap = g
      PROVE  /\ Keeps(r, h, p.stream, p.heap)
             /\ SameCounts(h, p.heap) /\ p.stream.synth = r.synth
  <2> DEFINE q == Moved(c)
  <2>1. stray \in BOOLEAN
    OBVIOUS
  <2>. HIDE DEF stray
  <2>2. /\ q \in StreamRecords /\ q.tracks = r.tracks /\ q.handle = r.handle /\ q.file = r.file
        /\ q.numStreams = r.numStreams /\ q.synth = r.synth
    BY <2>1 DEF Fits, StreamRecords
  <2>3. p.stream = q
    BY <1>1
  <2>. HIDE DEF q
  <2>4. ShapeOK(q) /\ Owned(q) = Owned(r) /\ Distinct(q)
    BY <2>2 DEF Fits, ShapeOK, Owned, Distinct
  <2>. QED BY <1>1, <2>2, <2>3, <2>4 DEF Keeps, Fits, SameCounts
<1>2. \/ p = Outcome(Moved(NULL), h, "failure")
      \/ \E c \in FreeCollections(h) :
            p = Outcome([Moved(NULL) EXCEPT !.dls = c], Load(h, c), "success")
  BY Zenon DEF ParseDLS
<1>3. HeapOK(h)
  BY DEF Fits
<1>4. CASE p = Outcome(Moved(NULL), h, "failure")
  <2>1. SameCounts(h, h)
    BY <1>3 DEF SameCounts
  <2>2. p.stream = Moved(NULL) /\ p.heap = h
    BY <1>4 DEF Outcome
  <2>3. NULL \in DlsOrNull
    BY DEF DlsOrNull
  <2>. QED BY <1>1, <2>1, <2>2, <2>3
<1>5. CASE \E c \in FreeCollections(h) :
              p = Outcome([Moved(NULL) EXCEPT !.dls = c], Load(h, c), "success")
  <2>1. PICK c \in FreeCollections(h) :
           p = Outcome([Moved(NULL) EXCEPT !.dls = c], Load(h, c), "success")
    BY <1>5
  <2>2. [Moved(NULL) EXCEPT !.dls = c] = Moved(c)
    BY DEF Fits, StreamRecords
  <2>3. SameCounts(h, Load(h, c))
    BY <1>3, LoadSame
  <2>4. p.stream = Moved(c) /\ p.heap = Load(h, c)
    BY <2>1, <2>2 DEF Outcome
  <2>5. c \in DlsOrNull
    BY DEF FreeCollections, DlsOrNull
  <2>. QED BY <1>1, <2>3, <2>4, <2>5
<1>. QED BY <1>2, <1>4, <1>5

\* A prepare is made of parts that keep the handles, one of which gets the
\* synthesizer.
LEMMA KeepsTwice ==
    ASSUME NEW r, NEW h, NEW p, NEW g, NEW q, NEW k, Keeps(r, h, p, g), Keeps(p, g, q, k)
    PROVE  Keeps(r, h, q, k)
BY DEF Keeps

LEMMA GetsAfter ==
    ASSUME NEW r, NEW h, NEW p, NEW g, NEW q, NEW k,
           p.synth = r.synth, SameCounts(h, g), Gets(p, g, q, k)
    PROVE  Gets(r, h, q, k)
<1>1. \A z \in Synths : g.synths[z].refs = h.synths[z].refs
  BY DEF SameCounts
<1>. QED BY <1>1 DEF Gets

LEMMA GetsBefore ==
    ASSUME NEW r, NEW h, NEW p, NEW g, NEW q, NEW k,
           Gets(r, h, p, g), q.synth = p.synth, SameCounts(g, k)
    PROVE  Gets(r, h, q, k)
<1>1. \A z \in Synths : k.synths[z].refs = g.synths[z].refs
  BY DEF SameCounts
<1>. QED BY <1>1 DEF Gets

LEMMA AttachKeeps ==
    ASSUME NEW o, Fits(o.stream, o.heap)
    PROVE  /\ Attach(o).stream = o.stream
           /\ Keeps(o.stream, o.heap, o.stream, Attach(o).heap)
           /\ SameCounts(o.heap, Attach(o).heap)
<1>1. o.stream.dls \in DlsOrNull /\ HeapOK(o.heap)
  BY DEF Fits, StreamRecords
<1> DEFINE g == Share(o.heap, o.stream.synth, o.stream.dls)
<1>2. SameCounts(o.heap, g)
  BY <1>1, ShareSame
<1>3. Attach(o).stream = o.stream /\ Attach(o).heap = g
  BY DEF Attach, Outcome
<1>. HIDE DEF g
<1>. QED BY <1>2, <1>3 DEF Keeps, Fits, SameCounts

LEMMA XMFPrepareKeeps ==
    ASSUME TableAssumption, globalDLS \in DlsOrNull, NEW r, NEW h, Fits(r, h), IsSong(r),
           NEW o \in XMF_Prepare(r, h)
    PROVE  Keeps(r, h, o.stream, o.heap) /\ Gets(r, h, o.stream, o.heap)
<1>1. CASE ~ r.file.dls
  BY <1>1, SMFPrepareKeeps DEF XMF_Prepare
<1>2. CASE r.file.dls
  <2> DEFINE Song(p) == {IF q.result = "success" THEN Attach(q) ELSE q :
                            q \in SMF_Prepare(p.stream, p.heap)}
  <2>1. PICK p \in ParseDLS(r, h) : o \in IF p.result = "failure" THEN {p} ELSE Song(p)
    BY <1>2 DEF XMF_Prepare
  <2>2. /\ Keeps(r, h, p.stream, p.heap)
        /\ SameCounts(h, p.heap) /\ p.stream.synth = r.synth
    BY ParseDLSKeeps
  <2>3. CASE p.result = "failure"
    BY <2>1, <2>2, <2>3 DEF Gets, SameCounts
  <2>4. CASE p.result # "failure"
    <3>1. PICK q \in SMF_Prepare(p.stream, p.heap) :
             o = IF q.result = "success" THEN Attach(q) ELSE q
      <4>1. o \in Song(p)
        BY <2>1, <2>4
      <4>. QED BY <4>1, Zenon
    <3>2. Fits(p.stream, p.heap) /\ IsSong(p.stream)
      BY <2>2 DEF Keeps, IsSong
    <3>3. Keeps(p.stream, p.heap, q.stream, q.heap) /\ Gets(p.stream, p.heap, q.stream, q.heap)
      BY <3>2, SMFPrepareKeeps
    <3>4. Keeps(r, h, q.stream, q.heap) /\ Gets(r, h, q.stream, q.heap)
      BY <2>2, <3>3, KeepsTwice, GetsAfter
    <3>5. CASE q.result # "success"
      BY <3>1, <3>4, <3>5
    <3>6. CASE q.result = "success"
      <4>1. /\ Attach(q).stream = q.stream
            /\ Keeps(q.stream, q.heap, q.stream, Attach(q).heap)
            /\ SameCounts(q.heap, Attach(q).heap)
        BY <3>3, AttachKeeps DEF Keeps
      <4>. QED BY <3>1, <3>4, <3>6, <4>1, KeepsTwice, GetsBefore
    <3>. QED BY <3>5, <3>6
  <2>. QED BY <2>3, <2>4
<1>. QED BY <1>1, <1>2

LEMMA RMIDPrepareKeeps ==
    ASSUME TableAssumption, globalDLS \in DlsOrNull, NEW r, NEW h, Fits(r, h), IsSong(r),
           NEW o \in RMID_Prepare(r, h)
    PROVE  Keeps(r, h, o.stream, o.heap) /\ Gets(r, h, o.stream, o.heap)
<1> DEFINE Loaded(q) ==
              {IF p.result = "failure" THEN Outcome(p.stream, p.heap, "success") ELSE Attach(p) :
                  p \in ParseDLS(q.stream, q.heap)}
<1>1. PICK q \in SMF_Prepare(r, h) :
         o \in IF q.result # "success" \/ ~r.file.dls THEN {q} ELSE Loaded(q)
  BY DEF RMID_Prepare
<1>2. Keeps(r, h, q.stream, q.heap) /\ Gets(r, h, q.stream, q.heap)
  BY SMFPrepareKeeps
<1>3. CASE q.result # "success" \/ ~r.file.dls
  BY <1>1, <1>2, <1>3
<1>4. CASE ~ (q.result # "success" \/ ~r.file.dls)
  <2>1. PICK p \in ParseDLS(q.stream, q.heap) :
           o = IF p.result = "failure" THEN Outcome(p.stream, p.heap, "success") ELSE Attach(p)
    <3>1. o \in Loaded(q)
      BY <1>1, <1>4
    <3>. QED BY <3>1, Zenon
  <2>2. /\ Keeps(q.stream, q.heap, p.stream, p.heap)
        /\ SameCounts(q.heap, p.heap) /\ p.stream.synth = q.stream.synth
    BY <1>2, ParseDLSKeeps DEF Keeps
  <2>3. Keeps(r, h, p.stream, p.heap) /\ Gets(r, h, p.stream, p.heap)
    BY <1>2, <2>2, KeepsTwice, GetsBefore
  <2>4. CASE p.result = "failure"
    <3>1. o.stream = p.stream /\ o.heap = p.heap
      BY <2>1, <2>4 DEF Outcome
    <3>. QED BY <2>3, <3>1
  <2>5. CASE p.result # "failure"
    <3>1. /\ Attach(p).stream = p.stream
          /\ Keeps(p.stream, p.heap, p.stream, Attach(p).heap)
          /\ SameCounts(p.heap, Attach(p).heap)
      BY <2>2, AttachKeeps DEF Keeps
    <3>. QED BY <2>1, <2>3, <2>5, <3>1, KeepsTwice, GetsBefore
  <2>. QED BY <2>4, <2>5
<1>. QED BY <1>3, <1>4

LEMMA PrepareKeeps ==
    ASSUME TableAssumption, globalDLS \in DlsOrNull, NEW r, NEW h, Fits(r, h),
           r.file.format \in FileFormats, NEW o \in Prepare(r, h)
    PROVE  Keeps(r, h, o.stream, o.heap) /\ Gets(r, h, o.stream, o.heap)
<1>1. IsSong(r)
  BY DEF Fits, ShapeOK, IsSong, FileFormats
<1>2. CASE r.file.format = "smf"
  BY <1>1, <1>2, SMFPrepareKeeps DEF Prepare
<1>3. CASE r.file.format = "xmf"
  BY <1>1, <1>3, XMFPrepareKeeps DEF Prepare
<1>4. CASE r.file.format = "rmid"
  BY <1>1, <1>4, RMIDPrepareKeeps DEF Prepare
<1>. QED BY <1>2, <1>3, <1>4 DEF FileFormats

(***************************************************************************)
(* Closing.                                                                *)
(***************************************************************************)

\* A close closes handles of the stream, whose synthesizer loses a reference
\* at the most.
LEMMA CloseOwn ==
    ASSUME TableAssumption, NEW r \in StreamRecords, ShapeOK(r), NEW h, HeapOK(h)
    PROVE  /\ HeapOK(Close(r, h)) /\ Close(r, h).open = h.open \ SMF_Handles(r)
           /\ SMF_Handles(r) \subseteq Owned(r)
           /\ \A z \in Synths : IF z = r.synth THEN Close(r, h).synths[z].refs >= h.synths[z].refs - 1
                               ELSE Close(r, h).synths[z].refs = h.synths[z].refs
<1> DEFINE g == [h EXCEPT !.open = @ \ SMF_Handles(r)]
           k == SMF_Close(r, h)
<1>1. HeapOK(g) /\ g.open = h.open \ SMF_Handles(r) /\ g.synths = h.synths
  BY DEF HeapOK
<1>2. k = IF r.synth = NULL THEN g ELSE VMMIDIShutdown(g, r.synth)
  BY DEF SMF_Close
<1>3. \A z \in Synths : h.synths[z].refs \in Nat
  BY DEF HeapOK, SynthRecords
<1>. HIDE DEF g, k
<1>4. /\ HeapOK(k) /\ k.open = g.open
      /\ \A z \in Synths : IF z = r.synth THEN k.synths[z].refs >= h.synths[z].refs - 1
                          ELSE k.synths[z].refs = h.synths[z].refs
  <2>1. CASE r.synth = NULL
    BY <1>1, <1>2, <1>3, <2>1
  <2>2. CASE r.synth # NULL
    <3>1. r.synth \in Synths
      BY <2>2 DEF StreamRecords
    <3>. QED BY <1>1, <1>2, <2>2, <3>1, VMMIDIShutdownOne
  <2>. QED BY <2>1, <2>2
<1>5. SameCounts(k, Close(r, h))
  BY <1>4, DLSCleanupSame DEF Close, k
<1>6. SMF_Handles(r) \subseteq Owned(r)
  <2>1. 1 .. r.numStreams \subseteq DOMAIN r.tracks
    BY DEF StreamRecords, ShapeOK
  <2>. QED BY <2>1 DEF SMF_Handles, Owned
<1>. QED BY <1>1, <1>4, <1>5, <1>6 DEF SameCounts

(***************************************************************************)
(* The steps.                                                              *)
(***************************************************************************)

\* A call that gives one stream another value, and takes handles from no other.
LEMMA OneStream ==
    ASSUME IInv, NEW s \in Slots, NEW p \in StreamRecords, ShapeOK(p), Distinct(p),
           streams' = [streams EXCEPT ![s] = p],
           synths' \in [Synths -> SynthRecords], globalDLS' \in DlsOrNull,
           Owned(p) \subseteq Owned(streams[s]) \cup (Handles \ open),
           Owned(p) \subseteq open', open \ Owned(streams[s]) \subseteq open'
    PROVE  TableOK' /\ (\A t \in Slots : ShapeOK(streams[t]))' /\ HandlesOwned'
<1>1. /\ streams' \in [Slots -> StreamRecords] /\ streams'[s] = p
      /\ \A t \in Slots \ {s} : streams'[t] = streams[t]
  BY DEF IInv, TableOK
<1>2. \A t \in Slots : ShapeOK(streams'[t]) /\ Distinct(streams'[t])
  BY <1>1 DEF IInv, HandlesOwned
<1>3. \A t \in Slots : Owned(streams'[t]) \subseteq open'
  <2>1. ASSUME NEW t \in Slots \ {s} PROVE Owned(streams'[t]) \subseteq open'
    <3>1. Owned(streams[t]) \subseteq open /\ Owned(streams[t]) \cap Owned(streams[s]) = {}
      BY DEF IInv, HandlesOwned
    <3>. QED BY <1>1, <3>1
  <2>. QED BY <1>1, <2>1
<1>4. ASSUME NEW t \in Slots \ {s} PROVE Owned(p) \cap Owned(streams[t]) = {}
  <2>1. Owned(streams[t]) \subseteq open /\ Owned(streams[t]) \cap Owned(streams[s]) = {}
    BY DEF IInv, HandlesOwned
  <2>. QED BY <2>1
<1>5. \A t, u \in Slots : t # u => Owned(streams'[t]) \cap Owned(streams'[u]) = {}
  <2>1. ASSUME NEW t \in Slots, NEW u \in Slots, t # u
        PROVE  Owned(streams'[t]) \cap Owned(streams'[u]) = {}
    <3>1. CASE t = s
      BY <1>1, <1>4, <2>1, <3>1
    <3>2. CASE u = s
      BY <1>1, <1>4, <2>1, <3>2
    <3>3. CASE t # s /\ u # s
      BY <1>1, <2>1, <3>3 DEF IInv, HandlesOwned
    <3>. QED BY <3>1, <3>2, <3>3
  <2>. QED BY <2>1
<1>. QED BY <1>1, <1>2, <1>3, <1>5 DEF TableOK, HandlesOwned, ShapeOK, Owned, Distinct

\* A stream that keeps its synthesizer, has none or gets a new one.
LEMMA SynthsAfterGets ==
    ASSUME TableAssumption, IInv, NEW s \in Slots, NEW p \in StreamRecords,
           NEW g, HeapOK(g), Gets(streams[s], heap, p, g), synths' = g.synths,
           streams' = [streams EXCEPT ![s] = p]
    PROVE  SynthsAlive'
<1>1. /\ streams'[s] = p /\ \A t \in Slots \ {s} : streams'[t] = streams[t]
      /\ synths \in [Synths -> SynthRecords] /\ heap.synths = synths
  BY HeapIsOK DEF IInv, TableOK
<1>2. ASSUME NEW y \in Synths PROVE synths'[y].refs >= Cardinality(HoldersIn(streams', y))
  <2>1. /\ synths[y].refs >= Cardinality(HoldersIn(streams, y))
        /\ synths[y].refs \in Nat /\ y # NULL
    BY <1>1 DEF IInv, SynthsAlive, SynthHolders, HoldersIn, SynthRecords, TableAssumption
  <2>2. /\ Cardinality(HoldersIn(streams, y)) \in Nat
        /\ Cardinality(HoldersIn(streams', y)) \in Nat
        /\ Cardinality(HoldersIn(streams', y)) <= Cardinality(HoldersIn(streams, y)) + 1
        /\ p.synth # y => Cardinality(HoldersIn(streams', y)) <= Cardinality(HoldersIn(streams, y))
        /\ p.synth = streams[s].synth =>
              Cardinality(HoldersIn(streams', y)) <= Cardinality(HoldersIn(streams, y))
    <3>1. \A t \in Slots \ {s} : streams'[t] = streams[t]
      BY <1>1
    <3>2. /\ Cardinality(HoldersIn(streams, y)) \in Nat
          /\ Cardinality(HoldersIn(streams', y)) \in Nat
      BY <3>1, HoldersChange, Zenon
    <3>3. Cardinality(HoldersIn(streams', y)) <= Cardinality(HoldersIn(streams, y)) + 1
      BY <3>1, HoldersChange, Zenon
    <3>4. streams'[s].synth # y =>
             Cardinality(HoldersIn(streams', y)) <= Cardinality(HoldersIn(streams, y))
      BY <3>1, HoldersChange, Zenon
    <3>5. streams'[s].synth = streams[s].synth =>
             Cardinality(HoldersIn(streams', y)) <= Cardinality(HoldersIn(streams, y))
      BY <3>1, HoldersChange, Zenon
    <3>. QED BY <1>1, <3>2, <3>3, <3>4, <3>5
  <2>3. CASE /\ p.synth \in {streams[s].synth, NULL}
             /\ \A z \in Synths : g.synths[z].refs = heap.synths[z].refs
    BY <1>1, <2>1, <2>2, <2>3
  <2>4. CASE \E z \in Synths :
                /\ heap.synths[z].refs = 0 /\ p.synth = z
                /\ \A x \in Synths : g.synths[x].refs = IF x = z THEN 1 ELSE heap.synths[x].refs
    BY <1>1, <2>1, <2>2, <2>4
  <2>. QED BY <2>3, <2>4 DEF Gets
<1>. QED BY <1>2 DEF SynthsAlive, SynthHolders, HoldersIn

\* A stream that is closed, whose synthesizer loses a reference at the most.
LEMMA SynthsAfterClose ==
    ASSUME TableAssumption, IInv, NEW s \in Slots,
           synths' \in [Synths -> SynthRecords],
           \A z \in Synths : IF z = streams[s].synth THEN synths'[z].refs >= synths[z].refs - 1
                             ELSE synths'[z].refs = synths[z].refs,
           streams' = [streams EXCEPT ![s] = Closed]
    PROVE  SynthsAlive'
<1>1. /\ streams'[s] = Closed /\ \A t \in Slots \ {s} : streams'[t] = streams[t]
      /\ synths \in [Synths -> SynthRecords] /\ Closed.synth = NULL
  BY DEF IInv, TableOK, Closed
<1>2. ASSUME NEW y \in Synths PROVE synths'[y].refs >= Cardinality(HoldersIn(streams', y))
  <2>1. /\ synths[y].refs >= Cardinality(HoldersIn(streams, y))
        /\ synths[y].refs \in Nat /\ synths'[y].refs \in Nat /\ y # NULL
    BY <1>1 DEF IInv, SynthsAlive, SynthHolders, HoldersIn, SynthRecords, TableAssumption
  <2>2. /\ Cardinality(HoldersIn(streams, y)) \in Nat
        /\ Cardinality(HoldersIn(streams', y)) \in Nat
        /\ Cardinality(HoldersIn(streams', y)) <= Cardinality(HoldersIn(streams, y))
        /\ streams[s].synth = y =>
              Cardinality(HoldersIn(streams', y)) <= Cardinality(HoldersIn(streams, y)) - 1
    <3>1. \A t \in Slots \ {s} : streams'[t] = streams[t]
      BY <1>1
    <3>2. /\ Cardinality(HoldersIn(streams, y)) \in Nat
          /\ Cardinality(HoldersIn(streams', y)) \in Nat
      BY <3>1, HoldersChange, Zenon
    <3>3. streams'[s].synth # y =>
             Cardinality(HoldersIn(streams', y)) <= Cardinality(HoldersIn(streams, y))
      BY <3>1, HoldersChange, Zenon
    <3>4. streams[s].synth = y /\ streams'[s].synth # y =>
             Cardinality(HoldersIn(streams', y)) <= Cardinality(HoldersIn(streams, y)) - 1
      BY <3>1, HoldersChange, Zenon
    <3>. QED BY <1>1, <2>1, <3>2, <3>3, <3>4
  <2>3. CASE y = streams[s].synth
    BY <2>1, <2>2, <2>3
  <2>4. CASE y # streams[s].synth
    BY <2>1, <2>2, <2>4
  <2>. QED BY <2>3, <2>4
<1>. QED BY <1>2 DEF SynthsAlive, SynthHolders, HoldersIn

\* The records the calls put into a slot.
LEMMA ClosedIsStream ==
    ASSUME NULL \notin Handles
    PROVE  Closed \in StreamRecords /\ ShapeOK(Closed) /\ Distinct(Closed) /\ Owned(Closed) = {}
BY DEF Closed, StreamRecords, AnyFile, FileFormats, HandleOrNull, DlsOrNull, ShapeOK, Distinct, Owned

LEMMA RawMIDIIsStream ==
    ASSUME TableAssumption, NEW y \in Synths
    PROVE  /\ RawMIDI(y) \in StreamRecords /\ ShapeOK(RawMIDI(y)) /\ Distinct(RawMIDI(y))
           /\ Owned(RawMIDI(y)) = {} /\ RawMIDI(y).synth = y
<1> DEFINE r == RawMIDI(y)
<1>1. /\ Closed \in StreamRecords /\ Closed.tracks = <<>> /\ Closed.numStreams = 0
      /\ Closed.handle = NULL /\ Closed.file.tracks = 0
  BY ClosedIsStream DEF Closed, TableAssumption
<1>2. /\ r \in StreamRecords /\ r.tracks = <<>> /\ r.numStreams = 0 /\ r.handle = NULL
      /\ r.synth = y /\ r.file.format = "midi" /\ r.file.tracks = 0
  BY <1>1 DEF RawMIDI, StreamRecords, AnyFile
<1>. HIDE DEF r
<1>3. ShapeOK(r) /\ Distinct(r) /\ Owned(r) = {}
  BY <1>2 DEF ShapeOK, Distinct, Owned, FileFormats
<1>. QED BY <1>2, <1>3 DEF r

LEMMA OpenedIsStream ==
    ASSUME TableAssumption, NEW f \in Files, NEW x \in Handles
    PROVE  /\ Opened(f, x) \in StreamRecords /\ ShapeOK(Opened(f, x)) /\ Distinct(Opened(f, x))
           /\ Owned(Opened(f, x)) = {x} /\ Opened(f, x).synth = NULL
<1> DEFINE r == Opened(f, x)
<1>1. /\ Closed \in StreamRecords /\ Closed.tracks = <<>> /\ Closed.numStreams = 0
      /\ Closed.synth = NULL
  BY ClosedIsStream DEF Closed, TableAssumption
<1>2. f \in AnyFile /\ f.tracks > 0 /\ f.format \in FileFormats /\ f.format # "midi" /\ x # NULL
  BY DEF AnyFile, TableAssumption, FileFormats
<1>3. /\ r \in StreamRecords /\ r.tracks = <<>> /\ r.numStreams = 0 /\ r.handle = x
      /\ r.synth = NULL /\ r.file = f
  BY <1>1, <1>2 DEF Opened, StreamRecords, HandleOrNull
<1>. HIDE DEF r
<1>4. ShapeOK(r) /\ Distinct(r) /\ Owned(r) = {x}
  BY <1>2, <1>3 DEF ShapeOK, Distinct, Owned
<1>. QED BY <1>3, <1>4 DEF r

LEMMA FreeSlotIsSlot ==
    ASSUME TableAssumption, FreeSlots # {}
    PROVE  Min(FreeSlots) \in Slots
<1>1. FreeSlots \subseteq Nat
  BY DEF FreeSlots, Slots, TableAssumption
<1>. QED BY <1>1, MinInSet DEF FreeSlots

LEMMA OpenFileStep ==
    ASSUME TableAssumption, IInv, NEW f \in Files, EAS_OpenFile(f)
    PROVE  IInv'
<1> DEFINE s == Min(FreeSlots)
           x == Spare(heap)[1]
           p == Opened(f, x)
<1>1. s \in Slots
  BY FreeSlotIsSlot DEF EAS_OpenFile
<1>2. x \in Handles /\ x \notin open
  <2>1. 1 \in 1 .. NumSpare(heap)
    BY SpareHandles DEF EAS_OpenFile
  <2>2. x \in Handles \ heap.open
    BY <2>1, SpareHandles
  <2>. QED BY <2>2, HeapIsOK DEF IInv
<1>3. /\ streams' = [streams EXCEPT ![s] = p] /\ open' = open \cup {x}
      /\ synths' = synths /\ globalDLS' = globalDLS
  BY DEF EAS_OpenFile
<1>. HIDE DEF s, x
<1>4. p \in StreamRecords /\ ShapeOK(p) /\ Distinct(p) /\ Owned(p) = {x} /\ p.synth = NULL
  BY <1>2, OpenedIsStream
<1>. HIDE DEF p
<1>5. HeapOK(heap) /\ heap.synths = synths /\ synths \in [Synths -> SynthRecords] /\ globalDLS \in DlsOrNull
  BY HeapIsOK DEF IInv, TableOK
<1>6. Gets(streams[s], heap, p, heap)
  BY <1>4 DEF Gets
<1>7. SynthsAlive'
  BY <1>1, <1>3, <1>4, <1>5, <1>6, SynthsAfterGets
<1>8. TableOK' /\ (\A t \in Slots : ShapeOK(streams[t]))' /\ HandlesOwned'
  BY <1>1, <1>2, <1>3, <1>4, <1>5, OneStream
<1>. QED BY <1>7, <1>8 DEF IInv

LEMMA SameStep ==
    ASSUME IInv, UNCHANGED <<streams, synths, open, globalDLS>>
    PROVE  IInv'
<1>1. TableOK' /\ (\A s \in Slots : ShapeOK(streams[s]))'
  BY DEF IInv, TableOK, ShapeOK
<1>2. SynthsAlive'
  <2>1. \A y \in Synths : SynthHolders(y)' = SynthHolders(y)
    BY DEF SynthHolders
  <2>. QED BY <2>1 DEF IInv, SynthsAlive
<1>3. HandlesOwned'
  BY DEF IInv, HandlesOwned, Owned, Distinct
<1>. QED BY <1>1, <1>2, <1>3 DEF IInv

LEMMA PrepareStep ==
    ASSUME TableAssumption, IInv, NEW s \in Slots, EAS_Prepare(s)
    PROVE  IInv'
<1> DEFINE r == streams[s]
<1>1. /\ Fits(r, heap) /\ globalDLS \in DlsOrNull /\ r.file.format \in FileFormats
      /\ heap.synths = synths /\ heap.open = open
  <2>1. HeapOK(heap) /\ heap.synths = synths /\ heap.open = open
    BY HeapIsOK DEF IInv
  <2>2. r \in StreamRecords /\ ShapeOK(r) /\ Owned(r) \subseteq open /\ Distinct(r)
    BY DEF IInv, TableOK, HandlesOwned
  <2>. QED BY <2>1, <2>2 DEF Fits, IInv, TableOK, EAS_Prepare, IsFile
<1>2. PICK o \in Prepare(r, heap) :
         IF o.result = "crash" THEN Crash
         ELSE /\ streams' = [streams EXCEPT ![s] = o.stream]
              /\ Leaves(o.heap)
              /\ UNCHANGED <<globalDLS, phase>>
  BY DEF EAS_Prepare
<1>3. CASE o.result = "crash"
  BY <1>2, <1>3, SameStep DEF Crash
<1>4. CASE o.result # "crash"
  <2> DEFINE p == o.stream
             g == o.heap
  <2>1. /\ streams' = [streams EXCEPT ![s] = p] /\ synths' = g.synths /\ open' = g.open
        /\ globalDLS' = globalDLS
    BY <1>2, <1>4 DEF Leaves
  <2>2. Keeps(r, heap, p, g) /\ Gets(r, heap, p, g)
    BY <1>1, PrepareKeeps
  <2>. HIDE DEF p, g
  <2>3. /\ p \in StreamRecords /\ ShapeOK(p) /\ Distinct(p) /\ HeapOK(g)
        /\ Owned(p) \subseteq g.open /\ open \subseteq g.open
        /\ Owned(p) \subseteq Owned(r) \cup (Handles \ open)
    BY <1>1, <2>2 DEF Keeps, Fits
  <2>4. g.synths \in [Synths -> SynthRecords]
    BY <2>3 DEF HeapOK
  <2>5. SynthsAlive'
    BY <2>1, <2>2, <2>3, SynthsAfterGets
  <2>6. TableOK' /\ (\A t \in Slots : ShapeOK(streams[t]))' /\ HandlesOwned'
    BY <1>1, <2>1, <2>3, <2>4, OneStream
  <2>. QED BY <2>5, <2>6 DEF IInv
<1>. QED BY <1>3, <1>4

\* Closing a file, or a raw MIDI stream, gives the slot back.
LEMMA ClosedStep ==
    ASSUME TableAssumption, IInv, NEW s \in Slots, NEW g, HeapOK(g),
           synths' = g.synths, open' = g.open, globalDLS' = globalDLS,
           streams' = [streams EXCEPT ![s] = Closed],
           open \ Owned(streams[s]) \subseteq g.open,
           \A z \in Synths : IF z = streams[s].synth THEN g.synths[z].refs >= synths[z].refs - 1
                             ELSE g.synths[z].refs = synths[z].refs
    PROVE  IInv'
<1>1. g.synths \in [Synths -> SynthRecords] /\ globalDLS \in DlsOrNull /\ NULL \notin Handles
  BY DEF HeapOK, IInv, TableOK, TableAssumption
<1>2. Closed \in StreamRecords /\ ShapeOK(Closed) /\ Distinct(Closed) /\ Owned(Closed) = {}
  BY <1>1, ClosedIsStream
<1>3. SynthsAlive'
  BY <1>1, SynthsAfterClose
<1>4. TableOK' /\ (\A t \in Slots : ShapeOK(streams[t]))' /\ HandlesOwned'
  BY <1>1, <1>2, OneStream
<1>. QED BY <1>3, <1>4 DEF IInv

LEMMA CloseFileStep ==
    ASSUME TableAssumption, IInv, NEW s \in Slots, EAS_CloseFile(s)
    PROVE  IInv'
<1> DEFINE r == streams[s]
           g == Close(r, heap)
<1>1. HeapOK(heap) /\ heap.synths = synths /\ heap.open = open /\ r \in StreamRecords /\ ShapeOK(r)
  BY HeapIsOK DEF IInv, TableOK
<1>2. /\ HeapOK(g) /\ g.open = open \ SMF_Handles(r) /\ SMF_Handles(r) \subseteq Owned(r)
      /\ \A z \in Synths : IF z = r.synth THEN g.synths[z].refs >= synths[z].refs - 1
                           ELSE g.synths[z].refs = synths[z].refs
  BY <1>1, CloseOwn
<1>3. /\ streams' = [streams EXCEPT ![s] = Closed] /\ synths' = g.synths /\ open' = g.open
      /\ globalDLS' = globalDLS
  BY DEF EAS_CloseFile, Leaves
<1>. HIDE DEF g
<1>4. open \ Owned(r) \subseteq g.open
  BY <1>2
<1>. QED BY <1>2, <1>3, <1>4, ClosedStep

LEMMA CloseMIDIStreamStep ==
    ASSUME TableAssumption, IInv, NEW s \in Slots, EAS_CloseMIDIStream(s)
    PROVE  IInv'
<1> DEFINE r == streams[s]
           g == VMMIDIShutdown(heap, r.synth)
<1>1. HeapOK(heap) /\ heap.synths = synths /\ heap.open = open /\ r.synth \in Synths
  BY HeapIsOK DEF IInv, TableOK, ShapeOK, EAS_CloseMIDIStream, IsRawMIDI
<1>2. /\ HeapOK(g) /\ g.open = open
      /\ \A z \in Synths : IF z = r.synth THEN g.synths[z].refs >= synths[z].refs - 1
                           ELSE g.synths[z].refs = synths[z].refs
  BY <1>1, VMMIDIShutdownOne
<1>3. /\ streams' = [streams EXCEPT ![s] = Closed] /\ synths' = g.synths /\ open' = g.open
      /\ globalDLS' = globalDLS
  BY DEF EAS_CloseMIDIStream, Leaves
<1>. HIDE DEF g
<1>4. open \ Owned(r) \subseteq g.open
  BY <1>2
<1>. QED BY <1>2, <1>3, <1>4, ClosedStep

\* Calls that leave the streams as they are, and no synthesizer with fewer
\* references.
LEMMA SameStreamsStep ==
    ASSUME TableAssumption, IInv, NEW g, SameCounts(heap, g),
           synths' = g.synths, open' = g.open, globalDLS' \in DlsOrNull, streams' = streams
    PROVE  IInv'
<1>1. /\ HeapOK(g) /\ g.open = open /\ g.synths \in [Synths -> SynthRecords]
      /\ \A y \in Synths : g.synths[y].refs = synths[y].refs
  BY HeapIsOK DEF SameCounts, IInv, HeapOK
<1>2. TableOK' /\ (\A s \in Slots : ShapeOK(streams[s]))'
  BY <1>1 DEF IInv, TableOK, ShapeOK
<1>3. SynthsAlive'
  <2>1. \A y \in Synths : SynthHolders(y)' = SynthHolders(y)
    BY DEF SynthHolders
  <2>. QED BY <1>1, <2>1 DEF IInv, SynthsAlive
<1>4. HandlesOwned'
  <2>1. streams' = streams /\ open' = open
    BY <1>1
  <2>. QED BY <2>1 DEF IInv, HandlesOwned, Owned, Distinct
<1>. QED BY <1>2, <1>3, <1>4 DEF IInv

\* A raw MIDI stream takes a free slot and a synthesizer that gained a reference.
LEMMA OpenedMIDIStep ==
    ASSUME TableAssumption, IInv, NEW s \in Slots, NEW y \in Synths, NEW g, HeapOK(g),
           synths' = g.synths, open' = g.open, globalDLS' = globalDLS, g.open = open,
           streams' = [streams EXCEPT ![s] = RawMIDI(y)],
           \A z \in Synths : IF z = y THEN g.synths[z].refs = synths[z].refs + 1
                             ELSE g.synths[z].refs = synths[z].refs
    PROVE  IInv'
<1> DEFINE p == RawMIDI(y)
<1>1. /\ p \in StreamRecords /\ ShapeOK(p) /\ Distinct(p) /\ Owned(p) = {} /\ p.synth = y
  BY RawMIDIIsStream
<1>. HIDE DEF p
<1>2. g.synths \in [Synths -> SynthRecords] /\ globalDLS \in DlsOrNull
  BY DEF HeapOK, IInv, TableOK
<1>3. TableOK' /\ (\A t \in Slots : ShapeOK(streams[t]))' /\ HandlesOwned'
  BY <1>1, <1>2, OneStream DEF p
<1>4. /\ streams'[s] = p /\ \A t \in Slots \ {s} : streams'[t] = streams[t]
  BY DEF IInv, TableOK, p
<1>5. ASSUME NEW z \in Synths PROVE synths'[z].refs >= Cardinality(HoldersIn(streams', z))
  <2>1. synths[z].refs >= Cardinality(HoldersIn(streams, z)) /\ synths[z].refs \in Nat
    BY DEF IInv, TableOK, SynthsAlive, SynthHolders, HoldersIn, SynthRecords
  <2>2. /\ Cardinality(HoldersIn(streams, z)) \in Nat
        /\ Cardinality(HoldersIn(streams', z)) \in Nat
    BY <1>4, HoldersChange, Zenon
  <2>3. Cardinality(HoldersIn(streams', z)) <= Cardinality(HoldersIn(streams, z)) + 1
    BY <1>4, HoldersChange, Zenon
  <2>4. streams'[s].synth # z =>
           Cardinality(HoldersIn(streams', z)) <= Cardinality(HoldersIn(streams, z))
    BY <1>4, HoldersChange, Zenon
  <2>5. CASE z = y
    BY <2>1, <2>2, <2>3, <2>5
  <2>6. CASE z # y
    BY <1>1, <1>4, <2>1, <2>2, <2>4, <2>6
  <2>. QED BY <2>5, <2>6
<1>6. SynthsAlive'
  BY <1>5 DEF SynthsAlive, SynthHolders, HoldersIn
<1>. QED BY <1>3, <1>6 DEF IInv

LEMMA OpenMIDIStreamStep ==
    ASSUME TableAssumption, IInv, EAS_OpenMIDIStream
    PROVE  IInv'
<1> DEFINE s == Min(FreeSlots)
           y == Min(FreeSynths(heap))
           g == VMInitMIDI(heap, y)
<1>1. HeapOK(heap) /\ heap.synths = synths /\ heap.open = open /\ globalDLS \in DlsOrNull
  BY HeapIsOK DEF IInv, TableOK
<1>2. s \in Slots /\ y \in Synths /\ synths[y].refs = 0
  BY <1>1, FreeSlotIsSlot, FreeSynthIsSynth DEF EAS_OpenMIDIStream
<1>3. /\ streams' = [streams EXCEPT ![s] = RawMIDI(y)] /\ synths' = g.synths /\ open' = g.open
      /\ globalDLS' = globalDLS
  BY DEF EAS_OpenMIDIStream, Leaves
<1>. HIDE DEF s, y
<1>4. NewSynth(heap, g, y)
  BY <1>1, <1>2, VMInitMIDINew
<1>. HIDE DEF g
<1>5. /\ HeapOK(g) /\ g.open = open
      /\ \A z \in Synths : IF z = y THEN g.synths[z].refs = synths[z].refs + 1
                           ELSE g.synths[z].refs = synths[z].refs
  BY <1>1, <1>2, <1>4 DEF NewSynth
<1>. QED BY <1>2, <1>3, <1>5, OpenedMIDIStep

LEMMA ShareMIDIStreamStep ==
    ASSUME TableAssumption, IInv, NEW t \in Slots, EAS_ShareMIDIStream(t)
    PROVE  IInv'
<1>1. CASE IsRawMIDI(t) \/ streams[t].synth = NULL
  BY <1>1, SameStep DEF EAS_ShareMIDIStream, Crash
<1>2. CASE ~ (IsRawMIDI(t) \/ streams[t].synth = NULL)
  <2> DEFINE s == Min(FreeSlots)
             y == streams[t].synth
             g == VMIncRefCount(heap, y)
  <2>1. HeapOK(heap) /\ heap.synths = synths /\ heap.open = open
    BY HeapIsOK DEF IInv
  <2>2. s \in Slots /\ y \in Synths
    BY <1>2, FreeSlotIsSlot DEF EAS_ShareMIDIStream, IInv, TableOK, StreamRecords
  <2>3. /\ streams' = [streams EXCEPT ![s] = RawMIDI(y)] /\ synths' = g.synths /\ open' = g.open
        /\ globalDLS' = globalDLS
    BY <1>2 DEF EAS_ShareMIDIStream, Leaves
  <2>. HIDE DEF s, y
  <2>4. /\ HeapOK(g) /\ g.open = open
        /\ \A z \in Synths : IF z = y THEN g.synths[z].refs = synths[z].refs + 1
                             ELSE g.synths[z].refs = synths[z].refs
    BY <2>1, <2>2, VMIncRefCountOne
  <2>. HIDE DEF g
  <2>. QED BY <2>2, <2>3, <2>4, OpenedMIDIStep
<1>. QED BY <1>1, <1>2

LEMMA LoadIntoFileStep ==
    ASSUME TableAssumption, IInv, NEW s \in Slots, NEW c \in Collections, LoadIntoFile(s, c)
    PROVE  IInv'
<1> DEFINE g == Load(heap, c)
           k == Share(g, streams[s].synth, c)
<1>1. HeapOK(heap) /\ globalDLS \in DlsOrNull /\ c \in DlsOrNull
  BY HeapIsOK DEF IInv, TableOK, DlsOrNull
<1>2. /\ synths' = k.synths /\ open' = k.open /\ streams' = streams /\ globalDLS' = globalDLS
  BY DEF LoadIntoFile, Leaves
<1>3. SameCounts(heap, g)
  BY <1>1, LoadSame
<1>4. SameCounts(g, k)
  BY <1>1, <1>3, ShareSame DEF SameCounts
<1>. HIDE DEF g, k
<1>5. SameCounts(heap, k)
  BY <1>3, <1>4, SameTwice
<1>. QED BY <1>1, <1>2, <1>5, SameStreamsStep

LEMMA LoadIntoMIDIStep ==
    ASSUME TableAssumption, IInv, NEW s \in Slots, NEW c \in Collections, LoadIntoMIDI(s, c)
    PROVE  IInv'
<1> DEFINE g == Load(heap, c)
           k == VMSetDLSLib(g, streams[s].synth, c)
<1>1. HeapOK(heap) /\ globalDLS \in DlsOrNull /\ c \in DlsOrNull
  BY HeapIsOK DEF IInv, TableOK, DlsOrNull
<1>2. /\ synths' = k.synths /\ open' = k.open /\ streams' = streams /\ globalDLS' = globalDLS
  BY DEF LoadIntoMIDI, Leaves
<1>3. SameCounts(heap, g)
  BY <1>1, LoadSame
<1>4. SameCounts(g, k)
  BY <1>1, <1>3, VMSetDLSLibSame DEF SameCounts
<1>. HIDE DEF g, k
<1>5. SameCounts(heap, k)
  BY <1>3, <1>4, SameTwice
<1>. QED BY <1>1, <1>2, <1>5, SameStreamsStep

LEMMA LoadGlobalStep ==
    ASSUME TableAssumption, IInv, NEW c \in Collections, LoadGlobal(c)
    PROVE  IInv'
<1> DEFINE g == Load(heap, c)
           k == DLSCleanup(g, globalDLS)
<1>1. HeapOK(heap) /\ c \in DlsOrNull
  BY HeapIsOK DEF IInv, DlsOrNull
<1>2. /\ synths' = k.synths /\ open' = k.open /\ streams' = streams /\ globalDLS' = c
  BY DEF LoadGlobal, Leaves
<1>3. SameCounts(heap, g)
  BY <1>1, LoadSame
<1>4. SameCounts(g, k)
  BY <1>3, DLSCleanupSame DEF SameCounts
<1>. HIDE DEF g, k
<1>5. SameCounts(heap, k)
  BY <1>3, <1>4, SameTwice
<1>. QED BY <1>1, <1>2, <1>5, SameStreamsStep

\* EAS_Shutdown leaves no stream and no synthesizer, and so nothing that has
\* a handle.
LEMMA ShutdownStep ==
    ASSUME TableAssumption, IInv, EAS_Shutdown
    PROVE  IInv'
<1>1. /\ streams' = [s \in Slots |-> Closed] /\ synths' = [y \in Synths |-> NoSynth]
      /\ globalDLS' = NULL
  BY DEF EAS_Shutdown
<1>2. /\ Closed \in StreamRecords /\ ShapeOK(Closed) /\ Distinct(Closed) /\ Owned(Closed) = {}
      /\ \A s \in Slots : streams'[s] = Closed
  BY <1>1, ClosedIsStream DEF TableAssumption
<1>3. TableOK'
  BY <1>1, <1>2 DEF TableOK, SynthRecords, NoSynth, DlsOrNull
<1>4. (\A s \in Slots : ShapeOK(streams[s]))'
  <2>1. \A s \in Slots : ShapeOK(streams'[s])
    BY <1>2
  <2>. QED BY <2>1 DEF ShapeOK
<1>5. SynthsAlive'
  <2>1. ASSUME NEW y \in Synths
        PROVE  synths'[y].refs = 0 /\ {s \in Slots : streams'[s].synth = y} = {}
    BY <1>1, <1>2 DEF NoSynth, Closed, TableAssumption
  <2>2. \A y \in Synths : Cardinality({s \in Slots : streams'[s].synth = y}) = 0
    BY <2>1, FS_EmptySet
  <2>. QED BY <2>1, <2>2 DEF SynthsAlive, SynthHolders
<1>6. HandlesOwned'
  <2>1. \A s \in Slots : Owned(streams'[s]) = {} /\ Distinct(streams'[s])
    BY <1>2
  <2>. QED BY <2>1 DEF HandlesOwned, Owned, Distinct
<1>. QED BY <1>3, <1>4, <1>5, <1>6 DEF IInv

LEMMA InitIInv ==
    ASSUME TableAssumption, Init
    PROVE  IInv
<1>1. /\ Closed \in StreamRecords /\ ShapeOK(Closed) /\ Distinct(Closed) /\ Owned(Closed) = {}
      /\ \A s \in Slots : streams[s] = Closed
  BY ClosedIsStream DEF TableAssumption, Init
<1>2. TableOK
  BY <1>1 DEF Init, TableOK, SynthRecords, NoSynth, DlsOrNull
<1>3. SynthsAlive
  <2>1. ASSUME NEW y \in Synths PROVE synths[y].refs = 0 /\ SynthHolders(y) = {}
    BY <1>1 DEF Init, NoSynth, Closed, TableAssumption, SynthHolders
  <2>2. \A y \in Synths : Cardinality(SynthHolders(y)) = 0
    BY <2>1, FS_EmptySet
  <2>. QED BY <2>1, <2>2 DEF SynthsAlive
<1>4. HandlesOwned
  BY <1>1 DEF HandlesOwned
<1>. QED BY <1>1, <1>2, <1>3, <1>4 DEF IInv

LEMMA NextIInv ==
    ASSUME TableAssumption, IInv, [Next]_vars
    PROVE  IInv'
<1>1. ASSUME NEW f \in Files, EAS_OpenFile(f) PROVE IInv'
  BY <1>1, OpenFileStep
<1>2. ASSUME NEW s \in Slots, EAS_Prepare(s) PROVE IInv'
  BY <1>2, PrepareStep
<1>3. ASSUME NEW s \in Slots, EAS_CloseFile(s) PROVE IInv'
  BY <1>3, CloseFileStep
<1>4. CASE EAS_OpenMIDIStream
  BY <1>4, OpenMIDIStreamStep
<1>5. ASSUME NEW s \in Slots, EAS_ShareMIDIStream(s) PROVE IInv'
  BY <1>5, ShareMIDIStreamStep
<1>6. ASSUME NEW s \in Slots, EAS_CloseMIDIStream(s) PROVE IInv'
  BY <1>6, CloseMIDIStreamStep
<1>7. ASSUME NEW s \in Slots, NEW c \in Collections, LoadIntoFile(s, c) \/ LoadIntoMIDI(s, c)
      PROVE  IInv'
  BY <1>7, LoadIntoFileStep, LoadIntoMIDIStep
<1>8. ASSUME NEW c \in Collections, LoadGlobal(c) PROVE IInv'
  BY <1>8, LoadGlobalStep
<1>9. CASE EAS_Shutdown
  BY <1>9, ShutdownStep
<1>10. CASE EAS_Init
  BY <1>10, SameStep DEF EAS_Init
<1>11. CASE UNCHANGED vars
  BY <1>11, SameStep DEF vars
<1>. QED BY <1>1, <1>2, <1>3, <1>4, <1>5, <1>6, <1>7, <1>8, <1>9, <1>10, <1>11 DEF Next

(***************************************************************************)
(* The theorems.                                                           *)
(***************************************************************************)

\* In every state that the host's calls reach, whatever the files and wherever
\* a prepare fails, the table, the counts of the synthesizers and the file
\* handles are as IInv says.
THEOREM TableInvariant == Spec => []IInv
<1>1. TableAssumption
  BY TableAssumption
<1>2. Init => IInv
  BY <1>1, InitIInv
<1>3. IInv /\ [Next]_vars => IInv'
  BY <1>1, NextIInv
<1>. QED BY <1>2, <1>3, PTL DEF Spec

\* VMIncRefCount and VMMIDIShutdown keep a reference for each stream that
\* points to a synthesizer, so that none of them plays on, or frees, one that
\* is gone, in whatever order the streams that share it are closed.
THEOREM SynthsOutliveStreams == Spec => []SynthsAlive
<1>1. IInv => SynthsAlive
  BY DEF IInv
<1>. QED BY <1>1, TableInvariant, PTL

\* A handle that SMF_ParseHeader gave to a track, or that the parser still has,
\* is open until SMF_Close closes it, and is closed once: no other track or
\* stream has it.
THEOREM HandlesClosedOnce == Spec => []HandlesAlive
<1>1. TableAssumption
  BY TableAssumption
<1>2. ASSUME IInv PROVE HandlesAlive
  <2>1. \A s \in Slots : SMF_Handles(streams[s]) \subseteq Owned(streams[s])
    <3>1. ASSUME NEW s \in Slots PROVE SMF_Handles(streams[s]) \subseteq Owned(streams[s])
      <4>1. 1 .. streams[s].numStreams \subseteq DOMAIN streams[s].tracks
        BY <1>2 DEF IInv, TableOK, StreamRecords, ShapeOK
      <4>. QED BY <4>1 DEF SMF_Handles, Owned
    <3>. QED BY <3>1
  <2>2. ASSUME NEW x \in Handles
        PROVE  Cardinality(HandleHolders(x)) <= (IF x \in open THEN 1 ELSE 0)
    <3>1. CASE HandleHolders(x) = {}
      BY <3>1, FS_EmptySet
    <3>2. CASE HandleHolders(x) # {}
      <4>1. PICK s \in HandleHolders(x) : TRUE
        BY <3>2
      <4>2. s \in Slots /\ x \in Owned(streams[s]) /\ x \in open
        BY <1>2, <2>1, <4>1 DEF HandleHolders, IInv, HandlesOwned
      <4>3. HandleHolders(x) = {s}
        BY <1>2, <2>1, <4>1, <4>2 DEF HandleHolders, IInv, HandlesOwned
      <4>. QED BY <4>2, <4>3, FS_Singleton
    <3>. QED BY <3>1, <3>2
  <2>3. ASSUME NEW s \in Slots, NEW i \in 1 .. streams[s].numStreams,
               streams[s].tracks[i] # NULL
        PROVE  /\ streams[s].tracks[i] # streams[s].handle
               /\ \A j \in 1 .. streams[s].numStreams :
                     streams[s].tracks[i] = streams[s].tracks[j] => i = j
    <3>1. 1 .. streams[s].numStreams \subseteq DOMAIN streams[s].tracks
      BY <1>2 DEF IInv, TableOK, StreamRecords, ShapeOK
    <3>2. Distinct(streams[s])
      BY <1>2 DEF IInv, HandlesOwned
    <3>. QED BY <2>3, <3>1, <3>2 DEF Distinct
  <2>. QED BY <2>2, <2>3 DEF HandlesAlive
<1>. QED BY <1>2, TableInvariant, PTL

-----------------------------------------------------------------------------
(* The counts of collections.  What a collection has in references beyond   *)
(* the synthesizers that point to it is what the streams and the global     *)
(* pointer may rely on.                                                     *)

\* Who points to a collection, of the synthesizers or of the streams.
DlsOf(I, f, c) == {i \in I : f[i].dls = c}
One(x, c) == IF x = c THEN 1 ELSE 0

\* From f to g only i changes.
OnlyAt(I, f, g, i) == \A j \in I \ {i} : g[j] = f[j]

Recount(I, f, g, i, c) ==
    /\ Cardinality(DlsOf(I, f, c)) \in Nat /\ Cardinality(DlsOf(I, g, c)) \in Nat
    /\ Cardinality(DlsOf(I, g, c)) =
          Cardinality(DlsOf(I, f, c)) - One(f[i].dls, c) + One(g[i].dls, c)

LEMMA PointersChange ==
    ASSUME NEW I, IsFiniteSet(I), NEW f, NEW g, NEW i \in I, NEW c, OnlyAt(I, f, g, i)
    PROVE  Recount(I, f, g, i, c)
<1> DEFINE F == DlsOf(I, f, c)
           G == DlsOf(I, g, c)
<1>. USE DEF OnlyAt, Recount
<1>1. IsFiniteSet(F) /\ IsFiniteSet(G)
  BY FS_Subset DEF DlsOf
<1>2. Cardinality(F) \in Nat /\ Cardinality(G) \in Nat
  BY <1>1, FS_CardinalityType
<1>3. CASE (g[i].dls = c) <=> (f[i].dls = c)
  <2>1. G = F
    BY <1>3 DEF DlsOf
  <2>. QED BY <1>2, <1>3, <2>1 DEF One
<1>4. CASE g[i].dls = c /\ f[i].dls # c
  <2>1. G = F \cup {i} /\ i \notin F
    BY <1>4 DEF DlsOf
  <2>2. Cardinality(G) = Cardinality(F) + 1
    BY <1>1, <2>1, FS_AddElement
  <2>. QED BY <1>2, <1>4, <2>2 DEF One
<1>5. CASE g[i].dls # c /\ f[i].dls = c
  <2>1. G = F \ {i} /\ i \in F
    BY <1>5 DEF DlsOf
  <2>2. Cardinality(G) = Cardinality(F) - 1
    BY <1>1, <2>1, FS_RemoveElement
  <2>. QED BY <1>2, <1>5, <2>2 DEF One
<1>. QED BY <1>3, <1>4, <1>5

Slack(h, c) == h.refs[c] - Cardinality(DlsOf(Synths, h.synths, c))

\* A heap whose counts can take n more references without wrapping.
Room(h, n) ==
    /\ HeapOK(h) /\ h.refs \in [Collections -> Nat]
    /\ \A c \in Collections : h.refs[c] + n < CountModulus

LEMMA SynthsFinite ==
    ASSUME TableAssumption
    PROVE  IsFiniteSet(Synths) /\ IsFiniteSet(Slots)
BY FS_Interval DEF TableAssumption, Slots, Synths

LEMMA SlackIs ==
    ASSUME TableAssumption, NEW h, h.refs \in [Collections -> Nat], NEW c \in Collections
    PROVE  Slack(h, c) \in Int /\ Cardinality(DlsOf(Synths, h.synths, c)) \in Nat
<1>1. IsFiniteSet(DlsOf(Synths, h.synths, c))
  BY SynthsFinite, FS_Subset DEF DlsOf
<1>2. Cardinality(DlsOf(Synths, h.synths, c)) \in Nat /\ h.refs[c] \in Nat
  BY <1>1, FS_CardinalityType
<1>. QED BY <1>2 DEF Slack

LEMMA AddRefs ==
    ASSUME TableAssumption, NEW n \in Nat, NEW h, Room(h, n + 1), NEW c \in DlsOrNull
    PROVE  /\ Room(DLSAddRef(h, c), n) /\ DLSAddRef(h, c).synths = h.synths
           /\ \A d \in Collections : DLSAddRef(h, c).refs[d] = h.refs[d] + One(c, d)
<1>1. CASE c = NULL
  BY <1>1 DEF DLSAddRef, Room, One, TableAssumption
<1>2. CASE c # NULL
  <2>1. c \in Collections /\ h.refs[c] \in Nat /\ h.refs[c] + 1 < CountModulus /\ CountModulus \in Nat
    BY <1>2 DEF DlsOrNull, Room, TableAssumption
  <2>2. (h.refs[c] + 1) % CountModulus = h.refs[c] + 1
    BY <2>1
  <2>3. DLSAddRef(h, c) = [h EXCEPT !.refs[c] = h.refs[c] + 1]
    BY <1>2, <2>2 DEF DLSAddRef
  <2>. QED BY <2>1, <2>3 DEF Room, HeapOK, One
<1>. QED BY <1>1, <1>2

LEMMA CleanupRefs ==
    ASSUME TableAssumption, NEW n \in Nat, NEW h, Room(h, n), NEW c \in DlsOrNull
    PROVE  /\ Room(DLSCleanup(h, c), n) /\ DLSCleanup(h, c).synths = h.synths
           /\ \A d \in Collections : /\ DLSCleanup(h, c).refs[d] <= h.refs[d]
                                     /\ DLSCleanup(h, c).refs[d] >= h.refs[d] - One(c, d)
           /\ \A d \in Collections :
                 h.refs[d] > 0 => DLSCleanup(h, c).refs[d] = h.refs[d] - One(c, d)
<1>1. CASE c = NULL \/ h.refs[c] = 0
  <2>1. DLSCleanup(h, c) = h
    BY <1>1 DEF DLSCleanup
  <2>2. \A d \in Collections : h.refs[d] \in Nat /\ d # NULL
    BY DEF Room, TableAssumption
  <2>. QED BY <1>1, <2>1, <2>2 DEF One
<1>2. CASE ~ (c = NULL \/ h.refs[c] = 0)
  <2>1. c \in Collections /\ h.refs[c] \in Nat /\ h.refs[c] # 0 /\ CountModulus \in Nat
    BY <1>2 DEF DlsOrNull, Room, TableAssumption
  <2>2. DLSCleanup(h, c) = [h EXCEPT !.refs[c] = h.refs[c] - 1]
    BY <1>2 DEF DLSCleanup
  <2>. QED BY <2>1, <2>2 DEF Room, HeapOK, One
<1>. QED BY <1>1, <1>2

LEMMA LoadRefs ==
    ASSUME TableAssumption, NEW n \in Nat, NEW h, Room(h, n), NEW c \in Collections,
           h.refs[c] = 0, n + 1 < CountModulus
    PROVE  /\ Room(Load(h, c), n) /\ Load(h, c).synths = h.synths
           /\ \A d \in Collections : Load(h, c).refs[d] = h.refs[d] + One(c, d)
BY DEF Load, Room, HeapOK, One, TableAssumption

\* A synthesizer that points elsewhere.
Points(h, g, y, d) ==
    Slack(g, d) = Slack(h, d) + (g.refs[d] - h.refs[d])
                  + One(h.synths[y].dls, d) - One(g.synths[y].dls, d)

LEMMA SynthPoints ==
    ASSUME TableAssumption, NEW h, NEW g, h.refs \in [Collections -> Nat],
           g.refs \in [Collections -> Nat], NEW y \in Synths,
           OnlyAt(Synths, h.synths, g.synths, y), NEW d \in Collections
    PROVE  Points(h, g, y, d)
<1> DEFINE F == Cardinality(DlsOf(Synths, h.synths, d))
           G == Cardinality(DlsOf(Synths, g.synths, d))
<1>0. IsFiniteSet(Synths)
  BY SynthsFinite
<1>1. Recount(Synths, h.synths, g.synths, y, d)
  BY <1>0, PointersChange
<1>4. F \in Nat /\ G \in Nat /\ G = F - One(h.synths[y].dls, d) + One(g.synths[y].dls, d)
  BY Zenon, <1>1 DEF Recount
<1>2. Slack(h, d) = h.refs[d] - F /\ Slack(g, d) = g.refs[d] - G
  BY DEF Slack
<1>3. h.refs[d] \in Nat /\ g.refs[d] \in Nat
  OBVIOUS
<1>. HIDE DEF F, G
<1>. QED BY <1>2, <1>3, <1>4 DEF One, Points

\* The same where none does.
LEMMA SynthsPoint ==
    ASSUME TableAssumption, NEW h, NEW g, h.refs \in [Collections -> Nat],
           g.refs \in [Collections -> Nat], NEW d \in Collections,
           \A z \in Synths : g.synths[z].dls = h.synths[z].dls
    PROVE  Slack(g, d) = Slack(h, d) + (g.refs[d] - h.refs[d])
<1>1. DlsOf(Synths, g.synths, d) = DlsOf(Synths, h.synths, d)
  BY DEF DlsOf
<1>2. Cardinality(DlsOf(Synths, h.synths, d)) \in Nat /\ h.refs[d] \in Nat /\ g.refs[d] \in Nat
  BY SlackIs
<1>. QED BY <1>1, <1>2 DEF Slack

\* What changes a heap leaves each collection with at least the slack it had.
NoLess(h, g) == \A d \in Collections : Slack(g, d) >= Slack(h, d)
SameSlack(h, g) == \A d \in Collections : Slack(g, d) = Slack(h, d)

LEMMA ShareSlack ==
    ASSUME TableAssumption, NEW n \in Nat, NEW h, Room(h, n + 1), NEW y,
           NEW c \in DlsOrNull
    PROVE  /\ Room(Share(h, y, c), n) /\ NoLess(h, Share(h, y, c))
           /\ y \in Synths => Share(h, y, c).synths[y].dls = c
           /\ y \in Synths /\ h.synths[y].dls = NULL => SameSlack(h, Share(h, y, c))
<1> DEFINE g == VMSetDLSLib(h, y, c)
           k == DLSAddRef(g, c)
<1>1. /\ DOMAIN h = {"synths", "refs", "open"} /\ h.refs \in [Collections -> Nat]
      /\ h.synths \in [Synths -> SynthRecords]
  BY DEF Room, HeapOK
<1>2. /\ HeapOK(g) /\ g.refs = h.refs
      /\ y \in Synths => g.synths[y].dls = c
      /\ \A z \in Synths \ {y} : g.synths[z] = h.synths[z]
  <2>1. HeapOK(g)
    BY VMSetDLSLibSame DEF SameCounts, Room
  <2>2. g.refs = h.refs /\ g.synths = [h.synths EXCEPT ![y].dls = c]
    BY <1>1 DEF VMSetDLSLib
  <2>3. y \in Synths => g.synths[y].dls = c
    BY <1>1, <2>2 DEF SynthRecords
  <2>4. \A z \in Synths \ {y} : g.synths[z] = h.synths[z]
    BY <1>1, <2>2
  <2>. QED BY <2>1, <2>2, <2>3, <2>4
<1>. HIDE DEF g
<1>3. Room(g, n + 1)
  BY <1>2 DEF Room
<1>4. /\ Room(k, n) /\ k.synths = g.synths
      /\ \A d \in Collections : k.refs[d] = g.refs[d] + One(c, d)
  BY <1>3, AddRefs
<1>. HIDE DEF k
<1>5. k.refs \in [Collections -> Nat]
  BY <1>4 DEF Room
<1>7. ASSUME NEW d \in Collections, y \notin Synths PROVE Slack(k, d) >= Slack(h, d)
  <2>1. \A z \in Synths : k.synths[z].dls = h.synths[z].dls
    BY <1>2, <1>4, <1>7
  <2>2. Slack(k, d) = Slack(h, d) + (k.refs[d] - h.refs[d])
    BY <1>1, <1>5, <2>1, SynthsPoint
  <2>3. k.refs[d] = h.refs[d] + One(c, d)
    BY <1>2, <1>4
  <2>4. Slack(h, d) \in Int /\ h.refs[d] \in Nat
    BY <1>1, SlackIs
  <2>. QED BY <2>2, <2>3, <2>4 DEF One
<1>6. ASSUME NEW d \in Collections, y \in Synths
      PROVE  /\ Slack(k, d) >= Slack(h, d)
             /\ h.synths[y].dls = NULL => Slack(k, d) = Slack(h, d)
  <2>0. OnlyAt(Synths, h.synths, k.synths, y)
    BY <1>2, <1>4, <1>6 DEF OnlyAt
  <2>1. Points(h, k, y, d)
    BY <1>1, <1>5, <1>6, <2>0, SynthPoints
  <2>2. k.refs[d] = h.refs[d] + One(c, d) /\ k.synths[y].dls = c
    BY <1>2, <1>4, <1>6
  <2>3. Slack(h, d) \in Int /\ h.refs[d] \in Nat
    BY <1>1, SlackIs
  <2>4. NULL # d
    BY DEF TableAssumption
  <2>. QED BY <2>1, <2>2, <2>3, <2>4 DEF One, Points
<1>. QED BY <1>2, <1>4, <1>6, <1>7 DEF NoLess, SameSlack, Share, k, g

LEMMA InitSlack ==
    ASSUME TableAssumption, NEW n \in Nat, NEW h, Room(h, n + 1), NEW y \in Synths,
           globalDLS \in DlsOrNull
    PROVE  /\ Room(VMInitMIDI(h, y), n) /\ NoLess(h, VMInitMIDI(h, y))
           /\ h.synths[y].dls = NULL => SameSlack(h, VMInitMIDI(h, y))
           /\ \A d \in Collections : VMInitMIDI(h, y).refs[d] >= h.refs[d]
<1> DEFINE k == DLSAddRef(h, globalDLS)
           g == [k EXCEPT !.synths[y] = [refs |-> 1, dls |-> globalDLS]]
<1>1. h.refs \in [Collections -> Nat] /\ h.synths \in [Synths -> SynthRecords]
  BY DEF Room, HeapOK
<1>2. /\ Room(k, n) /\ k.synths = h.synths
      /\ \A d \in Collections : k.refs[d] = h.refs[d] + One(globalDLS, d)
  BY AddRefs
<1>. HIDE DEF k
<1>3. /\ HeapOK(g) /\ g.refs = k.refs /\ g.synths[y].dls = globalDLS
      /\ \A z \in Synths \ {y} : g.synths[z] = h.synths[z]
  BY <1>1, <1>2 DEF Room, HeapOK, SynthRecords
<1>4. VMInitMIDI(h, y) = g
  BY DEF VMInitMIDI, k
<1>. HIDE DEF g
<1>5. g.refs \in [Collections -> Nat] /\ Room(g, n)
  BY <1>2, <1>3 DEF Room
<1>6. ASSUME NEW d \in Collections
      PROVE  /\ Slack(g, d) >= Slack(h, d) /\ g.refs[d] >= h.refs[d]
             /\ h.synths[y].dls = NULL => Slack(g, d) = Slack(h, d)
  <2>0. OnlyAt(Synths, h.synths, g.synths, y)
    BY <1>3 DEF OnlyAt
  <2>1. Points(h, g, y, d)
    BY <1>1, <1>5, <2>0, SynthPoints
  <2>2. g.refs[d] = h.refs[d] + One(globalDLS, d)
    BY <1>2, <1>3
  <2>3. Slack(h, d) \in Int /\ h.refs[d] \in Nat /\ NULL # d
    BY <1>1, SlackIs DEF TableAssumption
  <2>. QED BY <1>3, <2>1, <2>2, <2>3 DEF One, Points
<1>. QED BY <1>4, <1>5, <1>6 DEF NoLess, SameSlack

\* A synthesizer gives its collection back with its last reference.
LEMMA ShutdownSlack ==
    ASSUME TableAssumption, NEW n \in Nat, NEW h, Room(h, n), NEW y \in Synths
    PROVE  /\ Room(VMMIDIShutdown(h, y), n) /\ NoLess(h, VMMIDIShutdown(h, y))
           /\ \A d \in Collections : VMMIDIShutdown(h, y).refs[d] <= h.refs[d]
           /\ (\A d \in Collections : Slack(h, d) >= 0) => SameSlack(h, VMMIDIShutdown(h, y))
<1>1. /\ DOMAIN h = {"synths", "refs", "open"} /\ h.refs \in [Collections -> Nat]
      /\ h.synths \in [Synths -> SynthRecords]
  BY DEF Room, HeapOK
<1>2. \A d \in Collections : Slack(h, d) \in Int /\ h.refs[d] \in Nat
  BY <1>1, SlackIs
<1>3. CASE h.synths[y].refs > 1
  <2> DEFINE g == [h EXCEPT !.synths[y].refs = @ - 1]
  <2>1. g = VMMIDIShutdown(h, y)
    BY <1>3 DEF VMMIDIShutdown
  <2>2. HeapOK(g) /\ g.refs = h.refs /\ \A z \in Synths : g.synths[z].dls = h.synths[z].dls
    BY <1>1, <1>3 DEF HeapOK, SynthRecords
  <2>. HIDE DEF g
  <2>3. Room(g, n)
    BY <2>2 DEF Room
  <2>4. \A d \in Collections : Slack(g, d) = Slack(h, d) + (g.refs[d] - h.refs[d])
    BY <1>1, <2>2, SynthsPoint
  <2>. QED BY <1>2, <2>1, <2>2, <2>3, <2>4 DEF NoLess, SameSlack
<1>4. CASE ~ (h.synths[y].refs > 1)
  <2> DEFINE k == [h EXCEPT !.synths[y] = NoSynth]
             c == h.synths[y].dls
             g == DLSCleanup(k, c)
  <2>1. g = VMMIDIShutdown(h, y)
    BY <1>4 DEF VMMIDIShutdown
  <2>2. /\ HeapOK(k) /\ k.refs = h.refs /\ k.synths[y].dls = NULL
        /\ \A z \in Synths \ {y} : k.synths[z] = h.synths[z]
    BY <1>1 DEF HeapOK, SynthRecords, NoSynth, DlsOrNull
  <2>3. c \in DlsOrNull
    BY <1>1 DEF SynthRecords
  <2>. HIDE DEF k, c
  <2>4. Room(k, n)
    BY <2>2 DEF Room
  <2>5. /\ Room(g, n) /\ g.synths = k.synths
        /\ \A d \in Collections : g.refs[d] <= k.refs[d] /\ g.refs[d] >= k.refs[d] - One(c, d)
        /\ \A d \in Collections : k.refs[d] > 0 => g.refs[d] = k.refs[d] - One(c, d)
    BY <2>3, <2>4, CleanupRefs
  <2>. HIDE DEF g
  <2>6. g.refs \in [Collections -> Nat]
    BY <2>5 DEF Room
  <2>7. ASSUME NEW d \in Collections
        PROVE  Slack(g, d) >= Slack(h, d) /\ (Slack(h, d) >= 0 => Slack(g, d) = Slack(h, d))
    <3>0. OnlyAt(Synths, h.synths, g.synths, y)
      BY <2>2, <2>5 DEF OnlyAt
    <3>1. Points(h, g, y, d)
      BY <1>1, <2>6, <3>0, SynthPoints
    <3>2. One(g.synths[y].dls, d) = 0 /\ g.refs[d] >= h.refs[d] - One(c, d) /\ One(c, d) \in Nat
      BY <2>2, <2>5 DEF One, TableAssumption
    <3>3. Slack(h, d) \in Int /\ h.refs[d] \in Nat /\ g.refs[d] \in Nat /\ One(c, d) = One(h.synths[y].dls, d)
      BY <1>2, <2>6 DEF c
    <3>4. c = d /\ Slack(h, d) >= 0 => h.refs[d] > 0
      <4>1. c = d => y \in DlsOf(Synths, h.synths, d)
        BY DEF c, DlsOf
      <4>2. DlsOf(Synths, h.synths, d) # {} => Cardinality(DlsOf(Synths, h.synths, d)) # 0
        BY SynthsFinite, FS_Subset, FS_EmptySet DEF DlsOf
      <4>3. Cardinality(DlsOf(Synths, h.synths, d)) \in Nat
        BY <1>1, SlackIs
      <4>. QED BY <3>3, <4>1, <4>2, <4>3 DEF Slack
    <3>5. c # d => One(c, d) = 0 /\ g.refs[d] <= h.refs[d]
      BY <2>2, <2>5 DEF One
    <3>6. h.refs[d] > 0 => g.refs[d] = h.refs[d] - One(c, d)
      BY <2>2, <2>5
    <3>. QED BY <3>1, <3>2, <3>3, <3>4, <3>5, <3>6 DEF Points
  <2>. QED BY <2>1, <2>2, <2>5, <2>7 DEF NoLess, SameSlack
<1>. QED BY <1>3, <1>4

(* A prepare: what a stream points to has the slack it needs.              *)

Balanced(r, h, p, g) ==
    \A c \in Collections : Slack(g, c) - One(p.dls, c) >= Slack(h, c) - One(r.dls, c)

LEMMA BalancedTwice ==
    ASSUME TableAssumption, NEW r, NEW h, NEW p, NEW g, NEW q, NEW k,
           Room(h, 0), Room(g, 0), Room(k, 0), Balanced(r, h, p, g), Balanced(p, g, q, k)
    PROVE  Balanced(r, h, q, k)
<1>. SUFFICES ASSUME NEW c \in Collections
              PROVE  Slack(k, c) - One(q.dls, c) >= Slack(h, c) - One(r.dls, c)
  BY DEF Balanced
<1>1. Slack(h, c) \in Int /\ Slack(g, c) \in Int /\ Slack(k, c) \in Int
  BY SlackIs DEF Room
<1>2. Slack(g, c) - One(p.dls, c) >= Slack(h, c) - One(r.dls, c)
  BY DEF Balanced
<1>3. Slack(k, c) - One(q.dls, c) >= Slack(g, c) - One(p.dls, c)
  BY DEF Balanced
<1>4. One(p.dls, c) \in Int /\ One(q.dls, c) \in Int /\ One(r.dls, c) \in Int
  BY DEF One
<1>. QED BY <1>1, <1>2, <1>3, <1>4

LEMMA NoLessBalanced ==
    ASSUME TableAssumption, NEW r, NEW h, NEW p, NEW g, Room(h, 0), Room(g, 0),
           NoLess(h, g), p.dls = r.dls
    PROVE  Balanced(r, h, p, g)
<1>. SUFFICES ASSUME NEW c \in Collections
              PROVE  Slack(g, c) - One(p.dls, c) >= Slack(h, c) - One(r.dls, c)
  BY DEF Balanced
<1>1. Slack(h, c) \in Int /\ Slack(g, c) \in Int
  BY SlackIs DEF Room
<1>2. Slack(g, c) >= Slack(h, c)
  BY DEF NoLess
<1>. QED BY <1>1, <1>2 DEF One

LEMMA RoomLess ==
    ASSUME TableAssumption, NEW n \in Nat, NEW m \in Nat, n <= m, NEW h, Room(h, m)
    PROVE  Room(h, n)
<1>1. \A c \in Collections : h.refs[c] \in Nat /\ h.refs[c] + m < CountModulus
  BY DEF Room
<1>2. \A c \in Collections : h.refs[c] + n < CountModulus
  BY <1>1 DEF TableAssumption
<1>. QED BY <1>2 DEF Room

LEMMA SMFBalanced ==
    ASSUME TableAssumption, globalDLS \in DlsOrNull, NEW n \in Nat, NEW r, NEW h, Fits(r, h),
           IsSong(r), Room(h, n + 1), NEW o \in SMF_Prepare(r, h)
    PROVE  Room(o.heap, n) /\ Balanced(r, h, o.stream, o.heap)
<1>0. Room(h, n) /\ Room(h, 0)
  BY RoomLess
<1>1. CASE FreeSynths(h) = {}
  <2> DEFINE p == [r EXCEPT !.synth = NULL]
  <2>1. o = Outcome(p, h, "failure")
    BY <1>1 DEF SMF_Prepare
  <2>2. p.dls = r.dls
    BY DEF Fits, StreamRecords
  <2>3. o.stream = p /\ o.heap = h
    BY <2>1 DEF Outcome
  <2>. HIDE DEF p
  <2>4. NoLess(h, h)
    BY SlackIs DEF NoLess, Room
  <2>. QED BY <1>0, <2>2, <2>3, <2>4, NoLessBalanced
<1>2. CASE FreeSynths(h) # {}
  <2> DEFINE y == Min(FreeSynths(h))
             g == VMInitMIDI(h, y)
  <2>1. y \in Synths /\ h.synths[y].refs = 0
    BY <1>2, FreeSynthIsSynth
  <2>2. PICK q \in SMF_ParseHeader(r, g) :
           o = Outcome([q.stream EXCEPT !.synth = y,
                                        !.state = IF q.result = "success" THEN "READY" ELSE r.state],
                       q.heap, q.result)
    BY <1>2, Zenon DEF SMF_Prepare
  <2>. HIDE DEF y, g
  <2>3. NewSynth(h, g, y)
    BY <2>1, VMInitMIDINew DEF Fits, g
  <2>4. Fits(r, g)
    BY <2>3 DEF Fits, NewSynth
  <2>5. /\ q.stream \in StreamRecords /\ HeapOK(q.heap) /\ q.stream.dls = r.dls
        /\ q.heap.synths = g.synths /\ q.heap.refs = g.refs
    BY <2>4, ParseHeaderKeeps DEF IsSong, Keeps, Fits
  <2>6. Room(g, n) /\ NoLess(h, g)
    BY <2>1, InitSlack DEF g
  <2> DEFINE state == IF q.result = "success" THEN "READY" ELSE r.state
             p == [q.stream EXCEPT !.synth = y, !.state = state]
  <2>. HIDE DEF state
  <2>7. p.dls = r.dls /\ p.synth = y
    BY <2>5 DEF StreamRecords
  <2>8. o.stream = p /\ o.heap = q.heap
    BY <2>2 DEF Outcome, state
  <2>. HIDE DEF p
  <2>9. Room(q.heap, n) /\ Room(q.heap, 0)
    BY <2>5, <2>6, RoomLess DEF Room
  <2>10. NoLess(h, q.heap)
    BY <2>5, <2>6 DEF NoLess, Slack
  <2>. QED BY <1>0, <2>1, <2>7, <2>8, <2>9, <2>10, NoLessBalanced
<1>. QED BY <1>1, <1>2

LEMMA ParseDLSBalanced ==
    ASSUME TableAssumption, NEW n \in Nat, n + 1 < CountModulus, NEW r, NEW h, Fits(r, h),
           Room(h, n), NEW o \in ParseDLS(r, h)
    PROVE  Room(o.heap, n) /\ Balanced(r, h, o.stream, o.heap)
<1>1. \A c \in Collections : Slack(h, c) \in Int /\ h.refs[c] \in Nat
  BY SlackIs DEF Room
<1> DEFINE stray == (r.handle = NULL)
           Moved(c) == [r EXCEPT !.dls = c, !.stray = stray]
<1>2. ASSUME NEW c PROVE Moved(c).dls = c
  BY DEF Fits, StreamRecords
<1>3. \/ o = Outcome(Moved(NULL), h, "failure")
      \/ \E c \in FreeCollections(h) :
            o = Outcome([Moved(NULL) EXCEPT !.dls = c], Load(h, c), "success")
  BY Zenon DEF ParseDLS
<1>4. CASE o = Outcome(Moved(NULL), h, "failure")
  <2>1. o.stream = Moved(NULL) /\ o.heap = h
    BY <1>4 DEF Outcome
  <2>2. o.stream.dls = NULL
    BY <1>2, <2>1
  <2>3. \A c \in Collections : Slack(h, c) - One(NULL, c) >= Slack(h, c) - One(r.dls, c)
    BY <1>1 DEF One, TableAssumption
  <2>. QED BY <2>1, <2>2, <2>3 DEF Balanced
<1>5. CASE \E c \in FreeCollections(h) :
              o = Outcome([Moved(NULL) EXCEPT !.dls = c], Load(h, c), "success")
  <2>1. PICK c \in FreeCollections(h) :
           o = Outcome([Moved(NULL) EXCEPT !.dls = c], Load(h, c), "success")
    BY <1>5
  <2>2. [Moved(NULL) EXCEPT !.dls = c] = Moved(c)
    BY DEF Fits, StreamRecords
  <2>3. o.stream = Moved(c) /\ o.heap = Load(h, c)
    BY <2>1, <2>2 DEF Outcome
  <2>4. o.stream.dls = c
    BY <1>2, <2>3
  <2>5. c \in Collections /\ h.refs[c] = 0
    BY DEF FreeCollections
  <2> DEFINE g == Load(h, c)
  <2>6. /\ Room(g, n) /\ g.synths = h.synths
        /\ \A d \in Collections : g.refs[d] = h.refs[d] + One(c, d)
    BY <2>5, LoadRefs
  <2>. HIDE DEF g
  <2>7. ASSUME NEW d \in Collections PROVE Slack(g, d) - One(c, d) >= Slack(h, d) - One(r.dls, d)
    <3>1. Slack(g, d) = Slack(h, d) + (g.refs[d] - h.refs[d])
      BY <2>6, SynthsPoint DEF Room
    <3>. QED BY <1>1, <2>6, <3>1 DEF One
  <2>. QED BY <2>3, <2>4, <2>6, <2>7 DEF Balanced, g
<1>. QED BY <1>3, <1>4, <1>5

LEMMA AttachBalanced ==
    ASSUME TableAssumption, NEW n \in Nat, NEW o, Fits(o.stream, o.heap),
           Room(o.heap, n + 1)
    PROVE  /\ Room(Attach(o).heap, n)
           /\ Balanced(o.stream, o.heap, Attach(o).stream, Attach(o).heap)
<1>1. o.stream.dls \in DlsOrNull
  BY DEF Fits, StreamRecords
<1> DEFINE g == Share(o.heap, o.stream.synth, o.stream.dls)
<1>2. Room(g, n) /\ NoLess(o.heap, g)
  BY <1>1, ShareSlack
<1>3. Attach(o).stream = o.stream /\ Attach(o).heap = g
  BY DEF Attach, Outcome
<1>. HIDE DEF g
<1>4. Room(g, 0) /\ Room(o.heap, 0)
  BY <1>2, RoomLess
<1>5. Balanced(o.stream, o.heap, o.stream, g)
  BY <1>2, <1>4, NoLessBalanced
<1>. QED BY <1>2, <1>3, <1>5

LEMMA XMFBalanced ==
    ASSUME TableAssumption, globalDLS \in DlsOrNull, 3 < CountModulus, NEW r, NEW h, Fits(r, h),
           IsSong(r), Room(h, 2), NEW o \in XMF_Prepare(r, h)
    PROVE  Room(o.heap, 0) /\ Balanced(r, h, o.stream, o.heap)
<1>0. Room(h, 1) /\ Room(h, 0)
  BY RoomLess
<1>1. CASE ~ r.file.dls
  <2>1. o \in SMF_Prepare(r, h)
    BY <1>1 DEF XMF_Prepare
  <2>. QED BY <1>0, <2>1, SMFBalanced
<1>2. CASE r.file.dls
  <2> DEFINE Song(p) == {IF q.result = "success" THEN Attach(q) ELSE q :
                            q \in SMF_Prepare(p.stream, p.heap)}
  <2>1. PICK p \in ParseDLS(r, h) : o \in IF p.result = "failure" THEN {p} ELSE Song(p)
    BY <1>2 DEF XMF_Prepare
  <2>2. Keeps(r, h, p.stream, p.heap)
    BY ParseDLSKeeps
  <2>3. Room(p.heap, 2) /\ Balanced(r, h, p.stream, p.heap)
    BY ParseDLSBalanced
  <2>4. Room(p.heap, 1) /\ Room(p.heap, 0)
    BY <2>3, RoomLess
  <2>5. CASE p.result = "failure"
    BY <2>1, <2>3, <2>4, <2>5
  <2>6. CASE p.result # "failure"
    <3>1. PICK q \in SMF_Prepare(p.stream, p.heap) :
             o = IF q.result = "success" THEN Attach(q) ELSE q
      <4>1. o \in Song(p)
        BY <2>1, <2>6
      <4>. QED BY <4>1, Zenon
    <3>2. Fits(p.stream, p.heap) /\ IsSong(p.stream)
      BY <2>2 DEF Keeps, IsSong
    <3>3. Fits(q.stream, q.heap)
      BY <3>2, SMFPrepareKeeps DEF Keeps
    <3>4. Room(q.heap, 1) /\ Balanced(p.stream, p.heap, q.stream, q.heap)
      BY <2>3, <3>2, SMFBalanced
    <3>5. Room(q.heap, 0)
      BY <3>4, RoomLess
    <3>6. Balanced(r, h, q.stream, q.heap)
      BY <1>0, <2>3, <2>4, <3>4, <3>5, BalancedTwice
    <3>7. CASE q.result # "success"
      BY <3>1, <3>5, <3>6, <3>7
    <3>8. CASE q.result = "success"
      <4>1. /\ Room(Attach(q).heap, 0)
            /\ Balanced(q.stream, q.heap, Attach(q).stream, Attach(q).heap)
        BY <3>3, <3>4, <3>8, AttachBalanced
      <4>2. Balanced(r, h, Attach(q).stream, Attach(q).heap)
        BY <1>0, <3>5, <3>6, <4>1, BalancedTwice
      <4>. QED BY <3>1, <3>8, <4>1, <4>2
    <3>. QED BY <3>7, <3>8
  <2>. QED BY <2>5, <2>6
<1>. QED BY <1>1, <1>2

LEMMA RMIDBalanced ==
    ASSUME TableAssumption, globalDLS \in DlsOrNull, 3 < CountModulus, NEW r, NEW h, Fits(r, h),
           IsSong(r), Room(h, 2), NEW o \in RMID_Prepare(r, h)
    PROVE  Room(o.heap, 0) /\ Balanced(r, h, o.stream, o.heap)
<1> DEFINE Loaded(q) ==
              {IF p.result = "failure" THEN Outcome(p.stream, p.heap, "success") ELSE Attach(p) :
                  p \in ParseDLS(q.stream, q.heap)}
<1>0. Room(h, 0)
  BY RoomLess
<1>1. PICK q \in SMF_Prepare(r, h) :
         o \in IF q.result # "success" \/ ~r.file.dls THEN {q} ELSE Loaded(q)
  BY DEF RMID_Prepare
<1>2. Fits(q.stream, q.heap)
  BY SMFPrepareKeeps DEF Keeps
<1>3. Room(q.heap, 1) /\ Balanced(r, h, q.stream, q.heap)
  BY SMFBalanced
<1>4. Room(q.heap, 0)
  BY <1>3, RoomLess
<1>5. CASE q.result # "success" \/ ~r.file.dls
  BY <1>1, <1>3, <1>4, <1>5
<1>6. CASE ~ (q.result # "success" \/ ~r.file.dls)
  <2>1. PICK p \in ParseDLS(q.stream, q.heap) :
           o = IF p.result = "failure" THEN Outcome(p.stream, p.heap, "success") ELSE Attach(p)
    <3>1. o \in Loaded(q)
      BY <1>1, <1>6
    <3>. QED BY <3>1, Zenon
  <2>2. Fits(p.stream, p.heap)
    BY <1>2, ParseDLSKeeps DEF Keeps
  <2>3. Room(p.heap, 1) /\ Balanced(q.stream, q.heap, p.stream, p.heap)
    BY <1>2, <1>3, ParseDLSBalanced
  <2>4. Room(p.heap, 0)
    BY <2>3, RoomLess
  <2>5. Balanced(r, h, p.stream, p.heap)
    BY <1>0, <1>3, <1>4, <2>3, <2>4, BalancedTwice
  <2>6. CASE p.result = "failure"
    <3>1. o.stream = p.stream /\ o.heap = p.heap
      BY <2>1, <2>6 DEF Outcome
    <3>. QED BY <2>4, <2>5, <3>1
  <2>7. CASE p.result # "failure"
    <3>1. /\ Room(Attach(p).heap, 0)
          /\ Balanced(p.stream, p.heap, Attach(p).stream, Attach(p).heap)
      BY <2>2, <2>3, AttachBalanced
    <3>2. Balanced(r, h, Attach(p).stream, Attach(p).heap)
      BY <1>0, <2>4, <2>5, <3>1, BalancedTwice
    <3>. QED BY <2>1, <2>7, <3>1, <3>2
  <2>. QED BY <2>6, <2>7
<1>. QED BY <1>5, <1>6

LEMMA PrepareBalanced ==
    ASSUME TableAssumption, globalDLS \in DlsOrNull, 3 < CountModulus, NEW r, NEW h, Fits(r, h),
           r.file.format \in FileFormats, Room(h, 2), NEW o \in Prepare(r, h)
    PROVE  Room(o.heap, 0) /\ Balanced(r, h, o.stream, o.heap)
<1>1. IsSong(r)
  BY DEF Fits, ShapeOK, IsSong, FileFormats
<1>2. CASE r.file.format = "smf"
  <2>1. o \in SMF_Prepare(r, h)
    BY <1>2 DEF Prepare
  <2>2. Room(h, 1)
    BY RoomLess
  <2>. QED BY <1>1, <2>1, <2>2, SMFBalanced
<1>3. CASE r.file.format = "xmf"
  BY <1>1, <1>3, XMFBalanced DEF Prepare
<1>4. CASE r.file.format = "rmid"
  BY <1>1, <1>4, RMIDBalanced DEF Prepare
<1>. QED BY <1>2, <1>3, <1>4 DEF FileFormats

(* A close gives back what the stream points to.                           *)

LEMMA CloseBalanced ==
    ASSUME TableAssumption, NEW n \in Nat, NEW r \in StreamRecords, NEW h, Room(h, n)
    PROVE  /\ Room(Close(r, h), n)
           /\ \A d \in Collections : Close(r, h).refs[d] <= h.refs[d]
           /\ \A d \in Collections : Slack(Close(r, h), d) >= Slack(h, d) - One(r.dls, d)
           /\ (\A d \in Collections : Slack(h, d) >= One(r.dls, d)) =>
                 \A d \in Collections : Slack(Close(r, h), d) = Slack(h, d) - One(r.dls, d)
<1> DEFINE g == [h EXCEPT !.open = @ \ SMF_Handles(r)]
           k == SMF_Close(r, h)
           m == Close(r, h)
<1>1. HeapOK(g) /\ g.refs = h.refs /\ g.synths = h.synths
  BY DEF Room, HeapOK
<1>2. k = IF r.synth = NULL THEN g ELSE VMMIDIShutdown(g, r.synth)
  BY DEF SMF_Close
<1>3. \A d \in Collections : Slack(h, d) \in Int /\ h.refs[d] \in Nat
  BY SlackIs DEF Room
<1>. HIDE DEF g, k
<1>4. Room(g, n) /\ \A d \in Collections : Slack(g, d) = Slack(h, d)
  BY <1>1 DEF Room, Slack
<1>5. /\ Room(k, n) /\ \A d \in Collections : k.refs[d] <= h.refs[d]
      /\ \A d \in Collections : Slack(k, d) >= Slack(h, d)
      /\ (\A d \in Collections : Slack(h, d) >= 0) =>
            \A d \in Collections : Slack(k, d) = Slack(h, d)
  <2>1. CASE r.synth = NULL
    BY <1>1, <1>2, <1>3, <1>4, <2>1
  <2>2. CASE r.synth # NULL
    <3>1. r.synth \in Synths
      BY <2>2 DEF StreamRecords
    <3>2. k = VMMIDIShutdown(g, r.synth)
      BY <1>2, <2>2
    <3>. QED BY <1>1, <1>4, <3>1, <3>2, ShutdownSlack DEF NoLess, SameSlack
  <2>. QED BY <2>1, <2>2
<1>6. m = DLSCleanup(k, r.dls) /\ r.dls \in DlsOrNull
  BY DEF Close, k, StreamRecords
<1>. HIDE DEF m
<1>7. /\ Room(m, n) /\ m.synths = k.synths
      /\ \A d \in Collections : m.refs[d] <= k.refs[d] /\ m.refs[d] >= k.refs[d] - One(r.dls, d)
      /\ \A d \in Collections : k.refs[d] > 0 => m.refs[d] = k.refs[d] - One(r.dls, d)
  BY <1>5, <1>6, CleanupRefs
<1>8. ASSUME NEW d \in Collections
      PROVE  /\ m.refs[d] <= h.refs[d] /\ Slack(m, d) >= Slack(h, d) - One(r.dls, d)
             /\ Slack(k, d) = Slack(h, d) /\ Slack(h, d) >= One(r.dls, d) =>
                   Slack(m, d) = Slack(h, d) - One(r.dls, d)
  <2>1. k.refs \in [Collections -> Nat] /\ m.refs \in [Collections -> Nat]
    BY <1>5, <1>7 DEF Room
  <2>2. Slack(m, d) = Slack(k, d) + (m.refs[d] - k.refs[d])
    BY <1>7, <2>1, SynthsPoint
  <2>3. Slack(k, d) \in Int /\ k.refs[d] \in Nat /\ m.refs[d] \in Nat /\ One(r.dls, d) \in Nat
    BY <2>1, SlackIs DEF One
  <2>4. /\ k.refs[d] <= h.refs[d] /\ Slack(k, d) >= Slack(h, d)
        /\ m.refs[d] <= k.refs[d] /\ m.refs[d] >= k.refs[d] - One(r.dls, d)
    BY <1>5, <1>7
  <2>5. Slack(k, d) >= One(r.dls, d) => m.refs[d] = k.refs[d] - One(r.dls, d)
    <3>1. Slack(k, d) = k.refs[d] - Cardinality(DlsOf(Synths, k.synths, d))
          /\ Cardinality(DlsOf(Synths, k.synths, d)) \in Nat
      BY <2>1, SlackIs DEF Slack
    <3>2. CASE k.refs[d] > 0
      BY <1>7, <3>2
    <3>3. CASE ~ (k.refs[d] > 0)
      <4>1. k.refs[d] = 0 /\ m.refs[d] = 0
        BY <2>3, <2>4, <3>3
      <4>2. Slack(k, d) >= One(r.dls, d) => One(r.dls, d) = 0
        BY <2>3, <3>1, <4>1
      <4>. QED BY <4>1, <4>2
    <3>. QED BY <3>2, <3>3
  <2>. QED BY <1>3, <2>2, <2>3, <2>4, <2>5
<1>9. (\A d \in Collections : Slack(h, d) >= One(r.dls, d)) =>
         \A d \in Collections : Slack(h, d) >= 0
  BY <1>3 DEF One
<1>. QED BY <1>5, <1>7, <1>8, <1>9 DEF m

(* The steps, for the collections.                                         *)

\* The references of the streams and of the global pointer are there.
AliveIn(st, h, gl) ==
    \A c \in Collections : Slack(h, c) >= Cardinality(DlsOf(Slots, st, c)) + One(gl, c)

CollInv == refs \in [Collections -> 0 .. MaxRefs] /\ CollectionsAlive

LEMMA CollNow ==
    ASSUME TableAssumption, IInv, CollInv, MaxRefs + 3 < CountModulus
    PROVE  /\ Room(heap, 3) /\ Room(heap, 0) /\ AliveIn(streams, heap, globalDLS)
           /\ heap.refs = refs /\ heap.synths = synths /\ 3 < CountModulus
           /\ globalDLS \in DlsOrNull
<1>1. /\ HeapOK(heap) /\ heap.refs = refs /\ heap.synths = synths /\ globalDLS \in DlsOrNull
      /\ MaxRefs \in Nat /\ CountModulus \in Nat
  BY HeapIsOK DEF IInv, heap, TableOK, TableAssumption
<1>2. \A c \in Collections : refs[c] \in Nat /\ refs[c] + 3 < CountModulus
  BY <1>1 DEF CollInv
<1>3. refs \in [Collections -> Nat]
  BY <1>1, <1>2 DEF CollInv
<1>4. Room(heap, 3)
  BY <1>1, <1>2, <1>3 DEF Room
<1>5. ASSUME NEW c \in Collections
      PROVE  Slack(heap, c) >= Cardinality(DlsOf(Slots, streams, c)) + One(globalDLS, c)
  <2>1. refs[c] >= Cardinality(DlsOf(Synths, synths, c)) + Cardinality(DlsOf(Slots, streams, c))
                   + One(globalDLS, c)
    BY DEF CollInv, CollectionsAlive, CollectionHolders, DlsOf, One
  <2>2. /\ Cardinality(DlsOf(Synths, synths, c)) \in Nat
        /\ Cardinality(DlsOf(Slots, streams, c)) \in Nat
    BY SynthsFinite, FS_Subset, FS_CardinalityType DEF DlsOf
  <2>3. Slack(heap, c) = refs[c] - Cardinality(DlsOf(Synths, synths, c))
    BY <1>1 DEF Slack
  <2>. QED BY <1>2, <2>1, <2>2, <2>3 DEF One
<1>. QED BY <1>1, <1>4, <1>5, RoomLess DEF AliveIn

\* What a step has to leave.
LEMMA CollNext ==
    ASSUME TableAssumption, NEW g, g.refs \in [Collections -> Nat],
           \A c \in Collections : g.refs[c] <= MaxRefs,
           refs' = g.refs, synths' = g.synths, AliveIn(streams', g, globalDLS')
    PROVE  CollInv'
<1>1. g.refs \in [Collections -> 0 .. MaxRefs]
  BY DEF TableAssumption
<1>2. ASSUME NEW c \in Collections
      PROVE  refs'[c] >= Cardinality(DlsOf(Synths, synths', c))
                         + Cardinality(DlsOf(Slots, streams', c)) + One(globalDLS', c)
  <2>1. /\ Cardinality(DlsOf(Synths, synths', c)) \in Nat
        /\ Cardinality(DlsOf(Slots, streams', c)) \in Nat
    BY SynthsFinite, FS_Subset, FS_CardinalityType DEF DlsOf
  <2>2. g.refs[c] - Cardinality(DlsOf(Synths, synths', c))
        >= Cardinality(DlsOf(Slots, streams', c)) + One(globalDLS', c)
    BY DEF AliveIn, Slack
  <2>3. g.refs[c] \in Nat
    OBVIOUS
  <2>. QED BY <2>1, <2>2, <2>3 DEF One
<1>3. \A c \in Collections : refs'[c] >= CollectionHolders(c)'
  BY <1>2 DEF CollectionHolders, DlsOf, One
<1>. QED BY <1>1, <1>3 DEF CollInv, CollectionsAlive

\* A call that gives one stream another value.
LEMMA CollStream ==
    ASSUME TableAssumption, IInv, CollInv, MaxRefs + 3 < CountModulus, NEW s \in Slots,
           NEW p, NEW g, Room(g, 0), Balanced(streams[s], heap, p, g),
           streams' = [streams EXCEPT ![s] = p], globalDLS' = globalDLS,
           refs' = g.refs, synths' = g.synths, \A c \in Collections : g.refs[c] <= MaxRefs
    PROVE  CollInv'
<1>1. OnlyAt(Slots, streams, streams', s) /\ streams'[s] = p
  BY DEF OnlyAt, IInv, TableOK
<1>2. ASSUME NEW c \in Collections
      PROVE  Slack(g, c) >= Cardinality(DlsOf(Slots, streams', c)) + One(globalDLS', c)
  <2>1. Recount(Slots, streams, streams', s, c)
    BY <1>1, SynthsFinite, PointersChange
  <2>2. /\ Cardinality(DlsOf(Slots, streams, c)) \in Nat
        /\ Cardinality(DlsOf(Slots, streams', c)) =
              Cardinality(DlsOf(Slots, streams, c)) - One(streams[s].dls, c) + One(p.dls, c)
    BY Zenon, <1>1, <2>1 DEF Recount
  <2>3. Slack(heap, c) >= Cardinality(DlsOf(Slots, streams, c)) + One(globalDLS, c)
    BY CollNow DEF AliveIn
  <2>4. Slack(g, c) - One(p.dls, c) >= Slack(heap, c) - One(streams[s].dls, c)
    BY DEF Balanced
  <2>5. Slack(g, c) \in Int /\ Slack(heap, c) \in Int
    BY CollNow, SlackIs DEF Room
  <2>6. One(p.dls, c) \in Int /\ One(streams[s].dls, c) \in Int /\ One(globalDLS, c) \in Int
    BY DEF One
  <2>. QED BY <2>2, <2>3, <2>4, <2>5, <2>6
<1>3. AliveIn(streams', g, globalDLS')
  BY <1>2 DEF AliveIn
<1>. QED BY <1>3, CollNext DEF Room

\* A call that changes no stream.
LEMMA CollHeap ==
    ASSUME TableAssumption, IInv, CollInv, MaxRefs + 3 < CountModulus,
           NEW g, Room(g, 0), NoLess(heap, g), streams' = streams, globalDLS' = globalDLS,
           refs' = g.refs, synths' = g.synths, \A c \in Collections : g.refs[c] <= MaxRefs
    PROVE  CollInv'
<1>1. ASSUME NEW c \in Collections
      PROVE  Slack(g, c) >= Cardinality(DlsOf(Slots, streams, c)) + One(globalDLS, c)
  <2>1. Slack(heap, c) >= Cardinality(DlsOf(Slots, streams, c)) + One(globalDLS, c)
    BY CollNow DEF AliveIn
  <2>2. Slack(g, c) >= Slack(heap, c) /\ Slack(g, c) \in Int /\ Slack(heap, c) \in Int
    BY CollNow, SlackIs DEF Room, NoLess
  <2>3. Cardinality(DlsOf(Slots, streams, c)) \in Nat /\ One(globalDLS, c) \in Int
    BY SynthsFinite, FS_Subset, FS_CardinalityType DEF DlsOf, One
  <2>. QED BY <2>1, <2>2, <2>3
<1>2. AliveIn(streams', g, globalDLS')
  BY <1>1 DEF AliveIn
<1>. QED BY <1>2, CollNext DEF Room

LEMMA CollOpenFile ==
    ASSUME TableAssumption, IInv, CollInv, MaxRefs + 3 < CountModulus,
           NEW f \in Files, EAS_OpenFile(f)
    PROVE  CollInv'
<1> DEFINE s == Min(FreeSlots)
           p == Opened(f, Spare(heap)[1])
<1>1. s \in Slots
  BY FreeSlotIsSlot DEF EAS_OpenFile
<1>2. /\ streams' = [streams EXCEPT ![s] = p]
      /\ refs' = heap.refs /\ synths' = heap.synths /\ globalDLS' = globalDLS
  BY CollNow DEF EAS_OpenFile
<1>3. p.dls = NULL
  BY DEF Opened, Closed
<1>. HIDE DEF s, p
<1>4. ASSUME NEW c \in Collections
      PROVE  Slack(heap, c) - One(p.dls, c) >= Slack(heap, c) - One(streams[s].dls, c)
  <2>1. Slack(heap, c) \in Int
    BY CollNow, SlackIs DEF Room
  <2>. QED BY <1>3, <2>1 DEF One, TableAssumption
<1>5. Balanced(streams[s], heap, p, heap)
  BY <1>4 DEF Balanced
<1>6. \A c \in Collections : heap.refs[c] <= MaxRefs
  BY CollNow DEF CollInv, TableAssumption
<1>. QED BY <1>1, <1>2, <1>5, <1>6, CollNow, CollStream

LEMMA CollPrepare ==
    ASSUME TableAssumption, IInv, CollInv, MaxRefs + 3 < CountModulus,
           NEW s \in Slots, EAS_Prepare(s)
    PROVE  CollInv'
<1> DEFINE r == streams[s]
<1>1. Fits(r, heap) /\ r.file.format \in FileFormats
  BY HeapIsOK DEF Fits, IInv, TableOK, HandlesOwned, EAS_Prepare, IsFile
<1>2. PICK o \in Prepare(r, heap) :
         IF o.result = "crash" THEN Crash
         ELSE /\ streams' = [streams EXCEPT ![s] = o.stream]
              /\ Leaves(o.heap)
              /\ UNCHANGED <<globalDLS, phase>>
  BY DEF EAS_Prepare
<1>3. CASE o.result = "crash"
  <2>1. streams' = streams /\ refs' = refs /\ synths' = synths /\ globalDLS' = globalDLS
    BY <1>2, <1>3 DEF Crash
  <2>. QED BY <2>1 DEF CollInv, CollectionsAlive, CollectionHolders
<1>4. CASE o.result # "crash"
  <2>1. /\ streams' = [streams EXCEPT ![s] = o.stream] /\ synths' = o.heap.synths
        /\ refs' = o.heap.refs /\ \A c \in Collections : o.heap.refs[c] <= MaxRefs
        /\ globalDLS' = globalDLS
    BY <1>2, <1>4 DEF Leaves
  <2>2. Room(heap, 2)
    BY CollNow, RoomLess
  <2>3. Room(o.heap, 0) /\ Balanced(r, heap, o.stream, o.heap)
    BY <1>1, <2>2, CollNow, PrepareBalanced
  <2>. QED BY <2>1, <2>3, CollStream
<1>. QED BY <1>3, <1>4

LEMMA CollCloseFile ==
    ASSUME TableAssumption, IInv, CollInv, MaxRefs + 3 < CountModulus,
           NEW s \in Slots, EAS_CloseFile(s)
    PROVE  CollInv'
<1> DEFINE r == streams[s]
           g == Close(r, heap)
<1>1. /\ streams' = [streams EXCEPT ![s] = Closed] /\ synths' = g.synths /\ refs' = g.refs
      /\ globalDLS' = globalDLS /\ \A c \in Collections : g.refs[c] <= MaxRefs
  BY DEF EAS_CloseFile, Leaves
<1>2. r \in StreamRecords
  BY DEF IInv, TableOK
<1>3. /\ Room(g, 0)
      /\ \A d \in Collections : Slack(g, d) >= Slack(heap, d) - One(r.dls, d)
  BY <1>2, CollNow, CloseBalanced
<1>. HIDE DEF g
<1>4. Balanced(r, heap, Closed, g)
  <2>1. ASSUME NEW c \in Collections
        PROVE  Slack(g, c) - One(Closed.dls, c) >= Slack(heap, c) - One(r.dls, c)
    <3>1. Closed.dls = NULL /\ NULL # c
      BY DEF Closed, TableAssumption
    <3>2. Slack(g, c) \in Int /\ Slack(heap, c) \in Int
      BY <1>3, CollNow, SlackIs DEF Room
    <3>. QED BY <1>3, <3>1, <3>2 DEF One
  <2>. QED BY <2>1 DEF Balanced
<1>. QED BY <1>1, <1>3, <1>4, CollStream

\* A raw MIDI stream holds no collection, whatever the slot had.
LEMMA CollMIDIStream ==
    ASSUME TableAssumption, IInv, CollInv, MaxRefs + 3 < CountModulus, NEW s \in Slots,
           NEW p, p.dls = NULL, NEW g, Room(g, 0), NoLess(heap, g),
           streams' = [streams EXCEPT ![s] = p], globalDLS' = globalDLS,
           refs' = g.refs, synths' = g.synths, \A c \in Collections : g.refs[c] <= MaxRefs
    PROVE  CollInv'
<1>1. ASSUME NEW c \in Collections
      PROVE  Slack(g, c) - One(p.dls, c) >= Slack(heap, c) - One(streams[s].dls, c)
  <2>1. Slack(g, c) \in Int /\ Slack(heap, c) \in Int /\ Slack(g, c) >= Slack(heap, c)
    BY CollNow, SlackIs DEF Room, NoLess
  <2>. QED BY <2>1 DEF One, TableAssumption
<1>2. Balanced(streams[s], heap, p, g)
  BY <1>1 DEF Balanced
<1>. QED BY <1>2, CollStream

LEMMA CollOpenMIDI ==
    ASSUME TableAssumption, IInv, CollInv, MaxRefs + 3 < CountModulus, EAS_OpenMIDIStream
    PROVE  CollInv'
<1> DEFINE s == Min(FreeSlots)
           y == Min(FreeSynths(heap))
           g == VMInitMIDI(heap, y)
<1>1. s \in Slots /\ y \in Synths
  BY FreeSlotIsSlot, FreeSynthIsSynth DEF EAS_OpenMIDIStream
<1>2. /\ streams' = [streams EXCEPT ![s] = RawMIDI(y)] /\ synths' = g.synths /\ refs' = g.refs
      /\ globalDLS' = globalDLS /\ \A c \in Collections : g.refs[c] <= MaxRefs
  BY DEF EAS_OpenMIDIStream, Leaves
<1>3. RawMIDI(y).dls = NULL
  BY DEF RawMIDI, Closed
<1>. HIDE DEF s, y
<1>4. Room(heap, 1)
  BY CollNow, RoomLess
<1>5. Room(g, 0) /\ NoLess(heap, g)
  BY <1>1, <1>4, CollNow, InitSlack
<1>. HIDE DEF g
<1>. QED BY <1>1, <1>2, <1>3, <1>5, CollMIDIStream

LEMMA CollShareMIDI ==
    ASSUME TableAssumption, IInv, CollInv, MaxRefs + 3 < CountModulus,
           NEW t \in Slots, EAS_ShareMIDIStream(t)
    PROVE  CollInv'
<1>1. CASE IsRawMIDI(t) \/ streams[t].synth = NULL
  <2>1. streams' = streams /\ refs' = refs /\ synths' = synths /\ globalDLS' = globalDLS
    BY <1>1 DEF EAS_ShareMIDIStream, Crash
  <2>. QED BY <2>1 DEF CollInv, CollectionsAlive, CollectionHolders
<1>2. CASE ~ (IsRawMIDI(t) \/ streams[t].synth = NULL)
  <2> DEFINE s == Min(FreeSlots)
             y == streams[t].synth
             g == VMIncRefCount(heap, y)
  <2>1. s \in Slots /\ y \in Synths
    BY <1>2, FreeSlotIsSlot DEF EAS_ShareMIDIStream, IInv, TableOK, StreamRecords
  <2>2. /\ streams' = [streams EXCEPT ![s] = RawMIDI(y)] /\ synths' = g.synths /\ refs' = g.refs
        /\ globalDLS' = globalDLS /\ \A c \in Collections : g.refs[c] <= MaxRefs
    BY <1>2 DEF EAS_ShareMIDIStream, Leaves
  <2>3. RawMIDI(y).dls = NULL
    BY DEF RawMIDI, Closed
  <2>. HIDE DEF s, y
  <2>4. HeapOK(g) /\ g.refs = heap.refs /\ \A z \in Synths : g.synths[z].dls = heap.synths[z].dls
    BY <2>1, CollNow DEF Room, HeapOK, VMIncRefCount, SynthRecords
  <2>. HIDE DEF g
  <2>5. Room(g, 0)
    BY <2>4, CollNow DEF Room
  <2>6. NoLess(heap, g)
    <3>1. ASSUME NEW d \in Collections PROVE Slack(g, d) >= Slack(heap, d)
      <4>1. Slack(g, d) = Slack(heap, d) + (g.refs[d] - heap.refs[d])
        BY <2>4, <2>5, CollNow, SynthsPoint DEF Room
      <4>2. Slack(heap, d) \in Int /\ heap.refs[d] \in Nat
        BY CollNow, SlackIs DEF Room
      <4>. QED BY <2>4, <4>1, <4>2
    <3>. QED BY <3>1 DEF NoLess
  <2>. QED BY <2>1, <2>2, <2>3, <2>5, <2>6, CollMIDIStream
<1>. QED BY <1>1, <1>2

LEMMA CollCloseMIDI ==
    ASSUME TableAssumption, IInv, CollInv, MaxRefs + 3 < CountModulus,
           NEW s \in Slots, EAS_CloseMIDIStream(s)
    PROVE  CollInv'
<1> DEFINE y == streams[s].synth
           g == VMMIDIShutdown(heap, y)
<1>1. y \in Synths
  BY DEF IInv, TableOK, ShapeOK, EAS_CloseMIDIStream, IsRawMIDI
<1>2. /\ streams' = [streams EXCEPT ![s] = Closed] /\ synths' = g.synths /\ refs' = g.refs
      /\ globalDLS' = globalDLS /\ \A c \in Collections : g.refs[c] <= MaxRefs
  BY DEF EAS_CloseMIDIStream, Leaves
<1>3. Closed.dls = NULL
  BY DEF Closed
<1>4. Room(g, 0) /\ NoLess(heap, g)
  BY <1>1, CollNow, ShutdownSlack
<1>. HIDE DEF g
<1>. QED BY <1>2, <1>3, <1>4, CollMIDIStream

LEMMA CollLoadFile ==
    ASSUME TableAssumption, IInv, CollInv, MaxRefs + 3 < CountModulus,
           NEW s \in Slots, NEW c \in Collections, LoadIntoFile(s, c)
    PROVE  CollInv'
<1> DEFINE g == Load(heap, c)
           k == Share(g, streams[s].synth, c)
<1>1. /\ streams' = streams /\ synths' = k.synths /\ refs' = k.refs /\ globalDLS' = globalDLS
      /\ \A d \in Collections : k.refs[d] <= MaxRefs
  BY DEF LoadIntoFile, Leaves
<1>2. heap.refs[c] = 0 /\ Room(heap, 1) /\ 1 + 1 < CountModulus
  BY CollNow, RoomLess DEF LoadIntoFile, TableAssumption
<1>3. /\ Room(g, 1) /\ g.synths = heap.synths
      /\ \A d \in Collections : g.refs[d] = heap.refs[d] + One(c, d)
  BY <1>2, LoadRefs
<1>. HIDE DEF g
<1>4. Room(k, 0) /\ NoLess(g, k)
  BY <1>3, ShareSlack DEF DlsOrNull
<1>. HIDE DEF k
<1>5. ASSUME NEW d \in Collections PROVE Slack(k, d) >= Slack(heap, d)
  <2>1. Slack(g, d) = Slack(heap, d) + (g.refs[d] - heap.refs[d])
    BY <1>3, CollNow, SynthsPoint DEF Room
  <2>2. Slack(k, d) >= Slack(g, d)
    BY <1>4 DEF NoLess
  <2>3. Slack(k, d) \in Int /\ Slack(heap, d) \in Int /\ heap.refs[d] \in Nat
    BY <1>4, CollNow, SlackIs DEF Room
  <2>. QED BY <1>3, <2>1, <2>2, <2>3 DEF One
<1>. QED BY <1>1, <1>4, <1>5, CollHeap DEF NoLess

LEMMA CollLoadMIDI ==
    ASSUME TableAssumption, IInv, CollInv, MaxRefs + 3 < CountModulus,
           NEW s \in Slots, NEW c \in Collections, LoadIntoMIDI(s, c)
    PROVE  CollInv'
<1> DEFINE y == streams[s].synth
           g == Load(heap, c)
           k == VMSetDLSLib(g, y, c)
<1>1. /\ streams' = streams /\ synths' = k.synths /\ refs' = k.refs /\ globalDLS' = globalDLS
      /\ \A d \in Collections : k.refs[d] <= MaxRefs
  BY DEF LoadIntoMIDI, Leaves
<1>2. y \in Synths
  BY DEF IInv, TableOK, ShapeOK, LoadIntoMIDI, IsRawMIDI
<1>3. heap.refs[c] = 0 /\ 0 + 1 < CountModulus
  BY CollNow DEF LoadIntoMIDI, TableAssumption
<1>4. /\ Room(g, 0) /\ g.synths = heap.synths
      /\ \A d \in Collections : g.refs[d] = heap.refs[d] + One(c, d)
  BY <1>3, CollNow, LoadRefs
<1>. HIDE DEF g, y
<1>5. DOMAIN g = {"synths", "refs", "open"} /\ g.synths \in [Synths -> SynthRecords]
  BY <1>4 DEF Room, HeapOK
<1>6. HeapOK(k)
  BY <1>4, VMSetDLSLibSame DEF SameCounts, Room, DlsOrNull
<1>7. k.refs = g.refs /\ k.synths = [g.synths EXCEPT ![y].dls = c]
  BY <1>5 DEF VMSetDLSLib
<1>. HIDE DEF k
<1>8. k.synths[y].dls = c /\ OnlyAt(Synths, heap.synths, k.synths, y)
  BY <1>2, <1>4, <1>5, <1>7 DEF OnlyAt, SynthRecords
<1>9. Room(k, 0)
  BY <1>4, <1>6, <1>7 DEF Room
<1>10. ASSUME NEW d \in Collections PROVE Slack(k, d) >= Slack(heap, d)
  <2>1. Points(heap, k, y, d)
    BY <1>2, <1>8, <1>9, CollNow, SynthPoints DEF Room
  <2>2. Slack(k, d) \in Int /\ Slack(heap, d) \in Int /\ heap.refs[d] \in Nat
    BY <1>9, CollNow, SlackIs DEF Room
  <2>3. k.refs[d] = heap.refs[d] + One(c, d)
    BY <1>4, <1>7
  <2>. QED BY <1>8, <2>1, <2>2, <2>3 DEF One, Points
<1>. QED BY <1>1, <1>9, <1>10, CollHeap DEF NoLess

LEMMA CollLoadGlobal ==
    ASSUME TableAssumption, IInv, CollInv, MaxRefs + 3 < CountModulus,
           NEW c \in Collections, LoadGlobal(c)
    PROVE  CollInv'
<1> DEFINE g == Load(heap, c)
           k == DLSCleanup(g, globalDLS)
<1>1. /\ streams' = streams /\ synths' = k.synths /\ refs' = k.refs /\ globalDLS' = c
      /\ \A d \in Collections : k.refs[d] <= MaxRefs
  BY DEF LoadGlobal, Leaves
<1>2. heap.refs[c] = 0 /\ 0 + 1 < CountModulus
  BY CollNow DEF LoadGlobal, TableAssumption
<1>3. /\ Room(g, 0) /\ g.synths = heap.synths
      /\ \A d \in Collections : g.refs[d] = heap.refs[d] + One(c, d)
  BY <1>2, CollNow, LoadRefs
<1>. HIDE DEF g
<1>4. /\ Room(k, 0) /\ k.synths = g.synths
      /\ \A d \in Collections : k.refs[d] >= g.refs[d] - One(globalDLS, d)
  BY <1>3, CollNow, CleanupRefs
<1>. HIDE DEF k
<1>5. ASSUME NEW d \in Collections
      PROVE  Slack(k, d) >= Cardinality(DlsOf(Slots, streams, d)) + One(c, d)
  <2>1. Slack(k, d) = Slack(heap, d) + (k.refs[d] - heap.refs[d])
    BY <1>3, <1>4, CollNow, SynthsPoint DEF Room
  <2>2. Slack(heap, d) >= Cardinality(DlsOf(Slots, streams, d)) + One(globalDLS, d)
    BY CollNow DEF AliveIn
  <2>4. Slack(heap, d) \in Int /\ heap.refs[d] \in Nat /\ k.refs[d] \in Nat
    BY <1>4, CollNow, SlackIs DEF Room
  <2>5. Cardinality(DlsOf(Slots, streams, d)) \in Nat
    BY SynthsFinite, FS_Subset, FS_CardinalityType DEF DlsOf
  <2>6. One(c, d) \in Int /\ One(globalDLS, d) \in Int
    BY DEF One
  <2>3. k.refs[d] >= heap.refs[d] + One(c, d) - One(globalDLS, d)
    BY <1>3, <1>4, <2>4, <2>6
  <2>. QED BY <2>1, <2>2, <2>3, <2>4, <2>5, <2>6
<1>6. AliveIn(streams', k, globalDLS')
  BY <1>1, <1>5 DEF AliveIn
<1>. QED BY <1>1, <1>4, <1>6, CollNext DEF Room

(* EAS_Shutdown closes the streams one after the other.                    *)

\* A set of naturals that has 0, and with each number below n the next, has all
\* up to n.
LEMMA UpTo ==
    ASSUME NEW n \in Nat, NEW S, 0 \in S, \A m \in 0 .. n - 1 : m \in S => m + 1 \in S
    PROVE  0 .. n \subseteq S
<1>. DEFINE T == (0 .. n) \ S
<1>. SUFFICES ASSUME T # {} PROVE FALSE
  OBVIOUS
<1>1. T \subseteq Nat
  OBVIOUS
<1>. HIDE DEF T
<1>2. \E x \in T : \A y \in T : ~ (<<y, x>> \in OpToRel(<, Nat))
  BY <1>1, NatLessThanWellFounded, WFMin
<1>3. PICK x \in T : \A y \in T : ~ (y < x)
  BY <1>1, <1>2 DEF OpToRel
<1>4. x \in 1 .. n /\ x - 1 \in 0 .. n - 1 /\ x - 1 \notin T
  BY <1>1, <1>3 DEF T
<1>5. x - 1 \in S /\ (x - 1) + 1 = x
  BY <1>4 DEF T
<1>6. x \in S
  BY <1>4, <1>5
<1>. QED BY <1>6 DEF T

\* The heap after the slot before i was closed.
Step(i, h) == IF IsFile(i - 1) THEN Close(streams[i - 1], h) ELSE h

Closes(f, n) == f = [i \in 0 .. n |-> IF i = 0 THEN heap ELSE Step(i, f[i - 1])]

LEMMA ClosesExist ==
    ASSUME NEW n \in Nat
    PROVE  \E f : Closes(f, n)
<1>. DEFINE S == {m \in 0 .. n : \E f : Closes(f, m)}
<1>1. \E f : Closes(f, 0)
  <2>. DEFINE f == [i \in 0 .. 0 |-> heap]
  <2>1. Closes(f, 0)
    BY DEF Closes
  <2>. QED BY <2>1
<1>2. ASSUME NEW m \in 0 .. n - 1, \E f : Closes(f, m)
      PROVE  \E f : Closes(f, m + 1)
  <2>1. PICK f : Closes(f, m)
    BY <1>2
  <2>. DEFINE g == [i \in 0 .. m + 1 |-> IF i \in 0 .. m THEN f[i] ELSE Step(i, f[i - 1])]
  <2>2. ASSUME NEW i \in 0 .. m + 1
        PROVE  g[i] = IF i = 0 THEN heap ELSE Step(i, g[i - 1])
    <3>1. i # 0 => i - 1 \in 0 .. m /\ g[i - 1] = f[i - 1]
      OBVIOUS
    <3>2. CASE i \in 0 .. m
      <4>1. g[i] = f[i]
        BY <3>2
      <4>2. f[i] = IF i = 0 THEN heap ELSE Step(i, f[i - 1])
        BY <2>1, <3>2 DEF Closes
      <4>. QED BY <3>1, <4>1, <4>2
    <3>3. CASE i \notin 0 .. m
      <4>1. g[i] = Step(i, f[i - 1]) /\ i # 0
        BY <3>3
      <4>. QED BY <3>1, <4>1
    <3>. QED BY <3>2, <3>3
  <2>3. g = [i \in 0 .. m + 1 |-> g[i]]
    OBVIOUS
  <2>. HIDE DEF g
  <2>4. g = [i \in 0 .. m + 1 |-> IF i = 0 THEN heap ELSE Step(i, g[i - 1])]
    BY <2>2, <2>3
  <2>. QED BY <2>4 DEF Closes
<1>3. 0 \in S
  BY <1>1
<1>4. ASSUME NEW m \in 0 .. n - 1, m \in S PROVE m + 1 \in S
  BY <1>2, <1>4
<1>5. 0 .. n \subseteq S
  <2>. HIDE DEF S
  <2>. QED BY <1>3, <1>4, UpTo
<1>. QED BY <1>5

\* No close gives a collection more references than it had.
LEMMA ClosesRefs ==
    ASSUME TableAssumption, IInv, CollInv, MaxRefs + 3 < CountModulus,
           NEW f, Closes(f, NumStreams)
    PROVE  /\ Room(f[NumStreams], 0)
           /\ \A c \in Collections : f[NumStreams].refs[c] <= MaxRefs
<1>. DEFINE Bounded(h) == Room(h, 0) /\ \A c \in Collections : h.refs[c] <= MaxRefs
            S == {i \in 0 .. NumStreams : Bounded(f[i])}
<1>1. NumStreams \in Nat /\ MaxRefs \in Nat
  BY DEF TableAssumption
<1>2. \A i \in 0 .. NumStreams : f[i] = IF i = 0 THEN heap ELSE Step(i, f[i - 1])
  BY DEF Closes
<1>3. Bounded(heap)
  BY <1>1, CollNow DEF CollInv
<1>4. ASSUME NEW i \in 0 .. NumStreams - 1, Bounded(f[i])
      PROVE  Bounded(f[i + 1])
  <2>1. /\ i + 1 \in 0 .. NumStreams /\ i + 1 # 0 /\ (i + 1) - 1 = i /\ i \in Slots
    BY <1>1 DEF Slots
  <2>2. f[i + 1] = IF IsFile(i) THEN Close(streams[i], f[i]) ELSE f[i]
    BY <1>2, <2>1 DEF Step
  <2>3. CASE ~ IsFile(i)
    BY <1>4, <2>2, <2>3
  <2>4. CASE IsFile(i)
    <3>1. streams[i] \in StreamRecords /\ f[i + 1] = Close(streams[i], f[i])
      BY <2>1, <2>2, <2>4 DEF IInv, TableOK
    <3>2. Room(f[i + 1], 0) /\ \A c \in Collections : f[i + 1].refs[c] <= f[i].refs[c]
      BY <1>4, <3>1, CloseBalanced
    <3>3. \A c \in Collections : f[i].refs[c] \in Nat /\ f[i + 1].refs[c] \in Nat
      BY <1>4, <3>2 DEF Room
    <3>. QED BY <1>1, <1>4, <3>2, <3>3
  <2>. QED BY <2>3, <2>4
<1>. HIDE DEF Bounded
<1>5. 0 \in S
  BY <1>1, <1>2, <1>3
<1>6. ASSUME NEW i \in 0 .. NumStreams - 1, i \in S PROVE i + 1 \in S
  BY <1>1, <1>4, <1>6
<1>7. 0 .. NumStreams \subseteq S
  <2>. HIDE DEF S
  <2>. QED BY <1>1, <1>5, <1>6, UpTo
<1>8. Bounded(f[NumStreams])
  BY <1>1, <1>7
<1>. QED BY <1>8 DEF Bounded

LEMMA CollShutdown ==
    ASSUME TableAssumption, IInv, CollInv, MaxRefs + 3 < CountModulus, EAS_Shutdown
    PROVE  CollInv'
<1>. DEFINE closes(f) == f = [i \in 0 .. NumStreams |->
                                IF i = 0 THEN heap
                                ELSE IF IsFile(i - 1) THEN Close(streams[i - 1], f[i - 1])
                                ELSE f[i - 1]]
            after == CHOOSE f : closes(f)
            left == DLSCleanup(after[NumStreams], globalDLS)
<1>1. /\ refs' = left.refs /\ streams' = [s \in Slots |-> Closed]
      /\ synths' = [y \in Synths |-> NoSynth] /\ globalDLS' = NULL
  BY DEF EAS_Shutdown
<1>2. ASSUME NEW f PROVE closes(f) <=> Closes(f, NumStreams)
  BY DEF Closes, Step
<1>3. \E f : closes(f)
  <2>1. \E f : Closes(f, NumStreams)
    BY ClosesExist DEF TableAssumption
  <2>. HIDE DEF closes
  <2>. QED BY <1>2, <2>1
<1>. HIDE DEF closes
<1>4. closes(after)
  BY <1>3
<1>. HIDE DEF after
<1>5. Closes(after, NumStreams)
  BY <1>2, <1>4
<1>6. Room(after[NumStreams], 0) /\ \A c \in Collections : after[NumStreams].refs[c] <= MaxRefs
  BY <1>5, ClosesRefs
<1>7. Room(left, 0) /\ \A c \in Collections : left.refs[c] <= after[NumStreams].refs[c]
  BY <1>6, CollNow, CleanupRefs
<1>. HIDE DEF left
<1>8. \A c \in Collections : left.refs[c] <= MaxRefs
  <2>1. \A c \in Collections : after[NumStreams].refs[c] \in Nat /\ left.refs[c] \in Nat
    BY <1>6, <1>7 DEF Room
  <2>. QED BY <1>6, <1>7, <2>1 DEF TableAssumption
<1>. DEFINE g == [left EXCEPT !.synths = [y \in Synths |-> NoSynth]]
<1>9. g.refs = left.refs /\ g.synths = [y \in Synths |-> NoSynth]
  BY <1>7 DEF Room, HeapOK
<1>. HIDE DEF g
<1>10. g.refs \in [Collections -> Nat]
  BY <1>7, <1>9 DEF Room
<1>11. ASSUME NEW c \in Collections
       PROVE  Slack(g, c) >= Cardinality(DlsOf(Slots, streams', c)) + One(globalDLS', c)
  <2>1. NULL # c
    BY DEF TableAssumption
  <2>2. DlsOf(Synths, g.synths, c) = {} /\ DlsOf(Slots, streams', c) = {}
    BY <1>1, <1>9, <2>1 DEF DlsOf, NoSynth, Closed
  <2>3. Cardinality(DlsOf(Synths, g.synths, c)) = 0 /\ Cardinality(DlsOf(Slots, streams', c)) = 0
    BY <2>2, FS_EmptySet
  <2>4. One(globalDLS', c) = 0
    BY <1>1, <2>1 DEF One
  <2>. QED BY <1>10, <2>3, <2>4 DEF Slack
<1>12. AliveIn(streams', g, globalDLS')
  BY <1>11 DEF AliveIn
<1>13. \A c \in Collections : g.refs[c] <= MaxRefs
  BY <1>8, <1>9
<1>14. refs' = g.refs /\ synths' = g.synths
  BY <1>1, <1>9
<1>. QED BY <1>10, <1>12, <1>13, <1>14, CollNext

LEMMA CollInit ==
    ASSUME TableAssumption, Init
    PROVE  CollInv
<1>1. refs \in [Collections -> 0 .. MaxRefs]
  BY DEF Init, TableAssumption
<1>2. ASSUME NEW c \in Collections PROVE refs[c] >= CollectionHolders(c)
  <2>1. NULL # c
    BY DEF TableAssumption
  <2>2. /\ {y \in Synths : synths[y].dls = c} = {} /\ {s \in Slots : streams[s].dls = c} = {}
        /\ globalDLS # c /\ refs[c] = 0
    BY <2>1 DEF Init, NoSynth, Closed
  <2>3. /\ Cardinality({y \in Synths : synths[y].dls = c}) = 0
        /\ Cardinality({s \in Slots : streams[s].dls = c}) = 0
    BY <2>2, FS_EmptySet
  <2>. QED BY <2>2, <2>3 DEF CollectionHolders
<1>. QED BY <1>1, <1>2 DEF CollInv, CollectionsAlive

LEMMA CollSame ==
    ASSUME CollInv, UNCHANGED <<streams, synths, refs, globalDLS>>
    PROVE  CollInv'
BY DEF CollInv, CollectionsAlive, CollectionHolders

LEMMA NextCollInv ==
    ASSUME TableAssumption, IInv, CollInv, MaxRefs + 3 < CountModulus, [Next]_vars
    PROVE  CollInv'
<1>1. ASSUME NEW f \in Files, EAS_OpenFile(f) PROVE CollInv'
  BY <1>1, CollOpenFile
<1>2. ASSUME NEW s \in Slots, EAS_Prepare(s) PROVE CollInv'
  BY <1>2, CollPrepare
<1>3. ASSUME NEW s \in Slots, EAS_CloseFile(s) PROVE CollInv'
  BY <1>3, CollCloseFile
<1>4. CASE EAS_OpenMIDIStream
  BY <1>4, CollOpenMIDI
<1>5. ASSUME NEW s \in Slots, EAS_ShareMIDIStream(s) PROVE CollInv'
  BY <1>5, CollShareMIDI
<1>6. ASSUME NEW s \in Slots, EAS_CloseMIDIStream(s) PROVE CollInv'
  BY <1>6, CollCloseMIDI
<1>7. ASSUME NEW s \in Slots, NEW c \in Collections, LoadIntoFile(s, c) \/ LoadIntoMIDI(s, c)
      PROVE  CollInv'
  BY <1>7, CollLoadFile, CollLoadMIDI
<1>8. ASSUME NEW c \in Collections, LoadGlobal(c) PROVE CollInv'
  BY <1>8, CollLoadGlobal
<1>9. CASE EAS_Shutdown
  BY <1>9, CollShutdown
<1>10. CASE EAS_Init
  BY <1>10, CollSame DEF EAS_Init
<1>11. CASE UNCHANGED vars
  BY <1>11, CollSame DEF vars
<1>. QED BY <1>1, <1>2, <1>3, <1>4, <1>5, <1>6, <1>7, <1>8, <1>9, <1>10, <1>11 DEF Next

\* What a stream, a container or a synthesizer gives back as it is closed is
\* still there (HeldAlive): DLSAddRef and DLSCleanup keep a reference to a
\* collection for each place that points to it, over prepares that fail
\* half way, over collections loaded into streams and for all of them, and over
\* EAS_Shutdown; and no handle is closed twice.  No call adds more than three references
\* to a collection, so that where those fit the count does not wrap.
THEOREM HeldThings == ASSUME MaxRefs + 3 < CountModulus PROVE Spec => []HeldAlive
<1>1. TableAssumption
  BY TableAssumption
<1>2. Init => CollInv
  BY <1>1, CollInit
<1>3. IInv /\ CollInv /\ [Next]_vars => CollInv'
  BY <1>1, NextCollInv
<1>4. CollInv /\ HandlesAlive => HeldAlive
  BY DEF CollInv, HeldAlive
<1>. QED BY <1>2, <1>3, <1>4, TableInvariant, HandlesClosedOnce, PTL DEF Spec

(***************************************************************************)
(* What is lost.  A slot that is free, or has a raw MIDI stream, and a     *)
(* synthesizer that no one has, hold nothing that would be overwritten.    *)
(***************************************************************************)

Bare(r) == r.handle = NULL /\ r.tracks = <<>> /\ r.dls = NULL
SlotOK(r) ==
    /\ r.file.format = "none" => r.synth = NULL /\ Bare(r)
    /\ r.file.format = "midi" => Bare(r)
DeadBare(h) == \A y \in Synths : h.synths[y].refs = 0 => h.synths[y].dls = NULL

TidyInv == (\A s \in Slots : SlotOK(streams[s])) /\ DeadBare(heap)

LEMMA SharedBare ==
    ASSUME NEW h, HeapOK(h), DeadBare(h), NEW y, NEW c \in DlsOrNull,
           y \in Synths => h.synths[y].refs > 0
    PROVE  DeadBare(VMSetDLSLib(h, y, c)) /\ DeadBare(Share(h, y, c))
<1> DEFINE g == VMSetDLSLib(h, y, c)
<1>1. \A z \in Synths : h.synths[z] \in SynthRecords
  BY DEF HeapOK
<1>2. g.synths = [h.synths EXCEPT ![y].dls = c]
  BY DEF VMSetDLSLib, HeapOK
<1>3. DeadBare(g)
  BY <1>1, <1>2 DEF DeadBare, HeapOK, SynthRecords
<1>4. HeapOK(g)
  BY VMSetDLSLibSame DEF SameCounts
<1>. HIDE DEF g
<1>5. DLSAddRef(g, c).synths = g.synths
  BY <1>4, DLSAddRefSame
<1>. QED BY <1>3, <1>5 DEF DeadBare, Share, g

LEMMA InitBare ==
    ASSUME NEW h, HeapOK(h), DeadBare(h), NEW y \in Synths, globalDLS \in DlsOrNull
    PROVE  DeadBare(VMInitMIDI(h, y)) /\ VMInitMIDI(h, y).synths[y].dls = globalDLS
<1> DEFINE k == DLSAddRef(h, globalDLS)
<1>1. HeapOK(k) /\ k.synths = h.synths
  BY DLSAddRefSame DEF SameCounts
<1>2. VMInitMIDI(h, y) = [k EXCEPT !.synths[y] = [refs |-> 1, dls |-> globalDLS]]
  BY DEF VMInitMIDI
<1>. HIDE DEF k
<1>. QED BY <1>1, <1>2 DEF DeadBare, HeapOK

LEMMA IncBare ==
    ASSUME NEW h, HeapOK(h), DeadBare(h), NEW y \in Synths
    PROVE  DeadBare(VMIncRefCount(h, y))
BY DEF VMIncRefCount, DeadBare, HeapOK, SynthRecords

LEMMA CleanupBare ==
    ASSUME NEW h, HeapOK(h), DeadBare(h), NEW c
    PROVE  DeadBare(DLSCleanup(h, c))
BY DEF DLSCleanup, DeadBare, HeapOK

LEMMA ShutdownBare ==
    ASSUME TableAssumption, NEW h, HeapOK(h), DeadBare(h), NEW y \in Synths
    PROVE  DeadBare(VMMIDIShutdown(h, y))
<1>1. CASE h.synths[y].refs > 1
  <2>1. VMMIDIShutdown(h, y) = [h EXCEPT !.synths[y].refs = @ - 1]
    BY <1>1 DEF VMMIDIShutdown
  <2>. QED BY <1>1, <2>1 DEF HeapOK, SynthRecords, DeadBare
<1>2. CASE ~ (h.synths[y].refs > 1)
  <2> DEFINE g == [h EXCEPT !.synths[y] = NoSynth]
  <2>1. HeapOK(g) /\ DeadBare(g)
    BY DEF HeapOK, SynthRecords, NoSynth, DlsOrNull, DeadBare
  <2>2. VMMIDIShutdown(h, y) = DLSCleanup(g, h.synths[y].dls)
    BY <1>2 DEF VMMIDIShutdown
  <2>. HIDE DEF g
  <2>. QED BY <2>1, <2>2, CleanupBare
<1>. QED BY <1>1, <1>2

LEMMA CloseBare ==
    ASSUME TableAssumption, NEW r \in StreamRecords, NEW h, HeapOK(h), DeadBare(h)
    PROVE  DeadBare(Close(r, h))
<1> DEFINE g == [h EXCEPT !.open = @ \ SMF_Handles(r)]
           k == SMF_Close(r, h)
<1>1. HeapOK(g) /\ DeadBare(g)
  BY DEF HeapOK, DeadBare
<1>2. k = IF r.synth = NULL THEN g ELSE VMMIDIShutdown(g, r.synth)
  BY DEF SMF_Close
<1>. HIDE DEF g, k
<1>3. HeapOK(k) /\ DeadBare(k)
  <2>1. CASE r.synth = NULL
    BY <1>1, <1>2, <2>1
  <2>2. CASE r.synth # NULL
    <3>1. r.synth \in Synths /\ k = VMMIDIShutdown(g, r.synth)
      BY <1>2, <2>2 DEF StreamRecords
    <3>. QED BY <1>1, <3>1, ShutdownBare, VMMIDIShutdownOne
  <2>. QED BY <2>1, <2>2
<1>. QED BY <1>3, CleanupBare DEF Close, k

(* A prepare of a stream that has nothing loses nothing, unless it takes the *)
(* global collection from the new synthesizer.                              *)

NoMore(r, h, p, g) ==
    \A c \in Collections : Slack(g, c) - One(p.dls, c) <= Slack(h, c) - One(r.dls, c)

\* The stream has no collection, or it has still the one it had.
DlsKept(r, h, p) == r.dls = NULL \/ (p.dls = r.dls /\ h.refs[r.dls] > 0)

\* From h to g the collection of a synthesizer gives way to another.
Replaces(h, g) ==
    \E y \in Synths : LET had == IF h.synths[y].refs = 0 THEN globalDLS ELSE h.synths[y].dls
                      IN  g.synths[y].refs > 0 /\ had # NULL /\ g.synths[y].dls # had

\* The synthesizer of the stream is new.
SynthMade(h, p, g) ==
    /\ p.synth \in Synths /\ h.synths[p.synth].refs = 0
    /\ g.synths[p.synth].refs = 1 /\ g.synths[p.synth].dls = globalDLS

LEMMA NoMoreTwice ==
    ASSUME TableAssumption, NEW r, NEW h, NEW p, NEW g, NEW q, NEW k,
           Room(h, 0), Room(g, 0), Room(k, 0), NoMore(r, h, p, g), NoMore(p, g, q, k)
    PROVE  NoMore(r, h, q, k)
<1>. SUFFICES ASSUME NEW c \in Collections
              PROVE  Slack(k, c) - One(q.dls, c) <= Slack(h, c) - One(r.dls, c)
  BY DEF NoMore
<1>1. Slack(h, c) \in Int /\ Slack(g, c) \in Int /\ Slack(k, c) \in Int
  BY SlackIs DEF Room
<1>2. Slack(g, c) - One(p.dls, c) <= Slack(h, c) - One(r.dls, c)
  BY DEF NoMore
<1>3. Slack(k, c) - One(q.dls, c) <= Slack(g, c) - One(p.dls, c)
  BY DEF NoMore
<1>4. One(p.dls, c) \in Int /\ One(q.dls, c) \in Int /\ One(r.dls, c) \in Int
  BY DEF One
<1>. QED BY <1>1, <1>2, <1>3, <1>4

LEMMA SameSlackNoMore ==
    ASSUME TableAssumption, NEW r, NEW h, NEW p, NEW g, Room(h, 0), Room(g, 0),
           SameSlack(h, g), p.dls = r.dls
    PROVE  NoMore(r, h, p, g)
<1>. SUFFICES ASSUME NEW c \in Collections
              PROVE  Slack(g, c) - One(p.dls, c) <= Slack(h, c) - One(r.dls, c)
  BY DEF NoMore
<1>1. Slack(h, c) \in Int /\ Slack(g, c) = Slack(h, c)
  BY SlackIs DEF Room, SameSlack
<1>. QED BY <1>1 DEF One

LEMMA SMFClean ==
    ASSUME TableAssumption, globalDLS \in DlsOrNull, NEW n \in Nat, NEW r, NEW h, Fits(r, h),
           IsSong(r), Room(h, n + 1), DeadBare(h), NEW o \in SMF_Prepare(r, h)
    PROVE  /\ Finds(r, h, o.stream, o.heap) /\ DeadBare(o.heap) /\ NoMore(r, h, o.stream, o.heap)
           /\ o.stream.dls = r.dls
           /\ o.result = "success" => SynthMade(h, o.stream, o.heap)
           /\ \A c \in Collections : o.heap.refs[c] >= h.refs[c]
<1>0. Room(h, n) /\ Room(h, 0)
  BY RoomLess
<1>1. CASE FreeSynths(h) = {}
  <2> DEFINE p == [r EXCEPT !.synth = NULL]
  <2>1. o = Outcome(p, h, "failure")
    BY <1>1 DEF SMF_Prepare
  <2>2. /\ p.dls = r.dls /\ p.handle = r.handle /\ p.tracks = r.tracks
        /\ p.numStreams = r.numStreams
    BY DEF Fits, StreamRecords
  <2>3. o.stream = p /\ o.heap = h /\ o.result = "failure"
    BY <2>1 DEF Outcome
  <2>. HIDE DEF p
  <2>4. SameSlack(h, h) /\ \A c \in Collections : h.refs[c] >= h.refs[c]
    BY <1>0 DEF SameSlack, Room
  <2>5. Finds(r, h, p, h)
    BY <2>2 DEF Finds, SMF_Handles
  <2>6. NoMore(r, h, p, h)
    BY <1>0, <2>2, <2>4, SameSlackNoMore
  <2>. QED BY <2>2, <2>3, <2>4, <2>5, <2>6
<1>2. CASE FreeSynths(h) # {}
  <2> DEFINE y == Min(FreeSynths(h))
             g == VMInitMIDI(h, y)
  <2>1. y \in Synths /\ h.synths[y].refs = 0
    BY <1>2, FreeSynthIsSynth
  <2>2. PICK q \in SMF_ParseHeader(r, g) :
           o = Outcome([q.stream EXCEPT !.synth = y,
                                        !.state = IF q.result = "success" THEN "READY" ELSE r.state],
                       q.heap, q.result)
    BY <1>2, Zenon DEF SMF_Prepare
  <2>. HIDE DEF y, g
  <2>3. NewSynth(h, g, y) /\ HeapOK(h)
    BY <2>1, VMInitMIDINew DEF Fits, g
  <2>4. Fits(r, g)
    BY <2>3 DEF Fits, NewSynth
  <2>5. /\ q.stream \in StreamRecords /\ HeapOK(q.heap) /\ q.stream.dls = r.dls
        /\ q.heap.synths = g.synths /\ q.heap.refs = g.refs /\ Finds(r, g, q.stream, q.heap)
    BY <2>4, ParseHeaderKeeps DEF IsSong, Keeps, Fits
  <2>6. /\ Room(g, n) /\ SameSlack(h, g) /\ \A c \in Collections : g.refs[c] >= h.refs[c]
    <3>1. h.synths[y].dls = NULL
      BY <2>1 DEF DeadBare
    <3>. QED BY <2>1, <3>1, InitSlack DEF g
  <2>7. DeadBare(g) /\ g.synths[y].dls = globalDLS
    BY <2>1, <2>3, InitBare DEF g
  <2> DEFINE state == IF q.result = "success" THEN "READY" ELSE r.state
             p == [q.stream EXCEPT !.synth = y, !.state = state]
  <2>. HIDE DEF state
  <2>8. /\ p.dls = r.dls /\ p.synth = y /\ p.handle = q.stream.handle
        /\ p.tracks = q.stream.tracks /\ p.numStreams = q.stream.numStreams
    BY <2>5 DEF StreamRecords
  <2>9. o.stream = p /\ o.heap = q.heap
    BY <2>2 DEF Outcome, state
  <2>. HIDE DEF p
  <2>10. Room(q.heap, 0)
    BY <2>5, <2>6, RoomLess DEF Room
  <2>11. SameSlack(h, q.heap)
    BY <2>5, <2>6 DEF SameSlack, Slack
  <2>12. NoMore(r, h, p, q.heap)
    BY <1>0, <2>8, <2>10, <2>11, SameSlackNoMore
  <2>13. Finds(r, h, p, q.heap)
    BY <2>3, <2>5, <2>8 DEF Finds, NewSynth, SMF_Handles
  <2>14. SynthMade(h, p, q.heap) /\ DeadBare(q.heap)
    BY <2>1, <2>3, <2>5, <2>7, <2>8 DEF SynthMade, NewSynth, DeadBare
  <2>15. \A c \in Collections : q.heap.refs[c] >= h.refs[c]
    BY <2>5, <2>6
  <2>. QED BY <2>8, <2>9, <2>12, <2>13, <2>14, <2>15
<1>. QED BY <1>1, <1>2

LEMMA ParseDLSClean ==
    ASSUME TableAssumption, NEW n \in Nat, n + 1 < CountModulus, NEW r, NEW h, Fits(r, h),
           Room(h, n), NEW o \in ParseDLS(r, h)
    PROVE  /\ DlsKept(r, h, o.stream) => NoMore(r, h, o.stream, o.heap)
           /\ o.heap.synths = h.synths /\ o.heap.open = h.open
           /\ o.stream.tracks = r.tracks /\ SMF_Handles(o.stream) = SMF_Handles(r)
           /\ o.result # "failure" =>
                 o.stream.dls \in Collections /\ h.refs[o.stream.dls] = 0
<1>1. \A c \in Collections : Slack(h, c) \in Int /\ h.refs[c] \in Nat /\ c # NULL
  BY SlackIs DEF Room, TableAssumption
<1> DEFINE stray == (r.handle = NULL)
           Moved(c) == [r EXCEPT !.dls = c, !.stray = stray]
<1>2. ASSUME NEW c
      PROVE  /\ Moved(c).dls = c /\ Moved(c).tracks = r.tracks
             /\ SMF_Handles(Moved(c)) = SMF_Handles(r)
  <2>1. /\ Moved(c).dls = c /\ Moved(c).tracks = r.tracks /\ Moved(c).handle = r.handle
        /\ Moved(c).numStreams = r.numStreams
    BY DEF Fits, StreamRecords
  <2>. HIDE DEF Moved
  <2>. QED BY <2>1 DEF SMF_Handles
<1>3. \/ o = Outcome(Moved(NULL), h, "failure")
      \/ \E c \in FreeCollections(h) :
            o = Outcome([Moved(NULL) EXCEPT !.dls = c], Load(h, c), "success")
  BY Zenon DEF ParseDLS
<1>4. CASE o = Outcome(Moved(NULL), h, "failure")
  <2>1. o.stream = Moved(NULL) /\ o.heap = h /\ o.result = "failure"
    BY <1>4 DEF Outcome
  <2>. HIDE DEF Moved
  <2>2. /\ o.stream.dls = NULL /\ o.stream.tracks = r.tracks
        /\ SMF_Handles(o.stream) = SMF_Handles(r)
    BY <1>2, <2>1
  <2>3. ASSUME DlsKept(r, h, o.stream)
        PROVE  \A c \in Collections : Slack(h, c) - One(NULL, c) <= Slack(h, c) - One(r.dls, c)
    BY <1>1, <2>2, <2>3 DEF One, DlsKept
  <2>. QED BY <2>1, <2>2, <2>3 DEF NoMore
<1>5. CASE \E c \in FreeCollections(h) :
              o = Outcome([Moved(NULL) EXCEPT !.dls = c], Load(h, c), "success")
  <2>1. PICK c \in FreeCollections(h) :
           o = Outcome([Moved(NULL) EXCEPT !.dls = c], Load(h, c), "success")
    BY <1>5
  <2>2. [Moved(NULL) EXCEPT !.dls = c] = Moved(c)
    BY DEF Fits, StreamRecords
  <2>3. o.stream = Moved(c) /\ o.heap = Load(h, c)
    BY <2>1, <2>2 DEF Outcome
  <2>. HIDE DEF Moved
  <2>4. /\ o.stream.dls = c /\ o.stream.tracks = r.tracks
        /\ SMF_Handles(o.stream) = SMF_Handles(r)
    BY <1>2, <2>3
  <2>5. c \in Collections /\ h.refs[c] = 0
    BY DEF FreeCollections
  <2> DEFINE g == Load(h, c)
  <2>6. /\ Room(g, n) /\ g.synths = h.synths /\ g.open = h.open
        /\ \A d \in Collections : g.refs[d] = h.refs[d] + One(c, d)
    <3>1. g.open = h.open
      BY LoadSame DEF SameCounts, Fits
    <3>. HIDE DEF g
    <3>. QED BY <2>5, <3>1, LoadRefs DEF g
  <2>. HIDE DEF g
  <2>7. ASSUME DlsKept(r, h, o.stream), NEW d \in Collections
        PROVE  Slack(g, d) - One(c, d) <= Slack(h, d) - One(r.dls, d)
    <3>1. Slack(g, d) = Slack(h, d) + (g.refs[d] - h.refs[d])
      BY <2>6, SynthsPoint DEF Room
    <3>2. r.dls = NULL
      BY <1>1, <2>4, <2>5, <2>7 DEF DlsKept
    <3>. QED BY <1>1, <2>6, <3>1, <3>2 DEF One
  <2>. QED BY <2>3, <2>4, <2>5, <2>6, <2>7 DEF NoMore, g
<1>. QED BY <1>3, <1>4, <1>5

\* The end of a prepare, with a new synthesizer and a new collection.
LEMMA AttachClean ==
    ASSUME TableAssumption, globalDLS \in DlsOrNull, NEW n \in Nat, NEW o, Fits(o.stream, o.heap),
           Room(o.heap, n + 1), DeadBare(o.heap), NEW h, SynthMade(h, o.stream, o.heap),
           o.stream.dls \in Collections, o.stream.dls # globalDLS
    PROVE  /\ Attach(o).stream = o.stream /\ Attach(o).heap.open = o.heap.open
           /\ DeadBare(Attach(o).heap)
           /\ NoMore(o.stream, o.heap, o.stream, Attach(o).heap) \/ Replaces(h, Attach(o).heap)
<1> DEFINE y == o.stream.synth
           c == o.stream.dls
           g == Share(o.heap, y, c)
<1>1. Attach(o).stream = o.stream /\ Attach(o).heap = g
  BY DEF Attach, Outcome
<1>2. c \in DlsOrNull /\ y \in Synths /\ o.heap.synths[y].refs = 1 /\ HeapOK(o.heap)
  BY DEF DlsOrNull, SynthMade, Fits
<1>. HIDE DEF c, y
<1>3. DeadBare(g)
  BY <1>2, SharedBare
<1>4. SameCounts(o.heap, g)
  BY <1>2, ShareSame
<1>5. /\ Room(g, n) /\ g.synths[y].dls = c
      /\ o.heap.synths[y].dls = NULL => SameSlack(o.heap, g)
  BY <1>2, ShareSlack
<1>. HIDE DEF g
<1>6. CASE globalDLS = NULL
  <2>1. SameSlack(o.heap, g) /\ Room(g, 0) /\ Room(o.heap, 0)
    BY <1>5, <1>6, RoomLess DEF SynthMade, y
  <2>2. NoMore(o.stream, o.heap, o.stream, g)
    BY <2>1, SameSlackNoMore
  <2>. QED BY <1>1, <1>3, <1>4, <2>2 DEF SameCounts
<1>7. CASE globalDLS # NULL
  <2>1. /\ h.synths[y].refs = 0 /\ g.synths[y].refs > 0 /\ g.synths[y].dls # globalDLS
    BY <1>2, <1>4, <1>5 DEF SynthMade, SameCounts, y, c
  <2>2. Replaces(h, g)
    BY <1>2, <1>7, <2>1 DEF Replaces
  <2>. QED BY <1>1, <1>3, <1>4, <2>2 DEF SameCounts
<1>. QED BY <1>6, <1>7

Clean(r, h, p, g) ==
    /\ Finds(r, h, p, g) /\ DeadBare(g)
    /\ DlsKept(r, h, p) => NoMore(r, h, p, g) \/ Replaces(h, g)

LEMMA XMFClean ==
    ASSUME TableAssumption, globalDLS \in DlsOrNull, 3 < CountModulus, NEW r, NEW h, Fits(r, h),
           IsSong(r), Room(h, 2), DeadBare(h), globalDLS # NULL => h.refs[globalDLS] > 0,
           NEW o \in XMF_Prepare(r, h)
    PROVE  Clean(r, h, o.stream, o.heap)
<1>0. Room(h, 1) /\ Room(h, 0)
  BY RoomLess
<1>1. CASE ~ r.file.dls
  <2>1. o \in SMF_Prepare(r, h)
    BY <1>1 DEF XMF_Prepare
  <2>. QED BY <1>0, <2>1, SMFClean DEF Clean
<1>2. CASE r.file.dls
  <2> DEFINE Song(p) == {IF q.result = "success" THEN Attach(q) ELSE q :
                            q \in SMF_Prepare(p.stream, p.heap)}
  <2>1. PICK p \in ParseDLS(r, h) : o \in IF p.result = "failure" THEN {p} ELSE Song(p)
    BY <1>2 DEF XMF_Prepare
  <2>2. Keeps(r, h, p.stream, p.heap)
    BY ParseDLSKeeps
  <2>3. Room(p.heap, 2)
    BY ParseDLSBalanced
  <2>4. Room(p.heap, 1) /\ Room(p.heap, 0)
    BY <2>3, RoomLess
  <2>5. /\ DlsKept(r, h, p.stream) => NoMore(r, h, p.stream, p.heap)
        /\ p.heap.synths = h.synths /\ p.heap.open = h.open
        /\ p.stream.tracks = r.tracks /\ SMF_Handles(p.stream) = SMF_Handles(r)
        /\ p.result # "failure" => p.stream.dls \in Collections /\ h.refs[p.stream.dls] = 0
    BY ParseDLSClean
  <2>6. DeadBare(p.heap) /\ Finds(r, h, p.stream, p.heap)
    BY <2>5 DEF DeadBare, Finds
  <2>7. CASE p.result = "failure"
    BY <2>1, <2>5, <2>6, <2>7 DEF Clean
  <2>8. CASE p.result # "failure"
    <3>1. PICK q \in SMF_Prepare(p.stream, p.heap) :
             o = IF q.result = "success" THEN Attach(q) ELSE q
      <4>1. o \in Song(p)
        BY <2>1, <2>8
      <4>. QED BY <4>1, Zenon
    <3>2. Fits(p.stream, p.heap) /\ IsSong(p.stream)
      BY <2>2 DEF Keeps, IsSong
    <3>3. Fits(q.stream, q.heap)
      BY <3>2, SMFPrepareKeeps DEF Keeps
    <3>4. Room(q.heap, 1)
      BY <2>3, <3>2, SMFBalanced
    <3>5. Room(q.heap, 0)
      BY <3>4, RoomLess
    <3>6. /\ Finds(p.stream, p.heap, q.stream, q.heap) /\ DeadBare(q.heap)
          /\ NoMore(p.stream, p.heap, q.stream, q.heap)
          /\ q.stream.dls = p.stream.dls
          /\ q.result = "success" => SynthMade(p.heap, q.stream, q.heap)
      BY <2>3, <2>6, <3>2, SMFClean
    <3>7. Finds(r, h, q.stream, q.heap)
      BY <2>5, <3>6 DEF Finds
    <3>8. DlsKept(r, h, q.stream) => NoMore(r, h, q.stream, q.heap)
      <4>1. DlsKept(r, h, q.stream) => NoMore(r, h, p.stream, p.heap)
        BY <2>5, <3>6 DEF DlsKept
      <4>. QED BY <1>0, <2>4, <3>5, <3>6, <4>1, NoMoreTwice
    <3>9. CASE q.result # "success"
      BY <3>1, <3>6, <3>7, <3>8, <3>9 DEF Clean
    <3>10. CASE q.result = "success"
      <4>1. SynthMade(h, q.stream, q.heap)
        BY <2>5, <3>6, <3>10 DEF SynthMade
      <4>2. q.stream.dls \in Collections /\ q.stream.dls # globalDLS
        BY <2>5, <2>8, <3>6 DEF TableAssumption
      <4>3. /\ Attach(q).stream = q.stream /\ Attach(q).heap.open = q.heap.open
            /\ DeadBare(Attach(q).heap)
            /\ NoMore(q.stream, q.heap, q.stream, Attach(q).heap) \/ Replaces(h, Attach(q).heap)
        BY <3>3, <3>4, <3>6, <4>1, <4>2, AttachClean
      <4>4. Room(Attach(q).heap, 0)
        BY <3>3, <3>4, AttachBalanced
      <4>5. DlsKept(r, h, q.stream) =>
               NoMore(r, h, q.stream, Attach(q).heap) \/ Replaces(h, Attach(q).heap)
        BY <1>0, <3>5, <3>8, <4>3, <4>4, NoMoreTwice
      <4>6. Finds(r, h, q.stream, Attach(q).heap)
        BY <3>7, <4>3 DEF Finds
      <4>. QED BY <3>1, <3>10, <4>3, <4>5, <4>6 DEF Clean
    <3>. QED BY <3>9, <3>10
  <2>. QED BY <2>7, <2>8
<1>. QED BY <1>1, <1>2

LEMMA RMIDClean ==
    ASSUME TableAssumption, globalDLS \in DlsOrNull, 3 < CountModulus, NEW r, NEW h, Fits(r, h),
           IsSong(r), Room(h, 2), DeadBare(h), globalDLS # NULL => h.refs[globalDLS] > 0,
           NEW o \in RMID_Prepare(r, h)
    PROVE  Clean(r, h, o.stream, o.heap)
<1> DEFINE Loaded(q) ==
              {IF p.result = "failure" THEN Outcome(p.stream, p.heap, "success") ELSE Attach(p) :
                  p \in ParseDLS(q.stream, q.heap)}
<1>0. Room(h, 0) /\ \A c \in Collections : h.refs[c] \in Nat
  BY RoomLess DEF Room
<1>1. PICK q \in SMF_Prepare(r, h) :
         o \in IF q.result # "success" \/ ~r.file.dls THEN {q} ELSE Loaded(q)
  BY DEF RMID_Prepare
<1>2. Fits(q.stream, q.heap)
  BY SMFPrepareKeeps DEF Keeps
<1>3. Room(q.heap, 1)
  BY SMFBalanced
<1>4. Room(q.heap, 0) /\ \A c \in Collections : q.heap.refs[c] \in Nat
  BY <1>3, RoomLess DEF Room
<1>5. /\ Finds(r, h, q.stream, q.heap) /\ DeadBare(q.heap) /\ NoMore(r, h, q.stream, q.heap)
      /\ q.stream.dls = r.dls
      /\ q.result = "success" => SynthMade(h, q.stream, q.heap)
      /\ \A c \in Collections : q.heap.refs[c] >= h.refs[c]
  BY SMFClean
<1>6. CASE q.result # "success" \/ ~r.file.dls
  BY <1>1, <1>5, <1>6 DEF Clean
<1>7. CASE ~ (q.result # "success" \/ ~r.file.dls)
  <2>1. PICK p \in ParseDLS(q.stream, q.heap) :
           o = IF p.result = "failure" THEN Outcome(p.stream, p.heap, "success") ELSE Attach(p)
    <3>1. o \in Loaded(q)
      BY <1>1, <1>7
    <3>. QED BY <3>1, Zenon
  <2>2. Fits(p.stream, p.heap)
    BY <1>2, ParseDLSKeeps DEF Keeps
  <2>3. Room(p.heap, 1) /\ p.stream.synth = q.stream.synth
    BY <1>2, <1>3, ParseDLSBalanced, ParseDLSKeeps
  <2>4. Room(p.heap, 0)
    BY <2>3, RoomLess
  <2>5. /\ DlsKept(q.stream, q.heap, p.stream) => NoMore(q.stream, q.heap, p.stream, p.heap)
        /\ p.heap.synths = q.heap.synths /\ p.heap.open = q.heap.open
        /\ p.stream.tracks = q.stream.tracks /\ SMF_Handles(p.stream) = SMF_Handles(q.stream)
        /\ p.result # "failure" =>
              p.stream.dls \in Collections /\ q.heap.refs[p.stream.dls] = 0
    BY <1>2, <1>3, ParseDLSClean
  <2>6. DeadBare(p.heap) /\ Finds(r, h, p.stream, p.heap)
    BY <1>5, <2>5 DEF DeadBare, Finds
  <2>7. DlsKept(r, h, p.stream) => NoMore(r, h, p.stream, p.heap)
    <3>1. r.dls \in DlsOrNull
      BY DEF Fits, StreamRecords
    <3>2. DlsKept(r, h, p.stream) => DlsKept(q.stream, q.heap, p.stream)
      <4>1. CASE r.dls = NULL
        BY <1>5, <4>1 DEF DlsKept
      <4>2. CASE r.dls # NULL
        <5>1. q.heap.refs[r.dls] >= h.refs[r.dls] /\ h.refs[r.dls] \in Nat /\ q.heap.refs[r.dls] \in Nat
          BY <1>0, <1>4, <1>5, <3>1, <4>2 DEF DlsOrNull
        <5>. QED BY <1>5, <4>2, <5>1 DEF DlsKept
      <4>. QED BY <4>1, <4>2
    <3>. QED BY <1>0, <1>4, <1>5, <2>4, <2>5, <3>2, NoMoreTwice
  <2>8. CASE p.result = "failure"
    <3>1. o.stream = p.stream /\ o.heap = p.heap
      BY <2>1, <2>8 DEF Outcome
    <3>. QED BY <2>6, <2>7, <3>1 DEF Clean
  <2>9. CASE p.result # "failure"
    <3>1. SynthMade(h, p.stream, p.heap)
      BY <1>5, <1>7, <2>3, <2>5 DEF SynthMade
    <3>2. p.stream.dls \in Collections /\ p.stream.dls # globalDLS
      <4>1. globalDLS # NULL => q.heap.refs[globalDLS] # 0
        BY <1>0, <1>4, <1>5 DEF DlsOrNull
      <4>. QED BY <2>5, <2>9, <4>1 DEF TableAssumption
    <3>3. /\ Attach(p).stream = p.stream /\ Attach(p).heap.open = p.heap.open
          /\ DeadBare(Attach(p).heap)
          /\ NoMore(p.stream, p.heap, p.stream, Attach(p).heap) \/ Replaces(h, Attach(p).heap)
      BY <2>2, <2>3, <2>6, <3>1, <3>2, AttachClean
    <3>4. Room(Attach(p).heap, 0)
      BY <2>2, <2>3, AttachBalanced
    <3>5. DlsKept(r, h, p.stream) =>
             NoMore(r, h, p.stream, Attach(p).heap) \/ Replaces(h, Attach(p).heap)
      BY <1>0, <2>4, <2>7, <3>3, <3>4, NoMoreTwice
    <3>6. Finds(r, h, p.stream, Attach(p).heap)
      BY <2>6, <3>3 DEF Finds
    <3>. QED BY <2>1, <2>9, <3>3, <3>5, <3>6 DEF Clean
  <2>. QED BY <2>8, <2>9
<1>. QED BY <1>6, <1>7

LEMMA PrepareClean ==
    ASSUME TableAssumption, globalDLS \in DlsOrNull, 3 < CountModulus, NEW r, NEW h, Fits(r, h),
           r.file.format \in FileFormats, Room(h, 2), DeadBare(h),
           globalDLS # NULL => h.refs[globalDLS] > 0, NEW o \in Prepare(r, h)
    PROVE  Clean(r, h, o.stream, o.heap)
<1>1. IsSong(r)
  BY DEF Fits, ShapeOK, IsSong, FileFormats
<1>2. CASE r.file.format = "smf"
  <2>1. o \in SMF_Prepare(r, h)
    BY <1>2 DEF Prepare
  <2>2. Room(h, 1)
    BY RoomLess
  <2>. QED BY <1>1, <2>1, <2>2, SMFClean DEF Clean
<1>3. CASE r.file.format = "xmf"
  BY <1>1, <1>3, XMFClean DEF Prepare
<1>4. CASE r.file.format = "rmid"
  BY <1>1, <1>4, RMIDClean DEF Prepare
<1>. QED BY <1>2, <1>3, <1>4 DEF FileFormats

(* TidyInv holds.                                                          *)

\* A synthesizer that a stream points to has a reference.
LEMMA SynthHeld ==
    ASSUME TableAssumption, IInv, NEW s \in Slots, streams[s].synth \in Synths
    PROVE  synths[streams[s].synth].refs > 0
<1> DEFINE y == streams[s].synth
<1>1. Cardinality(HoldersIn(streams, y)) # 0
  BY HoldersNone
<1>2. Cardinality(HoldersIn(streams, y)) \in Nat
  BY SynthsFinite, FS_Subset, FS_CardinalityType DEF HoldersIn
<1>3. synths[y].refs >= Cardinality(HoldersIn(streams, y)) /\ synths[y].refs \in Nat
  BY DEF IInv, SynthsAlive, SynthHolders, HoldersIn, TableOK, SynthRecords
<1>. QED BY <1>1, <1>2, <1>3

\* So has a collection with slack, among them the global one.
LEMMA SlackRefs ==
    ASSUME TableAssumption, NEW h, Room(h, 0), NEW c \in Collections, Slack(h, c) > 0
    PROVE  h.refs[c] > 0
<1>1. /\ Slack(h, c) = h.refs[c] - Cardinality(DlsOf(Synths, h.synths, c))
      /\ Cardinality(DlsOf(Synths, h.synths, c)) \in Nat /\ h.refs[c] \in Nat
  BY SlackIs DEF Slack, Room
<1>. QED BY <1>1

LEMMA GlobalHeld ==
    ASSUME TableAssumption, IInv, CollInv, MaxRefs + 3 < CountModulus, globalDLS # NULL
    PROVE  heap.refs[globalDLS] > 0 /\ globalDLS \in Collections
<1>1. globalDLS \in Collections
  BY CollNow DEF DlsOrNull
<1>2. Slack(heap, globalDLS) >= Cardinality(DlsOf(Slots, streams, globalDLS)) + 1
  BY <1>1, CollNow DEF AliveIn, One
<1>3. Cardinality(DlsOf(Slots, streams, globalDLS)) \in Nat /\ Slack(heap, globalDLS) \in Int
  BY <1>1, SynthsFinite, FS_Subset, FS_CardinalityType, CollNow, SlackIs DEF DlsOf, Room
<1>4. Slack(heap, globalDLS) > 0
  BY <1>2, <1>3
<1>. QED BY <1>1, <1>4, CollNow, SlackRefs

LEMMA TidyStream ==
    ASSUME IInv, TidyInv, NEW s \in Slots, NEW p, SlotOK(p), NEW g, DeadBare(g),
           streams' = [streams EXCEPT ![s] = p], synths' = g.synths
    PROVE  TidyInv'
<1>1. \A t \in Slots : SlotOK(streams'[t])
  BY DEF TidyInv, IInv, TableOK
<1>2. DeadBare(heap')
  BY DEF DeadBare, heap
<1>. QED BY <1>1, <1>2 DEF TidyInv, SlotOK, Bare, DeadBare, heap

LEMMA TidyHeap ==
    ASSUME TidyInv, NEW g, DeadBare(g), streams' = streams, synths' = g.synths
    PROVE  TidyInv'
BY DEF TidyInv, SlotOK, Bare, DeadBare, heap

LEMMA FilesTidy ==
    ASSUME TableAssumption, IInv, CollInv, MaxRefs + 3 < CountModulus, TidyInv
    PROVE  /\ \A f \in Files : EAS_OpenFile(f) => TidyInv'
           /\ \A s \in Slots : EAS_Prepare(s) \/ EAS_CloseFile(s) => TidyInv'
<1>0. DeadBare(heap) /\ HeapOK(heap) /\ heap.synths = synths
  BY CollNow DEF TidyInv, Room
<1>1. ASSUME NEW f \in Files, EAS_OpenFile(f) PROVE TidyInv'
  <2> DEFINE s == Min(FreeSlots)
             p == Opened(f, Spare(heap)[1])
  <2>1. s \in Slots
    BY <1>1, FreeSlotIsSlot DEF EAS_OpenFile
  <2>2. streams' = [streams EXCEPT ![s] = p] /\ synths' = heap.synths
    BY <1>0, <1>1 DEF EAS_OpenFile
  <2>3. f.format \in FileFormats
    BY DEF TableAssumption
  <2>4. SlotOK(p)
    BY <2>3 DEF SlotOK, Opened, Closed, FileFormats
  <2>. HIDE DEF s, p
  <2>. QED BY <1>0, <2>1, <2>2, <2>4, TidyStream
<1>2. ASSUME NEW s \in Slots, EAS_Prepare(s) PROVE TidyInv'
  <2> DEFINE r == streams[s]
  <2>1. Fits(r, heap) /\ r.file.format \in FileFormats
    BY <1>2, HeapIsOK DEF Fits, IInv, TableOK, HandlesOwned, EAS_Prepare, IsFile
  <2>2. PICK o \in Prepare(r, heap) :
           IF o.result = "crash" THEN Crash
           ELSE /\ streams' = [streams EXCEPT ![s] = o.stream]
                /\ Leaves(o.heap)
                /\ UNCHANGED <<globalDLS, phase>>
    BY <1>2 DEF EAS_Prepare
  <2>3. CASE o.result = "crash"
    <3>1. streams' = streams /\ synths' = heap.synths
      BY <1>0, <2>2, <2>3 DEF Crash
    <3>. QED BY <1>0, <3>1, TidyHeap
  <2>4. CASE o.result # "crash"
    <3>1. streams' = [streams EXCEPT ![s] = o.stream] /\ synths' = o.heap.synths
      BY <2>2, <2>4 DEF Leaves
    <3>2. Clean(r, heap, o.stream, o.heap)
      BY <1>0, <2>1, CollNow, RoomLess, GlobalHeld, PrepareClean
    <3>3. o.stream.file = r.file
      BY <2>1, CollNow, PrepareKeeps DEF Keeps
    <3>4. SlotOK(o.stream)
      BY <2>1, <3>3 DEF SlotOK, FileFormats
    <3>. QED BY <3>1, <3>2, <3>4, TidyStream DEF Clean
  <2>. QED BY <2>3, <2>4
<1>3. ASSUME NEW s \in Slots, EAS_CloseFile(s) PROVE TidyInv'
  <2>1. streams' = [streams EXCEPT ![s] = Closed] /\ synths' = Close(streams[s], heap).synths
    BY <1>3 DEF EAS_CloseFile, Leaves
  <2>2. SlotOK(Closed)
    BY DEF SlotOK, Bare, Closed
  <2>3. streams[s] \in StreamRecords
    BY DEF IInv, TableOK
  <2>4. DeadBare(Close(streams[s], heap))
    BY <1>0, <2>3, CloseBare
  <2>. QED BY <2>1, <2>2, <2>4, TidyStream
<1>. QED BY <1>1, <1>2, <1>3

LEMMA MIDITidy ==
    ASSUME TableAssumption, IInv, CollInv, MaxRefs + 3 < CountModulus, TidyInv,
           \/ EAS_OpenMIDIStream
           \/ \E s \in Slots : EAS_ShareMIDIStream(s) \/ EAS_CloseMIDIStream(s)
    PROVE  TidyInv'
<1>0. /\ DeadBare(heap) /\ HeapOK(heap) /\ heap.synths = synths /\ SlotOK(Closed)
      /\ globalDLS \in DlsOrNull
  BY CollNow DEF TidyInv, Room, SlotOK, Bare, Closed
<1>1. ASSUME NEW y PROVE SlotOK(RawMIDI(y))
  BY DEF SlotOK, Bare, RawMIDI, Closed
<1>2. CASE EAS_OpenMIDIStream
  <2> DEFINE s == Min(FreeSlots)
             y == Min(FreeSynths(heap))
  <2>1. s \in Slots /\ y \in Synths
    BY <1>2, FreeSlotIsSlot, FreeSynthIsSynth DEF EAS_OpenMIDIStream
  <2>2. streams' = [streams EXCEPT ![s] = RawMIDI(y)] /\ synths' = VMInitMIDI(heap, y).synths
    BY <1>2 DEF EAS_OpenMIDIStream, Leaves
  <2>. HIDE DEF s, y
  <2>3. DeadBare(VMInitMIDI(heap, y))
    BY <1>0, <2>1, InitBare
  <2>. QED BY <1>1, <2>1, <2>2, <2>3, TidyStream
<1>3. ASSUME NEW t \in Slots, EAS_ShareMIDIStream(t) PROVE TidyInv'
  <2>1. CASE IsRawMIDI(t) \/ streams[t].synth = NULL
    <3>1. streams' = streams /\ synths' = heap.synths
      BY <1>0, <1>3, <2>1 DEF EAS_ShareMIDIStream, Crash
    <3>. QED BY <1>0, <3>1, TidyHeap
  <2>2. CASE ~ (IsRawMIDI(t) \/ streams[t].synth = NULL)
    <3> DEFINE s == Min(FreeSlots)
               y == streams[t].synth
    <3>1. s \in Slots /\ y \in Synths
      BY <1>3, <2>2, FreeSlotIsSlot DEF EAS_ShareMIDIStream, IInv, TableOK, StreamRecords
    <3>2. /\ streams' = [streams EXCEPT ![s] = RawMIDI(y)]
          /\ synths' = VMIncRefCount(heap, y).synths
      BY <1>3, <2>2 DEF EAS_ShareMIDIStream, Leaves
    <3>. HIDE DEF s, y
    <3>3. DeadBare(VMIncRefCount(heap, y))
      BY <1>0, <3>1, IncBare
    <3>. QED BY <1>1, <3>1, <3>2, <3>3, TidyStream
  <2>. QED BY <2>1, <2>2
<1>4. ASSUME NEW s \in Slots, EAS_CloseMIDIStream(s) PROVE TidyInv'
  <2> DEFINE y == streams[s].synth
  <2>1. y \in Synths
    BY <1>4 DEF IInv, TableOK, ShapeOK, EAS_CloseMIDIStream, IsRawMIDI
  <2>2. /\ streams' = [streams EXCEPT ![s] = Closed]
        /\ synths' = VMMIDIShutdown(heap, y).synths
    BY <1>4 DEF EAS_CloseMIDIStream, Leaves
  <2>3. DeadBare(VMMIDIShutdown(heap, y))
    BY <1>0, <2>1, ShutdownBare
  <2>. QED BY <1>0, <2>2, <2>3, TidyStream
<1>. QED BY <1>2, <1>3, <1>4

LEMMA LoadsTidy ==
    ASSUME TableAssumption, IInv, CollInv, MaxRefs + 3 < CountModulus, TidyInv,
           NEW c \in Collections,
           LoadGlobal(c) \/ \E s \in Slots : LoadIntoFile(s, c) \/ LoadIntoMIDI(s, c)
    PROVE  TidyInv'
<1> DEFINE g == Load(heap, c)
<1>1. HeapOK(g) /\ DeadBare(g) /\ g.synths = synths
  <2>1. DeadBare(heap) /\ HeapOK(heap) /\ heap.synths = synths
    BY CollNow DEF TidyInv, Room
  <2>2. g.synths = heap.synths
    BY DEF Load, heap
  <2>3. HeapOK(g)
    BY <2>1, LoadSame DEF SameCounts
  <2>. HIDE DEF g
  <2>. QED BY <2>1, <2>2, <2>3 DEF DeadBare
<1>2. c \in DlsOrNull
  BY DEF DlsOrNull
<1>3. CASE LoadGlobal(c)
  <2>1. streams' = streams /\ synths' = DLSCleanup(g, globalDLS).synths
    BY <1>3 DEF LoadGlobal, Leaves
  <2>. HIDE DEF g
  <2>. QED BY <1>1, <2>1, CleanupBare, TidyHeap
<1>4. ASSUME NEW s \in Slots, LoadIntoFile(s, c) \/ LoadIntoMIDI(s, c) PROVE TidyInv'
  <2> DEFINE y == streams[s].synth
  <2>1. /\ streams' = streams
        /\ synths' \in {Share(g, y, c).synths, VMSetDLSLib(g, y, c).synths}
    BY <1>4 DEF LoadIntoFile, LoadIntoMIDI, Leaves
  <2>2. y \in Synths => g.synths[y].refs > 0
    BY <1>1, SynthHeld
  <2>. HIDE DEF g, y
  <2>3. DeadBare(VMSetDLSLib(g, y, c)) /\ DeadBare(Share(g, y, c))
    BY <1>1, <1>2, <2>2, SharedBare
  <2>. QED BY <2>1, <2>3, TidyHeap
<1>. QED BY <1>3, <1>4

LEMMA NextTidy ==
    ASSUME TableAssumption, IInv, CollInv, MaxRefs + 3 < CountModulus, TidyInv, [Next]_vars
    PROVE  TidyInv'
<1>1. CASE EAS_Shutdown
  <2>1. streams' = [s \in Slots |-> Closed] /\ synths' = [y \in Synths |-> NoSynth]
    BY <1>1 DEF EAS_Shutdown
  <2>. QED BY <2>1 DEF TidyInv, SlotOK, Bare, Closed, DeadBare, heap, NoSynth
<1>2. CASE EAS_Init \/ UNCHANGED vars
  <2>1. streams' = streams /\ synths' = synths
    BY <1>2 DEF EAS_Init, vars
  <2>. QED BY <2>1 DEF TidyInv, SlotOK, Bare, DeadBare, heap
<1>. QED BY <1>1, <1>2, FilesTidy, MIDITidy, LoadsTidy DEF Next

LEMMA InitTidy ==
    ASSUME Init
    PROVE  TidyInv
BY DEF Init, TidyInv, SlotOK, Bare, Closed, DeadBare, heap, NoSynth

(* What one call does to what is held.                                     *)

\* Nothing that was held, or free, is lost.
NothingLost ==
    /\ \A x \in Handles : Unheld(x)' => Unheld(x)
    /\ \A y \in Synths : ~ (SpareSynthRefs(y)' > SpareSynthRefs(y))
    /\ \A c \in Collections : ~ (SpareRefs(c)' > SpareRefs(c))

\* The three parts, for a call that gives one stream another value.
LEMMA HandlesStay ==
    ASSUME IInv, NEW s \in Slots, NEW p, streams' = [streams EXCEPT ![s] = p],
           open' \ open \subseteq SMF_Handles(p),
           SMF_Handles(streams[s]) \cap open' \subseteq SMF_Handles(p)
    PROVE  \A x \in Handles : Unheld(x)' => Unheld(x)
<1>1. streams'[s] = p /\ \A t \in Slots \ {s} : streams'[t] = streams[t]
  BY DEF IInv, TableOK
<1>2. ASSUME NEW x \in Handles, x \in open', \A t \in Slots : x \notin SMF_Handles(streams'[t])
      PROVE  x \in open /\ \A t \in Slots : x \notin SMF_Handles(streams[t])
  BY <1>1, <1>2
<1>. QED BY <1>2 DEF Unheld, HandleHolders, SMF_Handles

HoldersRecount(f, g, s, y) ==
    /\ Cardinality(HoldersIn(f, y)) \in Nat /\ Cardinality(HoldersIn(g, y)) \in Nat
    /\ Cardinality(HoldersIn(g, y)) =
          Cardinality(HoldersIn(f, y)) - One(f[s].synth, y) + One(g[s].synth, y)

LEMMA SynthRecount ==
    ASSUME TableAssumption, NEW f, NEW g, NEW s \in Slots, NEW y, OnlyAt(Slots, f, g, s)
    PROVE  HoldersRecount(f, g, s, y)
<1> DEFINE F == [t \in Slots |-> [dls |-> f[t].synth]]
           G == [t \in Slots |-> [dls |-> g[t].synth]]
<1>1. OnlyAt(Slots, F, G, s) /\ F[s].dls = f[s].synth /\ G[s].dls = g[s].synth
  BY DEF OnlyAt
<1>2. DlsOf(Slots, F, y) = HoldersIn(f, y) /\ DlsOf(Slots, G, y) = HoldersIn(g, y)
  BY DEF DlsOf, HoldersIn
<1>. HIDE DEF F, G
<1>3. Recount(Slots, F, G, s, y)
  BY <1>1, SynthsFinite, PointersChange
<1>. QED BY <1>1, <1>2, <1>3, Zenon DEF Recount, HoldersRecount

LEMMA SynthsStay ==
    ASSUME TableAssumption, IInv, NEW s \in Slots, NEW p, streams' = [streams EXCEPT ![s] = p],
           NEW g, HeapOK(g), synths' = g.synths,
           \A y \in Synths : g.synths[y].refs - One(p.synth, y)
                                <= synths[y].refs - One(streams[s].synth, y)
    PROVE  \A y \in Synths : ~ (SpareSynthRefs(y)' > SpareSynthRefs(y))
<1>1. OnlyAt(Slots, streams, streams', s) /\ streams'[s] = p
  BY DEF OnlyAt, IInv, TableOK
<1>2. ASSUME NEW y \in Synths
      PROVE  ~ (g.synths[y].refs - Cardinality(HoldersIn(streams', y))
                   > synths[y].refs - Cardinality(HoldersIn(streams, y)))
  <2>1. /\ Cardinality(HoldersIn(streams, y)) \in Nat /\ Cardinality(HoldersIn(streams', y)) \in Nat
        /\ Cardinality(HoldersIn(streams', y)) =
              Cardinality(HoldersIn(streams, y)) - One(streams[s].synth, y) + One(p.synth, y)
    <3>1. HoldersRecount(streams, streams', s, y)
      BY <1>1, SynthRecount
    <3>. QED BY <1>1, <3>1, Zenon DEF HoldersRecount
  <2>2. g.synths[y].refs \in Nat /\ synths[y].refs \in Nat
    BY DEF HeapOK, SynthRecords, IInv, TableOK
  <2>3. One(streams[s].synth, y) \in Nat /\ One(p.synth, y) \in Nat
    BY DEF One
  <2>4. g.synths[y].refs - One(p.synth, y) <= synths[y].refs - One(streams[s].synth, y)
    OBVIOUS
  <2>. QED BY <2>1, <2>2, <2>3, <2>4
<1>3. \A y \in Synths : SynthHolders(y) = HoldersIn(streams, y)
  BY DEF SynthHolders, HoldersIn
<1>4. \A y \in Synths : SynthHolders(y)' = HoldersIn(streams', y)
  BY DEF SynthHolders, HoldersIn
<1>. QED BY <1>2, <1>3, <1>4 DEF SpareSynthRefs

\* What a collection has to spare.
LEMMA SpareIs ==
    ASSUME TableAssumption, IInv, CollInv, MaxRefs + 3 < CountModulus, NEW c \in Collections
    PROVE  /\ SpareRefs(c) = Slack(heap, c) - Cardinality(DlsOf(Slots, streams, c))
                             - One(globalDLS, c)
           /\ Slack(heap, c) \in Int /\ Cardinality(DlsOf(Slots, streams, c)) \in Nat
<1>1. Slack(heap, c) \in Int /\ refs[c] \in Nat /\ heap.refs = refs /\ heap.synths = synths
  BY CollNow, SlackIs DEF Room
<1>2. /\ Cardinality(DlsOf(Slots, streams, c)) \in Nat
      /\ Cardinality(DlsOf(Synths, synths, c)) \in Nat
  BY SynthsFinite, FS_Subset, FS_CardinalityType DEF DlsOf
<1>3. SpareRefs(c) = refs[c] - (Cardinality(DlsOf(Synths, synths, c))
                                + Cardinality(DlsOf(Slots, streams, c)) + One(globalDLS, c))
  BY DEF SpareRefs, CollectionHolders, DlsOf, One
<1>4. Slack(heap, c) = refs[c] - Cardinality(DlsOf(Synths, synths, c))
  BY <1>1 DEF Slack
<1>. QED BY <1>1, <1>2, <1>3, <1>4 DEF One

LEMMA SpareNext ==
    ASSUME TableAssumption, NEW g, Room(g, 0), refs' = g.refs, synths' = g.synths,
           NEW c \in Collections
    PROVE  /\ SpareRefs(c)' = Slack(g, c) - Cardinality(DlsOf(Slots, streams', c))
                              - One(globalDLS', c)
           /\ Slack(g, c) \in Int /\ Cardinality(DlsOf(Slots, streams', c)) \in Nat
<1>1. Slack(g, c) \in Int /\ g.refs[c] \in Nat
  BY SlackIs DEF Room
<1>2. /\ Cardinality(DlsOf(Slots, streams', c)) \in Nat
      /\ Cardinality(DlsOf(Synths, g.synths, c)) \in Nat
  BY SynthsFinite, FS_Subset, FS_CardinalityType DEF DlsOf
<1>3. SpareRefs(c)' = g.refs[c] - (Cardinality(DlsOf(Synths, g.synths, c))
                                + Cardinality(DlsOf(Slots, streams', c)) + One(globalDLS', c))
  BY DEF SpareRefs, CollectionHolders, DlsOf, One
<1>4. Slack(g, c) = g.refs[c] - Cardinality(DlsOf(Synths, g.synths, c))
  BY DEF Slack
<1>. QED BY <1>1, <1>2, <1>3, <1>4 DEF One

LEMMA SpareStay ==
    ASSUME TableAssumption, IInv, CollInv, MaxRefs + 3 < CountModulus, NEW s \in Slots,
           NEW p, NEW g, Room(g, 0), NoMore(streams[s], heap, p, g),
           streams' = [streams EXCEPT ![s] = p], globalDLS' = globalDLS,
           refs' = g.refs, synths' = g.synths
    PROVE  \A c \in Collections : ~ (SpareRefs(c)' > SpareRefs(c))
<1>1. OnlyAt(Slots, streams, streams', s) /\ streams'[s] = p
  BY DEF OnlyAt, IInv, TableOK
<1>2. ASSUME NEW c \in Collections PROVE ~ (SpareRefs(c)' > SpareRefs(c))
  <2>1. Recount(Slots, streams, streams', s, c)
    BY <1>1, SynthsFinite, PointersChange
  <2>2. Cardinality(DlsOf(Slots, streams', c)) =
           Cardinality(DlsOf(Slots, streams, c)) - One(streams[s].dls, c) + One(p.dls, c)
    BY Zenon, <1>1, <2>1 DEF Recount
  <2>3. Slack(g, c) - One(p.dls, c) <= Slack(heap, c) - One(streams[s].dls, c)
    BY DEF NoMore
  <2>4. One(p.dls, c) \in Int /\ One(streams[s].dls, c) \in Int /\ One(globalDLS, c) \in Int
    BY DEF One
  <2>5. /\ SpareRefs(c) = Slack(heap, c) - Cardinality(DlsOf(Slots, streams, c)) - One(globalDLS, c)
        /\ Slack(heap, c) \in Int /\ Cardinality(DlsOf(Slots, streams, c)) \in Nat
    BY SpareIs
  <2>6. /\ SpareRefs(c)' = Slack(g, c) - Cardinality(DlsOf(Slots, streams', c)) - One(globalDLS, c)
        /\ Slack(g, c) \in Int /\ Cardinality(DlsOf(Slots, streams', c)) \in Nat
    BY SpareNext
  <2>. QED BY <2>2, <2>3, <2>4, <2>5, <2>6
<1>. QED BY <1>2

LEMMA BareHandles ==
    ASSUME NEW r, ShapeOK(r), Bare(r)
    PROVE  SMF_Handles(r) = {}
<1>1. r.numStreams = 0
  BY DEF ShapeOK, Bare
<1>. QED BY <1>1 DEF SMF_Handles, Bare

LEMMA FreeSlotBare ==
    ASSUME TableAssumption, IInv, TidyInv, FreeSlots # {}
    PROVE  /\ Min(FreeSlots) \in Slots
           /\ streams[Min(FreeSlots)].synth = NULL /\ streams[Min(FreeSlots)].dls = NULL
           /\ SMF_Handles(streams[Min(FreeSlots)]) = {}
<1> DEFINE s == Min(FreeSlots)
<1>1. FreeSlots \subseteq Nat
  BY DEF FreeSlots, Slots, TableAssumption
<1>2. s \in FreeSlots
  BY <1>1, MinInSet
<1>. HIDE DEF s
<1>3. s \in Slots /\ streams[s].file.format = "none"
  BY <1>2 DEF FreeSlots
<1>4. streams[s].synth = NULL /\ Bare(streams[s]) /\ ShapeOK(streams[s])
  BY <1>3 DEF TidyInv, SlotOK, IInv
<1>5. SMF_Handles(streams[s]) = {} /\ streams[s].dls = NULL
  BY <1>4, BareHandles DEF Bare
<1>. QED BY <1>3, <1>4, <1>5 DEF s

\* A stream's collection is among those that its slack is for.
LEMMA StreamSlack ==
    ASSUME TableAssumption, IInv, CollInv, MaxRefs + 3 < CountModulus, NEW s \in Slots,
           NEW d \in Collections
    PROVE  Slack(heap, d) >= One(streams[s].dls, d) /\ Slack(heap, d) >= 0
<1>1. Slack(heap, d) >= Cardinality(DlsOf(Slots, streams, d)) + One(globalDLS, d)
  BY CollNow DEF AliveIn
<1>2. Slack(heap, d) \in Int /\ Cardinality(DlsOf(Slots, streams, d)) \in Nat
  BY SpareIs
<1>3. streams[s].dls = d => Cardinality(DlsOf(Slots, streams, d)) # 0
  <2>1. streams[s].dls = d => s \in DlsOf(Slots, streams, d)
    BY DEF DlsOf
  <2>2. IsFiniteSet(DlsOf(Slots, streams, d))
    BY SynthsFinite, FS_Subset DEF DlsOf
  <2>. QED BY <2>1, <2>2, FS_EmptySet
<1>. QED BY <1>1, <1>2, <1>3 DEF One

LEMMA ShutdownExact ==
    ASSUME TableAssumption, NEW h, HeapOK(h), NEW y \in Synths, h.synths[y].refs > 0
    PROVE  VMMIDIShutdown(h, y).synths[y].refs = h.synths[y].refs - 1
<1>1. CASE h.synths[y].refs > 1
  <2>1. VMMIDIShutdown(h, y) = [h EXCEPT !.synths[y].refs = @ - 1]
    BY <1>1 DEF VMMIDIShutdown
  <2>. QED BY <1>1, <2>1 DEF HeapOK, SynthRecords
<1>2. CASE ~ (h.synths[y].refs > 1)
  <2> DEFINE g == [h EXCEPT !.synths[y] = NoSynth]
  <2>1. HeapOK(g) /\ g.synths[y].refs = 0
    BY DEF HeapOK, SynthRecords, NoSynth, DlsOrNull
  <2>2. VMMIDIShutdown(h, y) = DLSCleanup(g, h.synths[y].dls)
    BY <1>2 DEF VMMIDIShutdown
  <2>3. h.synths[y].refs = 1
    BY <1>2 DEF HeapOK, SynthRecords
  <2>. HIDE DEF g
  <2>4. SameCounts(g, VMMIDIShutdown(h, y))
    BY <2>1, <2>2, DLSCleanupSame
  <2>. QED BY <2>1, <2>3, <2>4 DEF SameCounts
<1>. QED BY <1>1, <1>2

LEMMA CloseExact ==
    ASSUME TableAssumption, NEW r \in StreamRecords, NEW h, HeapOK(h),
           r.synth # NULL => h.synths[r.synth].refs > 0
    PROVE  \A z \in Synths : Close(r, h).synths[z].refs = h.synths[z].refs - One(r.synth, z)
<1> DEFINE g == [h EXCEPT !.open = @ \ SMF_Handles(r)]
           k == SMF_Close(r, h)
<1>1. HeapOK(g) /\ g.synths = h.synths
  BY DEF HeapOK
<1>2. k = IF r.synth = NULL THEN g ELSE VMMIDIShutdown(g, r.synth)
  BY DEF SMF_Close
<1>3. \A z \in Synths : h.synths[z].refs \in Nat /\ z # NULL
  BY DEF HeapOK, SynthRecords, TableAssumption
<1>. HIDE DEF g, k
<1>4. HeapOK(k) /\ \A z \in Synths : k.synths[z].refs = h.synths[z].refs - One(r.synth, z)
  <2>1. CASE r.synth = NULL
    BY <1>1, <1>2, <1>3, <2>1 DEF One
  <2>2. CASE r.synth # NULL
    <3>1. r.synth \in Synths
      BY <2>2 DEF StreamRecords
    <3>2. g.synths[r.synth].refs > 0
      BY <1>1, <2>2
    <3>. QED BY <1>1, <1>2, <1>3, <2>2, <3>1, <3>2, VMMIDIShutdownOne, ShutdownExact DEF One
  <2>. QED BY <2>1, <2>2
<1>5. SameCounts(k, Close(r, h))
  BY <1>4, DLSCleanupSame DEF Close, k
<1>. QED BY <1>4, <1>5 DEF SameCounts

(* The calls, one by one.                                                  *)

LEMMA OpenFileLoses ==
    ASSUME TableAssumption, IInv, CollInv, MaxRefs + 3 < CountModulus, TidyInv,
           NEW f \in Files, EAS_OpenFile(f)
    PROVE  NothingLost
<1> DEFINE s == Min(FreeSlots)
           x == Spare(heap)[1]
           p == Opened(f, x)
<1>1. /\ s \in Slots /\ streams[s].synth = NULL /\ streams[s].dls = NULL
      /\ SMF_Handles(streams[s]) = {}
  BY FreeSlotBare DEF EAS_OpenFile
<1>2. /\ streams' = [streams EXCEPT ![s] = p] /\ open' = open \cup {x}
      /\ refs' = heap.refs /\ synths' = heap.synths /\ globalDLS' = globalDLS
  BY CollNow DEF EAS_OpenFile
<1>3. x \in Handles
  <2>1. 1 \in 1 .. NumSpare(heap)
    BY SpareHandles DEF EAS_OpenFile
  <2>2. x \in Handles \ heap.open
    BY <2>1, SpareHandles
  <2>. QED BY <2>2
<1>. HIDE DEF s, x
<1>4. p.synth = NULL /\ p.dls = NULL /\ SMF_Handles(p) = {x}
  <2>1. p.synth = NULL /\ p.dls = NULL /\ p.handle = x /\ p.numStreams = 0
    BY DEF Opened, Closed
  <2>2. x # NULL
    BY <1>3 DEF TableAssumption
  <2>. QED BY <2>1, <2>2 DEF SMF_Handles
<1>. HIDE DEF p
<1>5. \A z \in Handles : Unheld(z)' => Unheld(z)
  BY <1>1, <1>2, <1>4, HandlesStay
<1>6. HeapOK(heap) /\ heap.synths = synths /\ Room(heap, 0) /\ synths \in [Synths -> SynthRecords]
  BY CollNow DEF Room, HeapOK
<1>7. \A y \in Synths : heap.synths[y].refs - One(p.synth, y)
                           <= synths[y].refs - One(streams[s].synth, y)
  BY <1>1, <1>4, <1>6 DEF One, SynthRecords
<1>8. \A y \in Synths : ~ (SpareSynthRefs(y)' > SpareSynthRefs(y))
  BY <1>1, <1>2, <1>6, <1>7, SynthsStay
<1>9. NoMore(streams[s], heap, p, heap)
  BY <1>1, <1>4, <1>6, SameSlackNoMore DEF SameSlack
<1>10. \A c \in Collections : ~ (SpareRefs(c)' > SpareRefs(c))
  BY <1>1, <1>2, <1>6, <1>9, SpareStay
<1>. QED BY <1>5, <1>8, <1>10 DEF NothingLost

LEMMA PrepareLoses ==
    ASSUME TableAssumption, IInv, CollInv, MaxRefs + 3 < CountModulus, TidyInv,
           NEW s \in Slots, EAS_Prepare(s)
    PROVE  NothingLost \/ PreparesAgain
           \/ /\ ReplacesCollection
              /\ \A x \in Handles : Unheld(x)' => Unheld(x)
              /\ \A y \in Synths : ~ (SpareSynthRefs(y)' > SpareSynthRefs(y))
<1> DEFINE r == streams[s]
<1>1. Fits(r, heap) /\ r.file.format \in FileFormats /\ r.state = "OPEN"
  BY HeapIsOK DEF Fits, IInv, TableOK, HandlesOwned, EAS_Prepare, IsFile
<1>2. PICK o \in Prepare(r, heap) :
         IF o.result = "crash" THEN Crash
         ELSE /\ streams' = [streams EXCEPT ![s] = o.stream]
              /\ Leaves(o.heap)
              /\ UNCHANGED <<globalDLS, phase>>
  BY DEF EAS_Prepare
<1>3. /\ Room(heap, 0) /\ heap.synths = synths /\ heap.open = open /\ HeapOK(heap)
      /\ synths \in [Synths -> SynthRecords]
  BY CollNow DEF Room, heap, HeapOK
<1>4. CASE o.result = "crash"
  <2>1. /\ streams' = [streams EXCEPT ![s] = r] /\ streams' = streams /\ open' = open
        /\ synths' = heap.synths /\ refs' = heap.refs /\ globalDLS' = globalDLS
    BY <1>2, <1>4, CollNow DEF Crash, IInv, TableOK
  <2>2. \A x \in Handles : Unheld(x)' => Unheld(x)
    BY <2>1, HandlesStay
  <2>3. \A y \in Synths : heap.synths[y].refs - One(r.synth, y) <= synths[y].refs - One(r.synth, y)
    BY <1>3 DEF One, SynthRecords
  <2>4. \A y \in Synths : ~ (SpareSynthRefs(y)' > SpareSynthRefs(y))
    BY <1>3, <2>1, <2>3, SynthsStay
  <2>5. NoMore(r, heap, r, heap)
    BY <1>3, SameSlackNoMore DEF SameSlack
  <2>6. \A c \in Collections : ~ (SpareRefs(c)' > SpareRefs(c))
    BY <1>3, <2>1, <2>5, SpareStay
  <2>. QED BY <2>2, <2>4, <2>6 DEF NothingLost
<1>5. CASE o.result # "crash"
  <2> DEFINE p == o.stream
             g == o.heap
  <2>1. /\ streams' = [streams EXCEPT ![s] = p] /\ streams'[s] = p /\ synths' = g.synths
        /\ refs' = g.refs /\ open' = g.open /\ globalDLS' = globalDLS
    BY <1>2, <1>5 DEF Leaves, IInv, TableOK
  <2>2. Clean(r, heap, p, g)
    BY <1>1, CollNow, RoomLess, GlobalHeld, PrepareClean DEF TidyInv
  <2>3. Keeps(r, heap, p, g) /\ Gets(r, heap, p, g)
    BY <1>1, CollNow, PrepareKeeps
  <2>4. Room(g, 0)
    BY <1>1, CollNow, RoomLess, PrepareBalanced
  <2>. HIDE DEF p, g
  <2>5. CASE p # r /\ ~ (r.synth = NULL /\ r.dls = NULL /\ r.tracks = <<>>)
    <3>1. p.file.format \in FileFormats
      BY <1>1, <2>3 DEF Keeps
    <3>2. p # Closed
      BY <3>1 DEF Closed, FileFormats
    <3>. QED BY <1>1, <2>1, <2>5, <3>2 DEF PreparesAgain
  <2>6. CASE p = r \/ (r.synth = NULL /\ r.dls = NULL /\ r.tracks = <<>>)
    <3>1. SMF_Handles(r) \subseteq SMF_Handles(p) /\ g.open \ open \subseteq SMF_Handles(p)
      BY <1>3, <2>2, <2>6 DEF Clean, Finds
    <3>2. \A x \in Handles : Unheld(x)' => Unheld(x)
      BY <2>1, <3>1, HandlesStay
    <3>3. ASSUME NEW y \in Synths
          PROVE  g.synths[y].refs - One(p.synth, y) <= synths[y].refs - One(r.synth, y)
      <4>1. synths[y].refs \in Nat /\ g.synths[y].refs \in Nat /\ y # NULL
        BY <1>3, <2>3 DEF Keeps, Fits, HeapOK, SynthRecords, TableAssumption
      <4>2. CASE /\ p.synth \in {r.synth, NULL}
                 /\ \A z \in Synths : g.synths[z].refs = heap.synths[z].refs
        BY <1>3, <2>6, <4>1, <4>2 DEF One
      <4>3. CASE \E z \in Synths :
                    /\ heap.synths[z].refs = 0 /\ p.synth = z
                    /\ \A w \in Synths : g.synths[w].refs =
                                            IF w = z THEN 1 ELSE heap.synths[w].refs
        <5>1. r.synth \notin Synths \/ heap.synths[r.synth].refs > 0
          BY <1>3, SynthHeld
        <5>2. r.synth = NULL
          BY <2>6, <4>3, <5>1
        <5>. QED BY <1>3, <4>1, <4>3, <5>2 DEF One
      <4>. QED BY <2>3, <4>2, <4>3 DEF Gets
    <3>4. \A y \in Synths : ~ (SpareSynthRefs(y)' > SpareSynthRefs(y))
      BY <2>1, <2>4, <3>3, SynthsStay DEF Room
    <3>5. DlsKept(r, heap, p)
      <4>1. CASE r.dls = NULL
        BY <4>1 DEF DlsKept
      <4>2. CASE r.dls # NULL
        <5>1. r.dls \in Collections /\ p.dls = r.dls
          BY <1>1, <2>6, <4>2 DEF Fits, StreamRecords, DlsOrNull
        <5>2. Slack(heap, r.dls) >= 1 /\ Slack(heap, r.dls) \in Int
          BY <5>1, StreamSlack, SpareIs DEF One
        <5>. QED BY <1>3, <5>1, <5>2, SlackRefs DEF DlsKept
      <4>. QED BY <4>1, <4>2
    <3>6. CASE NoMore(r, heap, p, g)
      <4>1. \A c \in Collections : ~ (SpareRefs(c)' > SpareRefs(c))
        BY <2>1, <2>4, <3>6, SpareStay
      <4>. QED BY <3>2, <3>4, <4>1 DEF NothingLost
    <3>7. CASE Replaces(heap, g)
      <4>1. ReplacesCollection
        BY <1>3, <2>1, <3>7 DEF Replaces, ReplacesCollection
      <4>. QED BY <3>2, <3>4, <4>1
    <3>. QED BY <2>2, <3>5, <3>6, <3>7 DEF Clean
  <2>. QED BY <2>5, <2>6
<1>. QED BY <1>4, <1>5

\* The stream of a slot gets a synthesizer, or lets go of one; the heap keeps
\* its slack, and the handles their streams.
LEMMA SlotLoses ==
    ASSUME TableAssumption, IInv, CollInv, MaxRefs + 3 < CountModulus, NEW s \in Slots,
           SMF_Handles(streams[s]) \cap open' = {}, open' \subseteq open,
           NEW p, NEW g, Room(g, 0), NoMore(streams[s], heap, p, g),
           streams' = [streams EXCEPT ![s] = p], globalDLS' = globalDLS,
           refs' = g.refs, synths' = g.synths,
           \A y \in Synths : g.synths[y].refs - One(p.synth, y)
                                <= synths[y].refs - One(streams[s].synth, y)
    PROVE  NothingLost
<1>1. \A x \in Handles : Unheld(x)' => Unheld(x)
  BY HandlesStay
<1>2. \A y \in Synths : ~ (SpareSynthRefs(y)' > SpareSynthRefs(y))
  BY SynthsStay DEF Room
<1>3. \A c \in Collections : ~ (SpareRefs(c)' > SpareRefs(c))
  BY SpareStay
<1>. QED BY <1>1, <1>2, <1>3 DEF NothingLost

LEMMA ClosedHandles == Closed.synth = NULL /\ Closed.dls = NULL
BY DEF Closed

LEMMA CloseFileLoses ==
    ASSUME TableAssumption, IInv, CollInv, MaxRefs + 3 < CountModulus,
           NEW s \in Slots, EAS_CloseFile(s)
    PROVE  NothingLost
<1> DEFINE r == streams[s]
           g == Close(r, heap)
<1>1. /\ streams' = [streams EXCEPT ![s] = Closed] /\ synths' = g.synths /\ refs' = g.refs
      /\ open' = g.open /\ globalDLS' = globalDLS
  BY DEF EAS_CloseFile, Leaves
<1>2. r \in StreamRecords /\ ShapeOK(r)
  BY DEF IInv, TableOK
<1>3. /\ Room(heap, 0) /\ heap.synths = synths /\ heap.open = open /\ HeapOK(heap)
      /\ synths \in [Synths -> SynthRecords]
  BY CollNow DEF Room, heap, HeapOK
<1>4. g.open = open \ SMF_Handles(r)
  BY <1>2, <1>3, CloseOwn
<1>5. \A d \in Collections : Slack(heap, d) >= One(r.dls, d) /\ Slack(heap, d) \in Int
  BY StreamSlack, SpareIs
<1>6. Room(g, 0) /\ \A d \in Collections : Slack(g, d) = Slack(heap, d) - One(r.dls, d)
  BY <1>2, <1>3, <1>5, CloseBalanced
<1>7. r.synth # NULL => heap.synths[r.synth].refs > 0
  BY <1>2, <1>3, SynthHeld DEF StreamRecords
<1>8. \A z \in Synths : g.synths[z].refs = heap.synths[z].refs - One(r.synth, z)
  BY <1>2, <1>3, <1>7, CloseExact
<1>. HIDE DEF g
<1>9. NoMore(r, heap, Closed, g)
  <2>1. ASSUME NEW c \in Collections
        PROVE  Slack(g, c) - One(Closed.dls, c) <= Slack(heap, c) - One(r.dls, c)
    <3>1. One(Closed.dls, c) = 0 /\ One(r.dls, c) \in Int
      BY ClosedHandles DEF One, TableAssumption
    <3>. QED BY <1>5, <1>6, <3>1
  <2>. QED BY <2>1 DEF NoMore
<1>10. ASSUME NEW y \in Synths
       PROVE  g.synths[y].refs - One(Closed.synth, y) <= synths[y].refs - One(r.synth, y)
  <2>1. synths[y].refs \in Nat /\ One(r.synth, y) \in Nat /\ One(Closed.synth, y) = 0
    BY <1>3, ClosedHandles DEF SynthRecords, One, TableAssumption
  <2>. QED BY <1>3, <1>8, <2>1
<1>11. SMF_Handles(r) \cap open' = {} /\ open' \subseteq open
  BY <1>1, <1>4
<1>. QED BY <1>1, <1>6, <1>9, <1>10, <1>11, SlotLoses

LEMMA OpenMIDILoses ==
    ASSUME TableAssumption, IInv, CollInv, MaxRefs + 3 < CountModulus, TidyInv,
           EAS_OpenMIDIStream
    PROVE  NothingLost
<1> DEFINE s == Min(FreeSlots)
           y == Min(FreeSynths(heap))
           g == VMInitMIDI(heap, y)
<1>1. /\ s \in Slots /\ streams[s].synth = NULL /\ streams[s].dls = NULL
      /\ SMF_Handles(streams[s]) = {}
  BY FreeSlotBare DEF EAS_OpenMIDIStream
<1>2. y \in Synths /\ heap.synths[y].refs = 0
  BY FreeSynthIsSynth DEF EAS_OpenMIDIStream
<1>3. /\ streams' = [streams EXCEPT ![s] = RawMIDI(y)] /\ synths' = g.synths /\ refs' = g.refs
      /\ open' = g.open /\ globalDLS' = globalDLS
  BY DEF EAS_OpenMIDIStream, Leaves
<1>4. RawMIDI(y).dls = NULL /\ RawMIDI(y).synth = y
  BY DEF RawMIDI, Closed
<1>. HIDE DEF s, y
<1>5. /\ Room(heap, 1) /\ Room(heap, 0) /\ heap.synths = synths /\ heap.open = open
      /\ HeapOK(heap) /\ synths \in [Synths -> SynthRecords] /\ globalDLS \in DlsOrNull
  BY CollNow, RoomLess DEF Room, heap, HeapOK
<1>6. heap.synths[y].dls = NULL
  BY <1>2 DEF TidyInv, DeadBare
<1>7. Room(g, 0) /\ SameSlack(heap, g)
  BY <1>2, <1>5, <1>6, InitSlack
<1>8. NewSynth(heap, g, y)
  BY <1>2, <1>5, VMInitMIDINew
<1>. HIDE DEF g
<1>9. NoMore(streams[s], heap, RawMIDI(y), g)
  BY <1>1, <1>4, <1>5, <1>7, SameSlackNoMore
<1>10. ASSUME NEW z \in Synths
       PROVE  g.synths[z].refs - One(RawMIDI(y).synth, z) <= synths[z].refs - One(streams[s].synth, z)
  <2>1. synths[z].refs \in Nat /\ z # NULL
    BY <1>5 DEF SynthRecords, TableAssumption
  <2>2. g.synths[z].refs = IF z = y THEN 1 ELSE synths[z].refs
    BY <1>5, <1>8 DEF NewSynth
  <2>. QED BY <1>1, <1>2, <1>4, <1>5, <2>1, <2>2 DEF One
<1>11. open' = open
  BY <1>3, <1>5, <1>8 DEF NewSynth
<1>. QED BY <1>1, <1>3, <1>7, <1>9, <1>10, <1>11, SlotLoses

LEMMA SameLoses ==
    ASSUME UNCHANGED <<streams, synths, refs, open, globalDLS>>, TableAssumption, IInv,
           CollInv, MaxRefs + 3 < CountModulus
    PROVE  NothingLost
<1>1. \A x \in Handles : Unheld(x)' <=> Unheld(x)
  BY DEF Unheld, HandleHolders, SMF_Handles
<1>2. ASSUME NEW y \in Synths PROVE ~ (SpareSynthRefs(y)' > SpareSynthRefs(y))
  <2>1. SynthHolders(y)' = HoldersIn(streams, y) /\ SynthHolders(y) = HoldersIn(streams, y)
    BY DEF SynthHolders, HoldersIn
  <2>2. Cardinality(HoldersIn(streams, y)) \in Nat /\ synths[y].refs \in Nat
    BY SynthsFinite, FS_Subset, FS_CardinalityType DEF HoldersIn, IInv, TableOK, SynthRecords
  <2>. QED BY <2>1, <2>2 DEF SpareSynthRefs
<1>3. ASSUME NEW c \in Collections PROVE ~ (SpareRefs(c)' > SpareRefs(c))
  <2>1. SpareRefs(c)' = SpareRefs(c)
    BY DEF SpareRefs, CollectionHolders
  <2>2. SpareRefs(c) \in Int
    BY SpareIs DEF One
  <2>. QED BY <2>1, <2>2
<1>. QED BY <1>1, <1>2, <1>3 DEF NothingLost

LEMMA ShareMIDILoses ==
    ASSUME TableAssumption, IInv, CollInv, MaxRefs + 3 < CountModulus, TidyInv,
           NEW t \in Slots, EAS_ShareMIDIStream(t)
    PROVE  NothingLost
<1>1. CASE IsRawMIDI(t) \/ streams[t].synth = NULL
  BY <1>1, SameLoses DEF EAS_ShareMIDIStream, Crash
<1>2. CASE ~ (IsRawMIDI(t) \/ streams[t].synth = NULL)
  <2> DEFINE s == Min(FreeSlots)
             y == streams[t].synth
             g == VMIncRefCount(heap, y)
  <2>1. /\ s \in Slots /\ streams[s].synth = NULL /\ streams[s].dls = NULL
        /\ SMF_Handles(streams[s]) = {}
    BY FreeSlotBare DEF EAS_ShareMIDIStream
  <2>2. y \in Synths
    BY <1>2 DEF IInv, TableOK, StreamRecords
  <2>3. /\ streams' = [streams EXCEPT ![s] = RawMIDI(y)] /\ synths' = g.synths /\ refs' = g.refs
        /\ open' = g.open /\ globalDLS' = globalDLS
    BY <1>2 DEF EAS_ShareMIDIStream, Leaves
  <2>4. RawMIDI(y).dls = NULL /\ RawMIDI(y).synth = y
    BY DEF RawMIDI, Closed
  <2>. HIDE DEF s, y
  <2>5. /\ Room(heap, 0) /\ heap.synths = synths /\ heap.open = open /\ HeapOK(heap)
        /\ synths \in [Synths -> SynthRecords]
    BY CollNow DEF Room, heap, HeapOK
  <2>6. /\ g.refs = heap.refs /\ \A z \in Synths : g.synths[z].dls = heap.synths[z].dls
    BY <2>2, <2>5 DEF HeapOK, VMIncRefCount, SynthRecords
  <2>7. /\ HeapOK(g) /\ g.open = heap.open
        /\ \A z \in Synths : g.synths[z].refs =
              IF z = y THEN heap.synths[z].refs + 1 ELSE heap.synths[z].refs
    BY <2>2, <2>5, VMIncRefCountOne
  <2>. HIDE DEF g
  <2>8. Room(g, 0)
    BY <2>5, <2>6, <2>7 DEF Room
  <2>9. SameSlack(heap, g)
    <3>1. \A d \in Collections : DlsOf(Synths, g.synths, d) = DlsOf(Synths, heap.synths, d)
      BY <2>6 DEF DlsOf
    <3>. QED BY <2>6, <3>1 DEF SameSlack, Slack
  <2>10. NoMore(streams[s], heap, RawMIDI(y), g)
    BY <2>1, <2>4, <2>5, <2>8, <2>9, SameSlackNoMore
  <2>11. ASSUME NEW z \in Synths
         PROVE  g.synths[z].refs - One(RawMIDI(y).synth, z)
                   <= synths[z].refs - One(streams[s].synth, z)
    <3>1. synths[z].refs \in Nat /\ z # NULL
      BY <2>5 DEF SynthRecords, TableAssumption
    <3>2. g.synths[z].refs = IF z = y THEN synths[z].refs + 1 ELSE synths[z].refs
      BY <2>5, <2>7
    <3>. QED BY <2>1, <2>4, <3>1, <3>2 DEF One
  <2>. QED BY <2>1, <2>3, <2>5, <2>7, <2>8, <2>10, <2>11, SlotLoses
<1>. QED BY <1>1, <1>2

LEMMA CloseMIDILoses ==
    ASSUME TableAssumption, IInv, CollInv, MaxRefs + 3 < CountModulus, TidyInv,
           NEW s \in Slots, EAS_CloseMIDIStream(s)
    PROVE  NothingLost
<1> DEFINE r == streams[s]
           y == r.synth
           g == VMMIDIShutdown(heap, y)
<1>1. y \in Synths /\ Bare(r) /\ ShapeOK(r)
  BY DEF IInv, TableOK, ShapeOK, EAS_CloseMIDIStream, IsRawMIDI, TidyInv, SlotOK
<1>2. /\ streams' = [streams EXCEPT ![s] = Closed] /\ synths' = g.synths /\ refs' = g.refs
      /\ open' = g.open /\ globalDLS' = globalDLS
  BY DEF EAS_CloseMIDIStream, Leaves
<1>3. /\ Room(heap, 0) /\ heap.synths = synths /\ heap.open = open /\ HeapOK(heap)
      /\ synths \in [Synths -> SynthRecords]
  BY CollNow DEF Room, heap, HeapOK
<1>4. r.dls = NULL /\ SMF_Handles(r) = {}
  BY <1>1, BareHandles DEF Bare
<1>5. synths[y].refs > 0
  BY <1>1, SynthHeld
<1>6. g.open = heap.open /\ \A z \in Synths \ {y} : g.synths[z].refs = heap.synths[z].refs
  BY <1>1, <1>3, VMMIDIShutdownOne
<1>7. g.synths[y].refs = synths[y].refs - 1
  BY <1>1, <1>3, <1>5, ShutdownExact
<1>8. Room(g, 0) /\ SameSlack(heap, g)
  BY <1>1, <1>3, StreamSlack, ShutdownSlack
<1>. HIDE DEF g
<1>9. NoMore(r, heap, Closed, g)
  BY <1>3, <1>4, <1>8, ClosedHandles, SameSlackNoMore
<1>10. ASSUME NEW z \in Synths
       PROVE  g.synths[z].refs - One(Closed.synth, z) <= synths[z].refs - One(r.synth, z)
  <2>1. synths[z].refs \in Nat /\ One(Closed.synth, z) = 0
    BY <1>3, ClosedHandles DEF SynthRecords, TableAssumption, One
  <2>2. CASE z = y
    BY <1>7, <2>1, <2>2 DEF One
  <2>3. CASE z # y
    BY <1>3, <1>6, <2>1, <2>3 DEF One
  <2>. QED BY <2>2, <2>3
<1>. QED BY <1>2, <1>3, <1>4, <1>6, <1>8, <1>9, <1>10, SlotLoses

\* A call that changes no stream, no file and no reference to a synthesizer.
LEMMA HeapLoses ==
    ASSUME TableAssumption, IInv, CollInv, MaxRefs + 3 < CountModulus, NEW g,
           SameCounts(heap, g), streams' = streams, synths' = g.synths, open' = g.open
    PROVE  /\ \A x \in Handles : Unheld(x)' => Unheld(x)
           /\ \A y \in Synths : ~ (SpareSynthRefs(y)' > SpareSynthRefs(y))
<1>1. open' = open /\ \A y \in Synths : synths'[y].refs = synths[y].refs
  BY HeapIsOK DEF SameCounts, IInv
<1>2. \A x \in Handles : Unheld(x)' <=> Unheld(x)
  BY <1>1 DEF Unheld, HandleHolders, SMF_Handles
<1>3. ASSUME NEW y \in Synths PROVE ~ (SpareSynthRefs(y)' > SpareSynthRefs(y))
  <2>1. SynthHolders(y)' = HoldersIn(streams, y) /\ SynthHolders(y) = HoldersIn(streams, y)
    BY DEF SynthHolders, HoldersIn
  <2>2. Cardinality(HoldersIn(streams, y)) \in Nat /\ synths[y].refs \in Nat
    BY SynthsFinite, FS_Subset, FS_CardinalityType DEF HoldersIn, IInv, TableOK, SynthRecords
  <2>. QED BY <1>1, <2>1, <2>2 DEF SpareSynthRefs
<1>. QED BY <1>2, <1>3

LEMMA LoadFileLoses ==
    ASSUME TableAssumption, IInv, CollInv, MaxRefs + 3 < CountModulus,
           NEW s \in Slots, NEW c \in Collections, LoadIntoFile(s, c)
    PROVE  /\ LoadsIntoFile
           /\ \A x \in Handles : Unheld(x)' => Unheld(x)
           /\ \A y \in Synths : ~ (SpareSynthRefs(y)' > SpareSynthRefs(y))
<1> DEFINE g == Load(heap, c)
           k == Share(g, streams[s].synth, c)
<1>1. streams' = streams /\ synths' = k.synths /\ open' = k.open
  BY DEF LoadIntoFile, Leaves
<1>2. SameCounts(heap, g)
  BY HeapIsOK, LoadSame DEF IInv
<1>. HIDE DEF g
<1>3. SameCounts(g, k)
  BY <1>2, ShareSame DEF SameCounts, DlsOrNull
<1>. HIDE DEF k
<1>4. SameCounts(heap, k)
  BY <1>2, <1>3, SameTwice
<1>. QED BY <1>1, <1>4, HeapLoses DEF LoadsIntoFile

LEMMA LoadMIDILoses ==
    ASSUME TableAssumption, IInv, CollInv, MaxRefs + 3 < CountModulus,
           NEW s \in Slots, NEW c \in Collections, LoadIntoMIDI(s, c)
    PROVE  /\ ReplacesCollection \/ \A d \in Collections : ~ (SpareRefs(d)' > SpareRefs(d))
           /\ \A x \in Handles : Unheld(x)' => Unheld(x)
           /\ \A y \in Synths : ~ (SpareSynthRefs(y)' > SpareSynthRefs(y))
<1> DEFINE y == streams[s].synth
           g == Load(heap, c)
           k == VMSetDLSLib(g, y, c)
<1>1. /\ streams' = streams /\ synths' = k.synths /\ refs' = k.refs /\ open' = k.open
      /\ globalDLS' = globalDLS
  BY DEF LoadIntoMIDI, Leaves
<1>2. y \in Synths
  BY DEF IInv, TableOK, ShapeOK, LoadIntoMIDI, IsRawMIDI
<1>3. heap.refs[c] = 0 /\ 0 + 1 < CountModulus /\ refs[c] = 0
  BY CollNow DEF LoadIntoMIDI, TableAssumption
<1>4. /\ Room(g, 0) /\ g.synths = heap.synths
      /\ \A d \in Collections : g.refs[d] = heap.refs[d] + One(c, d)
  BY <1>3, CollNow, LoadRefs
<1>5. SameCounts(heap, g) /\ synths[y].refs > 0
  BY <1>2, HeapIsOK, LoadSame, SynthHeld DEF IInv
<1>. HIDE DEF g, y
<1>6. SameCounts(g, k)
  BY <1>5, VMSetDLSLibSame DEF SameCounts, DlsOrNull
<1>7. /\ HeapOK(k) /\ k.refs = g.refs /\ k.synths[y].dls = c
      /\ OnlyAt(Synths, heap.synths, k.synths, y)
  <2>1. DOMAIN g = {"synths", "refs", "open"} /\ g.synths \in [Synths -> SynthRecords]
    BY <1>4 DEF Room, HeapOK
  <2>2. k.refs = g.refs /\ k.synths = [g.synths EXCEPT ![y].dls = c]
    BY <2>1 DEF VMSetDLSLib
  <2>. HIDE DEF k
  <2>. QED BY <1>2, <1>4, <1>6, <2>1, <2>2 DEF OnlyAt, SynthRecords, SameCounts
<1>. HIDE DEF k
<1>8. SameCounts(heap, k) /\ Room(k, 0)
  BY <1>4, <1>5, <1>6, <1>7, SameTwice DEF Room
<1>9. CASE synths[y].dls = NULL
  <2>1. ASSUME NEW d \in Collections PROVE ~ (SpareRefs(d)' > SpareRefs(d))
    <3>1. Points(heap, k, y, d)
      BY <1>2, <1>7, <1>8, CollNow, SynthPoints DEF Room
    <3>2. One(heap.synths[y].dls, d) = 0
      BY <1>9, CollNow DEF One, TableAssumption
    <3>3. k.refs[d] = heap.refs[d] + One(c, d) /\ heap.refs[d] \in Nat
      BY <1>4, <1>7, CollNow DEF Room
    <3>4. /\ SpareRefs(d) = Slack(heap, d) - Cardinality(DlsOf(Slots, streams, d)) - One(globalDLS, d)
          /\ Slack(heap, d) \in Int /\ Cardinality(DlsOf(Slots, streams, d)) \in Nat
      BY SpareIs
    <3>5. /\ SpareRefs(d)' = Slack(k, d) - Cardinality(DlsOf(Slots, streams', d)) - One(globalDLS', d)
          /\ Slack(k, d) \in Int
      BY <1>1, <1>8, SpareNext
    <3>6. Slack(k, d) = Slack(heap, d)
      BY <1>7, <3>1, <3>2, <3>3, <3>4 DEF Points, One
    <3>. QED BY <1>1, <3>4, <3>5, <3>6 DEF One
  <2>. QED BY <1>1, <1>8, <2>1, HeapLoses
<1>10. CASE synths[y].dls # NULL
  <2> DEFINE d == synths[y].dls
  <2>1. d \in Collections
    BY <1>2, <1>10 DEF IInv, TableOK, SynthRecords, DlsOrNull
  <2>2. refs[d] > 0
    <3>1. Slack(heap, d) >= 0 /\ Slack(heap, d) = refs[d] - Cardinality(DlsOf(Synths, synths, d))
      BY <2>1, StreamSlack, CollNow DEF Slack
    <3>2. y \in DlsOf(Synths, synths, d)
      BY <1>2 DEF DlsOf
    <3>3. /\ Cardinality(DlsOf(Synths, synths, d)) # 0
          /\ Cardinality(DlsOf(Synths, synths, d)) \in Nat
      BY <3>2, SynthsFinite, FS_Subset, FS_EmptySet, FS_CardinalityType DEF DlsOf
    <3>4. refs[d] \in Nat
      BY <2>1, CollNow DEF Room
    <3>. QED BY <3>1, <3>3, <3>4
  <2>3. synths'[y].dls # d /\ synths'[y].refs > 0
    <3>1. heap.synths = synths
      BY CollNow
    <3>2. k.synths[y].refs = synths[y].refs
      BY <1>2, <1>8, <3>1 DEF SameCounts
    <3>. QED BY <1>1, <1>3, <1>5, <1>7, <2>2, <3>2
  <2>4. ReplacesCollection
    <3>1. synths[y].refs # 0
      BY <1>5
    <3>. QED BY <1>2, <1>10, <2>3, <3>1 DEF ReplacesCollection
  <2>. QED BY <1>1, <1>8, <2>4, HeapLoses
<1>. QED BY <1>9, <1>10

LEMMA LoadGlobalLoses ==
    ASSUME TableAssumption, IInv, CollInv, MaxRefs + 3 < CountModulus,
           NEW c \in Collections, LoadGlobal(c)
    PROVE  NothingLost
<1> DEFINE g == Load(heap, c)
           k == DLSCleanup(g, globalDLS)
<1>1. /\ streams' = streams /\ synths' = k.synths /\ refs' = k.refs /\ open' = k.open
      /\ globalDLS' = c
  BY DEF LoadGlobal, Leaves
<1>2. heap.refs[c] = 0 /\ 0 + 1 < CountModulus
  BY CollNow DEF LoadGlobal, TableAssumption
<1>3. /\ Room(g, 0) /\ g.synths = heap.synths
      /\ \A d \in Collections : g.refs[d] = heap.refs[d] + One(c, d)
  BY <1>2, CollNow, LoadRefs
<1>4. SameCounts(heap, g)
  BY HeapIsOK, LoadSame DEF IInv
<1>. HIDE DEF g
<1>5. /\ Room(k, 0) /\ k.synths = g.synths
      /\ \A d \in Collections : k.refs[d] <= g.refs[d]
      /\ \A d \in Collections : g.refs[d] > 0 => k.refs[d] = g.refs[d] - One(globalDLS, d)
  BY <1>3, CollNow, CleanupRefs
<1>6. SameCounts(heap, k)
  BY <1>4, DLSCleanupSame, SameTwice DEF SameCounts
<1>. HIDE DEF k
<1>7. ASSUME NEW d \in Collections PROVE ~ (SpareRefs(d)' > SpareRefs(d))
  <2>1. Slack(k, d) = Slack(heap, d) + (k.refs[d] - heap.refs[d])
    BY <1>3, <1>5, CollNow, SynthsPoint DEF Room
  <2>2. heap.refs[d] \in Nat /\ g.refs[d] \in Nat /\ k.refs[d] \in Nat
    BY <1>3, <1>5, CollNow DEF Room
  <2>3. One(c, d) \in Nat /\ One(globalDLS, d) \in Nat
    BY DEF One
  <2>4. k.refs[d] = heap.refs[d] + One(c, d) - One(globalDLS, d)
    <3>1. CASE g.refs[d] > 0
      BY <1>3, <1>5, <2>2, <2>3, <3>1
    <3>2. CASE ~ (g.refs[d] > 0)
      <4>1. g.refs[d] = 0 /\ heap.refs[d] = 0 /\ One(c, d) = 0
        BY <1>3, <2>2, <2>3, <3>2
      <4>2. k.refs[d] = 0
        BY <1>5, <2>2, <4>1
      <4>3. globalDLS # d
        <5>1. globalDLS = d => globalDLS # NULL
          BY DEF TableAssumption
        <5>. QED BY <4>1, <5>1, GlobalHeld
      <4>. QED BY <4>1, <4>2, <4>3 DEF One
    <3>. QED BY <3>1, <3>2
  <2>5. /\ SpareRefs(d) = Slack(heap, d) - Cardinality(DlsOf(Slots, streams, d)) - One(globalDLS, d)
        /\ Slack(heap, d) \in Int /\ Cardinality(DlsOf(Slots, streams, d)) \in Nat
    BY SpareIs
  <2>6. /\ SpareRefs(d)' = Slack(k, d) - Cardinality(DlsOf(Slots, streams', d)) - One(globalDLS', d)
        /\ Slack(k, d) \in Int
    BY <1>1, <1>5, SpareNext
  <2>. QED BY <1>1, <2>1, <2>2, <2>3, <2>4, <2>5, <2>6
<1>. QED BY <1>1, <1>6, <1>7, HeapLoses DEF NothingLost

(* EAS_Shutdown: what is left as the slots before i were closed.           *)

StreamsLeft(i) == [s \in Slots |-> IF s < i THEN Closed ELSE streams[s]]

\* The files are closed.
FilesShut(h, i) ==
    /\ HeapOK(h) /\ h.open \subseteq open
    /\ \A s \in Slots : s < i /\ IsFile(s) => SMF_Handles(streams[s]) \cap h.open = {}

\* The only references are those of the streams that are left.
CountsShut(h, i) ==
    /\ Room(h, 0) /\ DeadBare(h)
    /\ \A y \in Synths : h.synths[y].refs = Cardinality(HoldersIn(StreamsLeft(i), y))
    /\ \A c \in Collections :
          Slack(h, c) - Cardinality(DlsOf(Slots, StreamsLeft(i), c))
             = Slack(heap, c) - Cardinality(DlsOf(Slots, streams, c))

\* All synthesizers have their references from streams of files.
NoOthers == (\A s \in Slots : ~IsRawMIDI(s)) /\ \A y \in Synths : SpareSynthRefs(y) <= 0

LEMMA FilesShutStep ==
    ASSUME TableAssumption, IInv, NEW i \in Slots, NEW h, FilesShut(h, i)
    PROVE  FilesShut(Step(i + 1, h), i + 1)
<1>1. i \in Nat /\ (i + 1) - 1 = i /\ \A s \in Slots : s \in Nat /\ (s < i + 1 => s < i \/ s = i)
  BY DEF Slots, TableAssumption
<1>2. CASE ~ IsFile(i)
  <2>1. Step(i + 1, h) = h
    BY <1>1, <1>2 DEF Step
  <2>. QED BY <1>1, <1>2, <2>1 DEF FilesShut
<1>3. CASE IsFile(i)
  <2> DEFINE g == Close(streams[i], h)
  <2>1. Step(i + 1, h) = g
    BY <1>1, <1>3 DEF Step
  <2>2. streams[i] \in StreamRecords /\ ShapeOK(streams[i])
    BY DEF IInv, TableOK
  <2>3. HeapOK(g) /\ g.open = h.open \ SMF_Handles(streams[i])
    BY <2>2, CloseOwn DEF FilesShut
  <2>. HIDE DEF g
  <2>4. ASSUME NEW s \in Slots, s < i + 1, IsFile(s)
        PROVE  SMF_Handles(streams[s]) \cap g.open = {}
    BY <1>1, <2>3, <2>4 DEF FilesShut
  <2>. QED BY <2>1, <2>3, <2>4 DEF FilesShut
<1>. QED BY <1>2, <1>3

LEMMA StreamsLeftNext ==
    ASSUME TableAssumption, NEW i \in Slots
    PROVE  /\ OnlyAt(Slots, StreamsLeft(i), StreamsLeft(i + 1), i)
           /\ StreamsLeft(i)[i] = streams[i] /\ StreamsLeft(i + 1)[i] = Closed
<1>1. i \in Nat /\ \A s \in Slots : s \in Nat /\ (s # i => (s < i + 1 <=> s < i))
  BY DEF Slots, TableAssumption
<1>. QED BY <1>1 DEF OnlyAt, StreamsLeft

LEMMA CountsShutStep ==
    ASSUME TableAssumption, IInv, CollInv, MaxRefs + 3 < CountModulus, TidyInv, NoOthers,
           NEW i \in Slots, NEW h, CountsShut(h, i)
    PROVE  CountsShut(Step(i + 1, h), i + 1)
<1> DEFINE r == streams[i]
           f == StreamsLeft(i)
           k == StreamsLeft(i + 1)
           g == Step(i + 1, h)
<1>1. OnlyAt(Slots, f, k, i) /\ f[i] = r /\ k[i] = Closed
  BY StreamsLeftNext
<1>2. r \in StreamRecords /\ ShapeOK(r) /\ SlotOK(r)
  BY DEF IInv, TableOK, TidyInv
<1>3. g = IF IsFile(i) THEN Close(r, h) ELSE h
  <2>1. (i + 1) - 1 = i
    BY DEF Slots, TableAssumption
  <2>. QED BY <2>1 DEF Step
<1>4. /\ Room(h, 0) /\ DeadBare(h) /\ HeapOK(h) /\ h.refs \in [Collections -> Nat]
      /\ \A y \in Synths : h.synths[y].refs = Cardinality(HoldersIn(f, y))
      /\ \A c \in Collections : Slack(h, c) - Cardinality(DlsOf(Slots, f, c))
                                   = Slack(heap, c) - Cardinality(DlsOf(Slots, streams, c))
  BY DEF CountsShut, Room
<1>. HIDE DEF f, k, g
<1>5. ASSUME NEW y
      PROVE  /\ Cardinality(HoldersIn(f, y)) \in Nat /\ Cardinality(HoldersIn(k, y)) \in Nat
             /\ Cardinality(HoldersIn(k, y)) =
                   Cardinality(HoldersIn(f, y)) - One(r.synth, y) + One(NULL, y)
  <2>1. HoldersRecount(f, k, i, y)
    BY <1>1, SynthRecount
  <2>. QED BY Zenon, <1>1, <2>1, ClosedHandles DEF HoldersRecount
<1>6. ASSUME NEW c
      PROVE  /\ Cardinality(DlsOf(Slots, f, c)) \in Nat /\ Cardinality(DlsOf(Slots, k, c)) \in Nat
             /\ Cardinality(DlsOf(Slots, k, c)) =
                   Cardinality(DlsOf(Slots, f, c)) - One(r.dls, c) + One(NULL, c)
  <2>1. Recount(Slots, f, k, i, c)
    BY <1>1, SynthsFinite, PointersChange
  <2>. QED BY Zenon, <1>1, <2>1, ClosedHandles DEF Recount
<1>7. ASSUME NEW d \in Collections
      PROVE  Slack(h, d) >= One(r.dls, d) /\ Slack(h, d) \in Int
  <2>1. Slack(heap, d) >= Cardinality(DlsOf(Slots, streams, d)) + One(globalDLS, d)
    BY CollNow DEF AliveIn
  <2>2. /\ Slack(heap, d) \in Int /\ Cardinality(DlsOf(Slots, streams, d)) \in Nat
        /\ Slack(h, d) \in Int
    BY <1>4, SpareIs, SlackIs
  <2>3. Slack(h, d) >= Cardinality(DlsOf(Slots, f, d))
    BY <1>4, <1>6, <2>1, <2>2 DEF One
  <2>4. r.dls = d => Cardinality(DlsOf(Slots, f, d)) # 0
    <3>1. r.dls = d => i \in DlsOf(Slots, f, d)
      BY <1>1 DEF DlsOf
    <3>. QED BY <3>1, SynthsFinite, FS_Subset, FS_EmptySet DEF DlsOf
  <2>. QED BY <1>6, <2>2, <2>3, <2>4 DEF One
<1>8. r.synth # NULL => r.synth \in Synths /\ h.synths[r.synth].refs > 0
  <2>1. r.synth # NULL => r.synth \in Synths
    BY <1>2 DEF StreamRecords
  <2>2. Cardinality(HoldersIn(f, r.synth)) # 0
    BY <1>1, HoldersNone
  <2>. QED BY <1>4, <1>5, <2>1, <2>2
<1>9. /\ Room(g, 0) /\ DeadBare(g)
      /\ \A y \in Synths : g.synths[y].refs = h.synths[y].refs - One(r.synth, y)
      /\ \A c \in Collections : Slack(g, c) = Slack(h, c) - One(r.dls, c)
  <2>1. CASE IsFile(i)
    <3>1. g = Close(r, h)
      BY <1>3, <2>1
    <3>2. Room(g, 0) /\ \A c \in Collections : Slack(g, c) = Slack(h, c) - One(r.dls, c)
      BY <1>2, <1>4, <1>7, <3>1, CloseBalanced
    <3>3. \A y \in Synths : g.synths[y].refs = h.synths[y].refs - One(r.synth, y)
      BY <1>2, <1>4, <1>8, <3>1, CloseExact
    <3>4. DeadBare(g)
      BY <1>2, <1>4, <3>1, CloseBare
    <3>. QED BY <3>2, <3>3, <3>4
  <2>2. CASE ~ IsFile(i)
    <3>1. g = h
      BY <1>3, <2>2
    <3>2. r.file.format = "none"
      BY <1>2, <2>2 DEF StreamRecords, AnyFile, IsFile, NoOthers, IsRawMIDI
    <3>3. r.synth = NULL /\ r.dls = NULL
      BY <1>2, <3>2 DEF SlotOK, Bare
    <3>4. \A y \in Synths : h.synths[y].refs \in Nat /\ One(r.synth, y) = 0
      BY <1>4, <3>3 DEF HeapOK, SynthRecords, One, TableAssumption
    <3>5. \A c \in Collections : Slack(h, c) \in Int /\ One(r.dls, c) = 0
      BY <1>7, <3>3 DEF One, TableAssumption
    <3>. QED BY <1>4, <3>1, <3>4, <3>5
  <2>. QED BY <2>1, <2>2
<1>10. ASSUME NEW y \in Synths PROVE g.synths[y].refs = Cardinality(HoldersIn(k, y))
  <2>1. One(NULL, y) = 0 /\ One(r.synth, y) \in Nat
    BY DEF One, TableAssumption
  <2>. QED BY <1>4, <1>5, <1>9, <2>1
<1>11. ASSUME NEW c \in Collections
       PROVE  Slack(g, c) - Cardinality(DlsOf(Slots, k, c))
                 = Slack(heap, c) - Cardinality(DlsOf(Slots, streams, c))
  <2>1. One(NULL, c) = 0 /\ One(r.dls, c) \in Nat
    BY DEF One, TableAssumption
  <2>2. Slack(heap, c) \in Int /\ Cardinality(DlsOf(Slots, streams, c)) \in Nat
    BY SpareIs
  <2>. QED BY <1>4, <1>6, <1>7, <1>9, <2>1, <2>2
<1>. QED BY <1>9, <1>10, <1>11 DEF CountsShut, k, g

LEMMA AllShut ==
    ASSUME TableAssumption, IInv, CollInv, MaxRefs + 3 < CountModulus, TidyInv,
           NEW f, Closes(f, NumStreams)
    PROVE  /\ FilesShut(f[NumStreams], NumStreams)
           /\ NoOthers => CountsShut(f[NumStreams], NumStreams)
<1>. DEFINE Shut(i) == FilesShut(f[i], i) /\ (NoOthers => CountsShut(f[i], i))
            S == {i \in 0 .. NumStreams : Shut(i)}
<1>1. NumStreams \in Nat
  BY DEF TableAssumption
<1>2. \A i \in 0 .. NumStreams : f[i] = IF i = 0 THEN heap ELSE Step(i, f[i - 1])
  BY DEF Closes
<1>3. Shut(0)
  <2>1. f[0] = heap
    BY <1>1, <1>2
  <2>2. \A s \in Slots : ~ (s < 0)
    BY <1>1 DEF Slots
  <2>3. HeapOK(heap) /\ heap.open = open /\ heap.synths = synths
    BY HeapIsOK DEF IInv
  <2>4. FilesShut(heap, 0)
    BY <2>2, <2>3 DEF FilesShut
  <2>5. StreamsLeft(0) = streams
    BY <2>2 DEF StreamsLeft, IInv, TableOK
  <2>6. ASSUME NoOthers, NEW y \in Synths
        PROVE  heap.synths[y].refs = Cardinality(HoldersIn(streams, y))
    <3>1. SynthHolders(y) = HoldersIn(streams, y)
      BY DEF SynthHolders, HoldersIn
    <3>2. Cardinality(HoldersIn(streams, y)) \in Nat /\ synths[y].refs \in Nat
      BY SynthsFinite, FS_Subset, FS_CardinalityType DEF HoldersIn, IInv, TableOK, SynthRecords
    <3>3. synths[y].refs >= Cardinality(HoldersIn(streams, y))
      BY <3>1 DEF IInv, SynthsAlive
    <3>4. synths[y].refs - Cardinality(HoldersIn(streams, y)) <= 0
      BY <2>6, <3>1 DEF NoOthers, SpareSynthRefs
    <3>. QED BY <2>3, <3>2, <3>3, <3>4
  <2>7. NoOthers => CountsShut(heap, 0)
    BY <2>5, <2>6, CollNow DEF CountsShut, TidyInv
  <2>. QED BY <2>1, <2>4, <2>7
<1>4. ASSUME NEW i \in 0 .. NumStreams - 1, Shut(i)
      PROVE  Shut(i + 1)
  <2>1. /\ i + 1 \in 0 .. NumStreams /\ i + 1 # 0 /\ (i + 1) - 1 = i /\ i \in Slots
    BY <1>1 DEF Slots
  <2>2. f[i + 1] = Step(i + 1, f[i])
    BY <1>2, <2>1
  <2>3. FilesShut(f[i + 1], i + 1)
    BY <1>4, <2>1, <2>2, FilesShutStep
  <2>4. NoOthers => CountsShut(f[i + 1], i + 1)
    BY <1>4, <2>1, <2>2, CountsShutStep
  <2>. QED BY <2>3, <2>4
<1>. HIDE DEF Shut
<1>5. 0 \in S
  BY <1>1, <1>3
<1>6. ASSUME NEW i \in 0 .. NumStreams - 1, i \in S PROVE i + 1 \in S
  BY <1>1, <1>4, <1>6
<1>7. 0 .. NumStreams \subseteq S
  <2>. HIDE DEF S
  <2>. QED BY <1>1, <1>5, <1>6, UpTo
<1>8. Shut(NumStreams)
  BY <1>1, <1>7
<1>. QED BY <1>8 DEF Shut

\* The collections that nothing holds any more have the references that none
\* of their holders had.
LEMMA CountsLeft ==
    ASSUME TableAssumption, IInv, CollInv, MaxRefs + 3 < CountModulus,
           NEW h, CountsShut(h, NumStreams), NEW c \in Collections
    PROVE  /\ Room(h, 0) /\ SpareRefs(c) \in Int
           /\ h.refs[c] = SpareRefs(c) + One(globalDLS, c)
<1> DEFINE f == StreamsLeft(NumStreams)
<1>1. \A s \in Slots : f[s] = Closed
  BY DEF StreamsLeft, Slots, TableAssumption
<1>2. NULL \notin Synths /\ NULL # c
  BY DEF TableAssumption
<1>3. \A y \in Synths : HoldersIn(f, y) = {}
  BY <1>1, <1>2, ClosedHandles DEF HoldersIn
<1>4. DlsOf(Slots, f, c) = {}
  BY <1>1, <1>2, ClosedHandles DEF DlsOf
<1>5. \A y \in Synths : h.synths[y].dls = NULL
  <2>1. \A y \in Synths : h.synths[y].refs = 0
    BY <1>3, FS_EmptySet DEF CountsShut
  <2>. QED BY <2>1 DEF CountsShut, DeadBare
<1>6. DlsOf(Synths, h.synths, c) = {}
  BY <1>2, <1>5 DEF DlsOf
<1>7. Cardinality(DlsOf(Synths, h.synths, c)) = 0 /\ Cardinality(DlsOf(Slots, f, c)) = 0
  BY <1>4, <1>6, FS_EmptySet
<1>8. h.refs[c] \in Nat /\ Room(h, 0)
  BY DEF CountsShut, Room
<1>9. Slack(h, c) = h.refs[c]
  BY <1>7, <1>8 DEF Slack
<1>10. Slack(h, c) - Cardinality(DlsOf(Slots, f, c))
          = Slack(heap, c) - Cardinality(DlsOf(Slots, streams, c))
  BY DEF CountsShut
<1>11. /\ SpareRefs(c) = Slack(heap, c) - Cardinality(DlsOf(Slots, streams, c)) - One(globalDLS, c)
       /\ Slack(heap, c) \in Int /\ Cardinality(DlsOf(Slots, streams, c)) \in Nat
  BY SpareIs
<1>12. One(globalDLS, c) \in Nat
  BY DEF One
<1>. QED BY <1>7, <1>8, <1>9, <1>10, <1>11, <1>12

LEMMA ShutdownLoses ==
    ASSUME TableAssumption, IInv, CollInv, MaxRefs + 3 < CountModulus, TidyInv, EAS_Shutdown
    PROVE  /\ AbandonsSynth \/ \A c \in Collections : ~ (SpareRefs(c)' > SpareRefs(c))
           /\ \A x \in Handles : Unheld(x)' => Unheld(x)
           /\ \A y \in Synths : ~ (SpareSynthRefs(y)' > SpareSynthRefs(y))
<1>. DEFINE closes(f) == f = [i \in 0 .. NumStreams |->
                                IF i = 0 THEN heap
                                ELSE IF IsFile(i - 1) THEN Close(streams[i - 1], f[i - 1])
                                ELSE f[i - 1]]
            after == CHOOSE f : closes(f)
            h == after[NumStreams]
            left == DLSCleanup(h, globalDLS)
<1>1. /\ refs' = left.refs /\ open' = left.open /\ streams' = [s \in Slots |-> Closed]
      /\ synths' = [y \in Synths |-> NoSynth] /\ globalDLS' = NULL /\ phase' = "down"
  BY DEF EAS_Shutdown
<1>2. ASSUME NEW f PROVE closes(f) <=> Closes(f, NumStreams)
  BY DEF Closes, Step
<1>3. \E f : closes(f)
  <2>1. \E f : Closes(f, NumStreams)
    BY ClosesExist DEF TableAssumption
  <2>. HIDE DEF closes
  <2>. QED BY <1>2, <2>1
<1>. HIDE DEF closes
<1>4. closes(after)
  BY <1>3
<1>. HIDE DEF after
<1>5. FilesShut(h, NumStreams) /\ (NoOthers => CountsShut(h, NumStreams))
  BY <1>2, <1>4, AllShut
<1>. HIDE DEF h
<1>6. left.open = h.open
  BY <1>5, DLSCleanupSame DEF FilesShut, SameCounts
<1>7. NULL \notin Synths \cup Collections
  BY DEF TableAssumption
<1>8. ASSUME NEW x \in Handles, Unheld(x)' PROVE Unheld(x)
  <2>1. x \in h.open
    BY <1>1, <1>6, <1>8 DEF Unheld
  <2>2. x \in open
    BY <1>5, <2>1 DEF FilesShut
  <2>3. ASSUME NEW s \in Slots PROVE x \notin SMF_Handles(streams[s])
    <3>1. CASE IsFile(s)
      <4>1. s < NumStreams
        BY DEF Slots, TableAssumption
      <4>. QED BY <1>5, <2>1, <3>1, <4>1 DEF FilesShut
    <3>2. CASE ~ IsFile(s)
      <4>1. ShapeOK(streams[s]) /\ Bare(streams[s])
        BY <3>2 DEF IsFile, IInv, TableOK, StreamRecords, AnyFile, TidyInv, SlotOK
      <4>. QED BY <4>1, BareHandles
    <3>. QED BY <3>1, <3>2
  <2>. QED BY <2>2, <2>3 DEF Unheld, HandleHolders
<1>9. ASSUME NEW y \in Synths PROVE ~ (SpareSynthRefs(y)' > SpareSynthRefs(y))
  <2>1. SynthHolders(y)' = {}
    BY <1>1, <1>7, ClosedHandles DEF SynthHolders
  <2>2. synths'[y].refs = 0
    BY <1>1 DEF NoSynth
  <2>3. SpareSynthRefs(y)' = 0
    BY <2>1, <2>2, FS_EmptySet DEF SpareSynthRefs
  <2>4. SynthHolders(y) = HoldersIn(streams, y)
    BY DEF SynthHolders, HoldersIn
  <2>5. Cardinality(HoldersIn(streams, y)) \in Nat /\ synths[y].refs \in Nat
    BY SynthsFinite, FS_Subset, FS_CardinalityType DEF HoldersIn, IInv, TableOK, SynthRecords
  <2>6. synths[y].refs >= Cardinality(HoldersIn(streams, y))
    BY <2>4 DEF IInv, SynthsAlive
  <2>. QED BY <2>3, <2>4, <2>5, <2>6 DEF SpareSynthRefs
<1>10. ASSUME ~AbandonsSynth, NEW c \in Collections PROVE ~ (SpareRefs(c)' > SpareRefs(c))
  <2>1. NoOthers
    <3>1. (\A s \in Slots : ~IsRawMIDI(s)) /\ \A y \in Synths : ~ (SpareSynthRefs(y) > 0)
      BY <1>1, <1>10 DEF AbandonsSynth
    <3>2. ASSUME NEW y \in Synths PROVE SpareSynthRefs(y) \in Int
      <4>1. Cardinality(SynthHolders(y)) \in Nat /\ synths[y].refs \in Nat
        BY SynthsFinite, FS_Subset, FS_CardinalityType DEF SynthHolders, IInv, TableOK, SynthRecords
      <4>. QED BY <4>1 DEF SpareSynthRefs
    <3>. QED BY <3>1, <3>2 DEF NoOthers
  <2>2. /\ Room(h, 0) /\ SpareRefs(c) \in Int /\ h.refs[c] \in Nat
        /\ h.refs[c] = SpareRefs(c) + One(globalDLS, c)
    BY <1>5, <2>1, CountsLeft DEF Room
  <2>3. SpareRefs(c) >= 0
    <3>1. refs[c] >= CollectionHolders(c)
      BY DEF CollInv, CollectionsAlive
    <3>2. refs[c] \in Nat /\ CollectionHolders(c) \in Nat
      <4>1. /\ Cardinality({y \in Synths : synths[y].dls = c}) \in Nat
            /\ Cardinality({s \in Slots : streams[s].dls = c}) \in Nat
        BY SynthsFinite, FS_Subset, FS_CardinalityType
      <4>. QED BY <4>1, CollNow DEF CollectionHolders, Room
    <3>. QED BY <3>1, <3>2 DEF SpareRefs
  <2>4. left.refs[c] = SpareRefs(c)
    <3>1. /\ \A d \in Collections : left.refs[d] <= h.refs[d]
          /\ \A d \in Collections : h.refs[d] > 0 => left.refs[d] = h.refs[d] - One(globalDLS, d)
          /\ Room(left, 0)
      BY <2>2, CollNow, CleanupRefs
    <3>2. left.refs[c] \in Nat /\ One(globalDLS, c) \in Nat
      BY <3>1 DEF Room, One
    <3>. QED BY <2>2, <2>3, <3>1, <3>2
  <2>5. CollectionHolders(c)' = 0
    <3>1. {y \in Synths : synths'[y].dls = c} = {} /\ {s \in Slots : streams'[s].dls = c} = {}
      BY <1>1, <1>7, ClosedHandles DEF NoSynth
    <3>2. globalDLS' # c
      BY <1>1, <1>7
    <3>3. /\ Cardinality({y \in Synths : synths'[y].dls = c}) = 0
          /\ Cardinality({s \in Slots : streams'[s].dls = c}) = 0
      BY <3>1, FS_EmptySet
    <3>. QED BY <3>2, <3>3 DEF CollectionHolders
  <2>6. SpareRefs(c)' = SpareRefs(c)
    BY <1>1, <2>2, <2>4, <2>5 DEF SpareRefs
  <2>. QED BY <2>2, <2>6
<1>. QED BY <1>8, <1>9, <1>10

(* All calls.                                                              *)

Losses ==
    /\ \A x \in Handles : ~Unheld(x) /\ Unheld(x)' => PreparesAgain
    /\ \A y \in Synths : SpareSynthRefs(y)' > SpareSynthRefs(y) => PreparesAgain
    /\ \A c \in Collections : SpareRefs(c)' > SpareRefs(c) =>
          PreparesAgain \/ ReplacesCollection \/ LoadsIntoFile \/ AbandonsSynth

LEMMA StepLosses ==
    ASSUME TableAssumption, IInv, CollInv, MaxRefs + 3 < CountModulus, TidyInv, [Next]_vars
    PROVE  [Losses]_vars
<1>1. NothingLost => Losses
  BY DEF NothingLost, Losses
<1>2. ASSUME NEW f \in Files, EAS_OpenFile(f) PROVE Losses
  BY <1>1, <1>2, OpenFileLoses
<1>3. ASSUME NEW s \in Slots, EAS_Prepare(s) PROVE Losses
  BY <1>1, <1>3, PrepareLoses DEF Losses
<1>4. ASSUME NEW s \in Slots, EAS_CloseFile(s) PROVE Losses
  BY <1>1, <1>4, CloseFileLoses
<1>5. CASE EAS_OpenMIDIStream
  BY <1>1, <1>5, OpenMIDILoses
<1>6. ASSUME NEW s \in Slots, EAS_ShareMIDIStream(s) \/ EAS_CloseMIDIStream(s) PROVE Losses
  BY <1>1, <1>6, ShareMIDILoses, CloseMIDILoses
<1>7. ASSUME NEW s \in Slots, NEW c \in Collections, LoadIntoFile(s, c) \/ LoadIntoMIDI(s, c)
      PROVE  Losses
  BY <1>7, LoadFileLoses, LoadMIDILoses DEF Losses
<1>8. ASSUME NEW c \in Collections, LoadGlobal(c) PROVE Losses
  BY <1>1, <1>8, LoadGlobalLoses
<1>9. CASE EAS_Shutdown
  BY <1>9, ShutdownLoses DEF Losses
<1>10. CASE EAS_Init
  BY <1>1, <1>10, SameLoses DEF EAS_Init
<1>. QED BY <1>2, <1>3, <1>4, <1>5, <1>6, <1>7, <1>8, <1>9, <1>10 DEF Next

\* What is allocated is given back (LossesKnown): no call leaves a file handle open
\* that no stream is to close, or gives a synthesizer or a collection a reference that no
\* holder will give back, but a second EAS_Prepare after one that failed, a
\* collection that replaces another in a synthesizer, one that is loaded into the
\* stream of a file, and EAS_Shutdown with synthesizers that no stream of a file is the
\* last to hold.
THEOREM LossesAreKnown == ASSUME MaxRefs + 3 < CountModulus PROVE Spec => LossesKnown
<1>1. TableAssumption
  BY TableAssumption
<1>2. Init => CollInv /\ TidyInv
  BY <1>1, CollInit, InitTidy
<1>3. IInv /\ CollInv /\ [Next]_vars => CollInv'
  BY <1>1, NextCollInv
<1>4. IInv /\ CollInv /\ TidyInv /\ [Next]_vars => TidyInv'
  BY <1>1, NextTidy
<1>5. IInv /\ CollInv /\ TidyInv /\ [Next]_vars => [Losses]_vars
  BY <1>1, StepLosses
<1>. QED BY <1>2, <1>3, <1>4, <1>5, TableInvariant, PTL DEF Spec, LossesKnown, Losses
==============================================================================
