----------------------------- MODULE StreamTable -----------------------------
(***************************************************************************)
(* The life of what the host's calls allocate: the slots of the stream     *)
(* table (lib_src/eas_public.c), the synthesizers of the voice manager and *)
(* their reference counts (eas_voicemgt.c), the DLS collections and theirs *)
(* (eas_mdls.c), and the file handles (src/hostmm_ng.c), over the parsers  *)
(* of SMF, XMF and RMID files (eas_smf.c, eas_xmf.c, rmidi.c).             *)
(*                                                                         *)
(* What is kept: which place holds which object, every count, and every    *)
(* return that leaves a call half done.  What is abstracted: a file is its *)
(* format, its number of tracks and whether it has a collection; playing a *)
(* stream changes nothing here; an object that was freed may be allocated  *)
(* again.  XMF files are not compressed, hosts have no readAt of their own,*)
(* and JET holds no collections.                                           *)
(***************************************************************************)
EXTENDS Integers, Sequences, FiniteSets, FiniteSetsExt, SequencesExt

CONSTANTS
    NumStreams,   \* MAX_NUMBER_STREAMS
    NumSynths,    \* MAX_VIRTUAL_SYNTHESIZERS
    NumHandles,   \* file handles there is memory for
    Collections,  \* DLS collections there is memory for
    NULL,
    Files,        \* the files the host opens: format, tracks, dls
    CountModulus, \* 2^8, for S_DLS.refCount
    MaxRefs       \* bound on the references to a collection

Slots   == 0 .. NumStreams - 1
Synths  == 1 .. NumSynths
Handles == 1 .. NumHandles
FileFormats == {"smf", "xmf", "rmid"}

ASSUME TableAssumption ==
    /\ NumStreams \in Nat \ {0} /\ NumSynths \in Nat /\ NumHandles \in Nat
    /\ Files \subseteq [format : FileFormats, tracks : Nat \ {0}, dls : BOOLEAN]
    /\ \A f \in Files : f.format = "smf" => ~f.dls
    /\ NULL \notin Collections \cup Synths \cup Handles \cup Slots
    /\ CountModulus \in Nat \ {0} /\ MaxRefs \in Nat

VARIABLES
    streams,   \* the stream table, with the instance data of the parsers
    synths,    \* S_VOICE_MGR.pSynth; refs is 0 where it is NULL
    refs,      \* S_DLS.refCount; 0 for memory that is free
    open,      \* the file handles that were opened and not closed
    globalDLS, \* S_VOICE_MGR.pGlobalDLS
    phase      \* "up" from EAS_Init to EAS_Shutdown, "crashed" after the
               \* dereference of a null pointer

heap == [synths |-> synths, refs |-> refs, open |-> open]
vars == <<streams, synths, refs, open, globalDLS, phase>>

\* A stream: its file, whether SMF_DATA.state is OPEN or later, its pSynth,
\* SMF_DATA.fileHandle, the handles of its tracks and how many of them count,
\* the pDLS of its container, and whether the handle of a track was moved by
\* another reader since the track was set up.
Closed == [file |-> [format |-> "none", tracks |-> 0, dls |-> FALSE], state |-> "CLOSED",
           synth |-> NULL, handle |-> NULL, tracks |-> <<>>, numStreams |-> 0,
           dls |-> NULL, stray |-> FALSE]
RawMIDI(y) == [Closed EXCEPT !.file.format = "midi", !.state = "READY", !.synth = y]
Opened(f, h) == [Closed EXCEPT !.file = f, !.state = "OPEN", !.handle = h]

IsFile(s)    == streams[s].file.format \in FileFormats
IsRawMIDI(s) == streams[s].file.format = "midi"

NoSynth == [refs |-> 0, dls |-> NULL]

Init ==
    /\ streams = [s \in Slots |-> Closed]
    /\ synths = [y \in Synths |-> NoSynth]
    /\ refs = [c \in Collections |-> 0]
    /\ open = {}
    /\ globalDLS = NULL
    /\ phase = "up"

FreeSlots == {s \in Slots : streams[s].file.format = "none"}
FreeSynths(h) == {y \in Synths : h.synths[y].refs = 0}
FreeCollections(h) == {c \in Collections : h.refs[c] = 0}

\* The handles that are free, in an order that does not matter.
Spare(h) == SetToSeq(Handles \ h.open)
NumSpare(h) == Cardinality(Handles \ h.open)

-----------------------------------------------------------------------------
(* Counts.  A heap is what they are kept in: synths, refs and open.        *)

\* Mutant of DLSAddRef: the holder is not counted.
DLSAddRefNot(h, c) == h

DLSAddRef(h, c) ==
    IF c = NULL THEN h
    ELSE [h EXCEPT !.refs[c] = (@ + 1) % CountModulus]

DLSCleanup(h, c) ==
    IF c = NULL \/ h.refs[c] = 0 THEN h ELSE [h EXCEPT !.refs[c] = @ - 1]

VMInitMIDI(h, y) ==
    [DLSAddRef(h, globalDLS) EXCEPT !.synths[y] = [refs |-> 1, dls |-> globalDLS]]

\* Mutant of VMIncRefCount: the stream shares without a reference.
VMIncRefCountNot(h, y) == h

VMIncRefCount(h, y) == [h EXCEPT !.synths[y].refs = @ + 1]

\* Mutant of VMMIDIShutdown: the collection of the synthesizer is kept.
VMMIDIShutdownKeeping(h, y) ==
    [h EXCEPT !.synths[y] = IF @.refs > 1 THEN [@ EXCEPT !.refs = @ - 1] ELSE NoSynth]

VMMIDIShutdown(h, y) ==
    IF h.synths[y].refs > 1
    THEN [h EXCEPT !.synths[y].refs = @ - 1]
    ELSE DLSCleanup([h EXCEPT !.synths[y] = NoSynth], h.synths[y].dls)

\* VMSetDLSLib: what the synthesizer held before is forgotten.
VMSetDLSLib(h, y, c) == [h EXCEPT !.synths[y].dls = c]

\* VMSetDLSLib and DLSAddRef, as EAS_IntSetStrmParam and the containers call them.
Share(h, y, c) == DLSAddRef(VMSetDLSLib(h, y, c), c)

\* DLSParser: the collection is made with one reference.
Load(h, c) == [h EXCEPT !.refs[c] = 1]

-----------------------------------------------------------------------------
(* Preparing.  An operator below gives the set of outcomes of a call: the  *)
(* stream and the heap it leaves, and whether it succeeded.                *)

Outcome(r, h, result) == [stream |-> r, heap |-> h, result |-> result]

\* SMF_ParseHeader: the handle goes to the first track, each further track
\* gets a duplicate.  It stops unread, at the search for a track, after the
\* track has taken its handle (its first time, or the next duplicate), or at
\* the end.  A handle that is NULL is dereferenced.
SMF_ParseHeader(r, h) ==
    LET n == r.file.tracks
        Of(i) == IF i = 1 THEN r.handle ELSE Spare(h)[i - 1]
        Old(i) == IF r.tracks = <<>> THEN NULL ELSE r.tracks[i]
        Begun(k, isNext) ==
            LET used == IF isNext THEN k + 1 ELSE k IN
            Outcome([r EXCEPT !.tracks = [i \in 1 .. n |-> IF i <= k THEN Of(i) ELSE Old(i)],
                              !.numStreams = n,
                              !.handle = IF isNext THEN Of(k + 1) ELSE NULL,
                              !.stray = FALSE],
                    [h EXCEPT !.open = @ \cup {Of(i) : i \in 1 .. used}],
                    IF k = n /\ ~isNext THEN "success" ELSE "failure")
        Enough(k) == k - 1 <= NumSpare(h)
    IN  IF r.handle = NULL THEN {Outcome(r, h, "crash")}
        ELSE {Outcome([r EXCEPT !.numStreams = 0], h, "failure")}
             \cup {Begun(k, TRUE) : k \in {i \in 0 .. n - 1 : Enough(i + 1)}}
             \cup {Begun(k, FALSE) : k \in {i \in 1 .. n : Enough(i)}}
             \cup {[Begun(n, FALSE) EXCEPT !.result = "failure"] : i \in {j \in {n} : Enough(j)}}

SMF_Prepare(r, h) ==
    IF FreeSynths(h) = {} THEN {Outcome([r EXCEPT !.synth = NULL], h, "failure")}
    ELSE LET y == Min(FreeSynths(h))
             state(o) == IF o.result = "success" THEN "READY" ELSE r.state
             Made(o) == Outcome([o.stream EXCEPT !.synth = y, !.state = state(o)],
                                o.heap, o.result)
         IN  {Made(o) : o \in SMF_ParseHeader(r, VMInitMIDI(h, y))}

\* DLSParser for a container, from the handle of its songs: pDLS is cleared
\* first.  A track that owns the handle finds it elsewhere.
ParseDLS(r, h) ==
    LET moved == [r EXCEPT !.dls = NULL, !.stray = r.handle = NULL]
    IN  {Outcome(moved, h, "failure")} \cup
        {Outcome([moved EXCEPT !.dls = c], Load(h, c), "success") : c \in FreeCollections(h)}

\* The end of XMF_Prepare and of RMID_Prepare.
Attach(o) == Outcome(o.stream, Share(o.heap, o.stream.synth, o.stream.dls), "success")

\* The collection comes first, and without it the file is refused.
XMF_Prepare(r, h) ==
    IF ~r.file.dls THEN SMF_Prepare(r, h)
    ELSE UNION {IF p.result = "failure" THEN {p}
                ELSE {IF o.result = "success" THEN Attach(o) ELSE o :
                         o \in SMF_Prepare(p.stream, p.heap)} : p \in ParseDLS(r, h)}

\* The song comes first, and a collection that cannot be read is left out.
RMID_Prepare(r, h) ==
    UNION {IF o.result # "success" \/ ~r.file.dls THEN {o}
           ELSE {IF p.result = "failure" THEN Outcome(p.stream, p.heap, "success") ELSE Attach(p) :
                    p \in ParseDLS(o.stream, o.heap)} : o \in SMF_Prepare(r, h)}

\* pfPrepare of the parser of the stream.
Prepare(r, h) ==
    CASE r.file.format = "smf"  -> SMF_Prepare(r, h)
      [] r.file.format = "xmf"  -> XMF_Prepare(r, h)
      [] r.file.format = "rmid" -> RMID_Prepare(r, h)

-----------------------------------------------------------------------------
(* Closing.                                                                *)

SMF_Handles(r) == ({r.handle} \cup {r.tracks[i] : i \in 1 .. r.numStreams}) \ {NULL}

SMF_Close(r, h) ==
    LET shut == [h EXCEPT !.open = @ \ SMF_Handles(r)]
    IN  IF r.synth = NULL THEN shut ELSE VMMIDIShutdown(shut, r.synth)

\* pfClose: XMF_Close and RMID_Close give their collection back after it.
Close(r, h) == DLSCleanup(SMF_Close(r, h), r.dls)

-----------------------------------------------------------------------------
(* Calls of the host.                                                      *)

Up == phase = "up"

\* Calls that give a collection more references than MaxRefs are left out.
Leaves(h) ==
    /\ \A c \in Collections : h.refs[c] <= MaxRefs
    /\ synths' = h.synths /\ refs' = h.refs /\ open' = h.open

Crash == phase' = "crashed" /\ UNCHANGED <<streams, synths, refs, open, globalDLS>>

\* EAS_OpenFile.  Where no slot is free or no parser knows the file, the
\* handle is closed again and nothing is left to see.
EAS_OpenFile(f) ==
    /\ Up /\ FreeSlots # {} /\ NumSpare(heap) > 0
    /\ LET x == Spare(heap)[1] IN
         /\ streams' = [streams EXCEPT ![Min(FreeSlots)] = Opened(f, x)]
         /\ open' = open \cup {x}
    /\ UNCHANGED <<synths, refs, globalDLS, phase>>

EAS_Prepare(s) ==
    /\ Up /\ IsFile(s) /\ streams[s].state = "OPEN"
    /\ \E o \in Prepare(streams[s], heap) :
         IF o.result = "crash" THEN Crash
         ELSE /\ streams' = [streams EXCEPT ![s] = o.stream]
              /\ Leaves(o.heap)
              /\ UNCHANGED <<globalDLS, phase>>

\* The slot is cleared whatever pfClose returns.
EAS_CloseFile(s) ==
    /\ Up /\ IsFile(s)
    /\ Leaves(Close(streams[s], heap))
    /\ streams' = [streams EXCEPT ![s] = Closed]
    /\ UNCHANGED <<globalDLS, phase>>

\* EAS_OpenMIDIStream with a synthesizer of its own.
EAS_OpenMIDIStream ==
    /\ Up /\ FreeSlots # {} /\ FreeSynths(heap) # {}
    /\ LET y == Min(FreeSynths(heap)) IN
         /\ streams' = [streams EXCEPT ![Min(FreeSlots)] = RawMIDI(y)]
         /\ Leaves(VMInitMIDI(heap, y))
    /\ UNCHANGED <<globalDLS, phase>>

\* EAS_OpenMIDIStream on the synthesizer of another stream.  The reference is
\* taken before the result of EAS_GetStreamParameter is looked at: a raw MIDI
\* stream has no parser to ask, an unprepared stream no synthesizer.
EAS_ShareMIDIStream(t) ==
    /\ Up /\ FreeSlots # {} /\ (IsFile(t) \/ IsRawMIDI(t))
    /\ IF IsRawMIDI(t) \/ streams[t].synth = NULL THEN Crash
       ELSE /\ streams' = [streams EXCEPT ![Min(FreeSlots)] = RawMIDI(streams[t].synth)]
            /\ Leaves(VMIncRefCount(heap, streams[t].synth))
            /\ UNCHANGED <<globalDLS, phase>>

EAS_CloseMIDIStream(s) ==
    /\ Up /\ IsRawMIDI(s)
    /\ Leaves(VMMIDIShutdown(heap, streams[s].synth))
    /\ streams' = [streams EXCEPT ![s] = Closed]
    /\ UNCHANGED <<globalDLS, phase>>

\* EAS_LoadDLSCollection into a stream of a file, with EAS_IntSetStrmParam: the
\* reference of the load is not given to anyone.
LoadIntoFile(s, c) ==
    /\ Up /\ IsFile(s) /\ streams[s].state = "READY" /\ refs[c] = 0
    /\ Leaves(Share(Load(heap, c), streams[s].synth, c))
    /\ UNCHANGED <<streams, globalDLS, phase>>

\* EAS_LoadDLSCollection into a raw MIDI stream.
LoadIntoMIDI(s, c) ==
    /\ Up /\ IsRawMIDI(s) /\ refs[c] = 0
    /\ Leaves(VMSetDLSLib(Load(heap, c), streams[s].synth, c))
    /\ UNCHANGED <<streams, globalDLS, phase>>

\* EAS_LoadDLSCollection for all streams to come, with VMSetGlobalDLSLib.
LoadGlobal(c) ==
    /\ Up /\ refs[c] = 0
    /\ Leaves(DLSCleanup(Load(heap, c), globalDLS))
    /\ globalDLS' = c
    /\ UNCHANGED <<streams, phase>>

\* The streams of files are closed in the order of their slots; raw MIDI
\* streams have no parser and are not.  VMShutdown then frees the voice manager
\* with its table of synthesizers.
EAS_Shutdown ==
    /\ Up
    /\ LET after[i \in 0 .. NumStreams] ==
               IF i = 0 THEN heap
               ELSE IF IsFile(i - 1) THEN Close(streams[i - 1], after[i - 1])
               ELSE after[i - 1]
           left == DLSCleanup(after[NumStreams], globalDLS)
       IN  refs' = left.refs /\ open' = left.open
    /\ streams' = [s \in Slots |-> Closed]
    /\ synths' = [y \in Synths |-> NoSynth]
    /\ globalDLS' = NULL
    /\ phase' = "down"

EAS_Init ==
    /\ phase = "down"
    /\ phase' = "up"
    /\ UNCHANGED <<streams, synths, refs, open, globalDLS>>

Next ==
    \/ \E f \in Files : EAS_OpenFile(f)
    \/ \E s \in Slots : EAS_Prepare(s)
    \/ \E s \in Slots : EAS_CloseFile(s)
    \/ EAS_OpenMIDIStream
    \/ \E s \in Slots : EAS_ShareMIDIStream(s)
    \/ \E s \in Slots : EAS_CloseMIDIStream(s)
    \/ \E s \in Slots, c \in Collections : LoadIntoFile(s, c) \/ LoadIntoMIDI(s, c)
    \/ \E c \in Collections : LoadGlobal(c)
    \/ EAS_Shutdown
    \/ EAS_Init

Spec == Init /\ [][Next]_vars

-----------------------------------------------------------------------------
(* Properties.                                                             *)

\* The streams, tracks, synthesizers and containers that point to an object.
SynthHolders(y) == {s \in Slots : streams[s].synth = y}
HandleHolders(x) == {s \in Slots : x \in SMF_Handles(streams[s])}
CollectionHolders(c) ==
    Cardinality({y \in Synths : synths[y].dls = c})
    + Cardinality({s \in Slots : streams[s].dls = c})
    + (IF globalDLS = c THEN 1 ELSE 0)

\* A synthesizer has a reference for each stream that points to it, so that it
\* outlives them in whatever order streams that share it are closed
\* (VMIncRefCount, VMMIDIShutdown).
SynthsAlive == \A y \in Synths : synths[y].refs >= Cardinality(SynthHolders(y))

\* A collection has a reference for each place that points to it (DLSAddRef,
\* DLSCleanup).
CollectionsAlive == \A c \in Collections : refs[c] >= CollectionHolders(c)

\* A handle that a stream is to close is open, and no other stream, and no
\* second track of the stream, is to close it.
HandlesAlive ==
    /\ \A x \in Handles : Cardinality(HandleHolders(x)) <= (IF x \in open THEN 1 ELSE 0)
    /\ \A s \in Slots : LET r == streams[s] IN
         \A i \in 1 .. r.numStreams : r.tracks[i] # NULL =>
            /\ r.tracks[i] # r.handle
            /\ \A j \in 1 .. r.numStreams : r.tracks[i] = r.tracks[j] => i = j

\* What a stream, a container or a synthesizer gives back as it is closed is
\* still there, and its own: a collection that others hold too, the file that
\* the parser of the first track and SMF_ParseHeader both have had.
HeldAlive == CollectionsAlive /\ HandlesAlive

\* The ways in which the code loses the only reference to an object.
\* EAS_Prepare of a stream whose prepare failed: its pointers are overwritten.
PreparesAgain ==
    \E s \in Slots : /\ streams[s].state = "OPEN" /\ streams'[s] # Closed
                      /\ \/ streams[s].synth # NULL \/ streams[s].dls # NULL
                         \/ streams[s].tracks # <<>>
                      /\ streams'[s] # streams[s]
\* A synthesizer that holds a collection, or gets the global one as it is
\* made, is given another.
ReplacesCollection ==
    \E y \in Synths : LET had == IF synths[y].refs = 0 THEN globalDLS ELSE synths[y].dls
                      IN  synths'[y].refs > 0 /\ had # NULL /\ synths'[y].dls # had
\* A collection is loaded into the stream of a file.
LoadsIntoFile == \E s \in Slots, c \in Collections : LoadIntoFile(s, c)
Unheld(x) == x \in open /\ HandleHolders(x) = {}
SpareSynthRefs(y) == synths[y].refs - Cardinality(SynthHolders(y))
\* EAS_Shutdown with a synthesizer that no stream of a file is the last to hold.
AbandonsSynth ==
    /\ phase' = "down"
    /\ (\E s \in Slots : IsRawMIDI(s)) \/ (\E y \in Synths : SpareSynthRefs(y) > 0)
SpareRefs(c) == refs[c] - CollectionHolders(c)

\* What is allocated is given back: no call leaves an open handle, or a count
\* that its holders will not bring down to zero, but in the ways above.
LossesKnown ==
    [][ /\ \A x \in Handles : ~Unheld(x) /\ Unheld(x)' => PreparesAgain
        /\ \A y \in Synths : SpareSynthRefs(y)' > SpareSynthRefs(y) => PreparesAgain
        /\ \A c \in Collections : SpareRefs(c)' > SpareRefs(c) =>
              PreparesAgain \/ ReplacesCollection \/ LoadsIntoFile \/ AbandonsSynth
      ]_vars

\* The reader of a track finds its handle where it left it (rmidi.c:228).
TracksInPlace == \A s \in Slots : streams[s].state = "READY" => ~streams[s].stray
=============================================================================
