------------------------------ MODULE JetClips ------------------------------
(***************************************************************************)
(* Clips, mutes and events of the JET engine (jet.c).  The parser calls    *)
(* JET_Event for each controller of a segment: controller 103 starts and   *)
(* ends clips, the range of the application goes to its ring, and markers  *)
(* go to the ring that JET_Process drains.  When segments are prepared,    *)
(* repeated and closed is the subject of JetSegments; here they may be at  *)
(* any JET_Process, and muteFlags stands for the mutes of the stream too,  *)
(* which it reaches at once.  The application calls JET_Clear_Queue before *)
(* it closes the file.                                                     *)
(***************************************************************************)
EXTENDS Integers, FiniteSets, FiniteSetsExt, Sequences

CONSTANTS
    SEG_QUEUE_DEPTH,
    JET_MUTE_QUEUE_SIZE,
    APP_EVENT_QUEUE_SIZE,
    JET_EVENT_QUEUE_SIZE,
    Clips,      \* clip IDs used by the songs, a subset of 0 .. 63
    ClipTrack,  \* the track of a segment that has the clip
    UserIDs,    \* names the application gives to segments
    NoEvent,
    TailClips   \* songs have clips behind their loop-end marker

ASSUME ClipsAssumption ==
    /\ SEG_QUEUE_DEPTH \in Nat \ {0} /\ JET_MUTE_QUEUE_SIZE \in Nat \ {0}
    /\ Clips \subseteq 0 .. 63 /\ IsFiniteSet(Clips)
    /\ TailClips \in BOOLEAN

VARIABLES
    muteQueue,  \* S_JET_DATA.muteQueue
    seg,        \* S_JET_DATA.segQueue
    playSegment, queueSegment,
    appQueue, appRead, appWrite, appEvent,  \* appEventQueue and its indexes
    jetQueue, jetRead, jetWrite, jetEvent,  \* jetEventQueue and its indexes
    endOfLoop,  \* of JET_Process
    call,       \* "idle", "parse" or "process": where EAS_Render is
    inClip,     \* history: the clip of each slot the song is in, if any
    marked,     \* history: slots whose song is behind its loop-end marker
    credit      \* history: how often a clip was triggered, other than to play
                \* on while it sounds, and has not been played since

apps == <<appQueue, appRead, appWrite, appEvent>>
jets == <<jetQueue, jetRead, jetWrite, jetEvent>>
vars == <<muteQueue, seg, playSegment, queueSegment, apps, jets,
          endOfLoop, call, inClip, marked, credit>>

Slots      == 0 .. SEG_QUEUE_DEPTH - 1
Entries    == 0 .. JET_MUTE_QUEUE_SIZE - 1
ClipTracks == {ClipTrack[c] : c \in Clips}
NoClip     == -1

\* A byte of muteQueue: the clip ID, JET_CLIP_ACTIVE_FLAG, JET_CLIP_TRIGGER_FLAG.
Entry(c, t) == [id |-> c, active |-> TRUE, trigger |-> t]
Empty       == [id |-> 0, active |-> FALSE, trigger |-> FALSE]

\* The events of the two rings; markers all have controller 102 and value 0.
AppEvents == [segment : UserIDs]
JetEvents == [segment : Slots]

App == INSTANCE EventRing WITH
    queueSize <- APP_EVENT_QUEUE_SIZE, Events <- AppEvents, queue <- appQueue,
    readIndex <- appRead, writeIndex <- appWrite, event <- appEvent
Jet == INSTANCE EventRing WITH
    queueSize <- JET_EVENT_QUEUE_SIZE, Events <- JetEvents, queue <- jetQueue,
    readIndex <- jetRead, writeIndex <- jetWrite, event <- jetEvent

ASSUME RingsAssumption == App!RingAssumption /\ Jet!RingAssumption

Closed == [state |-> "CLOSED", userID |-> 0, muteFlags |-> {}]

Init ==
    /\ muteQueue = [i \in Entries |-> Empty]
    /\ seg = [s \in Slots |-> Closed]
    /\ playSegment = 0 /\ queueSegment = 0
    /\ App!Init /\ Jet!Init
    /\ endOfLoop = FALSE /\ call = "idle"
    /\ inClip = [s \in Slots |-> NoClip]
    /\ marked = {} /\ credit = [c \in Clips |-> 0]

NextSegment(s) == (s + 1) % SEG_QUEUE_DEPTH

Sounding(c) == \E s \in Slots : inClip[s] = c /\ ClipTrack[c] \notin seg[s].muteFlags

-----------------------------------------------------------------------------
(* Calls of the application, between two frames.                           *)

JET_QueueSegment(u) ==
    LET s == queueSegment IN
    /\ call = "idle"
    /\ seg[s].state = "CLOSED"
    /\ seg' = [seg EXCEPT ![s].state = "READY", ![s].userID = u,
                          ![s].muteFlags = ClipTracks]
    /\ queueSegment' = NextSegment(s)
    /\ inClip' = [inClip EXCEPT ![s] = NoClip]
    /\ marked' = marked \ {s}
    /\ UNCHANGED <<muteQueue, playSegment, apps, jets, endOfLoop, call, credit>>

StartPlayback(slots, s) == [slots EXCEPT ![s].state = "PLAYING"]

JET_Play ==
    /\ call = "idle"
    /\ seg[playSegment].state = "READY"
    /\ seg' = StartPlayback(seg, playSegment)
    /\ UNCHANGED <<muteQueue, playSegment, queueSegment, apps, jets, endOfLoop,
                   call, inClip, marked, credit>>

\* Mutant: a clip that waits is found again.
EntryForAny(c) ==
    LET same == {i \in Entries : muteQueue[i].active /\ muteQueue[i].id = c}
        free == {i \in Entries : muteQueue[i] = Empty}
    IN IF same # {} THEN {Max(same)} ELSE IF free # {} THEN {Min(free)} ELSE {}

\* The search from the end stops at a clip that plays; otherwise the first
\* empty entry remains.  An entry that still waits is not found again.
EntryFor(c) ==
    LET same == {i \in Entries : muteQueue[i] = Entry(c, FALSE)}
        free == {i \in Entries : muteQueue[i] = Empty}
    IN IF same # {} THEN {Max(same)} ELSE IF free # {} THEN {Min(free)} ELSE {}

Replays(c) == \E i \in Entries : muteQueue[i] = Entry(c, FALSE)

JET_TriggerClip(c) ==
    /\ call = "idle"
    /\ \E i \in EntryFor(c) : muteQueue' = [muteQueue EXCEPT ![i] = Entry(c, TRUE)]
    /\ credit' = [credit EXCEPT ![c] = IF Replays(c) THEN @ ELSE @ + 1]
    /\ UNCHANGED <<seg, playSegment, queueSegment, apps, jets,
                   endOfLoop, call, inClip, marked>>

JET_GetEvent ==
    /\ call = "idle"
    /\ App!ReadQueue
    /\ UNCHANGED <<muteQueue, seg, playSegment, queueSegment, jets,
                   endOfLoop, call, inClip, marked, credit>>

JET_Clear_Queue ==
    /\ call = "idle"
    /\ seg' = [s \in Slots |-> [seg[s] EXCEPT !.state = "CLOSED"]]
    /\ muteQueue' = [i \in Entries |-> Empty]
    /\ playSegment' = 0 /\ queueSegment' = 0
    /\ inClip' = [s \in Slots |-> NoClip]
    /\ credit' = [c \in Clips |-> 0]
    /\ UNCHANGED <<apps, jets, endOfLoop, call, marked>>

-----------------------------------------------------------------------------
(* EAS_Render: the parsers run the songs and call JET_Event.               *)

EAS_Render ==
    /\ call = "idle"
    /\ call' = "parse"
    /\ UNCHANGED <<muteQueue, seg, playSegment, queueSegment, apps,
                   jets, endOfLoop, inClip, marked, credit>>

\* A song goes on behind its marker when its segment was ended by it.
Parses(s) ==
    /\ call = "parse"
    /\ seg[s].state = "PLAYING" \/ (seg[s].state = "STOPPING" /\ s \in marked)

\* Mutant: only an entry that waits is looked for.
EntryOfWaiting(c) ==
    LET found == {i \in Entries : muteQueue[i].id = c /\ muteQueue[i].trigger}
    IN IF found = {} THEN {} ELSE {Min(found)}

\* The first entry with the clip's ID decides, whatever its flags are.
EntryOf(c) ==
    LET found == {i \in Entries : muteQueue[i].id = c}
    IN IF found = {} THEN {} ELSE {Min(found)}

\* Mutant: the entry is kept when its clip ends.
UsedKept(e, plays, changed) == [e EXCEPT !.trigger = @ /\ ~plays]

\* What becomes of an entry: its clip plays, or ends, or was not heard.
Used(e, plays, changed) ==
    IF plays THEN [e EXCEPT !.trigger = FALSE] ELSE IF changed THEN Empty ELSE e

\* JET_Event with controller 103; starts says whether value & 0x40 is set.
HandleTrigger(s, c, starts) ==
    LET t == ClipTrack[c]
        Plays(i) == muteQueue[i].trigger /\ starts
        flags(i) == IF Plays(i) THEN seg[s].muteFlags \ {t} ELSE seg[s].muteFlags \cup {t}
    IN \/ /\ EntryOf(c) = {}
          /\ UNCHANGED <<muteQueue, seg, credit>>
       \/ \E i \in EntryOf(c) :
            /\ seg' = [seg EXCEPT ![s].muteFlags = flags(i)]
            /\ muteQueue' = [muteQueue EXCEPT
                 ![i] = Used(@, Plays(i), flags(i) # seg[s].muteFlags)]
            /\ credit' = [credit EXCEPT ![c] = IF Plays(i) THEN @ - 1 ELSE @]

\* A song has its clips one after another, none when it comes to its marker
\* and, unless TailClips, none behind it.
JET_EventClip(s, c) ==
    LET starts == inClip[s] = NoClip IN
    /\ Parses(s)
    /\ s \in marked => seg[s].state = "STOPPING" /\ TailClips
    /\ inClip[s] \in {NoClip, c}
    /\ HandleTrigger(s, c, starts)
    /\ inClip' = [inClip EXCEPT ![s] = IF starts THEN c ELSE NoClip]
    /\ UNCHANGED <<playSegment, queueSegment, apps, jets, endOfLoop, call, marked>>

JET_EventApp(s) ==
    /\ Parses(s)
    /\ App!WriteQueue([segment |-> seg[s].userID])
    /\ UNCHANGED <<muteQueue, seg, playSegment, queueSegment, jets,
                   endOfLoop, call, inClip, marked, credit>>

\* The song comes to its loop-end marker, once before it repeats or ends.
JET_EventMarker(s) ==
    /\ Parses(s)
    /\ s \notin marked /\ inClip[s] = NoClip
    /\ Jet!WriteQueue([segment |-> s])
    /\ marked' = marked \cup {s}
    /\ UNCHANGED <<muteQueue, seg, playSegment, queueSegment, apps,
                   endOfLoop, call, inClip, credit>>

-----------------------------------------------------------------------------
(* The end of the frame.                                                   *)

JET_Process ==
    /\ call = "parse"
    /\ call' = "process" /\ endOfLoop' = FALSE
    /\ UNCHANGED <<muteQueue, seg, playSegment, queueSegment, apps,
                   jets, inClip, marked, credit>>

\* One iteration of its first loop.
ProcessEvent ==
    /\ call = "process"
    /\ Jet!ReadQueue
    /\ endOfLoop' = (endOfLoop \/ seg[playSegment].state # "CLOSED")
    /\ UNCHANGED <<muteQueue, seg, playSegment, queueSegment, apps,
                   call, inClip, marked, credit>>

\* Mutant: the segments are looked at before the ring.
AllReadLater == call = "process"

AllRead == call = "process" /\ jetRead = jetWrite

\* The stream of slot s has ended, or a marker came.
AtEnd(s) ==
    /\ seg[s].state = "PLAYING"
    /\ endOfLoop \/ inClip[s] = NoClip

RepeatSegment ==
    LET s == playSegment IN
    /\ AllRead /\ AtEnd(s)
    /\ inClip' = [inClip EXCEPT ![s] = NoClip]
    /\ marked' = marked \ {s}
    /\ call' = "idle" /\ endOfLoop' = FALSE
    /\ UNCHANGED <<muteQueue, seg, playSegment, queueSegment, apps, jets, credit>>

EndSegment ==
    LET s == playSegment
        n == NextSegment(s)
        stopped == [seg EXCEPT ![s].state = "STOPPING"]
    IN
    /\ AllRead /\ AtEnd(s)
    /\ seg' = IF stopped[n].state = "READY" THEN StartPlayback(stopped, n) ELSE stopped
    /\ playSegment' = n
    /\ call' = "idle" /\ endOfLoop' = FALSE
    /\ UNCHANGED <<muteQueue, queueSegment, apps, jets, inClip, marked, credit>>

\* Nothing ends, or a stopping segment whose stream has stopped is closed.
EndProcess ==
    /\ AllRead
    /\ endOfLoop => seg[playSegment].state # "PLAYING"
    /\ \E closed \in SUBSET {s \in Slots : seg[s].state = "STOPPING" /\ inClip[s] = NoClip} :
         seg' = [s \in Slots |-> IF s \in closed THEN [seg[s] EXCEPT !.state = "CLOSED"]
                                 ELSE seg[s]]
    /\ call' = "idle" /\ endOfLoop' = FALSE
    /\ UNCHANGED <<muteQueue, playSegment, queueSegment, apps, jets,
                   inClip, marked, credit>>

Next ==
    \/ \E u \in UserIDs : JET_QueueSegment(u)
    \/ JET_Play
    \/ \E c \in Clips : JET_TriggerClip(c)
    \/ JET_GetEvent
    \/ JET_Clear_Queue
    \/ EAS_Render
    \/ \E s \in Slots : JET_EventApp(s) \/ JET_EventMarker(s)
    \/ \E s \in Slots, c \in Clips : JET_EventClip(s, c)
    \/ JET_Process
    \/ ProcessEvent
    \/ RepeatSegment
    \/ EndSegment
    \/ EndProcess

Spec == Init /\ [][Next]_vars

\* Another stream fails, and EAS_Render returns before JET_Process: the markers
\* of the frame stay in the ring.
RenderFails ==
    /\ call = "parse"
    /\ call' = "idle"
    /\ UNCHANGED <<muteQueue, seg, playSegment, queueSegment, apps,
                   jets, endOfLoop, inClip, marked, credit>>

\* With such failures a marker may end or repeat a segment it is not of, also
\* within a clip; the properties below are about Spec.
FailingSpec == Init /\ [][Next \/ RenderFails]_vars

-----------------------------------------------------------------------------
TypeOK ==
    /\ muteQueue \in [Entries -> [id : Clips \cup {0}, active : BOOLEAN, trigger : BOOLEAN]]
    /\ seg \in [Slots -> [state : {"CLOSED", "READY", "PLAYING", "STOPPING"},
                          userID : UserIDs \cup {0}, muteFlags : SUBSET ClipTracks]]
    /\ playSegment \in Slots /\ queueSegment \in Slots
    /\ App!TypeOK /\ Jet!TypeOK
    /\ endOfLoop \in BOOLEAN /\ call \in {"idle", "parse", "process"}
    /\ inClip \in [Slots -> Clips \cup {NoClip}]
    /\ marked \subseteq Slots
    /\ credit \in [Clips -> 0 .. JET_MUTE_QUEUE_SIZE]

\* A clip triggered before its start plays: the start of a clip that has been
\* triggered unmutes its track, over full, freed and reused entries, clips
\* triggered twice, and a trigger that came inside the clip.
NextStartPlays ==
    [][\A s \in Slots, c \in Clips :
         /\ inClip[s] = NoClip /\ inClip'[s] = c /\ credit[c] > 0
         /\ \A other \in Slots : inClip[other] # c
         => ClipTrack[c] \notin seg'[s].muteFlags]_vars

\* A track with clips, muted when its segment is queued, sounds only inside a
\* clip: the end of each clip mutes it again, whatever was triggered or cleared
\* meanwhile.
SoundsOnlyInClip ==
    \A s \in Slots : seg[s].state \in {"PLAYING", "STOPPING"} =>
        \A t \in ClipTracks \ seg[s].muteFlags :
            inClip[s] \in Clips /\ ClipTrack[inClip[s]] = t

\* Every JET_TriggerClip but that of a clip to play on is worth one: apart from
\* the entry of a clip that sounds, the entries that wait are the triggers not
\* yet played, none lost and none counted twice.
CreditExact ==
    \A c \in Clips :
        LET own == IF Sounding(c) THEN EntryOf(c) ELSE {}
        IN credit[c] = Cardinality({i \in Entries \ own : muteQueue[i] = Entry(c, TRUE)})

\* The comment of JET_TriggerClip says "If a clip is already playing, change
\* mute event to a trigger event. The JET_Event function will not mute the
\* clip, but will allow it to continue playing through the next clip"
\* (jet.c:829): a trigger waits until a clip starts.  The end of the clip that
\* plays takes it back.
TriggersWait ==
    [][\A i \in Entries :
         muteQueue[i].trigger /\ muteQueue'[i] = Empty
         => \A s \in Slots : seg'[s].state = "CLOSED"]_vars

\* A segment is ended or repeated for a marker of its own, not for one that an
\* earlier segment left in the ring.
OwnMarkerEndsLoop ==
    call = "process" /\ endOfLoop => playSegment \in marked

\* The application receives its events in order, those that find the ring full
\* excepted, over frames that write several and calls that read one.
AppEventsInOrder == App!IsFifo
=============================================================================
