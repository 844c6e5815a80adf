---------------------------- MODULE JetClipsProofs ----------------------------
(***************************************************************************)
(* Proofs about JetClips, for any slots, entries, rings and clips.         *)
(***************************************************************************)
EXTENDS JetClips, TLAPS, FiniteSetTheorems, WellFoundedInduction

-----------------------------------------------------------------------------
(* The ring of the application.                                            *)

LEMMA RingSize ==
    /\ APP_EVENT_QUEUE_SIZE \in 1 .. 255 /\ JET_EVENT_QUEUE_SIZE \in 1 .. 255
    /\ App!Indexes = 0 .. APP_EVENT_QUEUE_SIZE - 1
    /\ Jet!Indexes = 0 .. JET_EVENT_QUEUE_SIZE - 1
BY RingsAssumption DEF App!RingAssumption, Jet!RingAssumption, App!Indexes, Jet!Indexes

LEMMA WriteType ==
    ASSUME App!TypeOK, NEW e \in AppEvents, App!WriteQueue(e) PROVE App!TypeOK'
BY RingSize DEF App!TypeOK, App!Indexes, App!WriteQueue, App!IncQueueIndex

LEMMA ReadType == ASSUME App!TypeOK, App!ReadQueue PROVE App!TypeOK'
BY RingSize DEF App!TypeOK, App!Indexes, App!ReadQueue, App!IncQueueIndex

\* How many events wait, and where they are.
LEMMA HeldRange ==
    ASSUME App!TypeOK
    PROVE  /\ App!Held \in 0 .. APP_EVENT_QUEUE_SIZE - 1
           /\ App!Held = 0 <=> appRead = appWrite
           /\ App!IncQueueIndex(appWrite) = appRead <=> App!Held = APP_EVENT_QUEUE_SIZE - 1
           /\ \A k \in 1 .. APP_EVENT_QUEUE_SIZE : App!Slot(k) \in App!Indexes
           /\ \A k \in 1 .. App!Held : App!Slot(k) # appWrite
           /\ App!Held < APP_EVENT_QUEUE_SIZE - 1 => App!Slot(App!Held + 1) = appWrite
BY RingSize DEF App!TypeOK, App!Indexes, App!Held, App!Slot, App!IncQueueIndex

LEMMA ContentsType ==
    ASSUME App!TypeOK
    PROVE  /\ App!Contents \in Seq(AppEvents \cup {NoEvent})
           /\ Len(App!Contents) = App!Held
           /\ DOMAIN App!Contents = 1 .. App!Held
<1>1. App!Held \in Nat /\ 1 .. App!Held \subseteq 1 .. APP_EVENT_QUEUE_SIZE
  BY HeldRange, RingSize
<1>2. \A k \in 1 .. App!Held : appQueue[App!Slot(k)] \in AppEvents \cup {NoEvent}
  BY <1>1, HeldRange DEF App!TypeOK
<1>3. App!Contents \in [1 .. App!Held -> AppEvents \cup {NoEvent}]
  BY <1>2 DEF App!Contents
<1>. QED BY <1>1, <1>3

\* A write is a write of the queue, or the ring is full and nothing changes.
LEMMA WriteRefines ==
    ASSUME App!TypeOK, NEW e \in AppEvents, App!WriteQueue(e)
    PROVE  App!Fifo!Write(e) \/ UNCHANGED App!Fifo!vars
<1>. USE RingSize DEF App!TypeOK, App!Indexes
<1>1. CASE App!IncQueueIndex(appWrite) = appRead
  <2>1. UNCHANGED apps
    BY <1>1 DEF App!WriteQueue, apps
  <2>. QED BY <2>1 DEF apps, App!Fifo!vars, App!Contents, App!Held, App!Slot
<1>2. CASE App!IncQueueIndex(appWrite) # appRead
  <2>1. /\ appQueue' = [appQueue EXCEPT ![appWrite] = e] /\ appRead' = appRead
        /\ appWrite' = App!IncQueueIndex(appWrite) /\ appEvent' = appEvent
    BY <1>2 DEF App!WriteQueue
  <2>2. /\ App!Held < APP_EVENT_QUEUE_SIZE - 1 /\ App!Held \in Nat
        /\ App!Slot(App!Held + 1) = appWrite
    BY <1>2, HeldRange
  <2>3. App!Held' = App!Held + 1
    BY <2>1, <2>2 DEF App!Held, App!IncQueueIndex
  <2>4. \A k \in 1 .. App!Held + 1 : App!Slot(k)' = App!Slot(k)
    BY <2>1 DEF App!Slot
  <2>5. App!Contents' = Append(App!Contents, e)
    <3>1. App!Contents' = [k \in 1 .. App!Held + 1 |-> appQueue'[App!Slot(k)]]
      BY <2>3, <2>4 DEF App!Contents
    <3>2. \A k \in 1 .. App!Held : appQueue'[App!Slot(k)] = App!Contents[k]
      <4>. TAKE k \in 1 .. App!Held
      <4>1. App!Slot(k) \in App!Indexes /\ App!Slot(k) # appWrite
        BY <2>2, HeldRange
      <4>. QED BY <2>1, <4>1 DEF App!Contents
    <3>3. appQueue'[App!Slot(App!Held + 1)] = e
      BY <2>1, <2>2
    <3>4. Append(App!Contents, e) = [k \in 1 .. App!Held + 1 |->
                                       IF k = App!Held + 1 THEN e ELSE App!Contents[k]]
      BY ContentsType, <2>2
    <3>. QED BY <3>1, <3>2, <3>3, <3>4, <2>2
  <2>6. Len(App!Contents) < APP_EVENT_QUEUE_SIZE - 1
    BY <2>2, ContentsType
  <2>. QED BY <2>1, <2>5, <2>6 DEF App!Fifo!Write
<1>. QED BY <1>1, <1>2

\* A read takes the oldest event.
LEMMA ReadRefines == ASSUME App!TypeOK, App!ReadQueue PROVE App!Fifo!Read
<1>. USE RingSize DEF App!TypeOK, App!Indexes
<1>1. /\ appQueue' = appQueue /\ appRead' = App!IncQueueIndex(appRead)
      /\ appWrite' = appWrite /\ appEvent' = appQueue[appRead]
      /\ appRead # appWrite
  BY DEF App!ReadQueue
<1>2. App!Held \in Nat \ {0} /\ App!Held <= APP_EVENT_QUEUE_SIZE
  BY <1>1, HeldRange
<1>3. App!Held' = App!Held - 1
  BY <1>1, <1>2 DEF App!Held, App!IncQueueIndex
<1>4. \A k \in 1 .. App!Held - 1 : App!Slot(k)' = App!Slot(k + 1)
  BY <1>1, <1>2 DEF App!Slot, App!IncQueueIndex
<1>5. App!Slot(1) = appRead
  BY DEF App!Slot
<1>6. App!Contents # <<>> /\ Head(App!Contents) = appQueue[appRead]
  BY <1>2, <1>5, ContentsType DEF App!Contents
<1>7. App!Contents' = Tail(App!Contents)
  <2>1. App!Contents' = [k \in 1 .. App!Held - 1 |-> appQueue[App!Slot(k + 1)]]
    BY <1>1, <1>3, <1>4 DEF App!Contents
  <2>2. \A k \in 1 .. App!Held - 1 : App!Contents[k + 1] = appQueue[App!Slot(k + 1)]
    BY <1>2 DEF App!Contents
  <2>3. Tail(App!Contents) = [k \in 1 .. App!Held - 1 |-> App!Contents[k + 1]]
    BY <1>2, ContentsType
  <2>. QED BY <2>1, <2>2, <2>3
<1>. QED BY <1>1, <1>6, <1>7 DEF App!Fifo!Read

-----------------------------------------------------------------------------
(* The segments and the rings, whatever the songs do.                      *)

AnEntry  == [id : Clips \cup {0}, active : BOOLEAN, trigger : BOOLEAN]
ASegment == [state : {"CLOSED", "READY", "PLAYING", "STOPPING"},
             userID : UserIDs \cup {0}, muteFlags : SUBSET ClipTracks]

\* All of TypeOK but the range of credit, which is that of the entries.
TypeInv ==
    /\ muteQueue \in [Entries -> AnEntry]
    /\ seg \in [Slots -> ASegment]
    /\ playSegment \in Slots /\ queueSegment \in Slots
    /\ App!TypeOK /\ Jet!TypeOK
    /\ endOfLoop \in BOOLEAN /\ call \in {"idle", "parse", "process"}
    /\ inClip \in [Slots -> Clips \cup {NoClip}]
    /\ marked \subseteq Slots
    /\ credit \in [Clips -> Int]

\* Only the segment at playSegment plays; one that is open has its name.
PlaysAlone ==
    \A s \in Slots :
        /\ seg[s].state = "PLAYING" => s = playSegment
        /\ seg[s].state # "CLOSED" => seg[s].userID \in UserIDs

\* The ring holds markers only of the segment that plays and only within a
\* frame, which reads them all.
MarkersOwn ==
    /\ jetRead # jetWrite => call # "idle" /\ playSegment \in marked
    /\ call = "process" /\ endOfLoop = TRUE => playSegment \in marked

BaseInv == TypeInv /\ PlaysAlone /\ MarkersOwn

LEMMA SlotsNext == /\ 0 \in Slots /\ \A s \in Slots : NextSegment(s) \in Slots
BY ClipsAssumption DEF Slots, NextSegment

LEMMA EntryType ==
    /\ Empty \in AnEntry
    /\ \A c \in Clips, t \in BOOLEAN : Entry(c, t) \in AnEntry
BY DEF Empty, AnEntry, Entry

LEMMA InitBase == Init => BaseInv
<1>. SUFFICES ASSUME Init PROVE BaseInv
  OBVIOUS
<1>1. muteQueue \in [Entries -> AnEntry]
  BY EntryType DEF Init
<1>2. seg \in [Slots -> ASegment]
  BY DEF Init, Closed, ASegment
<1>3. App!TypeOK
  BY RingSize DEF Init, App!Init, App!TypeOK
<1>4. Jet!TypeOK
  BY RingSize DEF Init, Jet!Init, Jet!TypeOK
<1>5. /\ playSegment \in Slots /\ queueSegment \in Slots
      /\ endOfLoop \in BOOLEAN /\ call \in {"idle", "parse", "process"}
      /\ inClip \in [Slots -> Clips \cup {NoClip}] /\ marked \subseteq Slots
      /\ credit \in [Clips -> Int]
  <2>1. playSegment = 0 /\ queueSegment = 0 /\ endOfLoop = FALSE /\ call = "idle" /\ marked = {}
    BY DEF Init
  <2>2. inClip = [s \in Slots |-> NoClip] /\ credit = [c \in Clips |-> 0]
    BY DEF Init
  <2>3. inClip \in [Slots -> Clips \cup {NoClip}] /\ credit \in [Clips -> Int]
    BY <2>2
  <2>. QED BY <2>1, <2>3, SlotsNext
<1>6. TypeInv
  BY Zenon, <1>1, <1>2, <1>3, <1>4, <1>5 DEF TypeInv
<1>7. PlaysAlone
  BY DEF Init, PlaysAlone, Closed
<1>8. MarkersOwn
  BY DEF Init, MarkersOwn, Jet!Init
<1>. QED BY <1>6, <1>7, <1>8 DEF BaseInv

LEMMA JetWrite ==
    ASSUME Jet!TypeOK, NEW e \in JetEvents, Jet!WriteQueue(e) PROVE Jet!TypeOK'
BY RingSize DEF Jet!TypeOK, Jet!Indexes, Jet!WriteQueue, Jet!IncQueueIndex

LEMMA JetRead == ASSUME Jet!TypeOK, Jet!ReadQueue PROVE Jet!TypeOK'
BY RingSize DEF Jet!TypeOK, Jet!Indexes, Jet!ReadQueue, Jet!IncQueueIndex

LEMMA RingsSame ==
    /\ App!TypeOK /\ UNCHANGED apps => App!TypeOK'
    /\ Jet!TypeOK /\ UNCHANGED jets => Jet!TypeOK'
BY DEF App!TypeOK, App!Indexes, Jet!TypeOK, Jet!Indexes, apps, jets

\* What JET_Event makes of a controller 103.
LEMMA TriggerType ==
    ASSUME TypeInv, NEW s \in Slots, NEW c \in Clips, NEW starts \in BOOLEAN,
           HandleTrigger(s, c, starts)
    PROVE  /\ muteQueue' \in [Entries -> AnEntry] /\ seg' \in [Slots -> ASegment]
           /\ credit' \in [Clips -> Int]
           /\ \A r \in Slots : /\ seg'[r].state = seg[r].state
                               /\ seg'[r].userID = seg[r].userID
                               /\ r # s => seg'[r] = seg[r]
<1>. USE DEF TypeInv
<1>1. CASE UNCHANGED <<muteQueue, seg, credit>>
  BY <1>1
<1>2. ASSUME NEW i \in EntryOf(c),
             LET t == ClipTrack[c]
                 Plays(j) == muteQueue[j].trigger /\ starts
                 flags(j) == IF Plays(j) THEN seg[s].muteFlags \ {t} ELSE seg[s].muteFlags \cup {t}
             IN  /\ seg' = [seg EXCEPT ![s].muteFlags = flags(i)]
                 /\ muteQueue' = [muteQueue EXCEPT
                      ![i] = Used(@, Plays(i), flags(i) # seg[s].muteFlags)]
                 /\ credit' = [credit EXCEPT ![c] = IF Plays(i) THEN @ - 1 ELSE @]
      PROVE  /\ muteQueue' \in [Entries -> AnEntry] /\ seg' \in [Slots -> ASegment]
             /\ credit' \in [Clips -> Int]
             /\ \A r \in Slots : /\ seg'[r].state = seg[r].state
                                 /\ seg'[r].userID = seg[r].userID
                                 /\ r # s => seg'[r] = seg[r]
  <2>. DEFINE t == ClipTrack[c]
              plays == muteQueue[i].trigger /\ starts
              flags == IF plays THEN seg[s].muteFlags \ {t} ELSE seg[s].muteFlags \cup {t}
  <2>1. /\ seg' = [seg EXCEPT ![s] = [seg[s] EXCEPT !.muteFlags = flags]]
        /\ muteQueue' = [muteQueue EXCEPT ![i] = Used(muteQueue[i], plays, flags # seg[s].muteFlags)]
        /\ credit' = [credit EXCEPT ![c] = IF plays THEN credit[c] - 1 ELSE credit[c]]
    BY <1>2
  <2>2. credit' \in [Clips -> Int]
    <3>. HIDE DEF plays
    <3>. QED BY <2>1
  <2>3. t \in ClipTracks /\ seg[s] \in ASegment
    BY DEF ClipTracks
  <2>4. flags \in SUBSET ClipTracks
    <3>. HIDE DEF plays
    <3>. QED BY <2>3 DEF ASegment
  <2>. HIDE DEF flags, t
  <2>5. /\ [seg[s] EXCEPT !.muteFlags = flags] \in ASegment
        /\ [seg[s] EXCEPT !.muteFlags = flags].state = seg[s].state
        /\ [seg[s] EXCEPT !.muteFlags = flags].userID = seg[s].userID
    BY <2>3, <2>4 DEF ASegment
  <2>6. \A e \in AnEntry : \A p, ch : Used(e, p, ch) \in AnEntry
    <3>. SUFFICES ASSUME NEW e \in AnEntry, NEW p, NEW ch PROVE Used(e, p, ch) \in AnEntry
      OBVIOUS
    <3>1. [e EXCEPT !.trigger = FALSE] \in AnEntry
      BY DEF AnEntry
    <3>. QED BY Zenon, <3>1, EntryType DEF Used
  <2>7. Used(muteQueue[i], plays, flags # seg[s].muteFlags) \in AnEntry \/ i \notin Entries
    BY Zenon, <2>6
  <2>8. muteQueue' \in [Entries -> AnEntry]
    <3>. HIDE DEF plays
    <3>. QED BY <2>1, <2>7
  <2>. HIDE DEF plays
  <2>. QED BY <2>1, <2>2, <2>5, <2>8
<1>. QED BY Zenon, <1>1, <1>2 DEF HandleTrigger

\* The parts of the invariant for the next state.
LEMMA BaseLater ==
    ASSUME muteQueue' \in [Entries -> AnEntry], seg' \in [Slots -> ASegment],
           playSegment' \in Slots, queueSegment' \in Slots, App!TypeOK', Jet!TypeOK',
           endOfLoop' \in BOOLEAN, call' \in {"idle", "parse", "process"},
           inClip' \in [Slots -> Clips \cup {NoClip}], marked' \subseteq Slots,
           credit' \in [Clips -> Int], PlaysAlone', MarkersOwn'
    PROVE  BaseInv'
BY Zenon DEF BaseInv, TypeInv

LEMMA BaseNow ==
    ASSUME BaseInv
    PROVE  /\ muteQueue \in [Entries -> AnEntry] /\ seg \in [Slots -> ASegment]
           /\ playSegment \in Slots /\ queueSegment \in Slots /\ App!TypeOK /\ Jet!TypeOK
           /\ endOfLoop \in BOOLEAN /\ call \in {"idle", "parse", "process"}
           /\ inClip \in [Slots -> Clips \cup {NoClip}] /\ marked \subseteq Slots
           /\ credit \in [Clips -> Int] /\ TypeInv /\ PlaysAlone /\ MarkersOwn
BY Zenon DEF BaseInv, TypeInv

\* The parts that most actions leave alone.
SegsSame == \A s \in Slots : seg'[s].state = seg[s].state /\ seg'[s].userID = seg[s].userID

LEMMA PlaysSame == ASSUME PlaysAlone, SegsSame, playSegment' = playSegment PROVE PlaysAlone'
BY Zenon DEF PlaysAlone, SegsSame

\* A segment takes another state.
LEMMA SegmentState ==
    ASSUME NEW f \in [Slots -> ASegment], NEW s \in Slots,
           NEW st \in {"CLOSED", "READY", "PLAYING", "STOPPING"}
    PROVE  /\ [f EXCEPT ![s].state = st] \in [Slots -> ASegment]
           /\ [f EXCEPT ![s].state = st][s].state = st
           /\ [f EXCEPT ![s].state = st][s].userID = f[s].userID
           /\ [f EXCEPT ![s].state = st][s].muteFlags = f[s].muteFlags
           /\ \A r \in Slots : r # s => [f EXCEPT ![s].state = st][r] = f[r]
<1>1. f[s] \in ASegment
  OBVIOUS
<1>2. /\ [f[s] EXCEPT !.state = st] \in ASegment
      /\ [f[s] EXCEPT !.state = st].state = st
      /\ [f[s] EXCEPT !.state = st].userID = f[s].userID
      /\ [f[s] EXCEPT !.state = st].muteFlags = f[s].muteFlags
  BY <1>1 DEF ASegment
<1>3. [f EXCEPT ![s].state = st] = [f EXCEPT ![s] = [f[s] EXCEPT !.state = st]]
  OBVIOUS
<1>. DEFINE g == [f EXCEPT ![s].state = st]
            sg == [f[s] EXCEPT !.state = st]
<1>4. g = [f EXCEPT ![s] = sg]
  BY <1>3
<1>5. sg \in ASegment
  BY <1>2
<1>6. g[s] = sg /\ g \in [Slots -> ASegment] /\ \A r \in Slots : r # s => g[r] = f[r]
  <2>. HIDE DEF g, sg
  <2>. QED BY <1>4, <1>5
<1>. QED BY Zenon, <1>2, <1>6

LEMMA Started ==
    ASSUME NEW f \in [Slots -> ASegment], NEW s \in Slots
    PROVE  /\ StartPlayback(f, s) \in [Slots -> ASegment]
           /\ StartPlayback(f, s)[s].state = "PLAYING"
           /\ StartPlayback(f, s)[s].userID = f[s].userID
           /\ StartPlayback(f, s)[s].muteFlags = f[s].muteFlags
           /\ \A r \in Slots : r # s => StartPlayback(f, s)[r] = f[r]
BY SegmentState DEF StartPlayback

LEMMA BaseQueueSegment == ASSUME BaseInv, NEW u \in UserIDs, JET_QueueSegment(u) PROVE BaseInv'
<1>. USE BaseNow
<1>. DEFINE s == queueSegment
            sg == [seg[s] EXCEPT !.state = "READY", !.userID = u, !.muteFlags = ClipTracks]
<1>1. /\ call = "idle" /\ call' = call /\ queueSegment' = NextSegment(s)
      /\ inClip' = [inClip EXCEPT ![s] = NoClip] /\ marked' = marked \ {s}
      /\ UNCHANGED <<muteQueue, playSegment, apps, jets, endOfLoop, credit>>
  BY DEF JET_QueueSegment
<1>2. seg[s] \in ASegment /\ s \in Slots
  OBVIOUS
<1>3. seg' = [seg EXCEPT ![s] = sg]
  BY DEF JET_QueueSegment
<1>4. sg \in ASegment /\ sg.state = "READY" /\ sg.userID = u
  BY <1>2 DEF ASegment
<1>. HIDE DEF sg
<1>5. seg' \in [Slots -> ASegment] /\ seg'[s] = sg /\ \A r \in Slots : r # s => seg'[r] = seg[r]
  BY <1>2, <1>3, <1>4
<1>6. PlaysAlone'
  BY <1>1, <1>4, <1>5 DEF PlaysAlone
<1>7. MarkersOwn'
  BY <1>1 DEF MarkersOwn, jets
<1>8. inClip' \in [Slots -> Clips \cup {NoClip}] /\ marked' \subseteq Slots /\ queueSegment' \in Slots
  BY <1>1, SlotsNext
<1>9. App!TypeOK' /\ Jet!TypeOK'
  BY Zenon, <1>1, RingsSame
<1>. QED BY Zenon, <1>1, <1>5, <1>6, <1>7, <1>8, <1>9, BaseLater

LEMMA BasePlay == ASSUME BaseInv, JET_Play PROVE BaseInv'
<1>. USE BaseNow
<1>1. /\ UNCHANGED <<muteQueue, playSegment, queueSegment, apps, jets, endOfLoop,
                     call, inClip, marked, credit>>
      /\ seg' = [seg EXCEPT ![playSegment].state = "PLAYING"]
      /\ seg[playSegment].state = "READY"
  BY DEF JET_Play, StartPlayback
<1>2. /\ seg' \in [Slots -> ASegment] /\ seg'[playSegment].userID = seg[playSegment].userID
      /\ \A r \in Slots : r # playSegment => seg'[r] = seg[r]
  BY <1>1, SegmentState
<1>3. PlaysAlone'
  BY <1>1, <1>2 DEF PlaysAlone
<1>4. MarkersOwn'
  BY Zenon, <1>1 DEF MarkersOwn, jets
<1>5. App!TypeOK' /\ Jet!TypeOK'
  BY Zenon, <1>1, RingsSame
<1>. QED BY Zenon, <1>1, <1>2, <1>3, <1>4, <1>5, BaseLater

LEMMA BaseTriggerClip == ASSUME BaseInv, NEW c \in Clips, JET_TriggerClip(c) PROVE BaseInv'
<1>. USE BaseNow
<1>1. PICK i \in EntryFor(c) : muteQueue' = [muteQueue EXCEPT ![i] = Entry(c, TRUE)]
  BY Zenon DEF JET_TriggerClip
<1>2. UNCHANGED <<seg, playSegment, queueSegment, apps, jets, endOfLoop, call, inClip, marked>>
  BY DEF JET_TriggerClip
<1>3. muteQueue' \in [Entries -> AnEntry]
  <2>1. Entry(c, TRUE) \in AnEntry
    BY EntryType
  <2>. QED BY <1>1, <2>1
<1>4. credit' \in [Clips -> Int]
  BY DEF JET_TriggerClip
<1>5. PlaysAlone' /\ MarkersOwn'
  BY Zenon, <1>2 DEF PlaysAlone, MarkersOwn, jets
<1>6. App!TypeOK' /\ Jet!TypeOK'
  BY Zenon, <1>2, RingsSame
<1>. QED BY Zenon, <1>2, <1>3, <1>4, <1>5, <1>6, BaseLater

LEMMA BaseClearQueue == ASSUME BaseInv, JET_Clear_Queue PROVE BaseInv'
<1>. USE BaseNow
<1>1. /\ call = "idle"
      /\ seg' = [s \in Slots |-> [seg[s] EXCEPT !.state = "CLOSED"]]
      /\ muteQueue' = [i \in Entries |-> Empty]
      /\ playSegment' = 0 /\ queueSegment' = 0
      /\ inClip' = [s \in Slots |-> NoClip] /\ credit' = [c \in Clips |-> 0]
      /\ UNCHANGED <<apps, jets, endOfLoop, call, marked>>
  BY DEF JET_Clear_Queue
<1>2. \A s \in Slots : /\ [seg[s] EXCEPT !.state = "CLOSED"] \in ASegment
                       /\ [seg[s] EXCEPT !.state = "CLOSED"].state = "CLOSED"
  <2>. TAKE s \in Slots
  <2>1. seg[s] \in ASegment
    OBVIOUS
  <2>. QED BY <2>1 DEF ASegment
<1>3. seg' \in [Slots -> ASegment] /\ \A s \in Slots : seg'[s].state = "CLOSED"
  BY <1>1, <1>2
<1>4. PlaysAlone'
  BY <1>3 DEF PlaysAlone
<1>5. MarkersOwn'
  BY <1>1 DEF MarkersOwn, jets
<1>6. App!TypeOK' /\ Jet!TypeOK'
  BY Zenon, <1>1, RingsSame
<1>7. /\ muteQueue' \in [Entries -> AnEntry] /\ playSegment' \in Slots /\ queueSegment' \in Slots
      /\ inClip' \in [Slots -> Clips \cup {NoClip}] /\ credit' \in [Clips -> Int]
  BY <1>1, EntryType, SlotsNext
<1>. QED BY Zenon, <1>1, <1>3, <1>4, <1>5, <1>6, <1>7, BaseLater

LEMMA BaseCalls ==
    ASSUME BaseInv, \/ JET_GetEvent \/ EAS_Render \/ JET_Process
                    \/ \E s \in Slots : JET_EventApp(s)
    PROVE  BaseInv'
<1>. USE BaseNow
<1>1. UNCHANGED <<muteQueue, seg, playSegment, queueSegment, jets, inClip, marked, credit>>
  BY DEF JET_GetEvent, EAS_Render, JET_Process, JET_EventApp
<1>2. /\ \/ endOfLoop' = endOfLoop /\ call' = call
         \/ call' = "parse" /\ endOfLoop' = endOfLoop /\ call = "idle"
         \/ call' = "process" /\ endOfLoop' = FALSE /\ call = "parse"
  BY DEF JET_GetEvent, EAS_Render, JET_Process, JET_EventApp
<1>3. App!TypeOK'
  <2>1. CASE JET_GetEvent
    BY Zenon, <2>1, ReadType DEF JET_GetEvent
  <2>2. CASE EAS_Render \/ JET_Process
    <3>1. UNCHANGED apps
      BY Zenon, <2>2 DEF EAS_Render, JET_Process
    <3>. QED BY Zenon, <3>1, RingsSame
  <2>3. ASSUME NEW s \in Slots, JET_EventApp(s) PROVE App!TypeOK'
    <3>1. seg[s].userID \in UserIDs
      BY <2>3 DEF JET_EventApp, Parses, PlaysAlone
    <3>2. [segment |-> seg[s].userID] \in AppEvents
      BY <3>1 DEF AppEvents
    <3>. QED BY Zenon, <2>3, <3>2, WriteType DEF JET_EventApp
  <2>. QED BY <2>1, <2>2, <2>3
<1>4. PlaysAlone'
  BY Zenon, <1>1 DEF PlaysAlone
<1>5. MarkersOwn'
  <2>1. jetRead' = jetRead /\ jetWrite' = jetWrite /\ marked' = marked /\ playSegment' = playSegment
    BY <1>1 DEF jets
  <2>. QED BY <1>2, <2>1 DEF MarkersOwn
<1>6. Jet!TypeOK' /\ call' \in {"idle", "parse", "process"} /\ endOfLoop' \in BOOLEAN
  <2>1. Jet!TypeOK'
    BY Zenon, <1>1, RingsSame
  <2>2. call' \in {"idle", "parse", "process"} /\ endOfLoop' \in BOOLEAN
    BY <1>2
  <2>. QED BY Zenon, <2>1, <2>2
<1>. QED BY Zenon, <1>1, <1>3, <1>4, <1>5, <1>6, BaseLater

LEMMA BaseEventClip ==
    ASSUME BaseInv, NEW s \in Slots, NEW c \in Clips, JET_EventClip(s, c) PROVE BaseInv'
<1>. USE BaseNow
<1>1. /\ HandleTrigger(s, c, inClip[s] = NoClip)
      /\ inClip' = [inClip EXCEPT ![s] = IF inClip[s] = NoClip THEN c ELSE NoClip]
      /\ UNCHANGED <<playSegment, queueSegment, apps, jets, endOfLoop, call, marked>>
  BY DEF JET_EventClip
<1>2. /\ muteQueue' \in [Entries -> AnEntry] /\ seg' \in [Slots -> ASegment]
      /\ credit' \in [Clips -> Int] /\ SegsSame
  BY Zenon, <1>1, TriggerType DEF SegsSame
<1>3. inClip' \in [Slots -> Clips \cup {NoClip}]
  BY <1>1
<1>4. PlaysAlone'
  BY Zenon, <1>1, <1>2, PlaysSame
<1>5. MarkersOwn'
  BY Zenon, <1>1 DEF MarkersOwn, jets
<1>6. App!TypeOK' /\ Jet!TypeOK'
  BY Zenon, <1>1, RingsSame
<1>. QED BY Zenon, <1>1, <1>2, <1>3, <1>4, <1>5, <1>6, BaseLater

\* The marker is of the segment that plays: one that stops has come to its own.
LEMMA BaseEventMarker == ASSUME BaseInv, NEW s \in Slots, JET_EventMarker(s) PROVE BaseInv'
<1>. USE BaseNow
<1>1. /\ Parses(s) /\ s \notin marked
      /\ Jet!WriteQueue([segment |-> s]) /\ marked' = marked \cup {s}
      /\ UNCHANGED <<muteQueue, seg, playSegment, queueSegment, apps, endOfLoop, call, inClip, credit>>
  BY DEF JET_EventMarker
<1>2. s = playSegment /\ call = "parse"
  BY <1>1 DEF Parses, PlaysAlone
<1>3. Jet!TypeOK'
  <2>1. [segment |-> s] \in JetEvents
    BY DEF JetEvents
  <2>. QED BY Zenon, <1>1, <2>1, JetWrite
<1>4. App!TypeOK'
  BY Zenon, <1>1, RingsSame
<1>5. PlaysAlone'
  BY Zenon, <1>1 DEF PlaysAlone
<1>6. MarkersOwn' /\ marked' \subseteq Slots
  BY <1>1, <1>2 DEF MarkersOwn
<1>. QED BY Zenon, <1>1, <1>3, <1>4, <1>5, <1>6, BaseLater

LEMMA BaseProcessEvent == ASSUME BaseInv, ProcessEvent PROVE BaseInv'
<1>. USE BaseNow
<1>1. /\ call = "process" /\ Jet!ReadQueue /\ jetRead # jetWrite
      /\ endOfLoop' = (endOfLoop \/ seg[playSegment].state # "CLOSED")
      /\ UNCHANGED <<muteQueue, seg, playSegment, queueSegment, apps, call, inClip, marked, credit>>
  BY DEF ProcessEvent, Jet!ReadQueue
<1>2. Jet!TypeOK'
  BY Zenon, <1>1, JetRead
<1>3. App!TypeOK'
  BY Zenon, <1>1, RingsSame
<1>4. PlaysAlone' /\ endOfLoop' \in BOOLEAN
  BY <1>1 DEF PlaysAlone
<1>5. MarkersOwn'
  <2>1. playSegment' \in marked' /\ call' # "idle"
    BY <1>1 DEF MarkersOwn
  <2>. QED BY Zenon, <2>1 DEF MarkersOwn
<1>. QED BY Zenon, <1>1, <1>2, <1>3, <1>4, <1>5, BaseLater

\* The frame ends when the ring is empty.
LEMMA BaseEnds ==
    ASSUME BaseInv, RepeatSegment \/ EndSegment \/ EndProcess PROVE BaseInv'
<1>. USE BaseNow
<1>1. /\ jetRead = jetWrite /\ call' = "idle" /\ endOfLoop' = FALSE
      /\ UNCHANGED <<muteQueue, queueSegment, apps, jets, credit>>
      /\ marked' \subseteq marked
  BY DEF RepeatSegment, EndSegment, EndProcess, AllRead
<1>2. MarkersOwn'
  BY <1>1 DEF MarkersOwn, jets
<1>3. App!TypeOK' /\ Jet!TypeOK'
  BY Zenon, <1>1, RingsSame
<1>4. inClip' \in [Slots -> Clips \cup {NoClip}]
  BY DEF RepeatSegment, EndSegment, EndProcess
<1>5. seg' \in [Slots -> ASegment] /\ playSegment' \in Slots /\ PlaysAlone'
  <2>1. CASE RepeatSegment
    <3>1. UNCHANGED <<seg, playSegment>>
      BY <2>1 DEF RepeatSegment
    <3>. QED BY Zenon, <3>1 DEF PlaysAlone
  <2>2. CASE EndSegment
    <3>. DEFINE n == NextSegment(playSegment)
                stopped == [seg EXCEPT ![playSegment].state = "STOPPING"]
    <3>1. /\ seg' = IF stopped[n].state = "READY" THEN StartPlayback(stopped, n) ELSE stopped
          /\ playSegment' = n /\ seg[playSegment].state = "PLAYING"
      BY <2>2 DEF EndSegment, AtEnd
    <3>2. /\ stopped \in [Slots -> ASegment] /\ stopped[playSegment].state = "STOPPING"
          /\ stopped[playSegment].userID = seg[playSegment].userID
          /\ \A r \in Slots : r # playSegment => stopped[r] = seg[r]
      BY SegmentState
    <3>3. n \in Slots
      BY SlotsNext
    <3>. HIDE DEF stopped, n
    <3>4. \A r \in Slots : /\ stopped[r].state # "PLAYING"
                           /\ stopped[r].state # "CLOSED" => stopped[r].userID \in UserIDs
      BY <3>1, <3>2 DEF PlaysAlone
    <3>5. CASE stopped[n].state # "READY"
      BY <3>1, <3>2, <3>3, <3>4, <3>5 DEF PlaysAlone
    <3>6. CASE stopped[n].state = "READY"
      <4>1. seg' = StartPlayback(stopped, n)
        BY <3>1, <3>6
      <4>2. /\ seg' \in [Slots -> ASegment] /\ seg'[n].userID = stopped[n].userID
            /\ \A r \in Slots : r # n => seg'[r] = stopped[r]
        BY Zenon, <3>2, <3>3, <4>1, Started
      <4>3. stopped[n].userID \in UserIDs
        BY <3>3, <3>4, <3>6
      <4>. QED BY <3>1, <3>3, <3>4, <4>2, <4>3 DEF PlaysAlone
    <3>. QED BY <3>5, <3>6
  <2>3. CASE EndProcess
    <3>1. playSegment' = playSegment
      BY <2>3 DEF EndProcess
    <3>2. PICK closed \in SUBSET Slots :
             seg' = [s \in Slots |-> IF s \in closed THEN [seg[s] EXCEPT !.state = "CLOSED"]
                                     ELSE seg[s]]
      BY <2>3 DEF EndProcess
    <3>3. \A s \in Slots : /\ [seg[s] EXCEPT !.state = "CLOSED"] \in ASegment
                           /\ [seg[s] EXCEPT !.state = "CLOSED"].state = "CLOSED"
      <4>. TAKE s \in Slots
      <4>1. seg[s] \in ASegment
        OBVIOUS
      <4>. QED BY <4>1 DEF ASegment
    <3>4. seg' \in [Slots -> ASegment]
      BY <3>2, <3>3
    <3>5. \A s \in Slots : seg'[s] = seg[s] \/ seg'[s].state = "CLOSED"
      BY <3>2, <3>3
    <3>6. PlaysAlone'
      BY <3>1, <3>5 DEF PlaysAlone
    <3>. QED BY Zenon, <3>1, <3>4, <3>6
  <2>. QED BY <2>1, <2>2, <2>3
<1>6. call' \in {"idle", "parse", "process"} /\ endOfLoop' \in BOOLEAN /\ marked' \subseteq Slots
  BY <1>1
<1>. QED BY Zenon, <1>1, <1>2, <1>3, <1>4, <1>5, <1>6, BaseLater

LEMMA BaseStep == ASSUME BaseInv, [Next]_vars PROVE BaseInv'
<1>1. CASE UNCHANGED vars
  <2>1. UNCHANGED <<muteQueue, seg, playSegment, queueSegment, apps, jets, endOfLoop, call,
                    inClip, marked, credit>>
    BY Zenon, <1>1 DEF vars
  <2>2. App!TypeOK' /\ Jet!TypeOK'
    BY Zenon, <2>1, BaseNow, RingsSame
  <2>3. PlaysAlone' /\ MarkersOwn'
    BY Zenon, <2>1, BaseNow DEF PlaysAlone, MarkersOwn, jets
  <2>. QED BY Zenon, <2>1, <2>2, <2>3, BaseNow, BaseLater
<1>2. CASE Next
  BY Zenon, <1>2, BaseQueueSegment, BasePlay, BaseTriggerClip, BaseClearQueue, BaseCalls,
     BaseEventClip, BaseEventMarker, BaseProcessEvent, BaseEnds DEF Next
<1>. QED BY <1>1, <1>2

LEMMA AlwaysBase == Spec => []BaseInv
BY InitBase, BaseStep, PTL DEF Spec

\* A segment is ended or repeated only for a marker of its own
\* (OwnMarkerEndsLoop): the ring never keeps one for the next segment.
THEOREM OwnMarker == Spec => []OwnMarkerEndsLoop
<1>1. BaseInv => OwnMarkerEndsLoop
  BY BaseNow DEF MarkersOwn, OwnMarkerEndsLoop
<1>. QED BY <1>1, AlwaysBase, PTL

\* The application receives its events in order and loses those that find
\* size - 1 of them waiting (AppEventsInOrder): the ring, of any size up to 255,
\* implements the bounded queue of EventFifo.
THEOREM EventsInOrder == Spec => AppEventsInOrder
<1>1. Init => App!Fifo!Init
  <2>. SUFFICES ASSUME Init PROVE App!Contents = <<>> /\ appEvent = NoEvent
    BY DEF App!Fifo!Init
  <2>1. App!TypeOK
    BY InitBase, BaseNow
  <2>2. App!Held = 0 /\ appEvent = NoEvent
    BY DEF Init, App!Init, App!Held
  <2>3. Len(App!Contents) = 0 /\ App!Contents \in Seq(AppEvents \cup {NoEvent})
    BY <2>1, <2>2, ContentsType
  <2>. HIDE DEF App!Contents
  <2>. QED BY <2>2, <2>3
<1>2. BaseInv /\ [Next]_vars => [App!Fifo!Next]_(App!Fifo!vars)
  <2>. SUFFICES ASSUME BaseInv, [Next]_vars PROVE [App!Fifo!Next]_(App!Fifo!vars)
    OBVIOUS
  <2>. USE BaseNow
  <2>1. ASSUME NEW s \in Slots, JET_EventApp(s) PROVE [App!Fifo!Next]_(App!Fifo!vars)
    <3>1. seg[s].userID \in UserIDs
      BY <2>1 DEF JET_EventApp, Parses, PlaysAlone
    <3>2. [segment |-> seg[s].userID] \in AppEvents
      BY <3>1 DEF AppEvents
    <3>3. App!WriteQueue([segment |-> seg[s].userID])
      BY <2>1 DEF JET_EventApp
    <3>. QED BY Zenon, <3>2, <3>3, WriteRefines DEF App!Fifo!Next
  <2>2. CASE JET_GetEvent
    BY Zenon, <2>2, ReadRefines DEF JET_GetEvent, App!Fifo!Next
  <2>3. CASE UNCHANGED apps
    BY <2>3 DEF apps, App!Fifo!vars, App!Contents, App!Held, App!Slot
  <2>4. \/ JET_GetEvent \/ UNCHANGED apps
        \/ \E s \in Slots : JET_EventApp(s)
    BY Zenon DEF Next, vars, JET_QueueSegment, JET_Play, JET_TriggerClip, JET_Clear_Queue,
       EAS_Render, JET_EventMarker, JET_EventClip, JET_Process, ProcessEvent, RepeatSegment,
       EndSegment, EndProcess
  <2>. QED BY Zenon, <2>1, <2>2, <2>3, <2>4
<1>. QED BY <1>1, <1>2, AlwaysBase, PTL DEF Spec, AppEventsInOrder, App!IsFifo, App!Fifo!Spec

-----------------------------------------------------------------------------
(* The entries and the clips, for songs without clips behind their marker. *)

Of(c) == {i \in Entries : muteQueue[i].id = c}

\* Only the segment that plays is in a clip, and none whose song is behind its
\* marker. A track that sounds is that of the clip its segment is in, and the
\* clip has an entry, which its end will find.
ClipInv ==
    /\ \A s \in Slots : inClip[s] # NoClip => seg[s].state = "PLAYING" /\ s \notin marked
    /\ \A s \in Slots : seg[s].state # "CLOSED" =>
          \A t \in ClipTracks \ seg[s].muteFlags :
             inClip[s] # NoClip /\ ClipTrack[inClip[s]] = t
    /\ \A c \in Clips : Sounding(c) => \E i \in Of(c) : muteQueue[i].active = TRUE
    /\ \A i \in Entries : muteQueue[i].active = FALSE => muteQueue[i] = Empty

LEMMA EntriesAre == Entries \subseteq Nat /\ IsFiniteSet(Entries)
                    /\ Cardinality(Entries) = JET_MUTE_QUEUE_SIZE /\ JET_MUTE_QUEUE_SIZE \in Nat
<1>1. JET_MUTE_QUEUE_SIZE \in Nat \ {0}
  BY ClipsAssumption
<1>2. Entries = 0 .. JET_MUTE_QUEUE_SIZE - 1 /\ JET_MUTE_QUEUE_SIZE - 1 \in Nat
  BY <1>1 DEF Entries
<1>3. /\ IsFiniteSet(0 .. JET_MUTE_QUEUE_SIZE - 1)
      /\ Cardinality(0 .. JET_MUTE_QUEUE_SIZE - 1) = JET_MUTE_QUEUE_SIZE - 1 - 0 + 1
  BY <1>2, FS_Interval
<1>. QED BY <1>1, <1>2, <1>3

LEMMA ClipsAre == NoClip \notin Clips /\ \A c \in Clips : c \in Int
BY ClipsAssumption DEF NoClip

LEMMA Minimum ==
    ASSUME NEW S \in SUBSET Nat, S # {}
    PROVE  Min(S) \in S /\ \A y \in S : Min(S) <= y
<1>1. PICK x \in S : \A y \in S : ~(<<y, x>> \in OpToRel(<, Nat))
  BY NatLessThanWellFounded, WFMin
<1>2. \A y \in S : y < x => <<y, x>> \in OpToRel(<, Nat)
  BY DEF OpToRel
<1>3. \A y \in S : ~(y < x)
  BY <1>1, <1>2
<1>4. x \in Nat /\ \A y \in S : y \in Nat
  OBVIOUS
<1>5. \A y \in S : x <= y
  BY <1>3, <1>4
<1>. QED BY <1>5 DEF Min

LEMMA Maximum ==
    ASSUME NEW n \in Nat, NEW S \in SUBSET (0 .. n - 1), S # {}
    PROVE  Max(S) \in S
<1>. DEFINE T == {n - y : y \in S}
<1>1. T \in SUBSET Nat /\ T # {}
  <2>1. PICK y \in S : TRUE
    OBVIOUS
  <2>2. T \in SUBSET Nat
    OBVIOUS
  <2>. QED BY <2>1, <2>2
<1>2. Min(T) \in T /\ \A y \in T : Min(T) <= y
  BY <1>1, Minimum
<1>3. PICK x \in S : Min(T) = n - x
  BY <1>2
<1>4. \A y \in S : n - x <= n - y
  BY <1>2, <1>3
<1>5. \A y \in S : x >= y
  BY <1>4
<1>. QED BY <1>5 DEF Max

\* JET_Event finds the first entry with the ID of the clip.
LEMMA FirstOf ==
    ASSUME BaseInv, NEW c \in Clips
    PROVE  /\ Of(c) = {} => EntryOf(c) = {}
           /\ Of(c) # {} => \E i \in Of(c) : EntryOf(c) = {i} /\ \A j \in Of(c) : i <= j
<1>1. EntryOf(c) = IF Of(c) = {} THEN {} ELSE {Min(Of(c))}
  BY DEF EntryOf, Of
<1>2. Of(c) \in SUBSET Nat
  BY EntriesAre DEF Of
<1>. QED BY Zenon, <1>1, <1>2, Minimum

\* JET_TriggerClip finds an entry of the clip that plays, or an empty one.
LEMMA FoundFor ==
    ASSUME BaseInv, NEW c \in Clips, NEW i \in EntryFor(c)
    PROVE  /\ i \in Entries
           /\ \/ muteQueue[i] = Entry(c, FALSE) /\ Replays(c)
              \/ muteQueue[i] = Empty /\ ~Replays(c)
<1>. DEFINE same == {j \in Entries : muteQueue[j] = Entry(c, FALSE)}
            free == {j \in Entries : muteQueue[j] = Empty}
<1>1. EntryFor(c) = IF same # {} THEN {Max(same)} ELSE IF free # {} THEN {Min(free)} ELSE {}
  BY DEF EntryFor
<1>2. CASE same # {}
  <2>1. i = Max(same)
    BY <1>1, <1>2
  <2>2. Max(same) \in same
    <3>1. JET_MUTE_QUEUE_SIZE \in Nat /\ same \in SUBSET (0 .. JET_MUTE_QUEUE_SIZE - 1)
      BY EntriesAre DEF Entries
    <3>. HIDE DEF same
    <3>. QED BY <1>2, <3>1, Maximum
  <2>. QED BY <2>1, <2>2 DEF Replays
<1>3. CASE same = {}
  <2>1. free # {} /\ i = Min(free)
    BY <1>1, <1>3
  <2>2. Min(free) \in free
    <3>1. free \in SUBSET Nat
      BY EntriesAre
    <3>. HIDE DEF free
    <3>. QED BY <2>1, <3>1, Minimum
  <2>3. ~Replays(c)
    BY <1>3 DEF Replays
  <2>. QED BY <2>1, <2>2, <2>3
<1>. QED BY <1>2, <1>3

\* What JET_Event makes of a controller 103, case by case: the clip has no entry,
\* or its first entry plays, or the track is muted.
LEMMA TriggerCases ==
    ASSUME BaseInv, NEW s \in Slots, NEW c \in Clips, NEW starts \in BOOLEAN,
           HandleTrigger(s, c, starts)
    PROVE  /\ \A r \in Slots : r # s => seg'[r] = seg[r]
           /\ seg'[s].state = seg[s].state
           /\ \/ Of(c) = {} /\ UNCHANGED <<muteQueue, seg, credit>>
              \/ \E i \in Of(c) :
                    /\ \A j \in Of(c) : i <= j
                    /\ starts = TRUE /\ muteQueue[i].trigger = TRUE
                    /\ seg'[s].muteFlags = seg[s].muteFlags \ {ClipTrack[c]}
                    /\ muteQueue' = [muteQueue EXCEPT ![i] = [muteQueue[i] EXCEPT !.trigger = FALSE]]
                    /\ credit' = [credit EXCEPT ![c] = credit[c] - 1]
              \/ \E i \in Of(c) :
                    /\ \A j \in Of(c) : i <= j
                    /\ starts = FALSE \/ muteQueue[i].trigger = FALSE
                    /\ seg'[s].muteFlags = seg[s].muteFlags \cup {ClipTrack[c]}
                    /\ muteQueue' = [muteQueue EXCEPT ![i] =
                          IF ClipTrack[c] \in seg[s].muteFlags THEN muteQueue[i] ELSE Empty]
                    /\ credit' = credit
<1>. USE BaseNow
<1>1. /\ \A r \in Slots : r # s => seg'[r] = seg[r]
      /\ seg'[s].state = seg[s].state
  BY Zenon, TriggerType
<1>2. CASE EntryOf(c) = {} /\ UNCHANGED <<muteQueue, seg, credit>>
  <2>1. Of(c) = {}
    BY Zenon, <1>2, FirstOf
  <2>. QED BY Zenon, <1>1, <1>2, <2>1
<1>3. ASSUME NEW i \in EntryOf(c),
             LET t == ClipTrack[c]
                 Plays(j) == muteQueue[j].trigger /\ starts
                 flags(j) == IF Plays(j) THEN seg[s].muteFlags \ {t} ELSE seg[s].muteFlags \cup {t}
             IN  /\ seg' = [seg EXCEPT ![s].muteFlags = flags(i)]
                 /\ muteQueue' = [muteQueue EXCEPT
                      ![i] = Used(@, Plays(i), flags(i) # seg[s].muteFlags)]
                 /\ credit' = [credit EXCEPT ![c] = IF Plays(i) THEN @ - 1 ELSE @]
      PROVE  \/ /\ i \in Of(c) /\ \A j \in Of(c) : i <= j
                /\ starts = TRUE /\ muteQueue[i].trigger = TRUE
                /\ seg'[s].muteFlags = seg[s].muteFlags \ {ClipTrack[c]}
                /\ muteQueue' = [muteQueue EXCEPT ![i] = [muteQueue[i] EXCEPT !.trigger = FALSE]]
                /\ credit' = [credit EXCEPT ![c] = credit[c] - 1]
             \/ /\ i \in Of(c) /\ \A j \in Of(c) : i <= j
                /\ starts = FALSE \/ muteQueue[i].trigger = FALSE
                /\ seg'[s].muteFlags = seg[s].muteFlags \cup {ClipTrack[c]}
                /\ muteQueue' = [muteQueue EXCEPT ![i] =
                      IF ClipTrack[c] \in seg[s].muteFlags THEN muteQueue[i] ELSE Empty]
                /\ credit' = credit
  <2>. DEFINE t == ClipTrack[c]
              plays == muteQueue[i].trigger /\ starts
              flags == IF plays THEN seg[s].muteFlags \ {t} ELSE seg[s].muteFlags \cup {t}
  <2>1. /\ seg' = [seg EXCEPT ![s] = [seg[s] EXCEPT !.muteFlags = flags]]
        /\ muteQueue' = [muteQueue EXCEPT ![i] = Used(muteQueue[i], plays, flags # seg[s].muteFlags)]
        /\ credit' = [credit EXCEPT ![c] = IF plays THEN credit[c] - 1 ELSE credit[c]]
    BY <1>3
  <2>2. i \in Of(c) /\ \A j \in Of(c) : i <= j
    BY Zenon, FirstOf, <1>3
  <2>3. i \in Entries /\ muteQueue[i] \in AnEntry
    BY <2>2 DEF Of
  <2>4. muteQueue[i].trigger \in BOOLEAN
    BY <2>3 DEF AnEntry
  <2>5. seg'[s].muteFlags = flags
    <3>1. seg[s] \in ASegment
      OBVIOUS
    <3>2. [seg[s] EXCEPT !.muteFlags = flags].muteFlags = flags
      <4>. HIDE DEF flags
      <4>. QED BY <3>1 DEF ASegment
    <3>. HIDE DEF flags
    <3>. QED BY <2>1, <3>2
  <2>6. CASE plays
    <3>1. starts = TRUE /\ muteQueue[i].trigger = TRUE /\ flags = seg[s].muteFlags \ {t}
      BY <2>4, <2>6
    <3>2. Used(muteQueue[i], plays, flags # seg[s].muteFlags) = [muteQueue[i] EXCEPT !.trigger = FALSE]
      BY Zenon, <2>6 DEF Used
    <3>3. (IF plays THEN credit[c] - 1 ELSE credit[c]) = credit[c] - 1
      BY Zenon, <2>6
    <3>. HIDE DEF flags, plays
    <3>. QED BY Zenon, <2>1, <2>2, <2>5, <3>1, <3>2, <3>3 DEF t
  <2>7. CASE ~plays
    <3>1. (starts = FALSE \/ muteQueue[i].trigger = FALSE) /\ flags = seg[s].muteFlags \cup {t}
      BY <2>4, <2>7
    <3>2. flags # seg[s].muteFlags <=> t \notin seg[s].muteFlags
      BY <3>1
    <3>3. Used(muteQueue[i], plays, flags # seg[s].muteFlags)
             = IF flags # seg[s].muteFlags THEN Empty ELSE muteQueue[i]
      BY Zenon, <2>7 DEF Used
    <3>4. (IF plays THEN credit[c] - 1 ELSE credit[c]) = credit[c]
      BY Zenon, <2>7
    <3>5. [credit EXCEPT ![c] = credit[c]] = credit
      OBVIOUS
    <3>6. Used(muteQueue[i], plays, flags # seg[s].muteFlags)
             = IF t \in seg[s].muteFlags THEN muteQueue[i] ELSE Empty
      BY Zenon, <3>2, <3>3
    <3>. HIDE DEF flags, plays
    <3>. QED BY Zenon, <2>1, <2>2, <2>5, <3>1, <3>4, <3>5, <3>6 DEF t
  <2>. QED BY <2>6, <2>7
<1>4. \/ EntryOf(c) = {} /\ UNCHANGED <<muteQueue, seg, credit>>
      \/ \E i \in EntryOf(c) :
            LET t == ClipTrack[c]
                Plays(j) == muteQueue[j].trigger /\ starts
                flags(j) == IF Plays(j) THEN seg[s].muteFlags \ {t} ELSE seg[s].muteFlags \cup {t}
            IN  /\ seg' = [seg EXCEPT ![s].muteFlags = flags(i)]
                /\ muteQueue' = [muteQueue EXCEPT
                     ![i] = Used(@, Plays(i), flags(i) # seg[s].muteFlags)]
                /\ credit' = [credit EXCEPT ![c] = IF Plays(i) THEN @ - 1 ELSE @]
  BY Zenon DEF HandleTrigger
<1>5. CASE \E i \in EntryOf(c) :
            LET t == ClipTrack[c]
                Plays(j) == muteQueue[j].trigger /\ starts
                flags(j) == IF Plays(j) THEN seg[s].muteFlags \ {t} ELSE seg[s].muteFlags \cup {t}
            IN  /\ seg' = [seg EXCEPT ![s].muteFlags = flags(i)]
                /\ muteQueue' = [muteQueue EXCEPT
                     ![i] = Used(@, Plays(i), flags(i) # seg[s].muteFlags)]
                /\ credit' = [credit EXCEPT ![c] = IF Plays(i) THEN @ - 1 ELSE @]
  BY Zenon, <1>1, <1>3, <1>5
<1>. QED BY Zenon, <1>2, <1>4, <1>5

LEMMA InitClip == Init => ClipInv
<1>. SUFFICES ASSUME Init PROVE ClipInv
  OBVIOUS
<1>1. \A s \in Slots : inClip[s] = NoClip /\ seg[s].state = "CLOSED"
  BY DEF Init, Closed
<1>2. \A i \in Entries : muteQueue[i] = Empty
  BY DEF Init
<1>3. \A c \in Clips : ~Sounding(c)
  BY <1>1, ClipsAre DEF Sounding
<1>. QED BY <1>1, <1>2, <1>3 DEF ClipInv

\* A step that starts and ends no clip.
LEMMA ClipKept ==
    ASSUME BaseInv, ClipInv,
           \A s \in Slots : inClip'[s] # NoClip =>
              /\ inClip'[s] = inClip[s] /\ seg'[s].state = "PLAYING" /\ s \notin marked'
              /\ seg'[s].muteFlags = seg[s].muteFlags,
           \A s \in Slots : seg'[s].state # "CLOSED" =>
              \/ seg'[s].muteFlags = ClipTracks
              \/ /\ seg[s].state # "CLOSED" /\ seg'[s].muteFlags = seg[s].muteFlags
                 /\ inClip'[s] = inClip[s],
           \/ \A s \in Slots : inClip'[s] = NoClip
           \/ \A i \in Entries : muteQueue[i].active = TRUE =>
                 muteQueue'[i].active = TRUE /\ muteQueue'[i].id = muteQueue[i].id,
           \A i \in Entries : muteQueue'[i].active = FALSE => muteQueue'[i] = Empty
    PROVE  ClipInv'
<1>1. \A s \in Slots : inClip'[s] # NoClip => seg'[s].state = "PLAYING" /\ s \notin marked'
  BY Zenon
<1>2. ASSUME NEW s \in Slots, seg'[s].state # "CLOSED", NEW t \in ClipTracks \ seg'[s].muteFlags
      PROVE  inClip'[s] # NoClip /\ ClipTrack[inClip'[s]] = t
  <2>1. seg'[s].muteFlags # ClipTracks
    BY <1>2
  <2>2. /\ seg[s].state # "CLOSED" /\ seg'[s].muteFlags = seg[s].muteFlags
        /\ inClip'[s] = inClip[s]
    BY Zenon, <1>2, <2>1
  <2>3. t \in ClipTracks \ seg[s].muteFlags
    BY <2>2
  <2>4. inClip[s] # NoClip /\ ClipTrack[inClip[s]] = t
    BY Zenon, <2>2, <2>3 DEF ClipInv
  <2>. QED BY Zenon, <2>2, <2>4
<1>3. ASSUME NEW c \in Clips, Sounding(c)'
      PROVE  \E i \in Of(c)' : muteQueue'[i].active = TRUE
  <2>1. PICK s \in Slots : inClip'[s] = c /\ ClipTrack[c] \notin seg'[s].muteFlags
    BY Zenon, <1>3 DEF Sounding
  <2>2. inClip'[s] # NoClip
    BY <2>1, ClipsAre
  <2>3. Sounding(c)
    BY Zenon, <2>1, <2>2 DEF Sounding
  <2>4. PICK i \in Of(c) : muteQueue[i].active = TRUE
    BY Zenon, <2>3 DEF ClipInv
  <2>5. i \in Entries /\ muteQueue[i].id = c
    BY <2>4 DEF Of
  <2>6. muteQueue'[i].active = TRUE /\ muteQueue'[i].id = c
    BY Zenon, <2>2, <2>4, <2>5
  <2>. QED BY <2>5, <2>6 DEF Of
<1>. QED BY <1>1, <1>2, <1>3 DEF ClipInv

\* With its end comes the end of the clips: no segment is in one.
LEMMA EndedOutside ==
    ASSUME BaseInv, ClipInv, AllRead, AtEnd(playSegment)
    PROVE  \A s \in Slots : inClip[s] = NoClip
<1>. USE BaseNow
<1>1. inClip[playSegment] = NoClip
  <2>1. CASE endOfLoop
    <3>1. playSegment \in marked
      BY <2>1 DEF MarkersOwn, AllRead
    <3>. QED BY Zenon, <3>1 DEF ClipInv
  <2>2. CASE ~endOfLoop
    BY <2>2 DEF AtEnd
  <2>. QED BY <2>1, <2>2
<1>. QED BY Zenon, <1>1 DEF ClipInv, PlaysAlone

LEMMA ClipOthers ==
    ASSUME BaseInv, ClipInv,
           \/ \E u \in UserIDs : JET_QueueSegment(u)
           \/ JET_Play \/ JET_Clear_Queue \/ JET_GetEvent \/ EAS_Render
           \/ \E s \in Slots : JET_EventApp(s) \/ JET_EventMarker(s)
           \/ JET_Process \/ ProcessEvent \/ RepeatSegment \/ EndSegment \/ EndProcess
           \/ UNCHANGED vars
    PROVE  ClipInv'
<1>. USE BaseNow
<1>1. CASE UNCHANGED <<muteQueue, seg, inClip, marked>>
  BY Zenon, <1>1, ClipKept DEF ClipInv
<1>2. ASSUME NEW u \in UserIDs, JET_QueueSegment(u) PROVE ClipInv'
  <2>. DEFINE s == queueSegment
  <2>1. /\ seg[s].state = "CLOSED" /\ UNCHANGED muteQueue
        /\ inClip' = [inClip EXCEPT ![s] = NoClip] /\ marked' = marked \ {s}
        /\ seg' = [seg EXCEPT ![s].state = "READY", ![s].userID = u, ![s].muteFlags = ClipTracks]
    BY <1>2 DEF JET_QueueSegment
  <2>2. seg[s] \in ASegment /\ s \in Slots
    OBVIOUS
  <2>3. [seg[s] EXCEPT !.state = "READY", !.userID = u, !.muteFlags = ClipTracks].muteFlags = ClipTracks
    BY <2>2 DEF ASegment
  <2>4. seg'[s].muteFlags = ClipTracks /\ inClip'[s] = NoClip
    BY <2>1, <2>2, <2>3
  <2>5. \A r \in Slots : r # s => seg'[r] = seg[r] /\ inClip'[r] = inClip[r]
    BY <2>1, <2>2
  <2>. HIDE DEF s
  <2>6. \A r \in Slots : inClip'[r] # NoClip =>
            /\ inClip'[r] = inClip[r] /\ seg'[r].state = "PLAYING" /\ r \notin marked'
            /\ seg'[r].muteFlags = seg[r].muteFlags
    BY <2>1, <2>4, <2>5 DEF ClipInv
  <2>7. \A r \in Slots : seg'[r].state # "CLOSED" =>
            \/ seg'[r].muteFlags = ClipTracks
            \/ /\ seg[r].state # "CLOSED" /\ seg'[r].muteFlags = seg[r].muteFlags
               /\ inClip'[r] = inClip[r]
    BY Zenon, <2>4, <2>5
  <2>. QED BY Zenon, <2>1, <2>6, <2>7, ClipKept DEF ClipInv
<1>3. CASE JET_Play
  <2>1. /\ seg[playSegment].state = "READY" /\ UNCHANGED <<muteQueue, inClip, marked>>
        /\ seg' = StartPlayback(seg, playSegment)
    BY <1>3 DEF JET_Play
  <2>2. /\ seg'[playSegment].state = "PLAYING"
        /\ seg'[playSegment].muteFlags = seg[playSegment].muteFlags
        /\ \A r \in Slots : r # playSegment => seg'[r] = seg[r]
    BY Zenon, <2>1, Started
  <2>3. \A r \in Slots : /\ seg'[r].muteFlags = seg[r].muteFlags
                         /\ seg'[r].state # "CLOSED" => seg[r].state # "CLOSED"
                         /\ inClip[r] # NoClip => seg'[r].state = "PLAYING" /\ r \notin marked
    BY <2>1, <2>2 DEF ClipInv
  <2>. QED BY Zenon, <2>1, <2>3, ClipKept DEF ClipInv
<1>4. CASE JET_Clear_Queue
  <2>1. /\ \A s \in Slots : inClip'[s] = NoClip /\ seg'[s] = [seg[s] EXCEPT !.state = "CLOSED"]
        /\ \A i \in Entries : muteQueue'[i] = Empty
    BY <1>4 DEF JET_Clear_Queue
  <2>2. \A s \in Slots : seg'[s].state = "CLOSED"
    <3>. TAKE s \in Slots
    <3>1. seg[s] \in ASegment
      OBVIOUS
    <3>. QED BY <2>1, <3>1 DEF ASegment
  <2>. QED BY Zenon, <2>1, <2>2, ClipKept
<1>5. ASSUME NEW s \in Slots, JET_EventMarker(s) PROVE ClipInv'
  <2>1. /\ inClip[s] = NoClip /\ marked' = marked \cup {s} /\ UNCHANGED <<muteQueue, seg, inClip>>
    BY <1>5 DEF JET_EventMarker
  <2>2. \A r \in Slots : inClip[r] # NoClip => r \notin marked' /\ seg[r].state = "PLAYING"
    BY <2>1 DEF ClipInv
  <2>. QED BY Zenon, <2>1, <2>2, ClipKept DEF ClipInv
<1>6. CASE RepeatSegment
  <2>1. /\ \A s \in Slots : inClip[s] = NoClip
        /\ UNCHANGED <<muteQueue, seg>> /\ inClip' = [inClip EXCEPT ![playSegment] = NoClip]
    BY Zenon, <1>6, EndedOutside DEF RepeatSegment
  <2>2. \A s \in Slots : inClip'[s] = NoClip /\ inClip'[s] = inClip[s]
    BY <2>1
  <2>. QED BY Zenon, <2>1, <2>2, ClipKept DEF ClipInv
<1>7. CASE EndSegment
  <2>. DEFINE n == NextSegment(playSegment)
              stopped == [seg EXCEPT ![playSegment].state = "STOPPING"]
  <2>1. /\ \A s \in Slots : inClip[s] = NoClip
        /\ UNCHANGED <<muteQueue, inClip>>
    BY Zenon, <1>7, EndedOutside DEF EndSegment
  <2>2. /\ seg' = IF stopped[n].state = "READY" THEN StartPlayback(stopped, n) ELSE stopped
        /\ seg[playSegment].state = "PLAYING"
    BY <1>7 DEF EndSegment, AtEnd
  <2>3. /\ stopped \in [Slots -> ASegment]
        /\ stopped[playSegment].state = "STOPPING"
        /\ stopped[playSegment].muteFlags = seg[playSegment].muteFlags
        /\ \A r \in Slots : r # playSegment => stopped[r] = seg[r]
    BY SegmentState
  <2>4. n \in Slots
    BY Zenon, SlotsNext
  <2>. HIDE DEF stopped, n
  <2>5. \A r \in Slots : /\ stopped[r].muteFlags = seg[r].muteFlags
                         /\ stopped[r].state # "CLOSED" => seg[r].state # "CLOSED"
    BY <2>2, <2>3
  <2>6. \A r \in Slots : /\ seg'[r].muteFlags = seg[r].muteFlags
                         /\ seg'[r].state # "CLOSED" => seg[r].state # "CLOSED"
    <3>1. CASE stopped[n].state = "READY"
      <4>1. /\ StartPlayback(stopped, n)[n].muteFlags = stopped[n].muteFlags
            /\ \A r \in Slots : r # n => StartPlayback(stopped, n)[r] = stopped[r]
        BY Zenon, <2>3, <2>4, Started
      <4>2. stopped[n].state # "CLOSED"
        BY <3>1
      <4>3. seg' = StartPlayback(stopped, n)
        BY Zenon, <2>2, <3>1
      <4>. QED BY Zenon, <2>5, <4>1, <4>2, <4>3
    <3>2. CASE stopped[n].state # "READY"
      BY Zenon, <2>2, <2>5, <3>2
    <3>. QED BY <3>1, <3>2
  <2>. QED BY Zenon, <2>1, <2>6, ClipKept DEF ClipInv
<1>8. CASE EndProcess
  <2>1. UNCHANGED <<muteQueue, inClip, marked>>
    BY <1>8 DEF EndProcess
  <2>2. PICK closed \in SUBSET {s \in Slots : seg[s].state = "STOPPING" /\ inClip[s] = NoClip} :
           seg' = [s \in Slots |-> IF s \in closed THEN [seg[s] EXCEPT !.state = "CLOSED"]
                                   ELSE seg[s]]
    BY <1>8 DEF EndProcess
  <2>3. \A s \in Slots : \/ s \notin closed /\ seg'[s] = seg[s]
                         \/ s \in closed /\ inClip[s] = NoClip /\ seg'[s].state = "CLOSED"
    <3>. TAKE s \in Slots
    <3>1. [seg[s] EXCEPT !.state = "CLOSED"].state = "CLOSED"
      <4>1. seg[s] \in ASegment
        OBVIOUS
      <4>. QED BY <4>1 DEF ASegment
    <3>. QED BY <2>2, <3>1
  <2>4. \A s \in Slots : inClip[s] # NoClip =>
           seg'[s].state = "PLAYING" /\ s \notin marked /\ seg'[s].muteFlags = seg[s].muteFlags
    BY Zenon, <2>3 DEF ClipInv
  <2>. QED BY Zenon, <2>1, <2>3, <2>4, ClipKept DEF ClipInv
<1>9. \/ \E s \in Slots : JET_EventMarker(s)
      \/ \E u \in UserIDs : JET_QueueSegment(u)
      \/ JET_Play \/ JET_Clear_Queue \/ RepeatSegment \/ EndSegment \/ EndProcess
      \/ UNCHANGED <<muteQueue, seg, inClip, marked>>
  BY Zenon DEF JET_GetEvent, EAS_Render, JET_EventApp, JET_Process, ProcessEvent, vars
<1>. QED BY Zenon, <1>1, <1>2, <1>3, <1>4, <1>5, <1>6, <1>7, <1>8, <1>9

\* The song of one segment only can start or end a clip: the one that plays, and
\* no other is in a clip.
LEMMA ClipOfPlayer ==
    ASSUME TailClips = FALSE, BaseInv, ClipInv, NEW s \in Slots, NEW c \in Clips, JET_EventClip(s, c)
    PROVE  /\ seg[s].state = "PLAYING" /\ s \notin marked
           /\ \A r \in Slots : r # s => inClip[r] = NoClip
           /\ inClip[s] = NoClip \/ inClip[s] = c
           /\ HandleTrigger(s, c, inClip[s] = NoClip)
           /\ inClip' = [inClip EXCEPT ![s] = IF inClip[s] = NoClip THEN c ELSE NoClip]
           /\ marked' = marked
           /\ \A t \in ClipTracks \ seg[s].muteFlags : inClip[s] = c /\ t = ClipTrack[c]
<1>. USE BaseNow
<1>1. s \notin marked /\ Parses(s)
  BY DEF JET_EventClip
<1>2. seg[s].state = "PLAYING" /\ s = playSegment
  BY Zenon, <1>1 DEF Parses, PlaysAlone
<1>3. \A r \in Slots : r # s => inClip[r] = NoClip
  BY Zenon, <1>2 DEF ClipInv, PlaysAlone
<1>4. inClip[s] = NoClip \/ inClip[s] = c
  BY DEF JET_EventClip
<1>5. \A t \in ClipTracks \ seg[s].muteFlags : inClip[s] # NoClip /\ ClipTrack[inClip[s]] = t
  <2>1. seg[s].state # "CLOSED"
    BY <1>2
  <2>. QED BY Zenon, <2>1 DEF ClipInv
<1>6. \A t \in ClipTracks \ seg[s].muteFlags : inClip[s] = c /\ t = ClipTrack[c]
  BY Zenon, <1>4, <1>5
<1>7. /\ HandleTrigger(s, c, inClip[s] = NoClip)
      /\ inClip' = [inClip EXCEPT ![s] = IF inClip[s] = NoClip THEN c ELSE NoClip]
      /\ marked' = marked
  BY Zenon DEF JET_EventClip
<1>. QED BY Zenon, <1>1, <1>2, <1>3, <1>4, <1>6, <1>7

\* What sounds, when at most the segment s is in a clip.
LEMMA OneSounds ==
    ASSUME NEW s \in Slots, NEW c \in Clips, \A r \in Slots : r # s => inClip[r] = NoClip
    PROVE  Sounding(c) <=> inClip[s] = c /\ ClipTrack[c] \notin seg[s].muteFlags
BY ClipsAre DEF Sounding

LEMMA ClipEvents ==
    ASSUME TailClips = FALSE, BaseInv, ClipInv, NEW s \in Slots, NEW c \in Clips, JET_EventClip(s, c)
    PROVE  ClipInv'
<1>. USE BaseNow
<1>1. /\ seg[s].state = "PLAYING" /\ s \notin marked
      /\ \A r \in Slots : r # s => inClip[r] = NoClip
      /\ inClip[s] = NoClip \/ inClip[s] = c
      /\ HandleTrigger(s, c, inClip[s] = NoClip)
      /\ inClip' = [inClip EXCEPT ![s] = IF inClip[s] = NoClip THEN c ELSE NoClip]
      /\ marked' = marked
      /\ \A t \in ClipTracks \ seg[s].muteFlags : inClip[s] = c /\ t = ClipTrack[c]
  BY Zenon, ClipOfPlayer
<1>. DEFINE t == ClipTrack[c]
            F == seg[s].muteFlags
            H == seg'[s].muteFlags
<1>2. /\ \A r \in Slots : r # s => seg'[r] = seg[r] /\ inClip'[r] = NoClip
      /\ seg'[s].state = "PLAYING"
      /\ inClip'[s] = IF inClip[s] = NoClip THEN c ELSE NoClip
  <2>1. (\A r \in Slots : r # s => seg'[r] = seg[r]) /\ seg'[s].state = seg[s].state
    BY <1>1, TriggerCases
  <2>2. \A r \in Slots : inClip'[r] = IF r = s THEN IF inClip[s] = NoClip THEN c ELSE NoClip
                                      ELSE inClip[r]
    BY <1>1
  <2>. QED BY Zenon, <1>1, <2>1, <2>2
<1>3. (inClip[s] = NoClip) \in BOOLEAN
  OBVIOUS
<1>4. \/ Of(c) = {} /\ UNCHANGED <<muteQueue, seg>>
      \/ \E i \in Of(c) :
            /\ inClip[s] = NoClip /\ muteQueue[i].trigger = TRUE
            /\ H = F \ {t}
            /\ muteQueue' = [muteQueue EXCEPT ![i] = [muteQueue[i] EXCEPT !.trigger = FALSE]]
      \/ \E i \in Of(c) :
            /\ H = F \cup {t}
            /\ muteQueue' = [muteQueue EXCEPT ![i] = IF t \in F THEN muteQueue[i] ELSE Empty]
  BY Zenon, <1>1, <1>3, TriggerCases
<1>5. t \in ClipTracks /\ F \in SUBSET ClipTracks /\ \A u \in ClipTracks \ F : inClip[s] = c /\ u = t
  <2>1. seg[s] \in ASegment
    OBVIOUS
  <2>. QED BY <1>1, <2>1 DEF ClipTracks, ASegment
<1>6. \A d \in Clips : Sounding(d)' => d = c /\ inClip'[s] = c /\ t \notin H
  <2>. SUFFICES ASSUME NEW d \in Clips, Sounding(d)' PROVE d = c /\ inClip'[s] = c /\ t \notin H
    OBVIOUS
  <2>1. PICK r \in Slots : inClip'[r] = d /\ ClipTrack[d] \notin seg'[r].muteFlags
    BY Zenon DEF Sounding
  <2>2. r = s
    BY Zenon, <1>2, <2>1, ClipsAre
  <2>3. inClip'[s] = c
    BY Zenon, <1>2, <2>1, <2>2, ClipsAre
  <2>. QED BY Zenon, <2>1, <2>2, <2>3
<1>. HIDE DEF t, F, H
<1>7. \A i \in Of(c) : i \in Entries /\ muteQueue[i].id = c /\ muteQueue[i] \in AnEntry
  BY DEF Of
<1>8. /\ \A u \in ClipTracks \ H : inClip'[s] = c /\ u = t
      /\ \A i \in Entries : muteQueue'[i].active = FALSE => muteQueue'[i] = Empty
      /\ Sounding(c)' => \E i \in Entries : muteQueue'[i].id = c /\ muteQueue'[i].active = TRUE
  <2>1. CASE Of(c) = {} /\ UNCHANGED <<muteQueue, seg>>
    <3>1. ~Sounding(c)
      BY <2>1 DEF ClipInv
    <3>2. \A u \in ClipTracks : u \in F
      BY <1>1, <1>5, <3>1, OneSounds DEF F, t
    <3>3. H = F
      BY Zenon, <2>1 DEF F, H
    <3>4. ~Sounding(c)'
      BY <1>5, <1>6, <3>2, <3>3
    <3>5. \A i \in Entries : muteQueue'[i].active = FALSE => muteQueue'[i] = Empty
      BY Zenon, <2>1 DEF ClipInv
    <3>. QED BY Zenon, <3>2, <3>3, <3>4, <3>5
  <2>2. ASSUME NEW i \in Of(c), inClip[s] = NoClip, muteQueue[i].trigger = TRUE, H = F \ {t},
               muteQueue' = [muteQueue EXCEPT ![i] = [muteQueue[i] EXCEPT !.trigger = FALSE]]
        PROVE  /\ \A u \in ClipTracks \ H : inClip'[s] = c /\ u = t
               /\ \A j \in Entries : muteQueue'[j].active = FALSE => muteQueue'[j] = Empty
               /\ \E j \in Entries : muteQueue'[j].id = c /\ muteQueue'[j].active = TRUE
    <3>1. muteQueue[i].active = TRUE
      <4>1. muteQueue[i] # Empty
        BY <2>2 DEF Empty
      <4>2. muteQueue[i].active \in BOOLEAN
        BY <1>7 DEF AnEntry
      <4>3. muteQueue[i].active # FALSE
        BY Zenon, <1>7, <4>1 DEF ClipInv
      <4>. QED BY <4>2, <4>3
    <3>2. /\ [muteQueue[i] EXCEPT !.trigger = FALSE].active = TRUE
          /\ [muteQueue[i] EXCEPT !.trigger = FALSE].id = c
      BY <1>7, <3>1 DEF AnEntry
    <3>3. muteQueue'[i] = [muteQueue[i] EXCEPT !.trigger = FALSE]
          /\ \A j \in Entries : j # i => muteQueue'[j] = muteQueue[j]
      BY <1>7, <2>2
    <3>4. \A j \in Entries : muteQueue'[j].active = FALSE => muteQueue'[j] = Empty
      BY <3>2, <3>3 DEF ClipInv
    <3>5. muteQueue'[i].id = c /\ muteQueue'[i].active = TRUE
      BY Zenon, <3>2, <3>3
    <3>6. inClip'[s] = c
      BY Zenon, <1>2, <2>2
    <3>7. \A u \in ClipTracks \ H : u = t
      <4>1. \A u \in ClipTracks : u \in F
        BY <1>5, <2>2, ClipsAre
      <4>. QED BY <2>2, <4>1
    <3>. QED BY Zenon, <1>7, <3>4, <3>5, <3>6, <3>7
  <2>3. ASSUME NEW i \in Of(c), H = F \cup {t},
               muteQueue' = [muteQueue EXCEPT ![i] = IF t \in F THEN muteQueue[i] ELSE Empty]
        PROVE  /\ \A u \in ClipTracks \ H : inClip'[s] = c /\ u = t
               /\ \A j \in Entries : muteQueue'[j].active = FALSE => muteQueue'[j] = Empty
               /\ ~Sounding(c)'
    <3>1. \A u \in ClipTracks : u \in H
      BY <1>5, <2>3
    <3>2. ~Sounding(c)'
      BY <1>5, <1>6, <3>1
    <3>3. \A j \in Entries : muteQueue'[j] = muteQueue[j] \/ muteQueue'[j] = Empty
      BY <2>3
    <3>4. \A j \in Entries : muteQueue'[j].active = FALSE => muteQueue'[j] = Empty
      BY Zenon, <3>3 DEF ClipInv
    <3>. QED BY Zenon, <3>1, <3>2, <3>4
  <2>. QED BY Zenon, <1>4, <2>1, <2>2, <2>3
<1>9. \A r \in Slots : inClip'[r] # NoClip => seg'[r].state = "PLAYING" /\ r \notin marked'
  BY Zenon, <1>1, <1>2
<1>10. ASSUME NEW r \in Slots, seg'[r].state # "CLOSED", NEW u \in ClipTracks \ seg'[r].muteFlags
       PROVE  inClip'[r] # NoClip /\ ClipTrack[inClip'[r]] = u
  <2>1. CASE r = s
    <3>1. inClip'[s] = c /\ u = t
      BY Zenon, <1>8, <1>10, <2>1 DEF H
    <3>. QED BY Zenon, <2>1, <3>1, ClipsAre DEF t
  <2>2. CASE r # s
    <3>1. seg'[r] = seg[r] /\ inClip[r] = NoClip
      BY Zenon, <1>1, <1>2, <2>2
    <3>2. u \in ClipTracks \ seg[r].muteFlags /\ seg[r].state # "CLOSED"
      BY <1>10, <3>1
    <3>3. inClip[r] # NoClip
      BY Zenon, <3>2 DEF ClipInv
    <3>. QED BY Zenon, <3>1, <3>3
  <2>. QED BY <2>1, <2>2
<1>11. \A d \in Clips : Sounding(d)' => \E i \in Of(d)' : muteQueue'[i].active = TRUE
  <2>. SUFFICES ASSUME NEW d \in Clips, Sounding(d)'
                PROVE  \E i \in Of(d)' : muteQueue'[i].active = TRUE
    OBVIOUS
  <2>1. d = c
    BY Zenon, <1>6
  <2>2. PICK i \in Entries : muteQueue'[i].id = c /\ muteQueue'[i].active = TRUE
    BY Zenon, <1>8, <2>1
  <2>. QED BY <2>1, <2>2 DEF Of
<1>. QED BY <1>8, <1>9, <1>10, <1>11 DEF ClipInv

\* Where the trigger of a clip goes.
LEMMA Triggered ==
    ASSUME BaseInv, NEW c \in Clips, JET_TriggerClip(c)
    PROVE  \E i \in Entries :
              /\ \/ muteQueue[i] = Entry(c, FALSE) /\ Replays(c)
                 \/ muteQueue[i] = Empty /\ ~Replays(c)
              /\ muteQueue'[i] = Entry(c, TRUE)
              /\ \A j \in Entries : j # i => muteQueue'[j] = muteQueue[j]
              /\ UNCHANGED <<seg, inClip, marked>>
              /\ credit' = [credit EXCEPT ![c] = IF Replays(c) THEN credit[c] ELSE credit[c] + 1]
<1>. USE BaseNow
<1>1. PICK i \in EntryFor(c) : muteQueue' = [muteQueue EXCEPT ![i] = Entry(c, TRUE)]
  BY DEF JET_TriggerClip
<1>2. /\ i \in Entries
      /\ \/ muteQueue[i] = Entry(c, FALSE) /\ Replays(c)
         \/ muteQueue[i] = Empty /\ ~Replays(c)
  BY FoundFor
<1>3. muteQueue'[i] = Entry(c, TRUE) /\ \A j \in Entries : j # i => muteQueue'[j] = muteQueue[j]
  BY <1>1, <1>2
<1>4. /\ UNCHANGED <<seg, inClip, marked>>
      /\ credit' = [credit EXCEPT ![c] = IF Replays(c) THEN credit[c] ELSE credit[c] + 1]
  BY Zenon DEF JET_TriggerClip
<1>. QED BY Zenon, <1>2, <1>3, <1>4

LEMMA ClipTrigger == ASSUME BaseInv, ClipInv, NEW c \in Clips, JET_TriggerClip(c) PROVE ClipInv'
<1>1. PICK i \in Entries :
         /\ muteQueue[i] = Entry(c, FALSE) \/ muteQueue[i] = Empty
         /\ muteQueue'[i] = Entry(c, TRUE)
         /\ \A j \in Entries : j # i => muteQueue'[j] = muteQueue[j]
         /\ UNCHANGED <<seg, inClip, marked>>
  BY Zenon, Triggered
<1>2. \A j \in Entries : muteQueue[j].active = TRUE =>
         muteQueue'[j].active = TRUE /\ muteQueue'[j].id = muteQueue[j].id
  BY <1>1 DEF Entry, Empty
<1>3. \A j \in Entries : muteQueue'[j].active = FALSE => muteQueue'[j] = Empty
  BY <1>1 DEF Entry, Empty, ClipInv
<1>. QED BY Zenon, <1>1, <1>2, <1>3, ClipKept DEF ClipInv

LEMMA ClipStep == ASSUME ~TailClips, BaseInv, ClipInv, [Next]_vars PROVE ClipInv'
<1>1. TailClips = FALSE
  BY ClipsAssumption
<1>. QED BY Zenon, <1>1, ClipTrigger, ClipEvents, ClipOthers DEF Next

LEMMA AlwaysClip == ASSUME ~TailClips PROVE Spec => [](BaseInv /\ ClipInv)
<1>1. Init => BaseInv /\ ClipInv
  BY InitBase, InitClip
<1>2. (BaseInv /\ ClipInv) /\ [Next]_vars => (BaseInv /\ ClipInv)'
  BY BaseStep, ClipStep
<1>. QED BY <1>1, <1>2, PTL DEF Spec

\* A track with clips sounds only inside one of its clips, when the songs have
\* none behind their loop-end marker (SoundsOnlyInClip): every end finds the
\* entry of its clip, whatever was triggered meanwhile, and closes it.
THEOREM MutedOutside == ASSUME ~TailClips PROVE Spec => []SoundsOnlyInClip
<1>1. BaseInv /\ ClipInv => SoundsOnlyInClip
  <2>. SUFFICES ASSUME BaseInv, ClipInv, NEW s \in Slots, seg[s].state \in {"PLAYING", "STOPPING"},
                       NEW t \in ClipTracks \ seg[s].muteFlags
                PROVE  inClip[s] \in Clips /\ ClipTrack[inClip[s]] = t
    BY DEF SoundsOnlyInClip
  <2>1. inClip[s] \in Clips \cup {NoClip}
    BY BaseNow
  <2>2. seg[s].state # "CLOSED"
    OBVIOUS
  <2>3. inClip[s] # NoClip /\ ClipTrack[inClip[s]] = t
    BY Zenon, <2>2 DEF ClipInv
  <2>. QED BY <2>1, <2>3
<1>. QED BY <1>1, AlwaysClip, PTL

-----------------------------------------------------------------------------
(* How many entries a clip has.  The ID of an empty entry is 0: a clip with *)
(* that ID would be found in every empty entry.                            *)

\* Only a clip that sounds has an entry that does not wait, and it is the first
\* one; all others are triggers still to be played.
Counted(c) ==
    /\ \A i \in Of(c) : muteQueue[i].trigger = FALSE => Sounding(c) /\ \A j \in Of(c) : i <= j
    /\ credit[c] = Cardinality(Of(c)) - (IF Sounding(c) THEN 1 ELSE 0)

CountInv == \A c \in Clips : Counted(c)

LEMMA EntryIs ==
    ASSUME 0 \notin Clips, BaseInv, ClipInv, NEW c \in Clips, NEW i \in Of(c)
    PROVE  /\ i \in Entries /\ muteQueue[i].id = c /\ muteQueue[i].trigger \in BOOLEAN
           /\ muteQueue[i] = Entry(c, muteQueue[i].trigger)
<1>. USE BaseNow
<1>1. i \in Entries /\ muteQueue[i].id = c /\ muteQueue[i] \in AnEntry
  BY DEF Of
<1>2. muteQueue[i].active = TRUE
  <2>1. muteQueue[i] # Empty
    BY <1>1 DEF Empty
  <2>2. muteQueue[i].active # FALSE
    BY Zenon, <1>1, <2>1 DEF ClipInv
  <2>. QED BY <1>1, <2>2 DEF AnEntry
<1>. QED BY <1>1, <1>2 DEF AnEntry, Entry

LEMMA OfFinite ==
    ASSUME NEW c \in Clips
    PROVE  IsFiniteSet(Of(c)) /\ Cardinality(Of(c)) \in 0 .. JET_MUTE_QUEUE_SIZE
<1>1. Of(c) \subseteq Entries
  BY DEF Of
<1>. QED BY <1>1, EntriesAre, FS_Subset, FS_CardinalityType

\* Of a clip that a step leaves alone.
LEMMA CountKept ==
    ASSUME NEW c \in Clips, Counted(c), credit'[c] = credit[c],
           \A i \in Entries : /\ muteQueue'[i].id = c <=> muteQueue[i].id = c
                              /\ muteQueue[i].id = c => muteQueue'[i].trigger = muteQueue[i].trigger,
           Sounding(c)' <=> Sounding(c)
    PROVE  Counted(c)'
<1>1. Of(c)' = Of(c)
  BY DEF Of
<1>2. \A i \in Of(c) : muteQueue'[i].trigger = muteQueue[i].trigger
  BY DEF Of
<1>3. \A i \in Of(c)' : muteQueue'[i].trigger = FALSE => Sounding(c)' /\ \A j \in Of(c)' : i <= j
  BY Zenon, <1>1, <1>2 DEF Counted
<1>4. credit'[c] = Cardinality(Of(c)') - (IF Sounding(c)' THEN 1 ELSE 0)
  <2>1. CASE Sounding(c)
    BY <1>1, <2>1 DEF Counted
  <2>2. CASE ~Sounding(c)
    BY <1>1, <2>2 DEF Counted
  <2>. QED BY <2>1, <2>2
<1>. QED BY Zenon, <1>3, <1>4 DEF Counted

LEMMA InitCount == ASSUME 0 \notin Clips PROVE Init => CountInv
<1>. SUFFICES ASSUME Init, NEW c \in Clips PROVE Counted(c)
  BY DEF CountInv
<1>1. \A s \in Slots : inClip[s] = NoClip
  BY DEF Init
<1>2. ~Sounding(c)
  BY <1>1, ClipsAre DEF Sounding
<1>3. \A i \in Entries : muteQueue[i].id = 0
  BY DEF Init, Empty
<1>4. Of(c) = {}
  BY <1>3 DEF Of
<1>5. credit[c] = 0
  BY DEF Init
<1>. QED BY <1>2, <1>4, <1>5, FS_EmptySet DEF Counted

\* Actions that start and end no clip and trigger none.
LEMMA ClipsSame ==
    ASSUME BaseInv, ClipInv,
           \/ \E u \in UserIDs : JET_QueueSegment(u)
           \/ JET_Play \/ JET_GetEvent \/ EAS_Render
           \/ \E s \in Slots : JET_EventApp(s) \/ JET_EventMarker(s)
           \/ JET_Process \/ ProcessEvent \/ RepeatSegment \/ EndSegment \/ EndProcess
           \/ UNCHANGED vars
    PROVE  /\ UNCHANGED <<muteQueue, credit>>
           /\ \A s \in Slots : inClip'[s] = inClip[s]
           /\ \A s \in Slots : inClip[s] # NoClip => seg'[s].muteFlags = seg[s].muteFlags
<1>. USE BaseNow
<1>1. CASE UNCHANGED <<muteQueue, credit, seg, inClip>>
  BY Zenon, <1>1
<1>2. ASSUME NEW u \in UserIDs, JET_QueueSegment(u)
      PROVE  /\ UNCHANGED <<muteQueue, credit>>
             /\ \A s \in Slots : inClip'[s] = inClip[s]
             /\ \A s \in Slots : inClip[s] # NoClip => seg'[s].muteFlags = seg[s].muteFlags
  <2>. DEFINE s == queueSegment
  <2>1. /\ UNCHANGED <<muteQueue, credit>> /\ inClip' = [inClip EXCEPT ![s] = NoClip]
        /\ seg[s].state = "CLOSED"
        /\ seg' = [seg EXCEPT ![s].state = "READY", ![s].userID = u, ![s].muteFlags = ClipTracks]
    BY <1>2 DEF JET_QueueSegment
  <2>2. s \in Slots
    OBVIOUS
  <2>3. inClip[s] = NoClip
    BY <2>1, <2>2 DEF ClipInv
  <2>4. \A r \in Slots : r # s => seg'[r] = seg[r]
    BY <2>1, <2>2
  <2>5. \A r \in Slots : inClip'[r] = inClip[r]
    BY <2>1, <2>2, <2>3
  <2>. QED BY Zenon, <2>1, <2>3, <2>4, <2>5
<1>3. CASE JET_Play
  <2>1. /\ UNCHANGED <<muteQueue, credit, inClip>>
        /\ seg' = StartPlayback(seg, playSegment)
    BY <1>3 DEF JET_Play
  <2>2. \A s \in Slots : seg'[s].muteFlags = seg[s].muteFlags
    <3>1. /\ seg'[playSegment].muteFlags = seg[playSegment].muteFlags
          /\ \A r \in Slots : r # playSegment => seg'[r] = seg[r]
      BY Zenon, <2>1, Started
    <3>. QED BY Zenon, <3>1
  <2>. QED BY Zenon, <2>1, <2>2
<1>4. CASE RepeatSegment
  <2>1. /\ \A s \in Slots : inClip[s] = NoClip
        /\ UNCHANGED <<muteQueue, credit>> /\ inClip' = [inClip EXCEPT ![playSegment] = NoClip]
    BY Zenon, <1>4, EndedOutside DEF RepeatSegment
  <2>. QED BY <2>1
<1>5. CASE EndSegment
  <2>1. (\A s \in Slots : inClip[s] = NoClip) /\ UNCHANGED <<muteQueue, credit, inClip>>
    BY Zenon, <1>5, EndedOutside DEF EndSegment
  <2>. QED BY <2>1
<1>6. CASE EndProcess
  <2>1. UNCHANGED <<muteQueue, credit, inClip>>
    BY <1>6 DEF EndProcess
  <2>2. PICK closed \in SUBSET {s \in Slots : seg[s].state = "STOPPING" /\ inClip[s] = NoClip} :
           seg' = [s \in Slots |-> IF s \in closed THEN [seg[s] EXCEPT !.state = "CLOSED"]
                                   ELSE seg[s]]
    BY <1>6 DEF EndProcess
  <2>3. \A s \in Slots : inClip[s] # NoClip => seg'[s] = seg[s]
    BY <2>2
  <2>. QED BY <2>1, <2>3
<1>7. \/ \E u \in UserIDs : JET_QueueSegment(u)
      \/ JET_Play \/ RepeatSegment \/ EndSegment \/ EndProcess
      \/ UNCHANGED <<muteQueue, credit, seg, inClip>>
  BY Zenon DEF JET_GetEvent, EAS_Render, JET_EventApp, JET_EventMarker, JET_Process,
     ProcessEvent, vars
<1>. QED BY Zenon, <1>1, <1>2, <1>3, <1>4, <1>5, <1>6, <1>7

LEMMA SoundsSame ==
    ASSUME NEW c \in Clips, \A s \in Slots : inClip'[s] = inClip[s],
           \A s \in Slots : inClip[s] # NoClip => seg'[s].muteFlags = seg[s].muteFlags
    PROVE  Sounding(c)' <=> Sounding(c)
<1>1. \A s \in Slots : inClip[s] = c => inClip[s] # NoClip
  BY ClipsAre
<1>. QED BY Zenon, <1>1 DEF Sounding

LEMMA CountTrigger ==
    ASSUME 0 \notin Clips, BaseInv, ClipInv, CountInv, NEW c \in Clips, JET_TriggerClip(c)
    PROVE  CountInv'
<1>. USE BaseNow
<1>. SUFFICES ASSUME NEW d \in Clips PROVE Counted(d)'
  BY DEF CountInv
<1>0. Counted(d)
  BY DEF CountInv
<1>1. PICK i \in Entries :
         /\ \/ muteQueue[i] = Entry(c, FALSE) /\ Replays(c)
            \/ muteQueue[i] = Empty /\ ~Replays(c)
         /\ muteQueue'[i] = Entry(c, TRUE)
         /\ \A j \in Entries : j # i => muteQueue'[j] = muteQueue[j]
         /\ UNCHANGED <<seg, inClip, marked>>
         /\ credit' = [credit EXCEPT ![c] = IF Replays(c) THEN credit[c] ELSE credit[c] + 1]
  BY Zenon, Triggered
<1>2. Sounding(d)' <=> Sounding(d)
  BY Zenon, <1>1 DEF Sounding
<1>3. muteQueue'[i].id = c /\ muteQueue'[i].trigger = TRUE /\ muteQueue[i].id \in {c, 0}
  BY <1>1 DEF Entry, Empty
<1>4. CASE d # c
  <2>1. credit'[d] = credit[d]
    BY <1>1, <1>4
  <2>2. \A j \in Entries : /\ muteQueue'[j].id = d <=> muteQueue[j].id = d
                           /\ muteQueue[j].id = d => muteQueue'[j].trigger = muteQueue[j].trigger
    BY <1>1, <1>3, <1>4
  <2>. QED BY Zenon, <1>0, <1>2, <2>1, <2>2, CountKept
<1>5. CASE d = c /\ muteQueue[i] = Entry(c, FALSE) /\ Replays(c)
  <2>1. credit'[c] = credit[c]
    BY <1>1, <1>5
  <2>2. \A j \in Entries : muteQueue'[j].id = c <=> muteQueue[j].id = c
    BY <1>1, <1>3, <1>5 DEF Entry
  <2>3. Of(c)' = Of(c)
    BY <2>2 DEF Of
  <2>4. \A j \in Of(c) : muteQueue'[j].trigger = FALSE => muteQueue[j].trigger = FALSE
    BY <1>1, <1>3 DEF Of
  <2>5. \A j \in Of(c)' : muteQueue'[j].trigger = FALSE => Sounding(c)' /\ \A k \in Of(c)' : j <= k
    BY Zenon, <1>0, <1>2, <1>5, <2>3, <2>4 DEF Counted
  <2>6. credit'[c] = Cardinality(Of(c)') - (IF Sounding(c)' THEN 1 ELSE 0)
    <3>1. (IF Sounding(c)' THEN 1 ELSE 0) = (IF Sounding(c) THEN 1 ELSE 0)
      BY Zenon, <1>2, <1>5
    <3>. QED BY Zenon, <1>0, <1>5, <2>1, <2>3, <3>1 DEF Counted
  <2>. QED BY Zenon, <1>5, <2>5, <2>6 DEF Counted
<1>6. CASE d = c /\ muteQueue[i] = Empty /\ ~Replays(c)
  <2>1. credit'[c] = credit[c] + 1
    BY <1>1, <1>6
  <2>2. i \notin Of(c)
    BY <1>6 DEF Of, Empty
  <2>3. Of(c)' = Of(c) \cup {i}
    BY <1>1, <1>3 DEF Of
  <2>4. \A j \in Of(c) : muteQueue[j].trigger # FALSE
    <3>. SUFFICES ASSUME NEW j \in Of(c), muteQueue[j].trigger = FALSE PROVE FALSE
      OBVIOUS
    <3>1. j \in Entries /\ muteQueue[j] = Entry(c, muteQueue[j].trigger)
      BY Zenon, EntryIs
    <3>. QED BY Zenon, <1>6, <3>1 DEF Replays
  <2>5. \A j \in Of(c)' : muteQueue'[j].trigger # FALSE
    <3>. SUFFICES ASSUME NEW j \in Of(c)' PROVE muteQueue'[j].trigger # FALSE
      OBVIOUS
    <3>1. CASE j = i
      BY <1>3, <3>1
    <3>2. CASE j \in Of(c) /\ j # i
      <4>1. muteQueue'[j] = muteQueue[j]
        BY <1>1, <3>2 DEF Of
      <4>. QED BY Zenon, <2>4, <3>2, <4>1
    <3>. QED BY <2>3, <3>1, <3>2
  <2>6. Cardinality(Of(c)') = Cardinality(Of(c)) + 1
    BY <2>2, <2>3, OfFinite, FS_AddElement
  <2>7. Cardinality(Of(c)) \in Nat
    BY OfFinite, EntriesAre
  <2>8. credit'[c] = Cardinality(Of(c)') - (IF Sounding(c)' THEN 1 ELSE 0)
    <3>1. CASE Sounding(c)
      BY <1>0, <1>2, <1>6, <2>1, <2>6, <2>7, <3>1 DEF Counted
    <3>2. CASE ~Sounding(c)
      BY <1>0, <1>2, <1>6, <2>1, <2>6, <2>7, <3>2 DEF Counted
    <3>. QED BY <3>1, <3>2
  <2>. QED BY Zenon, <1>6, <2>5, <2>8 DEF Counted
<1>. QED BY Zenon, <1>1, <1>4, <1>5, <1>6

LEMMA CountEvents ==
    ASSUME TailClips = FALSE, 0 \notin Clips, BaseInv, ClipInv, CountInv,
           NEW s \in Slots, NEW c \in Clips, JET_EventClip(s, c)
    PROVE  /\ CountInv'
           /\ inClip[s] = NoClip /\ credit[c] > 0 => ClipTrack[c] \notin seg'[s].muteFlags
<1>. USE BaseNow
<1>. DEFINE t == ClipTrack[c]
            F == seg[s].muteFlags
            H == seg'[s].muteFlags
<1>1. /\ seg[s].state = "PLAYING" /\ s \notin marked
      /\ \A r \in Slots : r # s => inClip[r] = NoClip
      /\ inClip[s] = NoClip \/ inClip[s] = c
      /\ HandleTrigger(s, c, inClip[s] = NoClip)
      /\ inClip' = [inClip EXCEPT ![s] = IF inClip[s] = NoClip THEN c ELSE NoClip]
      /\ marked' = marked
      /\ \A u \in ClipTracks \ seg[s].muteFlags : inClip[s] = c /\ u = ClipTrack[c]
  BY Zenon, ClipOfPlayer
<1>2. /\ \A r \in Slots : r # s => inClip'[r] = NoClip
      /\ inClip'[s] = IF inClip[s] = NoClip THEN c ELSE NoClip
  <2>1. \A r \in Slots : inClip'[r] = IF r = s THEN IF inClip[s] = NoClip THEN c ELSE NoClip
                                      ELSE inClip[r]
    BY <1>1
  <2>. QED BY Zenon, <1>1, <2>1
<1>3. t \in F \/ inClip[s] = c
  <2>1. t \in ClipTracks
    BY DEF ClipTracks
  <2>. QED BY <1>1, <2>1
<1>4. (inClip[s] = NoClip) \in BOOLEAN
  OBVIOUS
<1>5. \/ Of(c) = {} /\ UNCHANGED <<muteQueue, seg, credit>>
      \/ \E i \in Of(c) :
            /\ \A j \in Of(c) : i <= j
            /\ inClip[s] = NoClip /\ muteQueue[i].trigger = TRUE
            /\ H = F \ {t}
            /\ muteQueue' = [muteQueue EXCEPT ![i] = [muteQueue[i] EXCEPT !.trigger = FALSE]]
            /\ credit' = [credit EXCEPT ![c] = credit[c] - 1]
      \/ \E i \in Of(c) :
            /\ \A j \in Of(c) : i <= j
            /\ inClip[s] # NoClip \/ muteQueue[i].trigger = FALSE
            /\ H = F \cup {t}
            /\ muteQueue' = [muteQueue EXCEPT ![i] = IF t \in F THEN muteQueue[i] ELSE Empty]
            /\ credit' = credit
  <2>1. /\ (inClip[s] = NoClip) = FALSE => inClip[s] # NoClip
        /\ (inClip[s] = NoClip) = TRUE => inClip[s] = NoClip
    OBVIOUS
  <2>. QED BY Zenon, <1>1, <1>4, <2>1, TriggerCases
<1>6. (Sounding(c) <=> inClip[s] = c /\ t \notin F) /\ (Sounding(c)' <=> inClip'[s] = c /\ t \notin H)
  BY <1>1, <1>2, ClipsAre DEF Sounding
<1>. HIDE DEF t, F, H
<1>7. NoClip # c
  BY ClipsAre
<1>8. \A d \in Clips : d # c => ~Sounding(d) /\ ~Sounding(d)'
  <2>1. \A d \in Clips, r \in Slots : d # c => inClip[r] # d /\ inClip'[r] # d
    BY <1>1, <1>2, ClipsAre
  <2>. QED BY Zenon, <2>1 DEF Sounding
<1>9. Counted(c)
  BY DEF CountInv
<1>10. \A i \in Of(c) : /\ i \in Entries /\ muteQueue[i].id = c /\ muteQueue[i].trigger \in BOOLEAN
                        /\ muteQueue[i] = Entry(c, muteQueue[i].trigger)
  BY EntryIs
<1>11. Cardinality(Of(c)) \in Nat /\ IsFiniteSet(Of(c))
  BY OfFinite, EntriesAre
<1>12. ASSUME NEW d \in Clips, d # c, credit'[d] = credit[d],
              \A i \in Entries : \/ muteQueue'[i] = muteQueue[i]
                                 \/ muteQueue[i].id = c /\ muteQueue'[i].id \in {c, 0}
       PROVE  Counted(d)'
  <2>1. \A i \in Entries : /\ muteQueue'[i].id = d <=> muteQueue[i].id = d
                           /\ muteQueue[i].id = d => muteQueue'[i].trigger = muteQueue[i].trigger
    BY <1>12
  <2>2. Sounding(d)' <=> Sounding(d)
    BY Zenon, <1>8, <1>12
  <2>3. Counted(d)
    BY DEF CountInv
  <2>. QED BY Zenon, <1>12, <2>1, <2>2, <2>3, CountKept
<1>13. CASE Of(c) = {} /\ UNCHANGED <<muteQueue, seg, credit>>
  <2>1. ~Sounding(c)
    BY Zenon, <1>13 DEF ClipInv
  <2>2. t \in H
    BY Zenon, <1>3, <1>6, <1>13, <2>1 DEF F, H
  <2>3. ~Sounding(c)'
    BY Zenon, <1>6, <2>2
  <2>4. Counted(c)'
    BY Zenon, <1>9, <1>13, <2>1, <2>3, CountKept
  <2>5. Cardinality(Of(c)) = 0
    BY <1>13, FS_EmptySet
  <2>6. credit[c] = 0
    <3>1. credit[c] = Cardinality(Of(c)) - 0
      BY Zenon, <1>9, <2>1 DEF Counted
    <3>. QED BY <2>5, <3>1
  <2>7. \A d \in Clips : d # c => Counted(d)'
    BY Zenon, <1>12, <1>13
  <2>8. CountInv'
    BY Zenon, <2>4, <2>7 DEF CountInv
  <2>. QED BY <2>6, <2>8
<1>14. ASSUME NEW i \in Of(c), \A j \in Of(c) : i <= j, inClip[s] = NoClip, muteQueue[i].trigger = TRUE,
              H = F \ {t},
              muteQueue' = [muteQueue EXCEPT ![i] = [muteQueue[i] EXCEPT !.trigger = FALSE]],
              credit' = [credit EXCEPT ![c] = credit[c] - 1]
       PROVE  CountInv' /\ t \notin H
  <2>1. t \notin H /\ inClip'[s] = c
    BY <1>2, <1>14
  <2>2. ~Sounding(c) /\ Sounding(c)'
    BY Zenon, <1>6, <1>7, <1>14, <2>1
  <2>3. /\ [muteQueue[i] EXCEPT !.trigger = FALSE].id = c
        /\ [muteQueue[i] EXCEPT !.trigger = FALSE].trigger = FALSE
    <3>1. [Entry(c, TRUE) EXCEPT !.trigger = FALSE].id = c
      BY DEF Entry
    <3>2. [Entry(c, TRUE) EXCEPT !.trigger = FALSE].trigger = FALSE
      BY DEF Entry
    <3>3. muteQueue[i] = Entry(c, TRUE)
      BY Zenon, <1>10, <1>14
    <3>. QED BY Zenon, <3>1, <3>2, <3>3
  <2>4. /\ muteQueue'[i] = [muteQueue[i] EXCEPT !.trigger = FALSE]
        /\ \A j \in Entries : j # i => muteQueue'[j] = muteQueue[j]
    BY <1>10, <1>14
  <2>5. muteQueue'[i].id = c /\ muteQueue[i].id = c
    BY Zenon, <1>10, <2>3, <2>4
  <2>6. \A j \in Entries : muteQueue'[j].id = c <=> muteQueue[j].id = c
    BY Zenon, <2>4, <2>5
  <2>7. Of(c)' = Of(c)
    BY <2>6 DEF Of
  <2>8. \A j \in Of(c) : j # i => muteQueue'[j].trigger # FALSE
    <3>1. \A j \in Of(c) : muteQueue[j].trigger # FALSE
      BY Zenon, <1>9, <2>2 DEF Counted
    <3>. QED BY Zenon, <1>10, <2>4, <3>1
  <2>9. \A j \in Of(c)' : muteQueue'[j].trigger = FALSE => Sounding(c)' /\ \A k \in Of(c)' : j <= k
    BY Zenon, <1>14, <2>2, <2>7, <2>8
  <2>10. credit'[c] = Cardinality(Of(c)') - 1
    BY <1>9, <1>11, <1>14, <2>2, <2>7 DEF Counted
  <2>11. Counted(c)'
    BY Zenon, <2>2, <2>9, <2>10 DEF Counted
  <2>12. \A j \in Entries : \/ muteQueue'[j] = muteQueue[j]
                            \/ muteQueue[j].id = c /\ muteQueue'[j].id \in {c, 0}
    BY <2>4, <2>5
  <2>13. \A d \in Clips : d # c => credit'[d] = credit[d]
    BY <1>14
  <2>. QED BY Zenon, <1>12, <2>1, <2>11, <2>12, <2>13 DEF CountInv
<1>15. ASSUME NEW i \in Of(c), \A j \in Of(c) : i <= j, inClip[s] # NoClip \/ muteQueue[i].trigger = FALSE,
              H = F \cup {t},
              muteQueue' = [muteQueue EXCEPT ![i] = IF t \in F THEN muteQueue[i] ELSE Empty],
              credit' = credit
       PROVE  CountInv' /\ inClip[s] # NoClip
  <2>1. inClip[s] # NoClip
    <3>. SUFFICES ASSUME inClip[s] = NoClip PROVE FALSE
      OBVIOUS
    <3>1. ~Sounding(c)
      BY Zenon, <1>6, <1>7
    <3>2. muteQueue[i].trigger = FALSE
      BY Zenon, <1>15
    <3>. QED BY Zenon, <1>9, <3>1, <3>2 DEF Counted
  <2>2. ~Sounding(c)' /\ inClip[s] = c
    BY Zenon, <1>1, <1>2, <1>6, <1>7, <2>1
  <2>3. CASE t \in F
    <3>1. ~Sounding(c)
      BY Zenon, <1>6, <2>3
    <3>2. muteQueue' = muteQueue
      BY <1>15, <2>3
    <3>3. Counted(c)'
      BY Zenon, <1>9, <1>15, <2>2, <3>1, <3>2, CountKept
    <3>4. \A d \in Clips : d # c => Counted(d)'
      BY Zenon, <1>12, <1>15, <3>2
    <3>. QED BY Zenon, <2>1, <3>3, <3>4 DEF CountInv
  <2>4. CASE t \notin F
    <3>1. Sounding(c)
      BY Zenon, <1>6, <2>2, <2>4
    <3>2. muteQueue'[i] = Empty /\ \A j \in Entries : j # i => muteQueue'[j] = muteQueue[j]
      BY <1>10, <1>15, <2>4
    <3>3. Empty.id = 0 /\ c # 0
      BY DEF Empty
    <3>4. Of(c)' = Of(c) \ {i}
      BY <3>2, <3>3 DEF Of
    <3>5. Cardinality(Of(c)') = Cardinality(Of(c)) - 1
      BY <1>11, <3>4, FS_RemoveElement
    <3>6. \A j \in Of(c)' : muteQueue'[j].trigger # FALSE
      <4>. SUFFICES ASSUME NEW j \in Of(c)', muteQueue'[j].trigger = FALSE PROVE FALSE
        OBVIOUS
      <4>1. j \in Of(c) /\ j # i /\ j \in Nat /\ i \in Nat
        BY <1>10, <3>4, EntriesAre
      <4>2. muteQueue[j].trigger = FALSE
        BY Zenon, <1>10, <3>2, <4>1
      <4>3. j <= i
        BY Zenon, <1>9, <4>1, <4>2 DEF Counted
      <4>4. i <= j
        BY <1>15, <4>1
      <4>. QED BY <4>1, <4>3, <4>4
    <3>7. credit'[c] = Cardinality(Of(c)')
      BY <1>9, <1>11, <1>15, <3>1, <3>5 DEF Counted
    <3>8. Counted(c)'
      <4>1. Cardinality(Of(c)') - 0 = Cardinality(Of(c)')
        BY <1>11, <3>5
      <4>2. credit'[c] = Cardinality(Of(c)') - (IF Sounding(c)' THEN 1 ELSE 0)
        BY Zenon, <2>2, <3>7, <4>1
      <4>. QED BY Zenon, <2>2, <3>6, <4>2 DEF Counted
    <3>9. \A j \in Entries : \/ muteQueue'[j] = muteQueue[j]
                             \/ muteQueue[j].id = c /\ muteQueue'[j].id \in {c, 0}
      BY <1>10, <3>2, <3>3
    <3>10. \A d \in Clips : d # c => Counted(d)'
      BY Zenon, <1>12, <1>15, <3>9
    <3>. QED BY Zenon, <2>1, <3>8, <3>10 DEF CountInv
  <2>. QED BY <2>3, <2>4
<1>. QED BY Zenon, <1>5, <1>13, <1>14, <1>15 DEF t, H

LEMMA CountStep ==
    ASSUME ~TailClips, 0 \notin Clips, BaseInv, ClipInv, CountInv, [Next]_vars PROVE CountInv'
<1>1. TailClips = FALSE
  BY ClipsAssumption
<1>2. ASSUME UNCHANGED <<muteQueue, credit>>, \A s \in Slots : inClip'[s] = inClip[s],
             \A s \in Slots : inClip[s] # NoClip => seg'[s].muteFlags = seg[s].muteFlags
      PROVE  CountInv'
  <2>. SUFFICES ASSUME NEW c \in Clips PROVE Counted(c)'
    BY DEF CountInv
  <2>1. Sounding(c)' <=> Sounding(c)
    BY Zenon, <1>2, SoundsSame
  <2>2. Counted(c)
    BY DEF CountInv
  <2>. QED BY Zenon, <1>2, <2>1, <2>2, CountKept
<1>3. CASE JET_Clear_Queue
  <2>1. /\ \A s \in Slots : inClip'[s] = NoClip
        /\ \A i \in Entries : muteQueue'[i] = Empty
        /\ \A c \in Clips : credit'[c] = 0
    BY <1>3 DEF JET_Clear_Queue
  <2>. SUFFICES ASSUME NEW c \in Clips PROVE Counted(c)'
    BY DEF CountInv
  <2>2. ~Sounding(c)'
    BY <2>1, ClipsAre DEF Sounding
  <2>3. Of(c)' = {}
    BY <2>1 DEF Of, Empty
  <2>. QED BY <2>1, <2>2, <2>3, FS_EmptySet DEF Counted
<1>4. CASE \E c \in Clips : JET_TriggerClip(c)
  BY Zenon, <1>4, CountTrigger
<1>5. CASE \E s \in Slots, c \in Clips : JET_EventClip(s, c)
  BY Zenon, <1>1, <1>5, CountEvents
<1>6. CASE \/ \E u \in UserIDs : JET_QueueSegment(u)
           \/ JET_Play \/ JET_GetEvent \/ EAS_Render
           \/ \E s \in Slots : JET_EventApp(s) \/ JET_EventMarker(s)
           \/ JET_Process \/ ProcessEvent \/ RepeatSegment \/ EndSegment \/ EndProcess
           \/ UNCHANGED vars
  BY Zenon, <1>2, <1>6, ClipsSame
<1>. QED BY Zenon, <1>3, <1>4, <1>5, <1>6 DEF Next

LEMMA AlwaysCount ==
    ASSUME ~TailClips, 0 \notin Clips PROVE Spec => [](BaseInv /\ ClipInv /\ CountInv)
<1>1. Init => BaseInv /\ ClipInv /\ CountInv
  BY InitBase, InitClip, InitCount
<1>2. (BaseInv /\ ClipInv /\ CountInv) /\ [Next]_vars => (BaseInv /\ ClipInv /\ CountInv)'
  BY BaseStep, ClipStep, CountStep
<1>. QED BY <1>1, <1>2, PTL DEF Spec

\* The entry of a clip that sounds is the one its end will find.
LEMMA OwnEntry ==
    ASSUME 0 \notin Clips, BaseInv, ClipInv, CountInv, NEW c \in Clips, Sounding(c)
    PROVE  \E i \in Of(c) : EntryOf(c) = {i} /\ \A j \in Of(c) : j # i => muteQueue[j].trigger = TRUE
<1>1. Of(c) # {}
  BY DEF ClipInv
<1>2. PICK i \in Of(c) : EntryOf(c) = {i} /\ \A j \in Of(c) : i <= j
  BY Zenon, <1>1, FirstOf
<1>3. ASSUME NEW j \in Of(c), j # i PROVE muteQueue[j].trigger = TRUE
  <2>1. j \in Nat /\ i \in Nat /\ i <= j
    BY <1>2, EntriesAre DEF Of
  <2>2. ~(j <= i)
    BY <1>3, <2>1
  <2>3. muteQueue[j].trigger # FALSE
    BY Zenon, <2>2 DEF CountInv, Counted
  <2>4. muteQueue[j].trigger \in BOOLEAN
    BY EntryIs
  <2>. QED BY <2>3, <2>4
<1>. QED BY Zenon, <1>2, <1>3

\* Every trigger of a clip is either in an entry that waits or was played, but
\* for those that let a sounding clip play on (CreditExact): JET_TriggerClip,
\* JET_Event and JET_Clear_Queue lose none and count none twice.
THEOREM TriggersCounted == ASSUME ~TailClips, 0 \notin Clips PROVE Spec => []CreditExact
<1>1. BaseInv /\ ClipInv /\ CountInv => CreditExact
  <2>. SUFFICES ASSUME BaseInv, ClipInv, CountInv, NEW c \in Clips
                PROVE  LET own == IF Sounding(c) THEN EntryOf(c) ELSE {}
                       IN  credit[c] = Cardinality({i \in Entries \ own : muteQueue[i] = Entry(c, TRUE)})
    BY DEF CreditExact
  <2>. DEFINE own == IF Sounding(c) THEN EntryOf(c) ELSE {}
              waiting == {i \in Entries \ own : muteQueue[i] = Entry(c, TRUE)}
  <2>1. /\ \A i \in Of(c) : muteQueue[i].trigger = FALSE => Sounding(c) /\ \A j \in Of(c) : i <= j
        /\ credit[c] = Cardinality(Of(c)) - (IF Sounding(c) THEN 1 ELSE 0)
    BY Zenon DEF CountInv, Counted
  <2>2. \A i \in Of(c) : /\ i \in Entries /\ muteQueue[i].trigger \in BOOLEAN
                         /\ muteQueue[i] = Entry(c, muteQueue[i].trigger)
    BY EntryIs
  <2>3. \A i \in Entries : muteQueue[i] = Entry(c, TRUE) => i \in Of(c) /\ muteQueue[i].trigger = TRUE
    BY DEF Of, Entry
  <2>4. IsFiniteSet(Of(c)) /\ Cardinality(Of(c)) \in Nat
    BY OfFinite, EntriesAre
  <2>5. CASE Sounding(c)
    <3>1. PICK i \in Of(c) : EntryOf(c) = {i} /\ \A j \in Of(c) : j # i => muteQueue[j].trigger = TRUE
      BY Zenon, <2>5, OwnEntry
    <3>2. own = {i}
      BY <2>5, <3>1
    <3>3. \A j \in Of(c) : j # i => muteQueue[j] = Entry(c, TRUE)
      BY Zenon, <2>2, <3>1
    <3>4. waiting = Of(c) \ {i}
      <4>. HIDE DEF own
      <4>. QED BY <2>2, <2>3, <3>2, <3>3
    <3>5. Cardinality(waiting) = Cardinality(Of(c)) - 1
      BY <2>4, <3>4, FS_RemoveElement
    <3>. QED BY <2>1, <2>5, <3>5
  <2>6. CASE ~Sounding(c)
    <3>1. own = {}
      BY <2>6
    <3>2. \A j \in Of(c) : muteQueue[j].trigger = TRUE
      BY Zenon, <2>1, <2>2, <2>6
    <3>3. \A j \in Of(c) : muteQueue[j] = Entry(c, TRUE)
      BY Zenon, <2>2, <3>2
    <3>4. waiting = Of(c)
      <4>. HIDE DEF own
      <4>. QED BY <2>2, <2>3, <3>1, <3>3
    <3>5. credit[c] = Cardinality(Of(c))
      BY <2>1, <2>4, <2>6
    <3>. QED BY <3>4, <3>5
  <2>. QED BY <2>5, <2>6
<1>. QED BY <1>1, AlwaysCount, PTL

\* The types, with the bound that the table sets to the triggers that wait.
THEOREM TypeCorrect == ASSUME ~TailClips, 0 \notin Clips PROVE Spec => []TypeOK
<1>1. BaseInv /\ ClipInv /\ CountInv => TypeOK
  <2>. SUFFICES ASSUME BaseInv, ClipInv, CountInv PROVE TypeOK
    OBVIOUS
  <2>1. ASSUME NEW c \in Clips PROVE credit[c] \in 0 .. JET_MUTE_QUEUE_SIZE
    <3>1. credit[c] = Cardinality(Of(c)) - (IF Sounding(c) THEN 1 ELSE 0)
      BY Zenon DEF CountInv, Counted
    <3>2. /\ Cardinality(Of(c)) \in 0 .. JET_MUTE_QUEUE_SIZE /\ IsFiniteSet(Of(c))
          /\ JET_MUTE_QUEUE_SIZE \in Nat
      BY OfFinite, EntriesAre
    <3>3. CASE Sounding(c)
      <4>1. Of(c) # {}
        BY <3>3 DEF ClipInv
      <4>2. Cardinality(Of(c)) # 0
        BY <3>2, <4>1, FS_EmptySet
      <4>. QED BY <3>1, <3>2, <3>3, <4>2
    <3>4. CASE ~Sounding(c)
      BY <3>1, <3>2, <3>4
    <3>. QED BY <3>3, <3>4
  <2>2. credit \in [Clips -> 0 .. JET_MUTE_QUEUE_SIZE]
    BY <2>1, BaseNow
  <2>. QED BY <2>2, BaseNow DEF TypeOK, AnEntry, ASegment
<1>. QED BY <1>1, AlwaysCount, PTL

\* The next start of a clip that was triggered before it unmutes the track
\* (NextStartPlays): JET_Event finds an entry, and the first one still waits.
THEOREM TriggeredPlays == ASSUME ~TailClips, 0 \notin Clips PROVE Spec => NextStartPlays
<1>1. ASSUME BaseInv, ClipInv, CountInv, [Next]_vars, NEW s \in Slots, NEW c \in Clips,
             inClip[s] = NoClip, inClip'[s] = c, credit[c] > 0
      PROVE  ClipTrack[c] \notin seg'[s].muteFlags
  <2>1. TailClips = FALSE
    BY ClipsAssumption
  <2>2. inClip'[s] # NoClip /\ inClip'[s] # inClip[s]
    BY <1>1, ClipsAre
  <2>3. CASE JET_Clear_Queue
    BY <2>2, <2>3 DEF JET_Clear_Queue
  <2>4. CASE \E d \in Clips : JET_TriggerClip(d)
    BY Zenon, <2>2, <2>4 DEF JET_TriggerClip
  <2>5. ASSUME NEW r \in Slots, NEW d \in Clips, JET_EventClip(r, d)
        PROVE  ClipTrack[c] \notin seg'[s].muteFlags
    <3>1. inClip' = [inClip EXCEPT ![r] = IF inClip[r] = NoClip THEN d ELSE NoClip]
      BY <2>5 DEF JET_EventClip
    <3>2. r = s /\ d = c
      BY <1>1, <2>2, <3>1, BaseNow
    <3>. QED BY Zenon, <1>1, <2>1, <2>5, <3>2, CountEvents
  <2>6. CASE \/ \E u \in UserIDs : JET_QueueSegment(u)
             \/ JET_Play \/ JET_GetEvent \/ EAS_Render
             \/ \E r \in Slots : JET_EventApp(r) \/ JET_EventMarker(r)
             \/ JET_Process \/ ProcessEvent \/ RepeatSegment \/ EndSegment \/ EndProcess
             \/ UNCHANGED vars
    BY Zenon, <1>1, <2>2, <2>6, ClipsSame
  <2>. QED BY Zenon, <1>1, <2>3, <2>4, <2>5, <2>6 DEF Next
<1>2. BaseInv /\ ClipInv /\ CountInv /\ [Next]_vars
        => [\A s \in Slots, c \in Clips :
              /\ inClip[s] = NoClip /\ inClip'[s] = c /\ credit[c] > 0
              /\ \A other \in Slots : inClip[other] # c
              => ClipTrack[c] \notin seg'[s].muteFlags]_vars
  BY Zenon, <1>1
<1>. QED BY <1>2, AlwaysCount, PTL DEF Spec, NextStartPlays
==============================================================================
