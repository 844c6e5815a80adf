--------------------------- MODULE StreamTransport ---------------------------
(***************************************************************************)
(* The stream transport (lib_src/eas_public.c) over the Standard MIDI File *)
(* parser (lib_src/eas_smf.c): the host opens, prepares, pauses, resumes,  *)
(* locates and repeats streams between calls of EAS_Render, which parses   *)
(* every stream up to the end of the frame and then renders the voices.    *)
(*                                                                         *)
(* What is kept: the state of the parser, the flags of the stream (requests*)
(* a later render acts on), the two clocks (the parser's, of the next      *)
(* event; the stream's, up to which it was parsed) in their units of 1/256 *)
(* of a millisecond, and every early return of the parsing loop.  What is  *)
(* abstracted: a song is its tracks merged, one list of events; the voices *)
(* of a stream are none, sounding or ending.  EAS_Render takes a step for  *)
(* each stream it enters and each event it parses; no call of the host     *)
(* comes between them.                                                     *)
(***************************************************************************)
EXTENDS Integers, Sequences

CONSTANTS
    NumStreams,       \* MAX_NUMBER_STREAMS
    Songs,            \* for each stream, the events of its file in the order
                      \* they are parsed
    DefaultConv,      \* tickConv SMF_ParseHeader sets: 1/1024 ms per tick
    AUDIO_FRAME_LENGTH, \* length of a frame in 1/256 ms
    FrameLengths,     \* frame lengths EAS_SetPlaybackRate sets
    Targets,          \* milliseconds EAS_Locate is called with
    Repeats,          \* values EAS_SetRepeat is called with
    JET_INTERFACE,    \* the build option: EAS_Render handles PAUSE and RESUME
    CanYield          \* the host set a maximum load or yields

Streams == 0 .. NumStreams - 1

Length(s) == Len(Songs[s])

\* An event: its tick, what it does, and the tempo it sets (0 for none).
Kinds  == {"note", "other", "bad"}
Events == [tick : Nat, kind : Kinds, tempo : Nat]

ASSUME SongAssumption ==
    /\ NumStreams \in Nat \ {0}
    /\ Songs \in [Streams -> Seq(Events)]
    /\ \A s \in Streams : Songs[s] # <<>>
    /\ \A s \in Streams : \A i \in 1 .. Len(Songs[s]) - 1 :
          Songs[s][i].tick <= Songs[s][i + 1].tick
ASSUME TransportAssumption ==
    /\ DefaultConv \in Nat
    /\ AUDIO_FRAME_LENGTH \in FrameLengths /\ FrameLengths \subseteq Nat
    /\ Targets \subseteq Nat
    /\ Repeats \subseteq Int
    /\ JET_INTERFACE \in BOOLEAN /\ CanYield \in BOOLEAN

VARIABLES
    smf,          \* S_SMF_DATA.state, or "NONE" for a slot without a parser
    next,         \* the event S_SMF_DATA.nextStream stands at
    clock,        \* S_SMF_DATA.time
    tickConv,     \* S_SMF_DATA.tickConv
    voices,       \* the voices of the stream's synthesizer
    flags,        \* S_EAS_STREAM.streamFlags
    time,         \* S_EAS_STREAM.time
    repeatCount,  \* S_EAS_STREAM.repeatCount
    frameLength,  \* S_EAS_STREAM.frameLength
    call,         \* the call of the host in progress
    held,         \* the host paused the stream; it has neither resumed it nor
                  \* located it to its end since
    quiet         \* the host does nothing any more but render

parser == <<smf, next, clock, tickConv, voices>>
stream == <<flags, time, repeatCount, frameLength>>
host   == <<held, quiet>>
vars   == <<parser, stream, call, host>>

Playing  == {"READY", "PLAY"}
\* The states before EAS_STATE_OPEN.
Prepared == Playing \cup {"STOPPING", "PAUSING", "STOPPED", "PAUSED"}
States   == Prepared \cup {"NONE", "OPEN", "ERROR"}
Flags    == {"PARSED", "PAUSE", "LOCATE", "RESUME"}

\* A call: what it does, to which stream, how far it is, the end time and the
\* last event time of EAS_ParseEvents.
Idle  == [op |-> "idle", stream |-> 0, step |-> "none", end |-> 0, last |-> 0]
Calls == [op : {"idle", "render", "locate", "metadata"}, stream : Streams,
          step : {"none", "enter", "parse", "leave", "voices"},
          end : Nat, last : Nat]

TypeOK ==
    /\ smf \in [Streams -> States]
    /\ next \in [Streams -> Nat \ {0}] /\ \A s \in Streams : next[s] <= Length(s) + 1
    /\ clock \in [Streams -> Nat]
    /\ tickConv \in [Streams -> Nat]
    /\ voices \in [Streams -> {"none", "sounding", "ending"}]
    /\ flags \in [Streams -> SUBSET Flags]
    /\ time \in [Streams -> Nat]
    /\ repeatCount \in [Streams -> Int]
    /\ frameLength \in [Streams -> FrameLengths]
    /\ call \in Calls
    /\ held \in [Streams -> BOOLEAN]
    /\ quiet \in BOOLEAN

\* Both clocks count 1/256 ms; events are compared in milliseconds.
Millis(t) == t \div 256
Ticks(n, conv) == (n * conv) \div 4

Ended(s) == next[s] > Length(s)

\* SMF_State: a stream that stops or pauses has done so when its voices ended.
Settled(st) == IF st = "STOPPING" THEN "STOPPED"
               ELSE IF st = "PAUSING" THEN "PAUSED" ELSE st

\* Mutant of Seen: the voices are not waited for.
SeenAtOnce(s) == Settled(smf[s])

Seen(s) == IF voices[s] = "none" THEN Settled(smf[s]) ELSE smf[s]

\* The voices after VMMuteAllVoices or VMReleaseAllVoices.
Damped(v) == IF v = "sounding" THEN "ending" ELSE v

Init ==
    /\ smf = [s \in Streams |-> "NONE"]
    /\ next = [s \in Streams |-> 1]
    /\ clock = [s \in Streams |-> 0]
    /\ tickConv = [s \in Streams |-> DefaultConv]
    /\ voices = [s \in Streams |-> "none"]
    /\ flags = [s \in Streams |-> {}]
    /\ time = [s \in Streams |-> 0]
    /\ repeatCount = [s \in Streams |-> 0]
    /\ frameLength = [s \in Streams |-> AUDIO_FRAME_LENGTH]
    /\ call = Idle
    /\ held = [s \in Streams |-> FALSE]
    /\ quiet = FALSE

-----------------------------------------------------------------------------
(* Calls of the host, between frames.                                      *)

HostCalls(s) == call = Idle /\ ~quiet /\ smf[s] # "NONE"

\* EAS_OpenFile and SMF_CheckFileType: the first slot that is free.
EAS_OpenFile(s) ==
    /\ call = Idle /\ ~quiet
    /\ smf[s] = "NONE" /\ \A t \in Streams : t < s => smf[t] # "NONE"
    /\ smf' = [smf EXCEPT ![s] = "OPEN"]
    /\ next' = [next EXCEPT ![s] = 1]
    /\ clock' = [clock EXCEPT ![s] = 0]
    /\ tickConv' = [tickConv EXCEPT ![s] = DefaultConv]
    /\ flags' = [flags EXCEPT ![s] = {}]
    /\ time' = [time EXCEPT ![s] = 0]
    /\ repeatCount' = [repeatCount EXCEPT ![s] = 0]
    /\ frameLength' = [frameLength EXCEPT ![s] = AUDIO_FRAME_LENGTH]
    /\ UNCHANGED <<voices, call, host>>

\* EAS_Prepare: the clock starts at the first event.
EAS_Prepare(s) ==
    /\ HostCalls(s) /\ smf[s] = "OPEN"
    /\ smf' = [smf EXCEPT ![s] = "READY"]
    /\ clock' = [clock EXCEPT ![s] = Ticks(Songs[s][1].tick, tickConv[s])]
    /\ UNCHANGED <<next, tickConv, voices, stream, call, host>>

\* EAS_CloseFile: the synthesizer is shut down with its voices.
EAS_CloseFile(s) ==
    /\ HostCalls(s)
    /\ smf' = [smf EXCEPT ![s] = "NONE"]
    /\ voices' = [voices EXCEPT ![s] = "none"]
    /\ held' = [held EXCEPT ![s] = FALSE]
    /\ UNCHANGED <<next, clock, tickConv, stream, call, quiet>>

EAS_SetRepeat(s, count) ==
    /\ HostCalls(s)
    /\ repeatCount' = [repeatCount EXCEPT ![s] = count]
    /\ UNCHANGED <<parser, flags, time, frameLength, call, host>>

EAS_SetPlaybackRate(s, length) ==
    /\ HostCalls(s)
    /\ frameLength' = [frameLength EXCEPT ![s] = length]
    /\ UNCHANGED <<parser, flags, time, repeatCount, call, host>>

\* EAS_State: asking for the state is what completes a pause or a stop.
EAS_State(s) ==
    /\ HostCalls(s)
    /\ smf' = [smf EXCEPT ![s] = Seen(s)]
    /\ UNCHANGED <<next, clock, tickConv, voices, stream, call, host>>

\* EAS_Pause and SMF_Pause: allowed while playing, or after a resume.
EAS_Pause(s) ==
    /\ HostCalls(s)
    /\ Seen(s) \in Playing \/ "RESUME" \in flags[s]
    /\ flags' = [flags EXCEPT ![s] = (@ \ {"RESUME"}) \cup {"PAUSE"}]
    /\ IF Seen(s) = "STOPPED"
       THEN /\ smf' = [smf EXCEPT ![s] = "STOPPED"]
            /\ UNCHANGED <<voices, held>>
       ELSE /\ smf' = [smf EXCEPT ![s] = "PAUSING"]
            /\ voices' = [voices EXCEPT ![s] = Damped(@)]
            /\ held' = [held EXCEPT ![s] = TRUE]
    /\ UNCHANGED <<next, clock, tickConv, time, repeatCount, frameLength, call, quiet>>

\* EAS_Resume and SMF_Resume: allowed while paused, or after a pause.
EAS_Resume(s) ==
    /\ HostCalls(s)
    /\ Seen(s) \in {"PAUSED", "PAUSING"} \/ "PAUSE" \in flags[s]
    /\ flags' = [flags EXCEPT ![s] = (@ \ {"PAUSE"}) \cup {"RESUME"}]
    /\ smf' = [smf EXCEPT ![s] = IF Seen(s) = "STOPPED" THEN "STOPPED" ELSE "PLAY"]
    /\ held' = [held EXCEPT ![s] = FALSE]
    /\ UNCHANGED <<next, clock, tickConv, voices, time, repeatCount, frameLength, call, quiet>>

\* Mutant of SMF_Reset: the clock runs on.
SMF_ResetKeepingClock(s) ==
    /\ smf' = [smf EXCEPT ![s] = "READY"]
    /\ next' = [next EXCEPT ![s] = 1]
    /\ voices' = [voices EXCEPT ![s] = "none"]
    /\ UNCHANGED <<clock, tickConv>>

\* SMF_Reset: back to the first event, without a voice.
SMF_Reset(s) ==
    /\ smf' = [smf EXCEPT ![s] = "READY"]
    /\ next' = [next EXCEPT ![s] = 1]
    /\ clock' = [clock EXCEPT ![s] = 0]
    /\ voices' = [voices EXCEPT ![s] = "none"]
    /\ UNCHANGED tickConv

Parsing(op, s, end) ==
    [op |-> op, stream |-> s, step |-> "parse", end |-> end, last |-> 0]

\* Mutant of PausedForNow: a stream that is still going down does not count.
PausedOnly(s) == Seen(s) = "PAUSED" /\ "RESUME" \notin flags[s]

\* "If we were paused and not going to resume."
PausedForNow(s) == Seen(s) \in {"PAUSING", "PAUSED"} /\ "RESUME" \notin flags[s]

\* EAS_Locate: a stream that was paused is to be paused again when the events
\* before the requested time have been parsed.
EAS_Locate(s, ms) ==
    /\ HostCalls(s)
    /\ Seen(s) \in Prepared
    /\ ms # Millis(time[s])
    /\ flags' = [flags EXCEPT ![s] = (@ \cup {"LOCATE"} \cup
                    (IF PausedForNow(s) THEN {"PAUSE"} ELSE {})) \ {"PARSED"}]
    /\ SMF_Reset(s)
    /\ time' = [time EXCEPT ![s] = 0]
    /\ call' = Parsing("locate", s, 256 * ms)
    /\ UNCHANGED <<repeatCount, frameLength, host>>

\* EAS_ParseMetaData: the whole file is parsed, and the parser reset.
EAS_ParseMetaData(s) ==
    /\ HostCalls(s)
    /\ Seen(s) \in Prepared
    /\ flags' = [flags EXCEPT ![s] = @ \ {"PARSED"}]
    /\ SMF_Reset(s)
    /\ time' = [time EXCEPT ![s] = 0]
    /\ held' = [held EXCEPT ![s] = FALSE]
    /\ call' = Parsing("metadata", s, 0)
    /\ UNCHANGED <<repeatCount, frameLength, quiet>>

\* From here on the host only renders.
HostQuiet ==
    /\ call = Idle /\ ~quiet
    /\ quiet' = TRUE
    /\ UNCHANGED <<parser, stream, call, held>>

-----------------------------------------------------------------------------
(* EAS_Render, and the parsing that EAS_Locate and EAS_ParseMetaData share *)
(* with it.                                                                *)

EAS_Render ==
    /\ call = Idle
    /\ call' = [Idle EXCEPT !.op = "render", !.step = "enter"]
    /\ UNCHANGED <<parser, stream, host>>

\* On to the next stream, or, after the last one, to the voices.
NextStream ==
    call' = IF call.stream + 1 < NumStreams
            THEN [call EXCEPT !.stream = @ + 1, !.step = "enter"]
            ELSE [call EXCEPT !.step = "voices"]

SkipStream ==
    LET s == call.stream
    IN  /\ call.step = "enter" /\ smf[s] = "NONE"
        /\ flags' = [flags EXCEPT ![s] = @ \ {"LOCATE"}]
        /\ NextStream
        /\ UNCHANGED <<parser, time, repeatCount, frameLength, host>>

\* With JET_INTERFACE a pending PAUSE pauses the stream (again), and a pending
\* RESUME resumes one that is paused.
EnterStream ==
    LET s     == call.stream
        pause == JET_INTERFACE /\ "PAUSE" \in flags[s]
        pauses == pause /\ smf[s] # "STOPPED"
        quieter == IF pauses THEN Damped(voices[s]) ELSE voices[s]
        before == IF pauses THEN "PAUSING" ELSE smf[s]
        seen   == IF quieter = "none" THEN Settled(before) ELSE before
        resume == JET_INTERFACE /\ seen = "PAUSED" /\ "RESUME" \in flags[s]
    IN  /\ call.step = "enter" /\ smf[s] # "NONE"
        /\ voices' = [voices EXCEPT ![s] = quieter]
        /\ smf' = [smf EXCEPT ![s] = IF resume THEN "PLAY" ELSE seen]
        /\ flags' = [flags EXCEPT ![s] = @ \ ({"LOCATE"}
                        \cup (IF pause THEN {"PAUSE"} ELSE {})
                        \cup (IF resume THEN {"RESUME"} ELSE {}))]
        /\ call' = IF "PARSED" \in flags[s]
                   THEN [call EXCEPT !.step = "leave"]
                   ELSE [call EXCEPT !.step = "parse", !.end = time[s] + frameLength[s],
                                     !.last = 0]
        /\ UNCHANGED <<next, clock, tickConv, time, repeatCount, frameLength, host>>

\* EAS_ParseEvents returns to its caller.
Return ==
    call' = IF call.op = "locate" THEN Idle ELSE [call EXCEPT !.step = "leave"]

\* Mutant of Due: an event in the last millisecond is left.
DueEarlier(s) == call.op = "metadata" \/ Millis(clock[s]) + 1 < Millis(call.end)

\* An event before the end time is parsed now.
Due(s) == call.op = "metadata" \/ Millis(clock[s]) < Millis(call.end)

\* The stream does not play (any more).
ParseStopped ==
    LET s == call.stream
    IN  /\ call.step = "parse" /\ Seen(s) \notin Playing
        /\ smf' = [smf EXCEPT ![s] = Seen(s)]
        /\ time' = [time EXCEPT ![s] = IF call.op = "render" THEN @ ELSE 256 * call.last]
        /\ flags' = [flags EXCEPT ![s] = @ \cup {"PARSED"}]
        /\ Return
        /\ UNCHANGED <<next, clock, tickConv, voices, repeatCount, frameLength, host>>

\* SMF_Event: one event, and the clock goes to the next one; after the last
\* one the stream stops.  A workload or a yield may end the loop after it.
ParseEvent ==
    LET s    == call.stream
        ev   == Songs[s][next[s]]
        conv == IF ev.tempo = 0 THEN tickConv[s] ELSE ev.tempo
        last == next[s] = Length(s)
        started == IF ev.kind = "note" /\ call.op = "render" THEN "sounding" ELSE voices[s]
    IN  /\ call.step = "parse" /\ Seen(s) \in Playing
        /\ Due(s) /\ ~Ended(s) /\ ev.kind # "bad"
        /\ tickConv' = [tickConv EXCEPT ![s] = conv]
        /\ next' = [next EXCEPT ![s] = @ + 1]
        /\ smf' = [smf EXCEPT ![s] = IF last THEN "STOPPING" ELSE "PLAY"]
        /\ voices' = [voices EXCEPT ![s] = IF last THEN Damped(started) ELSE started]
        /\ clock' = [clock EXCEPT ![s] =
                        IF last THEN @ ELSE @ + Ticks(Songs[s][next[s] + 1].tick - ev.tick, conv)]
        /\ held' = [held EXCEPT ![s] = @ /\ ~last]
        /\ \/ call' = [call EXCEPT !.last = Millis(clock[s])]
           \/ CanYield /\ Return
        /\ UNCHANGED <<stream, quiet>>

\* Mutant of AfterFailure: the state SMF_Event came with.
UnchangedAfterFailure(s) == smf[s]

\* SMF_Event gives up the file it cannot read; without an event left it fails
\* before it does.
AfterFailure(s) == IF Ended(s) THEN smf[s] ELSE "ERROR"

\* The event cannot be read, or there is none: the call fails.
ParseFails ==
    LET s == call.stream
    IN  /\ call.step = "parse" /\ Seen(s) \in Playing /\ Due(s)
        /\ ~Ended(s) => Songs[s][next[s]].kind = "bad"
        /\ smf' = [smf EXCEPT ![s] = AfterFailure(s)]
        /\ call' = Idle
        /\ UNCHANGED <<next, clock, tickConv, voices, stream, host>>

\* No more events before the end time.
ParseDone ==
    LET s == call.stream
    IN  /\ call.step = "parse" /\ Seen(s) \in Playing /\ ~Due(s)
        /\ time' = [time EXCEPT ![s] = call.end]
        /\ flags' = [flags EXCEPT ![s] = @ \cup {"PARSED"}]
        /\ Return
        /\ UNCHANGED <<parser, repeatCount, frameLength, host>>

\* Mutant of CountDown: the count is not counted down.
CountKept(n) == n

\* Mutant of ToRepeat: a negative count does not repeat.
ToRepeatPositive(s) == repeatCount[s] > 0

CountDown(n) == IF n > 0 THEN n - 1 ELSE n
ToRepeat(s)  == repeatCount[s] # 0

\* EAS_Render gives up the frame when no flag of the stream is set; else it
\* restarts a stopped stream that is to be repeated.
LeaveStream ==
    LET s == call.stream
    IN  /\ call.op = "render" /\ call.step = "leave"
        /\ IF flags[s] = {}
           THEN /\ call' = Idle
                /\ UNCHANGED <<parser, time, repeatCount>>
           ELSE /\ NextStream
                /\ IF ToRepeat(s) /\ Seen(s) = "STOPPED"
                   THEN /\ SMF_Reset(s)
                        /\ time' = [time EXCEPT ![s] = 0]
                        /\ repeatCount' = [repeatCount EXCEPT ![s] = CountDown(@)]
                   ELSE /\ smf' = [smf EXCEPT ![s] = IF ToRepeat(s) THEN Seen(s) ELSE @]
                        /\ UNCHANGED <<next, clock, tickConv, voices, time, repeatCount>>
        /\ UNCHANGED <<flags, frameLength, host>>

\* EAS_ParseMetaData rewinds the file it has parsed.
LeaveMetaData ==
    LET s == call.stream
    IN  /\ call.op = "metadata" /\ call.step = "leave"
        /\ IF Seen(s) \in Prepared
           THEN SMF_Reset(s) /\ time' = [time EXCEPT ![s] = 0]
           ELSE UNCHANGED <<parser, time>>
        /\ call' = Idle
        /\ UNCHANGED <<flags, repeatCount, frameLength, host>>

\* VMRender: a voice may end in any frame.  Every stream is to be parsed
\* again before the next one.
RenderVoices ==
    /\ call.step = "voices"
    /\ voices' \in [Streams -> {"none", "sounding", "ending"}]
    /\ \A s \in Streams : voices'[s] \in {voices[s], "none"}
    /\ flags' = [s \in Streams |-> IF smf[s] = "NONE" THEN flags[s]
                                   ELSE flags[s] \ {"PARSED"}]
    /\ call' = Idle
    /\ UNCHANGED <<smf, next, clock, tickConv, time, repeatCount, frameLength, host>>

-----------------------------------------------------------------------------
Host(s) ==
    \/ EAS_OpenFile(s)
    \/ EAS_Prepare(s)
    \/ EAS_CloseFile(s)
    \/ EAS_State(s)
    \/ EAS_Pause(s)
    \/ EAS_Resume(s)
    \/ EAS_ParseMetaData(s)
    \/ \E ms \in Targets : EAS_Locate(s, ms)
    \/ \E count \in Repeats : EAS_SetRepeat(s, count)
    \/ \E length \in FrameLengths : EAS_SetPlaybackRate(s, length)

Parse ==
    \/ ParseStopped
    \/ ParseEvent
    \/ ParseFails
    \/ ParseDone

Engine ==
    \/ EAS_Render
    \/ SkipStream
    \/ EnterStream
    \/ Parse
    \/ LeaveStream
    \/ LeaveMetaData
    \/ RenderVoices

Next ==
    \/ \E s \in Streams : Host(s)
    \/ HostQuiet
    \/ Engine

Spec == Init /\ [][Next]_vars

\* The host goes on rendering, and a voice that was muted or released ends.
FairSpec ==
    /\ Spec
    /\ WF_vars(Engine)
    /\ \A s \in Streams : SF_vars(RenderVoices /\ voices[s] = "ending" /\ voices'[s] = "none")

-----------------------------------------------------------------------------
(* Properties.                                                             *)

\* A stream whose file reports it stopped or paused has no voice left: the
\* host may close it without cutting a sound off.
SilentWhenStill ==
    \A s \in Streams : smf[s] \in {"STOPPED", "PAUSED"} => voices[s] = "none"

\* The position of a stream never passes an event that was not parsed, over
\* pauses, locates, repeats and frames that were given up: no event is lost.
NothingOverdue ==
    \A s \in Streams :
        smf[s] \in Prepared /\ ~Ended(s) => Millis(time[s]) <= Millis(clock[s])

\* Until the host resumes it, a paused stream plays no event, wherever before
\* its end the host locates it to.  (The EAS_Render of a build without
\* JET_INTERFACE does not look at the PAUSE flag, and this fails.)
PauseHolds == [][
    \A s \in Streams : next'[s] # next[s] /\ held[s] => call.op # "render"]_vars

\* What makes these hold in every step.  A stream that is only open has not
\* been located, paused or resumed; the parser of EAS_Locate plays until its
\* last event; the clocks are in order even in a stream that failed.
OpenInv == \A s \in Streams :
    smf[s] = "OPEN" => time[s] = 0 /\ flags[s] \cap {"PAUSE", "RESUME"} = {}
AheadInv ==
    /\ call.step = "enter" => call.op = "render"
    /\ call.step = "parse" /\ call.op # "render" =>
          \/ smf[call.stream] \in Playing
          \/ smf[call.stream] = "STOPPING" /\ Ended(call.stream)
ClockInv == \A s \in Streams :
    smf[s] \notin {"NONE", "OPEN"} /\ ~Ended(s) => Millis(time[s]) <= Millis(clock[s])
TransportInv == OpenInv /\ AheadInv /\ ClockInv /\ SilentWhenStill

\* A stream that is held is paused, or has a request to pause that EAS_Render
\* meets before it parses an event.  EAS_ParseMetaData forgets the pause.
HeldInv ==
    /\ \A s \in Streams : held[s] =>
          /\ "RESUME" \notin flags[s]
          /\ smf[s] \in Playing \cup {"PAUSING", "PAUSED", "ERROR"}
          /\ "PAUSE" \in flags[s] \/ smf[s] \in {"PAUSING", "PAUSED"}
    /\ call.op = "render" /\ call.step = "parse" /\ held[call.stream] =>
          smf[call.stream] \in {"PAUSING", "PAUSED"}
    /\ call.op = "metadata" => ~held[call.stream]

\* The time an event is played at: that of the file, from its ticks and the
\* tempos before it.
ConvAt(s, i) ==
    LET set == {j \in 1 .. i : Songs[s][j].tempo # 0}
    IN  IF set = {} THEN DefaultConv
        ELSE Songs[s][CHOOSE j \in set : \A k \in set : k <= j].tempo
TimeOf(s) ==
    LET t[i \in 1 .. Length(s)] ==
          IF i = 1 THEN Ticks(Songs[s][1].tick, DefaultConv)
          ELSE t[i - 1] + Ticks(Songs[s][i].tick - Songs[s][i - 1].tick, ConvAt(s, i - 1))
    IN  t
EventTimeExact ==
    \A s \in Streams : smf[s] \in Prepared /\ ~Ended(s) => clock[s] = TimeOf(s)[next[s]]

\* A stream that plays but has no event left, which no call can play.
Exhausted(s) == smf[s] = "PLAY" /\ Ended(s)
Sound == quiet /\ \A t \in Streams : ~Exhausted(t)

\* Left alone, a stream that is played a finite number of times stops for good.
PlaysToEnd == \A s \in Streams :
    (Sound /\ ~held[s] /\ smf[s] \in Playing /\ repeatCount[s] >= 0)
        ~> [](smf[s] \in {"STOPPED", "ERROR"})

\* A stream repeated forever starts again whenever it has stopped.
RepeatsForever == \A s \in Streams :
    (Sound /\ ~held[s] /\ smf[s] = "STOPPED" /\ repeatCount[s] < 0) ~> smf[s] = "PLAY"

\* Frames given up for the workload, and the failure of one stream's file,
\* only delay the others: the voices are rendered again and again.
FramesKeepComing == Sound ~> call.step = "voices"

-----------------------------------------------------------------------------
(* What comments and tests of the code say, and the code does not do.      *)

\* What EAS_State answers.
Reported(s) ==
    IF repeatCount[s] # 0 /\ Seen(s) = "STOPPED" THEN "PLAY"
    ELSE IF Seen(s) \notin {"PAUSED", "PAUSING"} THEN Seen(s)
    ELSE IF "RESUME" \in flags[s] THEN "PLAY"
    ELSE IF "PAUSE" \notin flags[s] THEN Seen(s)
    ELSE IF "LOCATE" \in flags[s] THEN "PAUSED" ELSE "PAUSING"

\* SMF_Pause, SMF_Resume: "can't pause a stopped stream", "can't resume a
\* stopped stream": a file whose last event was played plays on only after
\* it was reset.
StoppedStaysStopped == \A s \in Streams : ~Exhausted(s)

\* EAS_State: "if stream is about to be paused, report it as paused".
PauseReported ==
    \A s \in Streams : call = Idle /\ "PAUSE" \in flags[s] /\ smf[s] \in Prepared
                        /\ Seen(s) # "STOPPED"
        => Reported(s) \in {"PAUSED", "PAUSING"}

\* EAS_Render: "if we haven't finished parsing from last time, do it now":
\* the voices are rendered when every stream is parsed.
RenderedWhenParsed ==
    call.step = "voices" =>
        \A s \in Streams : smf[s] \in Playing => "PARSED" \in flags[s]

\* EAS_CloseFile: a stream to be closed should have paused, "EAS_State returns
\* EAS_PAUSED": the host that waits for it gets the answer.
PauseCompletes == \A s \in Streams :
    (quiet /\ held[s] /\ smf[s] = "PAUSING") ~> (Reported(s) = "PAUSED")

\* SeekTest: after EAS_Locate succeeds the location is the one requested, if
\* the file goes that far.
LocateReaches == [][
    \A s \in Streams :
        call.op = "locate" /\ call' = Idle /\ call.stream = s /\ smf'[s] \in Playing
        => time'[s] = call.end]_vars
=============================================================================
