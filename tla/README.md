# A TLA+ model of the Sonivox EAS synthesizer

Sonivox EAS is a wavetable/FM MIDI synthesizer: a host opens streams (Standard
MIDI Files, XMF, RMID, raw MIDI, JET content), calls `EAS_Render` once per
128-sample frame, and receives PCM.  Nothing in it is threaded.  What makes it
hard is that everything a call starts is finished by *later frames*: a note-off
is put off until the note has sounded, a mute ramps down, a stolen voice belongs
to two notes, a stream pauses by asking its voices to end, a JET segment is
prepared while another one plays, and any API call may come between two frames.

This directory holds the TLA+ modules of that logic, the TLC configurations that
check them, and the TLAPS proofs.  The paths below are relative to
`src/arm-wt-22k/` of the repository, which holds the library (`lib_src/`), its
host layer (`host_src/`, `src/`), and nothing else that runs.

## 1. Inventory

| Component | Source | State | Operations | What is hard |
|---|---|---|---|---|
| Voice manager | `lib_src/eas_voicemgt.c`, `eas_synth.h` | pool of 64 voices, voice counters, one `S_SYNTH` per MIDI stream (at most 4), polyphony limits, pedals | note on/off, controllers, steal and retarget, mute/release all, reset, priorities and polyphony, one frame | a stolen voice belongs to two notes, possibly of two streams; deferred note-offs and mutes; counters kept incrementally |
| Wavetable and DLS voices | `lib_src/eas_wtsynth.c`, `eas_wtengine.c`, `eas_dlssynth.c` | envelope and phase of each voice | start, release, mute, sustain, update | what the voice manager's flags mean to an envelope; when a voice is done |
| MIDI parser | `lib_src/eas_midi.c` | running status, bytes seen, SysEx state | one byte of a MIDI stream | running status across real-time and SysEx bytes; a SysEx state machine with several message families |
| SMF parser | `lib_src/eas_smf.c` | one stream per track with its next time, tempo, file position, state | prepare, time, event, state, pause, resume, reset, locate, close | tracks merged by time; pausing is finished only when the voices have ended; tempo arithmetic in 32 bits |
| Stream transport | `lib_src/eas_public.c` | stream table, flags (PARSED, PAUSE, LOCATE, RESUME), repeat count, playback rate, time | open, prepare, render, pause, resume, locate, repeat, close, state | requests are flags acted on by a later render; repeat and locate re-read the file |
| JET engine | `lib_src/jet.c` | ring of 3 segments, ring of events, ring of application events, mute queue | open/close file, queue, play, pause, trigger clip, mute, clear, process, event callback | a segment is opened, prepared, armed and closed by different calls; clip/mute events come back from the parser in mid-frame |
| XMF, RMID containers | `lib_src/eas_xmf.c`, `src/rmidi.c` | offsets of the SMF and DLS chunks, inner SMF and DLS handles | check file type, then delegate to SMF | a container forwards every call; partial failures while opening |
| DLS and SF2 loaders | `lib_src/eas_mdls.c`, `eas_sf2.c` | articulations, regions, reference count | two-pass parse, convert, add reference, clean up | lifetime shared between global library and streams |
| PCM streams, tone control | `lib_src/eas_pcm.c`, `eas_tonecontrol.c` | ADPCM streams; tone sequences with nested blocks | open, render, close; parse blocks | loops and block nesting |
| Effects, mixer, math | `eas_reverb.c`, `eas_chorus.c`, `eas_mixer.c`, `eas_math.c`, `eas_pan.c`, filters | delay lines | DSP | numeric only |
| Host layer | `src/hostmm_ng.c`, `host_src/eas_hostmm.c` | file handles, duplicates, positions | open, read, seek, dup, close | reference counts of duplicated handles |
| Built only on request | `eas_fm*.c`, `eas_imelody.c`, `eas_rtttl.c`, `eas_ota.c`, `eas_imaadpcm.c`, `eas_wavefile.c`, `host_src/eas_main.c`, `eas_wave.c` | - | - | not in the default build |
| Data | `wt_*.c`, `hybrid_22khz_mcu.c`, `eas_fmsndlib.c` tables | - | - | generated sound libraries |

How the parts interact.  The host calls `EAS_*` functions and, once per frame,
`EAS_Render`.  `EAS_Render` walks over the streams; each stream's parser turns
the events up to the end of the frame into calls of the voice manager
(`VMStartVoice`, `VMStopNote`, `VMControlChange`), or, for JET, into a callback
(`JET_Event`).  Then the voice manager renders every voice (`VMRender`), asks the
synthesizer which ones have ended, and completes what was put off.  Last comes
`JET_Process`.  The parsers ask the voice manager whether a stream's voices have
ended (`VMActiveVoices`); that is the only thing that comes back.

What makes each component correct:

* Voice manager: the counters equal what a recount of the voices gives; a note-off
  that was put off is delivered; a voice that goes down ends; a stolen voice is
  treated as its old note and as its next one by the right loops; the limits on
  polyphony are reached; a stream of low priority takes no voice from a higher one.
* Stream transport and SMF parser: no event is lost or played twice, and each comes
  at its time, over pauses, locates, repeats and frames cut short; a stream that is
  reported still is silent; a paused stream stays paused; a stream left alone ends.
* JET: the ring of segments is a playlist, without gaps, without a segment lost.
* MIDI parser: the messages are those of the byte stream, whatever comes between.
* Host layer and loaders: every handle is freed once, and after its last use.

## 2. Plan

| Module | Models | Builds on | State |
|---|---|---|---|
| `VoiceManager` | `eas_voicemgt.c` with what `eas_wtsynth.c` does to a voice's state | - | done; programs and the workload are left |
| `VoiceManagerProofs` | types, deferrals, resets, priorities; the counters and the polyphony of one stream | `VoiceManager` | done |
| `StreamTransport` | `eas_public.c` over `eas_smf.c` | - | done; raw MIDI streams and failing opens are left |
| `StreamTransportProofs` | types, clocks, silence, pauses, the time of every event | `StreamTransport` | done |
| `JetPlaylist` | what the queue of segments promises | - | done |
| `JetSegments` | the queue of segments of `jet.c` | refines `JetPlaylist` | done |
| `EventFifo`, `EventRing` | `JET_WriteQueue`, `JET_ReadQueue`: a ring that drops when full | refines a bounded queue | done |
| `JetClips` | `JET_TriggerClip`, `JET_Event`, mutes of tracks, the two rings | has two `EventRing` | done |
| `JetClipsProofs` | types, the rings as queues of any size, loop markers, mutes of tracks, triggers | `JetClips` | done |
| `SmfScore`, `SmfTracks` | the merge of the tracks of a file, ticks and tempos with their widths | refines a list of events in order of time | done |
| `SmfTracksProofs` | types, the merge is timely, the refinement of `SmfScore`, the clock | `SmfTracks` | done |
| `MidiWire`, `MidiStream` | `eas_midi.c`: running status, real-time bytes, SysEx states | refines a reader of whole messages | done |
| `MidiStreamProofs` | types, no message left half read, the refinement of `MidiWire` | `MidiStream` | done |
| `SpMidi` | the SP-MIDI table, channel muting and voice pools of `eas_voicemgt.c` | - | done |
| `SpMidiProofs` | types, voices of muted channels, the counts of the pools, the rules of the table | `SpMidi` | done |
| `StreamTable` | slots, files that are prepared in part, raw MIDI streams, reference counts, file handles, `EAS_Init`, `EAS_Shutdown` | - | done |
| `StreamTableProofs` | the counts of synthesizers and of collections, the handles, and what is lost | `StreamTable` | done |
| `JetSegmentsProofs` | types, the ring, the refinement of `JetPlaylist`, no segment stranded, the mute flags | `JetSegments` | done; liveness stays with TLC |
| `HostFiles` | positions of duplicated handles and hosts with a `readAt` of their own | - | then |

The order is that of importance: what every note goes through, what every stream
goes through, what the games' engine on top of them does, and then the parsers and
handles below.  The abstract specifications are the playlist of JET (`JetPlaylist`),
a bounded queue for its rings (`EventFifo`), a list of events in order of time for
the merge of tracks (`SmfScore`), and a reader of whole messages for the decoder of
bytes (`MidiWire`).  Every invariant and action property that a run checks is a theorem as well;
what is left to TLC is liveness (section 5).

Every module is written to be proved about: parameters are CONSTANTS with named
assumptions, one action is one operation of the code, invariants are conjunctions of
named parts, and no module declares a RECURSIVE operator.

## 3. The modules and the code

### VoiceManager

| State | Code |
|---|---|
| `voice[v]` | `S_SYNTH_VOICE`: state, channel, note, region, the pending `nextChannel`, `nextNote`, `nextRegion`, flags; `silent` stands for a gain that has come down |
| `activeVoices`, `maxPolyphony` | the fields of `S_VOICE_MGR` |
| `numActive`, `poolCount` | `numActiveVoices` and `poolCount[0]` of each `S_SYNTH`, with their widths |
| `synth[s]` | `refCount`, `maxPolyphony`, `priority`, the two flags `RESET_IS_REQUESTED` and `DEFERRED_MIDI_NOTE_OFF_PENDING` |
| `pedal[s]` | `CHANNEL_FLAG_SUSTAIN_PEDAL` of its channels |
| `phase` | how far `VMRender` is: `NumSynths` between frames |
| `crashed` | a null `S_SYNTH` was dereferenced (a voice of a closed stream, see section 6) |

One action is one function that a parser or a host calls: `VMInitMIDI`,
`VMIncRefCount`, `VMMIDIShutdown`, `VMReset` (which waits) and `VMResetForce`,
`VMMuteAllVoices`, `VMReleaseAllVoices`, `VMSetPolyphony`, `VMSetSynthPolyphony`,
`VMSetPriority`, `VMStartVoice`, `VMStopNote`, the pedal's two edges,
`ResetControllers` and `VMAllNotesOff`.  `VMStartVoice` is the whole of starting a
note: the limit of two voices for a key, key groups, a free voice or one to steal.  A
frame is `VMAddSamples` (every voice is rendered; any set of them may be done) and
then `EndOfFrame` for each synthesizer (deferred note-offs, a reset that waited).  No
call comes between, as in the code.  The helpers `Muted`, `Released`, `Held`,
`Started`, `StolenFor` are what the synthesizer's `pf` functions do to a voice.

Which voice is stolen depends in the code on age, gain and velocity; here it is any
voice the code may choose.  When a voice ends depends on its envelope; here any voice
may end in any frame.

### StreamTransport

| State | Code |
|---|---|
| `smf[s]` | `S_SMF_DATA.state`, `"NONE"` for a free slot |
| `next[s]` | the event at which `nextStream` stands, in the list of the file's merged tracks |
| `clock[s]`, `tickConv[s]` | `S_SMF_DATA.time`, `.tickConv` |
| `voices[s]` | whether `VMActiveVoices` is zero, and whether the voices are going down |
| `flags[s]`, `time[s]`, `repeatCount[s]`, `frameLength[s]` | the fields of `S_EAS_STREAM` |
| `call` | the host's call in progress and where `EAS_Render` or `EAS_ParseEvents` is |
| `held[s]`, `quiet` | history: the host paused the stream; the host only renders |

`EAS_OpenFile`, `EAS_Prepare`, `EAS_CloseFile`, `EAS_SetRepeat`,
`EAS_SetPlaybackRate`, `EAS_State`, `EAS_Pause` and `EAS_Resume` are one action each.
`EAS_Locate`, `EAS_ParseMetaData` and `EAS_Render` take several: they enter a stream
(`SkipStream`, `EnterStream`), parse it (`ParseStopped`, `ParseEvent`, `ParseFails`,
`ParseDone`: the four ways an iteration of `EAS_ParseEvents` goes) and leave it
(`LeaveStream`, `LeaveMetaData`), and `RenderVoices` ends the frame.  A failing file
makes `EAS_Render` return in the middle, as it does in the code.  Times are counted
in the code's units of 1/256 ms and compared in whole milliseconds, as the code does.

### JetPlaylist and JetSegments

| State | Code |
|---|---|
| `state`, `entry`, `muteFlags`, `muteUpdate` | `S_JET_SEGMENT` of each slot |
| `stream` | what `EAS_State` answers of the slot's stream, `"none"` for a null handle |
| `muted` | `MIDI_FLAGS_JET_MUTE` of the stream's tracks |
| `playSegment`, `queueSegment`, `numQueuedSegments`, `playing` | the fields of `S_JET_DATA` |
| `file` | whether JET is initialised and its file open |
| `call` | where `JET_Process` is in its loop, with its three local flags |
| `late`, `derailed`, `quiet` | history: a segment was queued while another was stopping, or could not be prepared in its turn; a call to queue one failed half way; the host lets a playlist play and only renders |
| `deferred` | history: the segments that were asked, with `sync`, for other mutes than their streams have; a repeat settles it |

Each `JET_*` call of the application is an action.  `EAS_Render` lets the streams
progress and starts `JET_Process`, which takes one step for each slot, in the order of
the code's loop: `RepeatSegment`, `EndSegment`, `CloseSegment`, `StartNext`,
`PrepareNext` or `PassOver`, and `EndProcess` after the last.  With `CanFail` a call to queue
a segment may fail after it opened it (`JET_QueueSegmentFails`: the segment is in the ring and counted,
`queueSegment` stays) and `JET_Process` may stop at a segment that cannot be prepared
(`PrepareFails`).  `JetPlaylist` is what the
application may rely on, a list of segments of which the first one waits, plays or
pauses; `list` and `mode` of `JetSegments` map the ring to it.

### EventRing, EventFifo and JetClips

| State | Code |
|---|---|
| `queue`, `readIndex`, `writeIndex`, `event` of `EventRing` | the arguments of `JET_WriteQueue` and `JET_ReadQueue` |
| `muteQueue` | `S_JET_DATA.muteQueue`, each byte as clip ID, active and trigger flag |
| `seg` | state, `userID` and `muteFlags` of each slot |
| `appQueue`, `jetQueue` and their indexes | the rings of the application and of `JET_Process` |
| `endOfLoop`, `call` | the local flag of `JET_Process`, and where `EAS_Render` is |
| `inClip`, `marked`, `credit` | history: where each song is in its clips and its loop, and which triggers are still to be played |

`JetClips` is the other half of `jet.c`: the application triggers clips, reads its
events and clears the queue; within `EAS_Render` the songs come to their controllers
in any order (`JET_EventClip` with the whole of the trigger handling, `JET_EventApp`,
`JET_EventMarker`), and `JET_Process` first empties its ring (`ProcessEvent`) and then repeats,
ends or closes segments.  `JetSegments` says when those happen; here they happen whenever
a marker or the end of a stream allows.  The two modules share the slots, and what
one abstracts is what the other is about: muting a track at once (`JetClips`) or with
the flags of a segment (`JetSegments`).

### SmfScore and SmfTracks

| State | Code |
|---|---|
| `song` | the tracks of the file, each a sequence of events with their delta times |
| `state`, `time`, `tickConv`, `flags`, `nextStream` | the fields of `S_SMF_DATA` |
| `ticks[t]`, `pos[t]`, `midiFlags[t]` | `S_SMF_STREAM.ticks`, how far its file position is, and the flags of its `S_MIDI_STREAM` |
| `mode` | the parser mode `SMF_Event` is called with |
| `score`, `pass` | history: the events in order of time, and how often the song was started |

The actions are the functions of the parser's interface that move in the song:
`SMF_Prepare` (with `SMF_ParseHeader`), `SMF_Event` (with `SMF_ParseEvent`,
`SMF_ParseMetaEvent`, `SMF_ParseSysEx`, `SMF_GetDeltaTime`, `SMF_UpdateTime`),
`SMF_Reset` and `SMF_State`.  `SMF_Event` is one action with its ways out: the event is
played, cut by the end of the file, or bad; then its track has another event, at the same
tick or later, or has none, or one whose delta time does not fit into 32 bits.  The
arithmetic of ticks has the widths of the code, as constants.  `Score`, `Tick` and
`TempoBefore` say what the file means, without the parser.  The score has the `Places` of the file, a track
and an index each, ranked by the number of those before them, and `Left` has what is left of it.

### MidiWire and MidiStream

`MidiStream` has the fields of `S_MIDI_STREAM` as its variables; one action is one kind of
byte in `EAS_ParseMIDIStream`, and `SysExData` has one disjunct for each state of
`ProcessSysExMessage` whose bytes have an effect.  `calls` holds what the byte called in the
voice manager.  `MidiWire` reads the same bytes as messages: it keeps the whole message
under way and says of a complete one what it asks for.  `EAS_InitMIDIStream` starts a
track anew, in any of the parser modes.

### SpMidi

| State | Code |
|---|---|
| `voice[v]` | state, channel, `nextChannel` and the sustain flag of each voice |
| `chan[c]` | `pool`, `mip` and `CHANNEL_FLAG_MUTE` of each channel |
| `poolCount`, `poolAlloc` | the arrays of `S_SYNTH`, with the width of `EAS_U8` |
| `spMidi`, `resetReq` | `SYNTH_FLAG_SP_MIDI_ON`, `SYNTH_FLAG_RESET_IS_REQUESTED` |
| `synthPoly`, `maxPoly` | the limits of the stream and of all voices |
| `entries`, `inForce` | the entry of the message under way; history: what the last message lists |

A message is `TableStart`, a `VMSetMIPEntry` for each entry, and `TableEnd` or `TableBad`, as
`MidiStream` calls them; anything else may come in between, since the bytes of a
message may be spread over frames.  The rest are notes, the pedal, mutes, frames,
resets and the two limits on polyphony.  The life of a voice is that of `VoiceManager`
without keys.

### StreamTable

| State | Code |
|---|---|
| `streams[s]` | a slot of `S_EAS_DATA.streams`: the `S_EAS_STREAM`, the `S_SMF_DATA` of its parser (state, `pSynth`, `fileHandle`, the handles of its tracks, `numStreams`) and the `pDLS` of its container |
| `synths[y]` | `S_VOICE_MGR.pSynth[y]`: its `refCount` and its `pDLS` |
| `refs[c]` | `S_DLS.refCount` of a collection, with its 8 bits; 0 is memory that is free |
| `open` | the handles that `EAS_HWOpenFile` and `EAS_HWDupHandle` gave and `EAS_HWCloseFile` did not take |
| `globalDLS` | `S_VOICE_MGR.pGlobalDLS` |
| `phase` | between `EAS_Init` and `EAS_Shutdown`, after it, or crashed |

A call of the host is an action: `EAS_OpenFile`, `EAS_Prepare`, `EAS_CloseFile`,
`EAS_OpenMIDIStream` with a synthesizer of its own or of another stream,
`EAS_CloseMIDIStream`, `EAS_LoadDLSCollection` with its three targets, `EAS_Shutdown` and
`EAS_Init`.  What prepares and closes a stream is a function of the stream and of the *heap* (the counts and
the open handles): `SMF_ParseHeader`, `SMF_Prepare`, `XMF_Prepare`, `RMID_Prepare` give a set
of outcomes, one for each place where the code can return, `SMF_Close` and `Close` one.
The reference of a call is taken and given back where the code does, by `VMInitMIDI`,
`VMIncRefCount`, `VMMIDIShutdown`, `DLSAddRef` and `DLSCleanup`.  `StreamTransport` has
the same slots while they play; here a stream that plays is one that is prepared.

## 4. The runs

`tlc -config <run>.cfg <MC module>`; the constants are in the `.cfg` files.

| Run | What it shows | Bounds | States |
|---|---|---|---|
| `vm_single` | one stream under every call and message: the counters are exact, no deferred note-off is forgotten, a stolen voice is never held by the pedal, a requested reset has a voice to wait for, lowering the polyphony mutes enough voices | 2 voices, key 105 | 205k |
| `vm_liveness` | a released, muted or stolen voice does not stay so, and a stolen one starts its next note | 1 voice, 2 keys, 2 references | 19k |
| `vm_two` | two streams, with closes and resets while voices are stolen across them: the invariant of the proofs, and no stream takes a voice from one of higher priority | 1 voice, priorities 4 and 5 | 578k |
| `st_play` | one stream under every call, frames cut short at any event: no event lost, none at a wrong time, none while paused, silence when still | a song of 4 events with a tempo, JET_INTERFACE | 9k |
| `st_liveness` | a stream ends after its repeats, an endless one starts again, and neither a broken file nor frames given up stop the rendering | 2 streams, one with a broken file | 252k |
| `jet_play` | the ring of segments is a playlist (`IsPlaylist`, a refinement), playing segments play, and a playlist left alone is played out | 3 slots, repeats 0 and 1 | 112k |
| `jet_fails` | with segments that fail to be queued or prepared: indices and streams agree, clearing the queue puts them right, and the mutes asked for a segment are those of its stream at once, with its start or with its repeat | 3 slots, repeat 1, mutes of one track | 6.48M |
| `jet_clips` | a triggered clip plays at its next start, tracks with clips sound only inside them, no trigger is lost or counted twice, a segment ends for its own marker, and the application reads its events in order (`AppEventsInOrder`, a refinement) | 2 slots, 2 names of segments, 2 clips on one track, 2 mute entries, rings of size 3 | 504k |
| `smf_tracks` | the tracks come as one line of events (`EventsInOrder`, a refinement), each at its time in milliseconds, and the song ends | 2 tracks of up to 6 and 2 events, 2 passes | 422k |
| `midi_stream` | the decoder calls what the bytes mean (`DecodesWire`, a refinement) | 14 bytes of all kinds, 2 channels | 567k |
| `sp_midi` | exactly the channels the voices do not reach are muted, their voices go down, no pool is counted too low, and a table of all channels with strictly rising MIPs gives each a pool with the voices it adds | 2 voices, 2 channels, MIPs 1 and 2 | 358k |
| `stream_table` | whatever a stream is to give back is still there and its own, and nothing is lost but in the four ways `LossesKnown` names | 2 slots, 2 synthesizers, 4 handles, 2 collections | 1.72M |

**Bounds of the voice manager.**  Stealing, retargeting and deferral concern one
voice and at most two notes of it; a second voice is needed only where voices are
counted or chosen between, and that is what `vm_single` has.  Its one key is 105,
which `InitVoice` gives to free voices, so that free and busy voices can be taken
for each other wherever the code can.  `Limits` and `SynthLimits` hold a limit below
the pool and none.  `CountModulus` and `PoolModulus` are the widths of the
counters: the code's are 2^16 and 2^8 for 64 voices, here 8 and 3 for 2, small
enough that a wrap shows and, as in the code, larger than the pool.  `MaxRefs` bounds the
references `VMIncRefCount` takes.  Two streams on two voices are more than seven
million states, so the counters across streams are left to section 6, where they break,
and the deferrals to the theorem.  `Voices` are interchangeable (`SYMMETRY`) in the
runs of safety; `vm_liveness` uses no symmetry.

**Bounds of the transport.**  The song has two events at one tick (a tempo and a
note, whose order matters), a note inside a frame and an end after a gap: an event is before,
in or after a frame, and a frame may hold none, one or several.  Two frame lengths
are two playback rates.  `Targets` are the places before, inside and behind the song;
`Repeats` holds none, one and forever.  The tempo 2000 is not the default 2667, so that
a tempo kept or lost shows in the time of the events behind it.  `CanYield` lets a
frame be given up after any event.

**Bounds of JET.**  `SEG_QUEUE_DEPTH` is 3 in the code and in both runs.
No guard of these operations depends on which identifier a segment has or which flags
it mutes, so one identifier suffices in these two runs; the mutes concern one slot and its stream, and a flag that
is set or not tells them apart.  In `jet_fails` every segment repeats once, so that it is both
repeated and ended; in `jet_play` nothing fails (`CanFail` is FALSE), since a ring in which something did is
no playlist until it is cleared.
`ClearsQueue` is TRUE: the application clears the queue before it opens another file
(section 6 says what follows if not).

The rings of `jet_clips` hold 2 events of 3, so that they are full, empty and wrapped; two
clips on one track, two entries and two slots are the least in which entries are short,
a track changes hands between clips, and a segment is played while another stops.
Segments have two names (`UserIDs`), by which the events of the application differ, so that one
out of its place shows.  The run's `VIEW` leaves out what is never read again: what a closed slot
keeps, the places of a ring that were read, and the event read last.
Songs have no clip behind their loop-end marker and frames do not fail before
`JET_Process` (`TailClips`, `FailingSpec`; section 6 says what follows if).

**Bounds of the parsers.**  The songs of `smf_tracks` are all pairs of a first track, with
or without a setup bar, and a shorter second one, of notes and tempos at deltas 0, 1 and 6,
ending in each of the ways a track may end; a song with a delta time too large for 32 bits; and
songs with events of both tracks at the last tick that the search of `SMF_Event` looks at.
`ppqn`, tempos and widths are scaled down together (`ClockSplit` 4 for 2^10, `U32` 2^24 for
2^32), so that both halves of the split in `SMF_UpdateTime` and its rounding
matter; the one song that would wrap the time ends in the error of the code.
`midi_stream` has the bytes 0 and 1, the data of the system exclusive messages that are
known, and a status byte of each kind: notes, one- and two-byte messages, SysEx, its end, a
system message with data, a real-time byte.  The wire is well formed (`CutMessages` FALSE): real-time bytes
may come anywhere, a channel message is cut only by another one, and an SP-MIDI message has its end.

**Bounds of SP-MIDI.**  Two channels make a pool shared or split, muted or not;
two voices with MIPs 1 and 2 and limits below are the least in which a channel is muted by
a limit.  The run's `VIEW` leaves out `poolAlloc` while no property reads it: the code writes all of it
before a table of all channels is in force, and only reads it for the choice
of the voice to steal, which the model leaves open.

**Bounds of the table.**  Two slots are two streams that share a synthesizer, or a stream that is
prepared again beside another; a table that is full is the usual case.  The files are a
song of two tracks, which needs a duplicate of its handle, and an XMF and an RMID file with a
collection.  Four handles are as many as two songs use, so that a handle lost by one prepare
leaves the next one short of a duplicate.  Two collections and two synthesizers are one for
each stream, with a global one left over or not; where there is none to be had, the load or the open
fails.  `MaxRefs` 3 is a reference each of a synthesizer, a container and the voice
manager, and leaves out calls that go beyond; `CountModulus` is the 2^8 of the code, which no count here
comes near (section 6).  The collections are interchangeable (`SYMMETRY`).

**Deadlock** is checked except in `vm_two` and `stream_table`, where the dereference of a
null pointer stops the program (`crashed`), and in `smf_tracks`, where a song comes to
its end and the number of its passes is bounded.

**Fairness.**  The host keeps calling `EAS_Render`, that is the contract of an audio
callback: weak fairness of a frame (`Frame`, `Engine`, `EAS_Render \/ JET_Process`).
Envelopes and files are finite: strong fairness of the end of a voice that is going
down while frames come, of the voices of a stream, of the stream of a segment.  The code
leaves no way to avoid it: the envelope of a released or muted voice only falls.  In `smf_tracks`
the same two things are weak fairness of `SMF_Event` and of `SMF_State`.  A note that is held, or a segment that is repeated, has
no such fairness, and no call of the host has any.

## 5. Proofs

`tlapm` on `VoiceManagerProofs.tla`, `StreamTransportProofs.tla`, `JetSegmentsProofs.tla`,
`JetClipsProofs.tla`, `SmfTracksProofs.tla`, `MidiStreamProofs.tla`, `SpMidiProofs.tla` and
`StreamTableProofs.tla`: 20457 obligations, all proved.

| Theorem | For every |
|---|---|
| `VoiceManagerProofs!TypeCorrect`, `!Inductive` | number of voices, streams and channels, keys, regions and key groups, limits |
| `VoiceManagerProofs!NoteOffsScheduled`, `!StolenVoicesNotSustained`, `!DeferralsConsistent`, `!StealsRespectPriority`, `!ResetsWait` | the same |
| `VoiceManagerProofs!ActiveVoicesCounted`, `!NumActiveCounted`, `!SynthPolyphonyMutes` | the same, with one stream; with two the first two properties are false, section 6 |
| `StreamTransportProofs!TypeCorrect`, `!Inductive` | number of streams, songs, frame lengths, locations, repeats; with and without JET_INTERFACE, with and without frames given up |
| `StreamTransportProofs!NoEventLost`, `!StillStreamsSilent` | the same |
| `StreamTransportProofs!EventsOnTime` | the same, for songs that start at tick 0 and either set a tempo before time passes or never leave the default one (`TempoFirst`); for others it is false, section 6 |
| `StreamTransportProofs!PausesHold` | the same with JET_INTERFACE; without it the property is false, section 6 |
| `JetClipsProofs!EventsInOrder`, `!OwnMarker` | size of the rings up to 255, of the queue of mutes and of the queue of segments, names, clips and tracks |
| `JetClipsProofs!MutedOutside` | the same, without clips behind the loop-end marker (`~TailClips`) |
| `JetClipsProofs!TypeCorrect`, `!TriggersCounted`, `!TriggeredPlays` | the same, and without a clip 0, which an empty entry looks like |
| `SmfTracksProofs!TypeCorrect`, `!MergeIsTimely` | songs of any number of tracks, tempos, widths of the integers and limits of the searches |
| `SmfTracksProofs!PlaysTheScore` | the same, for songs whose ticks fit into 32 bits only below the limits of the searches (`InTime`) |
| `SmfTracksProofs!ClockKeepsTime` | the same, for songs that also have tempos that fit the conversion, gaps that fit 32 bits and a length within the range of the clock (`Measured`), and at most one setup bar at tick 0, before the first note (`SetupFirst`, `OneSetup`); for others it is false, section 6 |
| `SmfTracksProofs!TickTimeExact` | split and width of `SMF_UpdateTime`, ticks and conversions whose product, divided by four, fits the width |
| `MidiStreamProofs!TypeCorrect`, `!NeverHalfRead` | set of bytes and number of channels; also when messages are cut |
| `MidiStreamProofs!DecoderReadsWire` | the same, when no message is cut (`~CutMessages`) |
| `SpMidiProofs!TypeCorrect`, `!MutedVoicesGo`, `!CountsCover` | number of channels and voices, MIPs, limits, width of the counts |
| `SpMidiProofs!TableMutes` | the same, where the limit on all voices is not lifted (`0 \notin Limits`) and is none above the number of voices or a limit of the stream |
| `SpMidiProofs!TableShares` | the same, for MIPs that fit into a count of a pool |
| `JetSegmentsProofs!RingIsPlaylist`, `!RingHolds`, `!PlayingIsHeard`, `!NeverStranded`, `!QueueInvariant` | names, repeat counts and mute flags; for the depth the code has, `SEG_QUEUE_DEPTH` = 3, and an application that empties the queue before it opens another file; whatever fails, but `RingIsPlaylist`, where nothing does |
| `JetSegmentsProofs!StreamsAreCounted`, `!SegmentTypes`, `!MutesFollow` | depth of the ring, names, repeat counts and mute flags; whatever fails, and also when the queue is not emptied |
| `StreamTableProofs!TableInvariant`, `!SynthsOutliveStreams`, `!HandlesClosedOnce` | number of slots, synthesizers, handles and collections, files of any number of tracks, width of the counts of collections |
| `StreamTableProofs!HeldThings`, `!LossesAreKnown` | the same, for counts with room for the references and what one call adds to them (`MaxRefs + 3 < CountModulus`) |

The proofs assume the named assumptions on the constants (`VoicesAssumption`,
`ConstantsAssumption`, `SongAssumption`, `TransportAssumption`, `SmfAssumption`,
`MidiAssumption`, `SpMidiAssumption`, `TableAssumption`, `SegmentAssumption`, `ClipsAssumption` and, for
its two rings, `RingsAssumption`), which TLC evaluates in every run, and the hypotheses a theorem
states.  Each of these holds of a run: `NumSynths = 1` of `vm_single`, `TempoFirst` of the songs of `st_play`,
`~CutMessages` of `midi_stream`, `~TailClips` and `0 \notin Clips` of `jet_clips`, `InTime` and the other parts of `Timed` of all songs of
`smf_tracks`, `MaxRefs + 3 < CountModulus` of `stream_table`, those on limits and MIPs of `sp_midi`.  All but the last are needed, as section 6 shows: without
them TLC finds the property violated.  MIPs are of 7 bits and counts of 8 in the code.  `Engine` is a hypothesis of the theorems on the queue of segments: it
holds of `jet_play` and `jet_fails` and is needed: in a ring of 4, which the code does not have, two segments may
wait unprepared, the first of them is passed over, and one behind it is started out of turn
(`jet.c:969`; `jet_fails.cfg` with `SEG_QUEUE_DEPTH = 4`, `MuteFlags <- None` and `CanFail = FALSE`
violates `RingConsistent`).

**Voice manager.**  What one wants is `DeferredNoteOffScheduled`: whenever a voice
has a deferred note-off, the synthesizer that has to deliver it knows.  It is not
inductive.  A steal moves the voice to the synthesizer of its next note, so one must
know that this one is open; a retarget restores the deferral from the flags of the stolen
voice, which may wait without the flag only until then; a close must not leave a
flag on a synthesizer that is gone.  `DeferralInv` says these things: what the fields of a
voice may be in each state (`VoiceOK`, which has `StolenNeverSustained` in it), that the next
note of a stolen voice belongs to an open stream, and that a closed stream has
nothing pending.  `IInv` is the type invariant and `DeferralInv`.  A loop of the
code over the voices is a function of all of them in the model; lemmas state what one voice becomes
under each (`Released`, `Muted`, `Held`, `Started`, `StolenFor`), and each action then
needs one step per conjunct.  The counters are in their types because they
wrap.  That they do not, with one stream, is `CountInv`: both are the number of voices that are not free.
The step that could break it is the limit on a key, which looks at free voices as well, so the
invariant has that a free voice is on no channel, and that nothing sounds without the stream.  An operation
that neither frees nor takes a voice leaves each `Steady`, and then nothing is to be counted; a note-on takes one
voice more or steals one, and a frame frees those that end, each of which gives back one count.
`SynthPolyphonyMutes` follows by counting the voices its loop mutes.  `StealsRespectPriority` needs no more than
`IInv`: of the actions that steal, only the search of `VMStealVoice` may cross streams, and it compares priorities.
`ResetInv` says that a stream waiting to be reset still has voices once the frame has passed it; the frame
completes a reset before it ends, and a note-on, an open or a close keep the count of another stream.

**Transport.**  `NothingOverdue`: the position of a prepared stream has not passed an
event that is not parsed.  The time of an event is kept by the
parser (`clock`), the time of the frame by the transport (`time`), and they meet in
`ClockInv`, which needs to know what a new stream and a locate leave (`OpenInv`) and which
parser is in which phase of a call (`AheadInv`).  `SilentWhenStill` is inductive with
them.  `IInv` is the type invariant and these four.  `PausesHold` needs `HeldInv` in
addition: a stream the host holds is pausing, paused, or has a request that the next
frame meets before it parses.  That frame looks for the request only with
JET_INTERFACE, hence the theorem's assumption.

**Time of events.**  `EventTimeExact` compares the clock of the parser with the sum over the song of each delta times
the tempo in force.  `ExactInv` says it of every stream that is not over, and of the tempo: once an event that
sets one is behind, it is the one the song has there; and a song that sets none never leaves the default.  The sum is
a recursive function, of which one must know that it exists and what it does at each event.  That is
an induction, and the library's theorem for it takes an operator as a parameter; `UpTo` has a set
instead, from the least element of what is left of `1 .. n` (`WFMin`), and is all the induction one
needs here (`TimeOfEvents`, `SumExists`).

**Rings.**  `Contents` is the queue a ring stands for: the events from the read index on,
over the wrap.  A write that finds the ring full is a stutter of `EventFifo`, any other
appends; a read takes the head.  Each is proved by the number of events held and
the slot of the k-th of them, in the cases of an index that wraps or does not.
Typing is all the invariant one needs.  `EventsInOrder` has it of the application's ring within the whole of `JetClips`.

**Clips.**  `BaseInv` has the types, that only the segment at `playSegment` plays, and that the ring of `JET_Process` holds
markers of that segment alone and only within a frame, which empties it; `OwnMarkerEndsLoop` follows.
`ClipInv` says when a track sounds: its segment is in the clip of that track, and the clip has an entry
in the queue of mutes, which its end will find; an entry that is not active is empty.  `CountInv`
counts: only a clip that sounds has an entry that does not wait, and it is its first; the number of its
entries, less one while it sounds, is that of the triggers still to be played.  A trigger makes the entry of
a clip that sounds wait again, or takes an empty one, which is never the first of its clip as long as one that does not wait is
there.  The start of a clip finds its first entry and keeps it, the end empties it.  The cardinalities then
change by one entry at a time.

**Queue of segments.**  `JET_Process` looks at the slots one after the other, from the one that
played when the frame began, and the other calls come between its passes, so `Sound` says where it
is: at its first slot the head plays and nothing is to be started yet (`CallInv`); once the head
has ended, the next slot is the new head and is ready, or no slot is.  That needs `HeadInv`:
behind a segment that was not prepared, with one more before it, none is prepared, because the
third of three is opened only.  `StreamsCounted` counts the streams by adding and removing one slot, and
`RingInv` names the slots that wait by their place.  `IInv` has the types and the count always, and the rest of
`Sound` unless a call to queue a segment failed half way; the calls that clear the queue restore it, because
they close every slot (`Recovers`, `RecoveredRing`).  `Shape` says what `list` and `mode` of
`JetPlaylist` are in terms of the three places, and holds of both ends of a step; the
queueing of a segment then appends, the end of the head takes the tail, and the start of the next
is `Play`.  `NotStranded` needs `LateInv`: if nothing was queued behind a segment that was stopping, the
segment behind the head is prepared, but for the two steps of `JET_Process` in between.
`MutesFollow` is about each slot by itself, and so needs the types alone.  Its invariant adds that the slot
knows of every change that is deferred (`muteUpdate`); the converse is false, for the flag outlives the segment.

**Merge.**  `NextIsEarliest` holds in a state because the search that chose the track saw all
of them; but an event may be followed by another of the same track at the same tick, without a
search, and then one must know that no other track has moved.  A track that is over has
the largest tick there is, and the track that is next must not be one of those: a sum
that just reaches it is told from the end of the track by `DueHasEvent`.  `IInv` has these and,
for `SMF_Prepare` and `SMF_Reset`, that every track has an event once the song was prepared, and
that a file not yet prepared is at its start.  Types need the 32-bit products to be naturals again and the
tempo to be cut to 16 bits.

**Score.**  `PlaysTheScore` says that the events are played in the order of the whole file: by ticks, then
by tracks, then by their place in the track.  That order is total on the places of the file (`BeforeIn`), so that ranking them by the
number of those before gives each a place of its own (`RankOrder`), and what is left after any number of events is
the end of that list (`LeftIsSuffix`) and loses its head when the least of it is read (`LeftTail`).
`OrderInv` has that the events read come before the others, that the next track is the first of those due
first, and that the counters are the sums of the deltas (`DueAt`), which is where 32 bits and the limits of
the searches come in (`InTime`).

**Clock.**  `ClockAccurate` compares the clock with the sum over the score of each gap times the tempo in force
(`Elapsed`), and allows it what the code rounds away (`Missed`): half a unit of `tickConv` per tick, and the
quotient by 4 of a gap.  Both are sums up to the event the parser is at (`Here`), so that one event adds one gap.
That `Here` goes up by one is what the proof of the merge gives: the parser is at the first event that is
left (`AtHere`).  The arithmetic of a gap is in four lemmas: `ConvClose`, how far a conversion is from its tempo,
`TickTimeExact`, that the split in `SMF_UpdateTime` computes the whole quotient, `GapClose`, what both
make of a gap, and `GapTime`, that the sums stay as close.  The products are given names there, of which the solver
then needs only that they are naturals.

The property is not inductive, as the step to the next event depends on the tempo and on the chase mode.  `ClockAt` says
of the parser at event m that `tickConv` is that of the last tempo before it, and what the flags mean.  The chase mode
is on exactly in the setup bar of the file (`Chasing`), which the code
infers from `time == 0`: so one must know that the clock is still 0 at tick 0, in the setup bar and up to the tick
of the first note behind it, and nowhere else (`Starting`), that until then the flags are the setup events seen, and
afterwards never complete again (`SetupFlags`), and what each track's MIDI parser has heard (`HeardInv`).  `FlagsStep`
proves that an event keeps these, by whether the clock runs, and whether the setup bar was complete.  `ClockInv` is `ClockAt` on the first pass,
with what the file is before it is prepared.  TLC checked it, and that they all are `Timed`, on every song of `smf_tracks`, and on songs with more setup
events.  The clock is a signed integer of the code's width (`Signed`), and
`ClockFits` and `GapFits` prove that it does not wrap: where the parser keeps time the clock is within `Missed` of
`Elapsed`, and `Measured` has that both together stay below its limit, which in the code is 2 hours and 19 minutes.

**Decoder.**  `d1` counts the entries of an SP-MIDI message and holds data bytes as well, so
`TypeCorrect` needs that while an entry may come the count is below the number of channels
(`TableFits`), except in a pass for metadata, which leaves the state of an earlier message
alone.  `NeverHalfRead` needs that a song position, the one message that gives up
its status before its second data byte, is pending already (`SongPositionPends`).  For `DecoderReadsWire`
one says in `WireInv` what the state of the decoder means for the bytes of the message so far: the
first data byte of two (`HalfMeans`), none (`WholeMeans`), or the beginning of a system
exclusive message (`SysExMeans`), one conjunct for each state that leads to a call.  A table that is
open outside its message would take entries later (`TableCloses`); that is what a cut message leaves behind.

**SP-MIDI.**  `IInv` has the types, that a voice that sounds has a channel and a stolen one a next
one (`Targeted`), that the voices of muted channels go down or are held by the pedal (`GoesDown`), that a table in force is complete,
and that each pool counts at least its unmuted voices and at most as many more as there are voices (`Tight`), so that
no count wraps below zero or above its width.  A note-on moves one voice between two pools, and
a message counts all pools anew.  `RuleInv` says which channels are muted in terms of their MIPs and of the
limits, which a change of either applies again.  `SharesInv` says that with rising MIPs the channel of each pool has what it asks for beyond the
channel before it.  That needs that the places of a table with all channels are all places, by counting.

**Table.**  A prepare may stop anywhere, so what is proved of it is what all its outcomes share:
the handles of a stream stay its own or come from those that were free (`Keeps`), and it has the synthesizer it had,
none, or a new one (`Gets`).  `ParseHeaderKeeps` proves that of `SMF_ParseHeader`, where the
handle of the song moves on to the first track and each duplicate to the next, also
over the tracks of an earlier prepare that failed; both parts are transitive, and so hold of the
containers.  `SynthsAlive` then follows by counting the streams that point to a synthesizer as one stream
changes (`HoldersChange`).  `HandlesAlive` speaks of the handles that a close
sees, and is not inductive: a prepare that fails first may set `numStreams` to 0 with
handles in the tracks, and later tracks count again.  `IInv` has `HandlesOwned`, which speaks of all handles
a stream has, whether counted or not.  It also has the types of the table, and that a song's tracks
are set up all or not at all (`ShapeOK`).

`HeldAlive` adds the counts of collections.  A collection is held by synthesizers, by a
container and by the voice manager for all synthesizers, and a call that fails half way may leave a reference too many
but must never leave one too few.  `Slack` is what the count of a collection has beyond the
synthesizers that point to it, so that `VMInitMIDI`, `VMMIDIShutdown` and a load, which
move a pointer and a count together, never lower it (`NoLess`); `Room` says that
there is room in the count for the references the rest of the call may add.  `Balanced` says
of a prepare that what the count has beyond the stream's own pointer as well does not fall,
and `CloseBalanced` says that of a close, after which the pointer is gone.  `CollInv` is `CollectionsAlive` and the range of
the counts.  `EAS_Shutdown` closes slot after slot, by a recursive function: that one
exists is `ClosesExist`, and what it does to the counts `ClosesRefs`, both by induction on the
slot (`UpTo`, from the ordering of the naturals).

`LossesKnown` is the other direction: no call leaves a count too high, or a handle to no one, but in
the four ways it names.  What a call overwrites must hold nothing, and `TidyInv` says where that is
so: a free slot and a raw MIDI stream have no handle, no tracks and no collection (`SlotOK`), and a
synthesizer that no one has holds no collection (`DeadBare`).  The same lemmas then say what a call does
exactly and not only at least (`SameSlack`, `ShutdownExact`, `CloseExact`).  Of a prepare, `Finds` says that the
stream has every handle that is new and, if it had no tracks yet, every one it had; `NoMore` that
what a count has beyond its pointers does not rise, unless the new synthesizer gives the global
collection up for that of the file (`Replaces`).  A call that changes one stream then loses nothing in the table
(`HandlesStay`, `SynthsStay`, `SpareStay`).  `EAS_Shutdown` is again an induction on the slot: the handles of the
slots behind it are closed (`FilesShut`), and, where streams of files hold all synthesizers, each has as
many references as streams are left that point to it (`CountsShut`), none in the end.

**Types.**  `TypeOK` of `VoiceManager`, `StreamTransport`, `SmfTracks`, `JetSegments` (`SegmentTypes`), `JetClips`,
`MidiStream` and `SpMidi` is proved (`TypeCorrect`) and not run.

**Only model-checked.**  All liveness (`PlaysOut`, `SongEnds`, `PlaysToEnd`, `RepeatsForever`, `FramesKeepComing`, `StolenVoicesRestart`, `VoicesLetGo`): the proof
system does not treat fairness and ENABLED here.

## 6. What the code does not do

The following properties are stated in the modules, with the comment they come from, and are
false of the code.  They have no run of their own.  To see one, put it alone into the
configuration that is named, with the constants changed as given.

| Property | Where | What happens | Configuration |
|---|---|---|---|
| `NumActiveBounded` | `eas_voicemgt.c:3039` | `VMAddSamples` reads the voice's channel before `VMRetargetStolenVoice` moves the voice to another stream; if the voice ends in that frame the wrong stream's count goes down, below zero | `vm_two.cfg` |
| `DeferredNoteOffReleases` | `eas_voicemgt.c:1222` | a deferred note-off under the pedal is cleared, and `pfSustainPedal` ignores a voice below its sustain level: the note is neither released nor held | `vm_two.cfg` |
| `PoolCountExact` | `eas_voicemgt.c:1114`, `1144` | `VMAllNotesOff` mutes voices without `VMMuteVoice`, so `poolCount` stays too high for good | `vm_two.cfg`, `NumSynths = 1` |
| `ActiveVoicesExact` | `eas_voicemgt.c:1690` | `VMCheckPolyphonyLimiting` does not skip free voices; a free voice looks like key 105 on channel 0 of the second stream, is stolen, and no counter counts it | `vm_two.cfg`, 2 voices, `Notes = {105}` |
| `ActiveVoicesExact` | `eas_voicemgt.c:584` | a forced reset takes all of `numActiveVoices` off, but leaves the voices another stream has stolen | `vm_two.cfg` |
| `KeyGroupMutes` | `eas_voicemgt.c:1606` | a retarget forgets the mute a key group put off | `vm_two.cfg`, `NumSynths = 1`, 2 voices, 2 keys, region `"drum"` |
| `SustainedOnlyByPedal` | `eas_voicemgt.c:2470` | Reset All Controllers lifts the pedal and leaves its notes held | `vm_two.cfg`, `NumSynths = 1` |
| `PolyphonyReached` | `eas_voicemgt.c:3574` | `VMSetPolyphony` looks at `nextChannel`, so it counts and mutes stolen voices only | `vm_two.cfg`, `NumSynths = 1`, 2 voices, `Limits = {0, 1}` |
| `UnmutedWithinPolyphony` | `eas_voicemgt.c:2145` | a muting voice may be stolen and then sounds again, above the synthesizer's limit | `vm_two.cfg`, `NumSynths = 1`, 2 voices, `SynthLimits = {1, 2}` |
| `StoppedStaysStopped` | `eas_smf.c:586` | a pause and resume while the last voices ring bring an ended stream back to PLAY with no next event, and every later `EAS_Render` fails | `st_play.cfg` |
| `PauseHolds` | `eas_public.c:2102` | in the default build a locate starts a paused stream | `st_play.cfg`, `JET_INTERFACE = FALSE` |
| `PauseReported` | `eas_public.c:1731` | after a locate with a pause requested, `EAS_State` answers READY | `st_play.cfg` |
| `PauseCompletes` | `eas_public.c:1735` | without JET_INTERFACE the PAUSE flag is never cleared, and a paused stream is reported PAUSING for good | `st_play.cfg`, `JET_INTERFACE = FALSE`, `FairSpec` |
| `EventTimeExact` | `eas_smf.c:493` | a repeat of a song that begins with silence comes early by its length | `st_play.cfg`, `Songs <- Late` |
| `EventTimeExact` | `eas_smf.c:493` | a repeat starts with the last tempo of the song | `st_play.cfg`, a tempo event after the first note |
| `RenderedWhenParsed` | `eas_public.c:979` | a left-over PAUSE or RESUME flag hides that a frame was given up, and it is rendered half parsed | `st_play.cfg`, `CanYield = TRUE` |
| `LocateReaches` | `eas_public.c:1371` | the workload limit ends `EAS_Locate` after one event, which reports success | `st_play.cfg`, `CanYield = TRUE` |
| `RingConsistent` | `jet.c:449` | `JET_CloseFile` leaves indices and flags, which a second file meets | `jet_fails.cfg`, `ClearsQueue = FALSE` |
| `QueuedPlays` | `jet.c:969` | a segment queued while its predecessor is stopping is never started, and no call of the application starts it | `jet_play.cfg` |
| `SyncedMutesTaken` | `jet.c:772` | mutes asked for with `sync` "will be updated at the start of the next segment" (`docs/JET_Programming_Manual.html:1241`); they stay with the slot that plays, and are lost if its segment ends without a repeat | `jet_fails.cfg` |
| `StartTakesMutes` | `jet.c:222` | a segment starts with tracks muted that were muted at once before it starts, although it was asked with `sync` to sound all of them | `jet_fails.cfg` |
| `SyncedMutesWait` | `jet.c:222` | the flags "will take effect the next time segment is repeated" (line 1242); `JET_Pause` and `JET_Play` put them into force before, if they mute any track | `jet_fails.cfg` |
| `TriggersWait` | `jet.c:829`, `1047` | a clip triggered while it plays is to go on through its next start; its end takes the trigger back | `jet_clips.cfg` |
| `NextStartPlays` | `jet.c:1034` | the search for a clip does not look at the active flag, so an empty entry is found for clip 0 | `jet_clips.cfg`, `Clips = {0, 1}` |
| `OwnMarkerEndsLoop` | `jet.c:1102` | a frame that fails leaves its markers in the ring, also over `JET_Clear_Queue`; they end or repeat a later segment, even within a clip, and then none of the other properties of clips holds | `jet_clips.cfg`, `SPECIFICATION FailingSpec` |
| `SoundsOnlyInClip` | `jet.c:1047` | a clip behind the loop-end marker is left open when the segment repeats, and sounds on | `jet_clips.cfg`, `TailClips = TRUE` |
| `EventsInOrder` | `eas_smf.c:341` | the search of `SMF_Event` leaves out tracks above 0x7ffffff ticks, those at the start above 0x7fffffff: what comes late is not played | `smf_tracks.cfg`, `SearchLimit = 5` |
| `ClockAccurate` | `eas_smf.c:1141` | the default tempo is cut to 16 bits, unlike one the file sets | `smf_tracks.cfg`, `DefaultTempo = 132000` |
| `ClockAccurate` | `eas_smf.c:890` | the product "will never overflow", but does | `smf_tracks.cfg`, `U32 = 16384`, `SearchLimit` and `StartLimit` 100 |
| `ClockAccurate` | `eas_smf.c:1064` | a setup bar at tick 0 that a note precedes, or a second one before the clock runs, starts the chase mode although the first note is over; the gap behind it is lost | `smf_tracks.cfg`, a song of one track: a note and then `Bar` at tick 0, a note at tick 6; or `Bar`, a note, a tempo, a time signature and a `"sysex"` at tick 0, a note at tick 6 |
| `DecodesWire` | `eas_midi.c:136`, `353` | the start and the end of a SysEx message leave the flag that another one is pending, and a SysEx message that is cut leaves its table open | `midi_stream.cfg`, `CutMessages = TRUE` |
| `MutedExact` | `eas_voicemgt.c:3549` | lifting the limit on the stream's voices returns before the channels are looked at again, so that those the voices now reach stay muted | `sp_midi.cfg`, `Limits = {0, 1}` |
| `MutedExact` | `eas_voicemgt.c:855` | the stream's limit is taken even if the voices of all streams are fewer | `sp_midi.cfg`, `Limits = {2}` |
| `SameMipSharesPool` | `eas_voicemgt.c:969` | channels that a message does not list have priority 0, which the test for them does not expect; the channel listed first loses its place | `sp_midi.cfg`, 3 channels, 1 voice, `SynthLimits = {1}` |
| `HeardHasPool` | `eas_voicemgt.c:976` | a channel that begins a pool keeps its priority as its pool: with the MIPs 1, 1, 2 the second pool gets its voices, but the third channel is in a third pool, which has none | `sp_midi.cfg`, 3 channels |
| `UnmutedWithoutTable` | `eas_midi.c:480` | a bad message clears the table and leaves the channels muted | `sp_midi.cfg` |
| `PendingNotePlays` | `eas_voicemgt.c:1520` | a retarget looks at the channel the voice leaves, not at that of its next note | `sp_midi.cfg` |
| `TracksInPlace` | `rmidi.c:228` | an RMID file's collection is read by the handle that its first track has by then, which finds itself elsewhere | `stream_table.cfg` |
| `HeldAlive` | `eas_mdls.c:798` | the count of a collection wraps after 256 references; each prepare of a container with a collection of its own, while a global one is loaded, loses a reference to the global one | `stream_table.cfg`, `CountModulus = 3` |

More things that the models show and no property says.  A `JET_QueueSegment` that fails after it opened
the segment (`jet.c:648`), as it does for a transposition of more than an octave, leaves the segment queued: it plays in its turn all the
same, no other can be queued before it is closed, and then the next is queued behind another slot than
the one that plays, until the queue is cleared.  `JET_Pause` may meanwhile be led to a slot without a stream, and
a segment that cannot be prepared when `JET_Process` comes to it (line 983) is never started.  In `jet.c` a segment queued
third while the first one is stopping stays OPEN, since only the end of its predecessor
prepares it; and `JET_Pause` ("pause all playing streams", `jet.c:723`) pauses the
segment that plays and lets the tail of a stopping one sound.  `JET_OpenFile` that fails
(`jet.c:413`) leaves a file handle behind, so that the next open fails too.  In
`eas_voicemgt.c` a General MIDI On that waits for the voices undoes, when it is completed, the tables,
pedals and programs set meanwhile; `VMReset` gives pool 0 the larger of the two limits; and MIPs that
fall along the message give a pool a negative number of voices, cut to 8 bits.  In `eas_midi.c` the
SysEx of the enhancer is never recognised, since its first state leads to itself (line 505).  In
`eas_smf.c` a tick that sums up to 0xffffffff reads as the end of its track; the time of a song
wraps after 2 hours and 19 minutes, in the model as in the code; and a pass for metadata hears neither notes nor General MIDI
On, so its setup bar is not skipped.

`LossesKnown` names four ways in which the code loses the last pointer to an object.  `EAS_Prepare`
of a stream whose prepare failed overwrites its synthesizer, collection and tracks (`eas_public.c:839`), or
meets the null handle that the first prepare left.  A container that gives the synthesizer its own
collection forgets the global one it was given (`eas_voicemgt.c:507`, `3912`).
`EAS_LoadDLSCollection` into a stream leaves the reference of the load to no one (line 2571).
`EAS_Shutdown` does not close raw MIDI streams (line 511).  The model also crashes where
`EAS_OpenMIDIStream` is given a raw MIDI stream, which has no parser to ask (line 131), or a
stream that is not prepared, which has no synthesizer (line 1605).  Two more that no module has: `JET_Shutdown` frees
its libraries whatever their counts (`jet.c:528`), and a host with a `readAt` of its own never gets
its handles back (`hostmm_ng.c:376`).

Several of these are also properties of passing runs, with the constants those have:
`EventTimeExact` holds of songs that start with an event at tick 0 and have their tempo first (a theorem,
as the next is),
`ActiveVoicesExact` of one stream, `PauseHolds` with JET_INTERFACE, those of `jet_clips`, `smf_tracks`,
`midi_stream` and `sp_midi` within the bounds of section 4.  After a reset the tempo is that of the
end of the song (`eas_smf.c:493`), which is why `ClockAccurate` speaks of the first pass only.

## 7. What is not modelled

* **Left for the modules of the plan**: programs and the workload of the voice manager,
  the collections JET holds, and the positions of files.
* **Data**: which voice is the best one to steal, when an envelope ends and what a
  gain is are numbers; the models allow every outcome.
* **The inside of containers and loaders** (`eas_xmf.c`, `rmidi.c`, `eas_mdls.c`, `eas_sf2.c`): they
  read a file once, from front to back, and convert what it says.  What outlives the
  call (handles, collections, counts) is in `StreamTable`; XMF contents packed with zlib are not.
* **Files that cannot be closed**: a failing `fclose` ends `SMF_Close` (`eas_smf.c:443`), `XMF_CheckFileType` and the
  closes of the containers half way; in the model `EAS_HWCloseFile` succeeds on every handle that is open.
* **Reading and seeking** of the host layer: positions are only told apart as moved or not.
* **Signal processing** (mixer, reverb, chorus, filters, envelopes): numeric code
  without control state.
* **Optional parsers and the FM engine**: not in the default build.
* **Generated sound libraries, configuration tables, reports**: no state.
