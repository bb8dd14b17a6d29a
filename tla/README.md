# Verification of Neuracoust DAW

TLA+ models of Neuracoust DAW: the undo history, the project files, the commands that edit a project and the
text it is saved as, its media files, the forms it exchanges with other programs, the realtime engine with its
renderer and plug-in chains, the bridge to plug-in processes, the stream to a remote DSP server, the DSP manager
and the listen room. TLC checks each on a small instance; the safety properties of the history, the
session, the plug-in bridge, the remote stream, the manager and the listen room, two of the engine's five and, of the edit commands, the
order of the timeline and the safety of what is locked, are proved with TLAPS for every instance. All paths below are relative to the repository, most of them to its `src/` (`project/ProjectHistory.cpp` is `src/project/ProjectHistory.cpp`).

How to run: `tlc -workers 2 -config ProjectHistory.cfg MCProjectHistory` (every `.cfg` goes with the module
named in `PROJECT.json`), `tlapm ProjectHistoryProofs.tla`.

## 1. The system

A DAW: one process with a SwiftUI front end, a C++ engine behind a C interface, helper processes for
plug-ins, and helper machines for DSP.

| component | state | operations | talks to |
|---|---|---|---|
| **Undo history** `project/ProjectHistory` | current and saved snapshot, two stacks of snapshots, two of step names | reset, recordEdit, markSaved, undo, redo | called by the engine bridge after every edit |
| **Project session** `bridge/NeuracoustEngineBridge`, `project/ProjectDocument` | the document, its path, an autosave error; per path a project file, a backup and an autosave | new, open (with or without the autosave), save, save as, edits, undo, redo | history (calls), disk (write to a temporary file, rename) |
| **VST3 realtime bridge** `plugins/Vst3RealtimeBridge` | a shared-memory segment (request, input, response, output, state word, mutex and condition variable), the client's counters, the worker process | prepare, process, reset, teardown; the worker's loop | render thread ↔ plug-in process through shared memory, no lock on the audio regions |
| **Master insert chain** `audio/MasterInsertProcessor` | pending and last parameter changes per insert, its bridge | prepare, process, updateParameter, reset | bridge (calls), engine (called under its mutex) |
| **Remote DSP stream** `audio/RemoteDspAsyncStream` | input and output queue, settings, worker thread, socket session | process, reset; worker loop | render thread ↔ worker thread (mutex, condition variables), server (UDP) |
| **Remote protocol client, plug-in catalog** `audio/RemoteDspServerClient` | a socket and the settings it was opened for | process, query, discover | remote core server (UDP packets) |
| **Remote core server** `tools/neuracoust_remote_core_server.cpp` | processors and counters per client | process, status, discovery | clients (UDP) |
| **DSP manager** `nuclust/NuclustDspManager` | list of servers, plug-in instances and their assignment, flags | rescan, refresh telemetry, add and remove a server, register and unregister a plug-in, latch, settings | window thread and IPC thread (one mutex), network (outside the mutex) |
| **DSP engine** `audio/NeuracoustDspEngine` | the render plan and render state, prepared chains beside them, settings, playhead, crossfade and ramps, the microphone's buffer | configure, load and update a project, live changes, transport, render a block | device callback ↔ program (one mutex; the input buffer has its own), renderer, remote stream |
| **Audio device backends** `audio/CoreAudio*`, `audio/Windows*`, `audio/Asio*` | device handles, running flag, input queue, counts of callbacks | open, start, stop, render callback, input callback | engine |
| **Renderer, mixer, bounce** `audio/ProjectAudioRenderer`, `MixerGraph`, `OfflineBounce` | the plan; per route chains, delay lines and held notes; a disk | build a plan, render a block, bounce a range, export stems | engine, document (read), files |
| **Recorders** `audio/*Recorder*` | a take in progress, device queues | start, stop, callback | device threads |
| **Listen room** `audio/ListenRoom` | settings, a queue of blocks, an Opus encoder and what it has not encoded, a packet number, a worker | configure, stop, push; worker loop | render thread → worker → relay (a TCP connection per packet) and WebRTC sender |
| **WebRTC sender** `audio/NativeWebRtcSender` | a queue of packets, a peer connection, a worker | configure, stop, push; connection callbacks, send loop | listen room's worker → own worker → relay (HTTP), browser |
| **Edit operations** `project/EditOperations` | none: functions on a document | some 130: clips, ranges, playlists, tracks, routing, inserts, MIDI, points, video | engine bridge |
| **Project document** `project/ProjectDocument` | the data: clips as they are shown, media sources, definitions and playlists as they are played, tracks that name each other | serialize, parse, normalize, rebuild the model from the clips and back, file operations | everything |
| **Media import, pool, interchange** `project/AudioImport`, `ProjectMediaPool`, `TimelineExport` | files of a project's folder | import, record, relink, remove, collect; write and read reference, EDL, FCPXML and MIDI texts, plan a video | document, disk |
| **Plug-in scanning and hosting**, **user interface**, **AI assistant**, **license client**, **packaging** | see `PROJECT.json` | | |

The hard behaviours:

* *Two representations of one thing.* The timeline shows `project.clips`, the engine plays the playlists; the document's
  live form and its text; the chain in the plan, the prepared chain and the plug-in's own values.
* *Names as references.* Tracks, buses, VCAs, folders, clips, regions and playlists refer to tracks by name.
* *Two threads or processes without a lock.* The render thread overwrites the bridge's input region while
  the worker may be reading it; the renderer of a remote stream primes on the socket the worker uses; the input
  callback appends to a buffer that the program has just emptied.
* *State read before a mutex is released and used after.* The DSP manager's telemetry refresh, the stream's
  restart, the listen room's stop.
* *Processes that die.* The application between any two file operations of a save; the plug-in's worker
  anywhere, also with the shared mutex in its hands.
* *Late, lost and reordered answers.* Bridge responses are one block late or older; UDP answers are lost.
* *Several steps of which one may fail.* Backup, write, mark as saved, remove the autosave; the files of a mix and of
  stems; a range operation that meets a locked clip; a plug-in that fails in the middle of a chain.
* *Edges.* Cuts of clips and notes, loop ends inside a block, six digits of a time.
* *Limits.* History depth, queue lengths, channels per server, stalls before a worker is given up.

`PROJECT.json` lists each with its line under `hazards`, and the properties that cover it.

## 2. The modules

| module | models | abstract specification |
|---|---|---|
| `ProjectHistory` | the class of that name, all operations | `EditTimeline`, by refinement |
| `ProjectSession` | document, files, autosave and recovery; uses `ProjectHistory` by INSTANCE | |
| `Vst3Bridge` | client and worker of the bridge, with the parameter queue of the insert chain | |
| `RemoteDspStream` | the renderer's side and the worker of the stream | |
| `DspManager` | the manager under its two threads | |
| `ListenRoomSender` | the class of that name: configure, stop, push and the worker | |
| `ClipEdits`, `TrackEdits`, `MidiEdits`, `MarkerEdits` | the edit operations as operators on clips, tracks, regions and points | |
| `Listing` | how the edit operations sort, filter and go through lists; what a list with ids is | |
| `EditModel` | media sources, clip definitions and playlists; rebuilding them from the clips and back | |
| `ProjectFiles` | what a document is after it was written as text and read | |
| `Interchange` | a document after another program's text: reference (AAF, OMF), EDL, FCPXML, MIDI | |
| `ProjectMedia` | files: imports, takes, the pool, collecting, mixes, stems, video plans | |
| `ProjectEdits` | the commands of the editor: all of the above, with what the engine plays after each | |
| `MixGraph` | the routing graph: edges, order, latencies, waits, mutes, solos, VCAs | |
| `InsertChain` | a chain of prepared plug-ins and the values each has been told | |
| `RenderBlock` | a block of a project: plan, render state, sound from clips and instruments to the device | |
| `DspEngine` | the engine's operations, each from engine to engine | |
| `RealtimeEngine` | the program's calls, the render callback, the input callback; `DspEngine` under them | |
| `ProjectHistoryProofs` | theorems about `ProjectHistory` | |
| `ProjectSessionProofs` | theorems about `ProjectSession` | |
| `Vst3BridgeProofs` | theorems about `Vst3Bridge` | |
| `RemoteDspStreamProofs` | theorems about `RemoteDspStream` | |
| `ListenRoomSenderProofs` | theorems about `ListenRoomSender` | |
| `DspManagerProofs` | theorems about `DspManager` | |
| `RealtimeEngineProofs` | theorems about `RealtimeEngine`, `DspEngine` and `MixGraph` | |
| `ProjectEditsProofs` | theorems about `ProjectEdits` and the modules it composes | |
| `MC...` | constants for TLC | |

### ProjectHistory and EditTimeline

The variables are the members of the class. A document is a model value, and `Normal` maps it to its form
after routing normalization, so two documents that normalize alike have the same snapshot, as in the code.
`EditTimeline` says what a user is promised: *one line of states with a name on each step and a cursor*; undo
and redo move the cursor and change nothing else. The refinement mapping lays the undo stack, the current
snapshot and the reversed redo stack end to end. A name that lands on the wrong stack, a stack trimmed
without its names, or a redo that survives an edit breaks it.

### ProjectSession

The bridge runs on the main thread, so its handlers interleave with nothing but the death of the process.
Handlers that touch the disk are cut into their file operations (`step` says where one is): `Backup...`,
`Write...`, the mark, the removal of the autosave. `Exit` is enabled at each of them and starts the program
again on the files it left. With `IOFaults` every file operation may also fail. Writing a project replaces the
file by a rename and, when that fails, by removal and a second rename; the backup is copied in place and may
be torn. `lastSaved`, `owed` and `recovered` are history variables: what a save that returned success put
at a path, recorded work that a process left unsaved, and whether the document came from an autosave.

### Vst3Bridge

The client (render thread and main thread: `Prepare`, `Process...`, `Reset`, `Kill`, `Reap`) and the worker
process, from loading the plug-in to sleeping on the condition variable. What the code does under the shared
mutex is a step of its own from lock to unlock, because the client only ever *tries* the lock; copying the
audio regions happens outside the mutex on the client's side, so the worker's `Take` and `Post` are separate
from the client's `Publish` and `Play`. A block's samples are its sequence number. The worker may crash or
hang wherever plug-in code runs, and crash anywhere else.

### RemoteDspStream

`Call` and `Restart` are the two ways a call of `process()` or `reset()` starts; `JoinedReset`, `JoinedConfigure`,
`PrimeAnswered`, `PrimeFails`, `Push`, `Play` and `Underrun` follow it as the code releases and takes the
mutex. A block is the number of the call that brought it. `timely` names an assumption the code makes and
does not check: an exchange with the server ends before the wait of a cold start does.

### DspManager

The IPC thread registers, unregisters and rescans; the window does everything else. A telemetry refresh is
three kinds of step, `Refresh`, `RefreshOne` for each server and `RefreshEnds`, because the code releases the
mutex to ask the network and finds the entry again by its id, which may also be an address. Everything the IPC thread does may come
in between. A machine may have several addresses and reports one host name at all of them (`Host`), as a studio computer does that
is known as the default node `studio.local` and answers a broadcast from its number. How many channels a server has is what its
last status said, 64 before (`DefaultChannels`), so it may change; the channels in use are added up modulo `Wrap`, in the code 2^32.
`Kept(list, S)` is the list without the entries that are not in `S`, as `erase(remove_if(...))` leaves it; it is a recursive function
rather than `SelectSeq`, which the provers cannot expand.

### ListenRoomSender

Three threads: the audio thread (`Push`), the control thread (`Configure`, `Stop`, `FinishConfigure`,
`FinishStop`) and the worker. One critical section of `mutex_` is one step. `configure()` and `stop()` are two, because they
give up the mutex to join the worker, and `control` and `wish` say what they are in the middle of; pushes are
accepted meanwhile, and `Rebuild`, `Apply` and `Clear` are what happens after the join. The worker's path is `Take`,
`BeginSend`, then `SendPcm`/`PcmFails`/`PcmEnds`, or `OpusBuffers`, `TakeFrame` and `SendFrame`/`FrameFails`. Sound is made of
numbered units, each with the room it was pushed in, so that sound in the wrong room, out of order or missing can be seen.
An encoder that cannot be created, or a build without Opus, sends PCM instead.

### ProjectEdits and the modules of the edits

`ProjectEdits` EXTENDS `ProjectMedia`, `Interchange`, `ProjectFiles`, `EditModel` and the four modules of operations. These
are pure: an operation of the code that returns false and leaves the document alone is refused by its `Can...` operator, and
otherwise the operator of its name is what it makes of the document. A command (`ClipCommand`, `PlaylistCommand`,
`TrackCommand`, ...) does what its function in the bridge does: the operation, then
the rebuilding of the edit model if clips were edited, the routing rules, and the engine's new plan (`Done`, `Rebuilt`,
`Reconcile`). When the operation returns false after it has changed something (`Refuse`), the command stops there and the
engine has not been given the document: `reconciled` is then FALSE, as it is in the code until the next command. Operations the
bridge does not export are called by tests and tools only; they are driven the same way, as the comment above
`applyClipEdit` (`bridge/NeuracoustEngineBridge.cpp:1142-1150`) asks of every edit.

Times are whole ticks, the gain of a clip a small number, a clip's id the sequence of words that the code appends to an id.
`doc` is the document, `playing` the clips that the engine renders, `disk` the files and what is in them, `did` the last
command, which only properties read. A behaviour starts from a document of one area (clips, playlists, tracks, strips, midi,
notes, points, video, media) and edits that area; from its documents it may also save and reopen (`Reopen`) or go through a text
of another program (`Exchange`), after which it ends.

`ProjectFiles` is the text format without the text: `Written` rounds every time to six significant digits, as
`std::ostringstream` does, and the `Read...` operators do what the reader does to tracks, clips, sources, definitions,
playlists and regions: it drops, renames, orders, fills in and normalizes. `Interchange` has for each form the record of what
its writer puts in it and what its reader makes of that; a MIDI file is a sequence of tracks of
events in ticks, written and paired again. The functions there are called by tests and tools.

`ProjectMedia`: a file is a folder, a name, a number ("name 2.wav") and a kind, and a disk maps files to what is in them, a set.
An unreadable file is the empty set. Writing picks the first free number, where the code does. A bounce may fail at its audio or at its
manifest, a stem export at any of its files, and leave what was written before.

### RealtimeEngine and the modules of the engine

Every call and every block takes the engine's mutex for its whole body, so each is one step; a block is cut at the loop's end into segments (`Begun`, `Segment`, `Stretch`, `Segments`). The input callback is two steps
(`ReadInput`, `AppendInput`), because it reads a flag without the mutex and then takes another lock. `DspEngine` is a record and the
operations on it; `heard` is what the last step rendered: the frames of the timeline in the block (`frames`), those that were due from `cue`, where
a listener expects the next block to begin (`due`; only properties read the two), and for each segment between loop wraps the sound, as a set
of tokens [path, delay, fx]: which tracks and buses a sound went through, how many frames late it is, and which plug-ins with
which values processed it. A level of zero is the absence of a token and no other level is modelled. Chains prepared beside the graph, for the inserts that
a track has on a server, add their own sound to the block, processed minus dry; it is no token but an entry of `heard.beside`, the values such a chain's
local plug-ins have. `given` (also read by properties only) tells which inserts have had their value handed to the chains: all at the opening, and those changed
live since a document was handed over. `MixGraph` computes
the order and the waits as the code does, and keeps the latencies they were made for (`lags`), with its shortcuts (an edge for the first of two routes with one input, one delay
line for two sends to one bus, the graph as it was when the document was loaded). `InsertChain` is the state of a
plug-in: the value the chain wants, whether it is still due, and the value the plug-in has. `Troubles` are what may be the
matter while something is prepared or rendered: plug-ins that fail, a server that lacks a module or does not answer, a
stream that is busy. `Status` is part of the model because it renders a block for its telemetry on the program's thread when
the callback has not run yet (`CoreAudioRealtimeEngine.mm:837`).

## 3. What is checked

| run | instance | shows |
|---|---|---|
| `history` | 4 documents, two of which normalize alike; 2 names; depth 2; 2 356 states | `DepthBounded`, `ImplementsTimeline` |
| `session` | 3 documents, 2 paths, depth 1, failing file operations, one backup per behaviour; 810 k states | `DirtyIsAutosaved`, `LastSaveSurvives`, `OwedWorkIsOffered`, `CleanMatchesDisk` |
| `session_recovery` | the same, no failing operation | **violated**: `CleanMeansOnDisk` |
| `bridge` | blocks of up to 2 frames, 4 requests, 1 parameter change, 1 prepare, 1 stall; 1.3 M states | `ResponseIsWhole`, `OneBlockLate`, `FrozenBounded`, `WetHasTheParameters`, `LastRequestAnswered`, `TeardownEnds` |
| `bridge_parameters` | an insert that sends only changes | **violated**: `WetHasTheParameters` |
| `bridge_tail` | blocks of different lengths | **violated**: `WetIsOneBlock` |
| `stream` | 2 settings (targets 1 and 2), queues of 2, 6 calls; 44 k states | `InOrder`, `OfThisConfiguration`, `SessionExclusive`, `PlaysForward`, `CallReturns` |
| `manager` | a machine with two addresses, one with one, 2 instances, servers of 1 or 2 channels, sums modulo 3; 31 k states | `ReadyFits`, `ListedOnce`, `LatchHolds` |
| `listen_room` | 2 rooms, 4 blocks each of 2 units, queue of 2, packets of 1 unit and frames of 3; 265 k states | `RoomsApart`, `NumbersTellLosses`, `CountersTellLosses`, `StopLosesLatecomersOnly`, `ConfigureEnds` |
| `edits` | eleven documents of at most seven tracks, three clips and two regions; up to 4 commands, see below; 161 k states | `ShownIsPlayed`, `NamesResolve`, `TimelineInOrder`, `CutsKeepSound`, `LockedUntouched`, `MidiKeepsTime`, `ReopenKeeps`, `ExchangeKeeps`, `MediaKept`, `DeliveriesHold` |
| `edits_reopen` | a clip of a project, times in milliseconds up to 1000.123 s | **violated**: `ReopenKeeps` |
| `engine` | three documents, an opening and two more calls, two blocks of 2 or 3 frames, two input buffers; 317 k states | `PlayheadFollows`, `StaleInputBounded`, `RoutesSound`, `Aligned`, `HeardAsPlanned` |

What the properties of `manager`, `edits` and `engine` say:

* `ReadyFits`: when an instance is told that it is ready on a server, the channels of all external instances are no more than that
  server last said it has, unless their sum does not fit 32 bits.
* `ListedOnce`: a machine is listed no more often than it has addresses.
* `LatchHolds`: a refresh writes an answer only to an entry of the machine that gave it, and never unlatches one.
* `ShownIsPlayed`: after a command that was carried out, the clips shown on tracks that can play (audio, instrument and other tracks with
  a timeline) are the clips that are played.
* `NamesResolve`: every name a track, clip, playlist or region refers to is there, and ids are one thing's only.
* `TimelineInOrder`: markers, tempo map and automation are in the order of time, the project's tempo is the first tempo marker's rounded to
  a whole number of BPM, automation is within its limits, and selection and loop go from a start to an end.
* `CutsKeepSound`: for every tick and track, splitting, separating and gluing leave what is heard, clearing a range silences that
  range and nothing else, a copy takes nothing away.
* `LockedUntouched`: no command on clips, regions or notes changes a locked clip or region, but unlocking it. Opening the project again is
  left to `ReopenKeeps`, because a text rounds long times, those of locked clips too (run `edits_reopen`).
* `MidiKeepsTime`: a split region sounds as before at every moment (and possibly longer, when less than the shortest
  region was left behind the cut, which is then as long as that), a trimmed one from the cut on, a recorded take where it was played.
* `ReopenKeeps`: a project saved and opened again is the same project and plays the same.
* `ExchangeKeeps`: what a form carries comes back where and as it was.
* `MediaKept`: no import, take, mix, stem or collecting takes the place of a recording or changes what is heard of others.
* `DeliveriesHold`: a mix has what is played in its range, its manifest tells what is missing, each stem has its own file with what
  its track plays, a video plan all clips in order.
* `PlayheadFollows`: the frames that are heard are those a listener expects after the last ones, through loops, seeks, reloads.
* `StaleInputBounded`: what waits in the microphone's buffer when nobody wants it is at most one callback's.
* `RoutesSound`: what leaves the mixer is each clip and instrument, once for each way to the device that nothing silences; the
  reference definition (`Ways`) knows nothing of edges or order.
* `Aligned`: with delay compensation every sound is equally late, where the graph's compensation is meant to be exact, but for the
  latencies that were switched on or off live since the waits were made: those, and nothing else, are missing or too much.
* `HeardAsPlanned`: what is heard of the mixer went through the inserts of its tracks in order, each with the value last set. A chain beside
  the graph has the values of its opening and every value changed live.

Why the bounds are enough. *history*: trimming, and redo after trimming, happen at depth 2 with three edits,
and a stack of two elements tells the two ends of it apart; nothing bounds the number of calls. *session*:
two paths make *save as* from one to the other and back; three documents are an old, a saved and an unsaved
one; the constraint `OneBackup` lets one of
the two paths, not both, be saved over. *bridge*:
four requests let a response be stale, replaced, missed and answered again; two frames tell a whole block from a
mixed one. *stream*: queues of two overflow at the third call, six calls leave room for a restart on either side.
*manager*: two instances compete for one channel of a server that had two before it told; the sum of two wraps with `Wrap` 3 when one
more is asked for; one server's list position changes when the other is removed; the machine with two addresses may have both listed, with its own entries' ids
made one by a refresh. The constraint `TwoListed` lists two servers at a time, of which one is unsteady, and keeps the engine
running during a refresh.
*listen_room*: two rooms are an old one and a new one; four blocks overflow a queue of two behind a block in the
worker's hands; a frame of one and a half blocks leaves a remainder.

*edits*: the commands per area are clips 2, playlists 3, tracks 2, strips 2, midi 2, notes 2, points 2, video 4, media 2 and 1
in an unsaved project, then one `Reopen` (of clips, after at most one command) and one `Exchange` per form (after
at most `ExchangedAfter` commands). Two commands let each operation meet what any other leaves; playlists and video have few commands
and get more. Four times cut clips at their ends, inside, and where two of them overlap; every area has a document on which its
commands can be both carried out and refused, and a locked item where locking matters. Clips are dropped
on audio tracks, a folder, a VCA and the master (`Targets`), of which the code refuses the master only. The shortest region is two ticks, so that a split
one tick before a region's end meets the clamp; markers have tempos of 6 and 11 quarters of a BPM, so that one of them is rounded up to the next BPM.
The rate of edit decision lists is a whole number, so that labels are exact; for 29.97 frames the assumption
`DropFrameFollowsTheClock` of `MCProjectEdits` has TLC compute that drop-frame labels come back within 0.1 s over an hour.
*engine*: an opening, two further calls of any kind and two blocks are the shortest behaviours in which a change meets a state kept
from an earlier block; of the calls one may hand over a document, change the modules or start the device. A loop of three frames wraps
inside blocks of two and three. The documents are: sends to one room from a late and a prompt track with a VCA and a loop; an instrument
played by a MIDI track behind a folder bus with a master plug-in; a monitored microphone, a track with two inserts for a server, one of a plug-in that
may fail, and a speaker plug-in.

Deadlock is checked for `history`, `session`, `manager` and `listen_room`. The bridge and the stream stop where their bound
on blocks is used up (`MaxRequests`, `MaxCalls`) and the other side waits, so there `CHECK_DEADLOCK FALSE` is
given and the liveness properties say that nobody waits in vain. Behaviours of `edits` and `engine` end when their commands, calls and
blocks are used up.

### The disagreements found

* `session_recovery`. A document recovered from an autosave counts as saved, and the autosave is removed:
  closing the document asks nothing and loses the recovered work. `CleanMatchesDisk` is the same property with
  recovered documents excepted; it holds.
* `bridge_parameters`. `process()` reports a block as processed that the worker never took, so a parameter
  change that is sent once may be lost. Only inserts whose name, path or class says "waves"
  (`insertNeedsPersistentParameterQueue`, `MasterInsertProcessor.cpp:16-27`) are sent all values with every block; for these the
  property holds (`bridge`), for all others it does not.
* `bridge_tail`. After a short block, a longer one is played with a tail the worker never wrote.

* `edits_reopen`. Times are written with six significant digits: a clip at 1000.123 s is at 1000.12 s after saving and opening
  (and after undo, whose snapshots are the same text), while the document counts as unchanged.

### What the properties except, because the code does it

Each of these is behaviour of the code that the model has, met while modelling, and that the property named does not forbid. No document
of the repository promises otherwise, but a reader should know them.

* *Manager*: a machine with two addresses may have one of them listed twice and the other lost. The default node `studio.local`
  (`RemoteDspServerClient.cpp:296`) and discovery by number (`NuclustDspManager.cpp:1105`, `:1137`) list it at both; a refresh gives both entries the
  host name as id (`:346`, `:694`), and what is asked of the second is then written to the first (`:681`). So `ListedOnce` counts
  entries of a machine, and `LatchHolds` does not say which of a machine's entries an answer is for. A status that tells of fewer channels may leave a server with
  more in use than it has, and nobody is told; 32-bit sums may wrap (`:890`, `:946`); an instance that registers again counts its own old
  channels too, and one that was refused without a fallback counts all the same (`ReadyFits`).
* *Clips on folders and VCAs* (`ShownIsPlayed`): moving, pasting or copying a clip to one is accepted (`pasteClip` asks only for a track
  that is there and neither master nor monitor, `EditOperations.cpp:1786-1801`; `NeuracoustEngineBridge.cpp:1259` says that it validates the target).
  The clip is shown and saved, but has no placement in a playlist (`ProjectDocument.cpp:1440-1463`, `:165-172`), so it is never played and is gone when
  the project is opened (`:3263`). When no track can play, the engine is given all clips.
* *Tempo* (`TimelineInOrder`): markers have any BPM in 20 to 400, the project a whole number, the first marker's rounded (`EditOperations.cpp:5947`, `:5955`,
  `:5981`, `:6009`, `:6034`): 126.5 on the first marker is a project of 127.
* *Refused commands that changed something* (all properties of sound; `reconciled` is FALSE): moving a locked clip to another track
  leaves a copy there (`NeuracoustEngineBridge.cpp:1262-1270`); range operations that only cut clips at the range's edges return false
  (`EditOperations.cpp:2360-2396`); trimming to an empty range; collecting media.
* *Editing a clip drops the alternate playlists of all tracks*, because the model is rebuilt from the clips
  (`rebuildProjectEditModelFromClips`); so does every import. The commands say so of no track; `MediaKept` speaks of what is played.
* *Stretched clips* jump in their source when they are cut (`ProjectAudioRenderer.cpp:453-458` plays the offset at the
  stretched rate, the cut adds the unstretched distance): `CutsKeepSound` is about clips that are not stretched.
* *Renaming a folder* leaves its tracks with the old name; the last send to an aux removes the aux with references to it
  left behind (`NamesResolve`).
* *MIDI*: a split less than 50 ms before a region's end lengthens the region to the cut and 50 ms, and a note that reaches past its end
  sounds longer (`EditOperations.cpp:5208`, `:5220`); splitting copies every controller event to both parts; trimming drops notes of which at most a 960th of a beat is
  left; a take that goes to a region starting later piles up the early notes at its start; adding a region to an
  audio track makes it a MIDI track (`MidiKeepsTime`).
* *Files* (`ReopenKeeps`): an instrument track with an effect and no instrument gets the effect as instrument
  (`ProjectDocument.cpp:531` takes the first object); a project without a timeline track gets default tracks; the folder of a VCA and the
  recording flags of a folder bus are lost; empty alternate playlists are dropped. The reader looks for a key's first occurrence as text, also inside a
  string value (`ProjectDocument.cpp:421-530`).
* *Media* (`MediaKept`, `Resourcing`, `WithFile`): collecting changes the clips but not the sources, which are what is saved and played;
  removing unused sources counts active playlists only; a clip removed with its source keeps its placement; when all sources are
  gone the next edit rebuilds them from the clips and drops alternates; importing a file that was relinked plays the
  relinked file; a missing file's name is free, so the next import may give old clips its sound; an import that cannot place its clip
  leaves the converted file. A stem of a track that goes to a bus is silent (`OfflineBounce.cpp:829-843` keeps only the track); a stem
  export that fails leaves the earlier stems; a bounce whose manifest fails has replaced the mix already. The video plan's
  command renders the first clip only.
* *Interchange* (`ExchangeKeeps`): no form carries locks, mutes (muted clips are left out), stretching, playlists, regions (but MIDI),
  inserts or sends; only the reference carries polarity, and no markers. MIDI tempos earlier than the last signature come late
  (`TimelineExport.cpp:255-278`), an import always has 120 at its head (2865), an event at a region's very end is
  written and not played. Empty names come back as "-" in the reference. Non-drop labels at 29.97 come back 3.6 s early per hour.
* *Engine*: the parameter of a master insert goes to a chain that never sounds (`NeuracoustDspEngine.cpp:1330`); a route with a latency
  in front of a bus that has one too is compensated twice, and two sends of a track to one bus share a delay line (`Corrected`, the condition of `Aligned`,
  has neither, nor a server's insert with a latency); bypassing an insert live leaves the waits as they were made
  (`updateTrackInsertBypassState`, 1200-1223), so that the track is early by the insert's latency until a document is handed over (`Shift` in `Aligned`); a
  chain beside the graph that is taken over for the next document keeps the values it had, because the key it is found by names no values and nothing is sent to
  it (513-523, 2033-2041), and a server is told values only when its chain is prepared (1964, 1999, 2182) (`HeardAsPlanned` asks for those in `given`); a VCA's mute
  does not silence these chains (645), whose processed-minus-dry sound (2304-2327) is no token and not part of `RoutesSound`; switching sends live does not build the graph anew, soloing does not follow sends and a
  monitored bus is passed over (`RoutesSound`); `loadProject` clears the block it would crossfade from (986, 1003); notes are held
  over seeks, stops, loop wraps and the warm-up block (1816-1834); an instrument is loaded again when a block's length changes
  (`ProjectAudioRenderer.cpp:1694-1697`); a push that began before input was switched off adds one buffer and
  leaves the active flag set; a master chain that fails to prepare counts as prepared (1813-1827); the status query renders and moves the playhead.

### Fairness

* *bridge*: the worker's thread is scheduled (`WF` on its steps, hanging and crashing excepted), `Teardown`
  goes on because it polls with a deadline and then kills, and prepare returns because its wait has a timeout. No
  fairness for the renderer: it may stop calling. `LastRequestAnswered` excepts workers that die, hang or are
  torn down, and `TeardownEnds` the case `Orphaned`, a worker killed with the shared mutex in its hands: the mutex
  is not robust, and the client then does block.
* *stream*: both threads run, and an exchange ends because `select()` has a timeout. New calls are not fair.
* *listen_room*: the worker runs, and the control thread goes on when the worker has ended. That the worker's sends end is
  an assumption about the relay, since `connect()` and `send()` have no timeout. `ConfigureEnds` speaks of an audio
  thread that pauses (the pushes of a room are bounded): where the engine does not hold its mutex over
  `configure()`, pushes as fast as the worker sends would keep it from ever leaving.
* *history*, *session*, *manager*, *edits*, *engine*: safety only. Commands and calls come as the user makes them, blocks as the device asks.

## 4. What is proved

All proofs are for every value of the constants, from the assumptions named in the modules.

`ProjectHistoryProofs` (`DocumentAssumption`, `NameAssumption`, `DepthAssumption`):

* `TypeCorrect`: `Spec => []TypeOK`. Undo and redo take the name of a step from a stack they do not check, and
  push a snapshot they do not check; `TypeOK` says that both are there.
* `DepthIsBounded`: `Spec => []DepthBounded`.
* `TimelineImplemented`: `Spec => ImplementsTimeline`, the refinement of `EditTimeline`.

The first two come from `HistoryInv == TypeOK /\ DepthBounded`. The code's redo does not trim, so a bound on the
undo stack alone is not inductive; the *sum* of the stacks is, and a recorded step, the only one that grows the sum,
also trims (`PushStepInv`). The refinement needs `HistoryInv` too: that the trimmed stack lost exactly its oldest
state follows from the bound. Its argument is algebra: undo and redo leave `undo \o <<current>> \o Reverse(redo)`
as it is (`UndoMoves`, `RedoMoves`, and the same for names), because pushing on the redo stack puts an element in front of
its reversal (`ReverseAppend`) and concatenation is associative. `AtCursor`, `CutAtCursor` and `TrimmedPush` do the
amending and the recorded step.

`ProjectSessionProofs` (`PathAssumption`, `FileAssumption`, `DefaultAssumption`, `SnapshotAssumption`):

* `LastSaveKept`, `CleanIsOnDisk`, `DirtyHasAutosave`, `OwedIsOffered`: the four properties of the run `session`, for all
  documents, paths, normalizations (the run's is the identity), any number of backups and every way a file operation can fail.
  `SnapshotAssumption` asks only that normalizing twice is normalizing once and that no snapshot is the mark for "none".

The inductive invariant is `SessionInv`, and each of its parts says what the handlers have put on the disk at each step they
can die at. `Backed`: a project file is what was last saved, or is gone and the backup is; when it is about to be replaced it is
in the backup, which is why replacing may fail halfway. `Matched`: the saved snapshot is the project file's except between the
writing of the document's own file and the mark. `Covered`: what makes the document dirty is at the step `autosave` with the history
already at the document, and after the mark or an opening the document is clean, so no handler returns with dirty work that is
not in the autosave. `Kept`: nothing is owed at the path of the open document, so its autosaves overwrite no owed work.
`Covered` and `Kept` need each other when a document is given up: what it then leaves behind is what `Covered` says is there.

`Vst3BridgeProofs` (`SizeAssumption`, `ResendAssumption`, `BoundAssumption`):

* `AnswersAreWhole`, `PlayedLate`, `FreezeEnds`: `ResponseIsWhole`, `OneBlockLate` and `FrozenBounded` of the run `bridge`, for
  every block length, stall limit, number of blocks and number of segments created one after the other.
* `ParametersArrive`: `Resend /\ Spec => []WetHasTheParameters`, that is for Waves plug-ins. Without `Resend` it is false (run `bridge_parameters`).

The inductive invariant is `BridgeInv == Types /\ Numbered /\ Whole /\ Late /\ Frozen`. `Numbered` orders the three counters: answered,
taken, sent; a request that is being copied out (`worker = "taking"`) is new, because the mutex is held. `Whole` follows a request from the segment
to the worker's copy to the output region; the copy is why the client may overwrite the segment meanwhile. `Late` bounds every
sample anywhere by the number of blocks sent, from which "played later than sent" follows, also for the part of the output an answer did
not overwrite. `Frozen` ties the number of times an answer was heard to `stallBlocks`; that an answer seen as fresh was never heard before needs
`lastResponse` between what was heard and what was answered. `Resent`, for the parameters, adds that wanted values only grow and
that the plug-in is not ahead of the request taken last: a request of value 0 ("none") then finds the plug-in at its default.

`RemoteDspStreamProofs` (`TargetAssumption`, `QueueAssumption`, `NoneAssumption`, `BoundAssumption`):

* `TypeCorrect` (the queues stay within their limits), `BlocksInOrder`, `NothingFromBefore`,
  `OneUserOfTheSession`, `PlayingGoesForward`: the safety properties of the run `stream`.

The inductive invariant `StreamInv` adds what these properties do not say and the next step depends on. For the
socket (`Exclusive`): the renderer primes with an empty input queue, so the worker cannot begin an exchange
meanwhile; and when a timely call returns with nothing processed, the worker is asleep or absent, so that a later call may prime.
For the order (`Ordered`): the block in the renderer's hands is newer than all that are on their way, and these are of
the configuration in force. For playing (`Forward`): so is all of it newer than what was played, primed blocks
included, which holds only because priming meets empty queues. The lemmas `Shortened`, `Extended` and `Bounded` say
what the queue operations do to the set of blocks and to their order, `Joining` builds the line from its parts.

`ListenRoomSenderProofs` (`SettingsAssumption`, `SizeAssumption`):

* `TypeCorrect`, `RoomsStayApart`, `HolesAreLosses`, `OnlyLatecomersAreLost`: all safety properties of the run `listen_room`
  but one.

The inductive invariant is `SenderInv`. `Sound` states that rooms stay apart as a matter of types: everything that holds sound is a sequence over
`Made`, the units of this room up to now; the new room starts from empty sequences, and that `block` and
`frame` are empty then needs `Places`. `Late` is the same for a worker that has left: what is in the queue is a sequence over the units made
since it was asked. `Numbered` compares the packets with `Upcoming`, the number the next one will have, which is in
the worker's hands while it sends and in `sequence_` otherwise.
`CountersAreHonest` (`CountersTellLosses`) is about the concatenation of the whole queue, block by block. Its invariant `Carried` says that the
sound of the room is `Row` (heard, in a frame, not yet a frame, in a block, waiting) and, natively, `Direct`. What had to be added is that there is an
encoder wherever something waits for its frame to fill, and none on the worker's PCM path, so that a PCM block overtakes nothing. `FlattenSeq` is recursive; what
the proof needs of it (the empty sequence, one more block, one less) is proved for sequences of blocks of any length by looking
at the shortest one for which it would fail.

`DspManagerProofs` (`NetworkAssumption`; `ChannelAssumption`: counts are numbers; `NameAssumption`: who is asked by a machine's host name is that machine, and
the ids that are made of an address are nobody's name or address. Several addresses may report one host name):

* `TypeCorrect`: `Spec => []TypeOK`; a refresh asks only servers and only finitely many instances are registered.
* `ReadyAlwaysFits`: `ReadyFits`, for any servers, instances, channel counts and limits, which each status may change.
* `NeverListedTwice`: `ListedOnce`, for any number of machines, each with any addresses.
* `LatchAlwaysHolds`: `LatchHolds`, whatever happens to the list while a refresh asks.

The invariant is `IInv == TypeOK /\ Named /\ Counted`: a listed server has an id of its machine, and every listed server counts the
channels of all external instances modulo `Wrap`, also one that a refresh has just made anew. From `Counted` alone follows that a request that fits is
told so of the true sum, if that is below `Wrap`: the channels that a registration adds are at most those asked for (`NoMoreThanRoom`, `RoomForReady`). `Named` ties an
answer to the machine: what is found under an id or an address of a machine is an entry of this machine (`SameMachine`). The channels are a sum over a set, the lists
are filtered. That a sum does not depend on its order and loses what is taken out (`ChannelsAgree`, `ChannelsRemove`) is shown by the smallest set for which
it would be otherwise, and `KeptPlaces` gives every entry of a filtered list its place in the old one, so that what held of all entries, and of any
two, still does. A scan lists an address once, and nothing but a scan makes a list longer or gives an entry to another machine, which is `ListedOnce`.

`RealtimeEngineProofs` (`FramesAssumption`: sizes, positions and loop times are natural numbers; the code clamps what it is given
at zero, `ProjectAudioRenderer.cpp:468-474` and `:1289-1294`):

* `InputNeverStale`: `StaleInputBounded`, for all documents and settings.
* `PlayheadAlwaysFollows`: `PlayheadFollows`, for all documents, loops, block sizes and positions.
* `FeedersComeFirst`: in any project whose tracks have names of their own, the order of a block has every track once, and
  each that is not in a feedback loop or behind one (`InLoops`) after all tracks that feed it.
* `WaitsAlign`: in any project without feedback, whatever latencies its inserts report, every way to a track is at most as late as the
  track's path, one is exactly as late, and path and wait together are the longest path for every track that carries audio. The run's
  `Aligned` follows the same waits into the sound; the theorem says that the waits themselves are right. It assumes `Delays`, that latencies
  are natural numbers (they are unsigned, `MixerGraph.h:50`), and both assume `Distinct`, which the editor keeps (`NamesResolve`).

Some thirty operations rewrite the one record that is the engine. For the first theorem each of them is shown to leave the
buffer and what it depends on alone (`Keeps`), to empty it unless it is wanted (`Settled`), or to be the callback or a block; the invariant
`InputInv` counts what waits by where the callback stands: a callback that began before the input was switched off brings one buffer
afterwards, another one cannot begin. `DeviceOK` gives that the started size is a number. For the second theorem each is shown to leave playhead and loop alone (`Stays`), or the
playhead is what the step tells the listener (`cue`); a block is the only step whose playhead has to be computed twice. `CueInv` says
that the engine's playhead is the listener's. The renderer walks from segment to segment, wrapping when one reaches the
loop's end; the listener goes frame by frame. `Due` is brought to a closed form (frame `k` is `from + (at - from + k) % length` from the moment the loop's end
is passed, `DueIs`), and `SegmentsFollow` shows by the least counterexample that after `k` segments what has been rendered is the beginning of what is
due, with the rest still `left`, which at `k = size` is nothing: every segment is of one frame at least, also when a loop is
shorter than the block. The wrap of `Wrapped`, a subtraction of lengths by `%`, is where the arithmetic is (`Place`, `ModAdd`).

The two theorems on the mixer follow two loops round by round. `VisitOK`, of the loop that orders the tracks, says that visited and ready tracks together are those
fed by visited ones only, each once; there are no more tracks than rounds (`VisitedIs`), so nothing is ready in the
end, and what is left over is fed by what is left over, which makes it a set of loops. `PathOK`, of the loop that spreads latencies,
says that the paths are right as far as the tracks before have spread theirs; in an order without loops no track before is fed by the one
at hand, so its path is final (`SpreadKeeps`). That a way to a track in a loop may be later than the track's path is the code's: a route
keeps the path it had at its turn (`MixerGraph.cpp:228`).

`ProjectEditsProofs` (`LimitsAssumption`, `UnitsAssumption`, `TextAssumption`, `TempoAssumption`, and `EditsAssumption`, of two parts. `GivenInputs`: times are natural
numbers, gains, shifts and pitches integers, the lists of a take are lists. `GivenDocument`, of a document one starts with: it is typed, in order, its clips are
timed, and clips and regions have ids of their own, as an opened project has: the reader gives a new id to what has one twice, `ProjectDocument.cpp:2756` and `:3015`):

* `TimelineStaysInOrder`: `TimelineInOrder`, for any documents, times, limits, bases and digits of numbers and any number of commands in every
  area: adding, moving, renaming and deleting points, routing rules, saving and reopening, and exchange by EDL,
  FCPXML, reference and MIDI.
* `LockedStayUntouched`: `LockedUntouched`, for any documents, times and limits and any number of commands on clips, regions and notes.
* `IdsStayUnique`: these commands leave every clip, every copied clip and every region an id of its own.

*The timeline.* The invariant is `TimelineInv`: the document is `TimelineGood`, and where points are edited the clips have times as long as editing goes on, because the
selection and the range around a time are made of them. Most commands leave the timeline alone (`SameTimeline`; one lemma for each
area, `ClipCommands` to `MediaCommands`). Those that do not are in `PointCommands`, and sort again what they touch: `ByTimeIs`. Sorting
is by rank, the number of points that come before, and `ListsInOrder` and `ListsAll` show that the ranks of a finite set in any total order
list each of its members once and in order; a point that comes before all others stays the first (`FirstStays`), and with it the tempo, which follows from it by
rounding to whole BPM (`Tempoed`, by `NearestIs`, `WholeIs` and `InPartsIs`, on the quotient and remainder of `QuotientIs`).
Reopening is where order could be lost: numbers are written with a fixed number of digits, so that two times may be rounded to different units.
`RoundedOrder` says they stay in order, because of two units the smaller divides the greater (`PowerDivides`), so that both roundings stay on their
side of the first number that is long enough for the greater. A MIDI file counts in ticks, and `TicksAndBack` takes a time there and back.

*What is locked.* "No locked clip changes" is not inductive by itself: an operation asks whether the clip it names is locked and then changes all clips of that
id (`Change`), so that a second clip of the id would be changed with its lock on. Hence `ListsInv`: clips, copied clips and regions are lists
with ids of their own, as long as editing goes on. An operation is `Sound` (`RegionsSound` for regions) when it makes such a list of such a list
and every locked member of the old one is in the new one. Operations compose (`SoundAgain`), and so do the passes of a loop (`PassesKeep`: the first pass
after which a list would not be sound cannot be). What remains are four kinds of operation: those that change clips
at their places and leave the locked ones (`Revised`); those that add clips under free ids; those that pick some of the clips, all locked
ones among them; and those that do both, like clearing a range, where a clip is replaced by its left and right piece. That an id is free is itself
a lemma (`FreshIdIs`): the code counts up until no clip has the name, and of as many names as there are clips and one more, one is free.
The lemmas `ClipCommandKeeps`, `MidiCommandKeeps` and `NoteCommandKeeps` go through the commands; the rebuilding of the edit model after a command and
the routing rules leave clips and regions alone.

For these proofs the modules of the edits sort, filter and go through lists by the places of their members (`Listing`: `Ranked`, `Picked`, `Repeated`), take powers from a recursive function (`Power`), and
`MixGraph` keeps and visits by recursive functions (`Those`, `Visited`, `PathLatency`), in place of `SortSeq`, `SelectSeq`, folds and `^`, of which the provers know nothing.

What of data can be proved. The library's induction theorems take an operator as a parameter, which the provers cannot instantiate, but a
property of *one* recursive function or fold can be proved with well-founded minima (`WFMin`): if it fails, it fails for a smallest number or
set, and that one follows from the one before. The sums, filtered lists and concatenations above, `Due`, `Segments`, `Power`, `Repeated` and the mixer's two loops are
proved this way. `RECURSIVE` operators occur in no module.

Only model-checked:

* The liveness properties (`ConfigureEnds`, `CallReturns`, `LastRequestAnswered`, `TeardownEnds`): fairness and ENABLED are out of the provers' reach.
* `RoutesSound`, `Aligned`, `HeardAsPlanned`: they compare the sounds the renderer computes, folds over tracks,
  sends and inserts inside each other, with definitions of paths over the same graph, and each fold would need its own argument. Order and
  waits, which they rest on, are proved.
* The other properties of `ProjectEdits` (`ShownIsPlayed` and `NamesResolve` among the invariants): they follow sequences of clips, tracks, regions and notes through some hundred operations that filter, sort and fold
  them, each with its own definition of what is kept (what is heard at every moment, which names are in use), and then through
  the rebuilding of the edit model and the text.

## 5. What is not modelled

* Signal processing, file formats, JSON, layout, drawing, HTTP: floating-point arithmetic and pure I/O.
* The VST3 and WebRTC libraries, the system's audio API: outside the repository.
* In the modelled components `PROJECT.json` says under `components` what each leaves out. The main things:
  * session: reading errors on open; bridge: the 32-bit wrap of the sequence numbers (weeks of audio), a second client
    of the same plug-in slot (`Vst3RealtimeBridge.cpp:218`), which would take over the first one's segment; listen room: rate conversion and displayed
    counters; manager: the socket loop (`NuclustDspManager.cpp:997` and `:1066`) and the
    `connected` display flag, which no decision reads.
  * edits: names and colours, values of volume, pan, mute and solo, pre-fader and stereo switches, instrument MIDI channels, the monitor
    station, snap, grid and timecode arithmetic, interpolated tempo (`projectTempoAtSeconds`; the tempo is constant in the MIDI
    areas), chord and lyric events (the same code as markers), duplicating a track without any playlist.
  * files: project settings; fades and note beats are not rounded; path arithmetic.
  * media and interchange: sample rates, levels, dither, realtime pacing, tempo and key analysis, the import manifest, copies of video files, the cache of
    decoded audio; time signatures, lyrics and chords, timecode start, number formatting. A tick is a whole number of milliseconds.
  * engine: levels, pan, fades, meters, MIDI insert effects (whose echo loses events that cross a block), the signal generator, publishing to the
    listen room, telemetry beyond the count of callbacks, a try-lock that fails (`resetRuntime`, `updateTrackSendSlot` and
    `updateTrackInsertBypassState` then do nothing, silently). `physicalInputAccessAllowed` is FALSE at opening, as `nc_engine_start` leaves it.
* Not modelled at all: the recorders (`MacAudioInputRecorder.mm:76`: a callback before `recording` is set drops its buffer), the WebRTC sender,
  the core server, plug-in scanning and hosting, Windows and ASIO backends, the user interface, the assistant, the license client, packaging.

## 6. Plan

In order of weight; each with its own module, run, mutants and `map` entries.

1. Proofs: `ShownIsPlayed`, command by command as for the locks, on the lists with ids that `ListsInv` has; lemmas about single
   edits (`SplitAt` keeps what is heard); `Aligned` for graphs without sends.
2. `WebRtcSender`: negotiation, callbacks, the send loop and stop; composed with `ListenRoomSender`
   (`NativeWebRtcSender.cpp:664`, and an HTTP answer without a timeout under the listen room's mutex).
3. The engine composed with `RemoteDspStream` in place of its answered-or-not exchange (`NeuracoustDspEngine.cpp:2373` resets the
   stream in every local block), and the held notes as a property of jumps.
4. `RemoteProtocol`: client session, lossy network and core server, with `RemoteDspStream`'s exchange as its abstract
   specification.
5. `Recorders`: device callbacks against start and stop.
6. Abstract specifications still to state: an atomic save (`ProjectSession` implements it up to the recovery
   finding), a delay line (`Vst3Bridge` and `RemoteDspStream`).
