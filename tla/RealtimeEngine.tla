---- MODULE RealtimeEngine ----
(***************************************************************************)
(* The realtime engine (CoreAudioRealtimeEngine.mm): the program's calls,  *)
(* the device's render callback and the input queue's callback, over the   *)
(* engine of DspEngine and the renderer of RenderBlock.                    *)
(*                                                                         *)
(* A call takes the engine's mutex for its whole body, as a block does, so *)
(* each of them is one step.  The input callback takes only the buffer's   *)
(* lock, after it has read whether anybody wants the input: two steps.     *)
(***************************************************************************)
EXTENDS DspEngine

CONSTANTS
    Docs,           \* the documents the program hands over,
    Opening,        \* the settings the bridge opens the engine with,
    Settings,       \* those it may be started again with,
    Touched,        \* the tracks it changes as the engine plays,
    Sizes,          \* the sizes of the device's blocks,
    Positions,      \* the frames it seeks to,
    Values,         \* the values of a parameter,
    Troubles,       \* what may be the matter while something is prepared or rendered,
    PushFrames,     \* the frames of an input buffer,
    Suppressed,     \* callbacks left out of the count after a change of the graph
    MaxOps,         \* bounds: calls,
    MaxReloads,     \* of them those that hand over a document, change the modules or start the device again,
    MaxBlocks,      \* blocks,
    MaxPushes       \* and input buffers

ASSUME FramesAssumption ==
    /\ PushFrames \in Nat /\ Sizes \subseteq Nat
    /\ \A set \in Settings \cup {Opening} : set.size \in Nat
    /\ Positions \subseteq Nat
    /\ \A doc \in Docs : doc.loop \in [on : BOOLEAN, from : Nat, to : Nat]

VARIABLES
    eng,    \* the engine
    dev,    \* the device: `running`, `unit`, `queue` (the input's), `allowed`, `talk`, `click`, `size`, and
            \* `count` (the callbacks counted) and `quiet` (those still left out)
    push,   \* the input callback under way: "none", or what it read: "capture", "talk"
    heard,  \* the block this step let be heard
    cue,    \* the frame a listener expects next
    given,  \* <<track, insert>> whose value the chains were given: all at the opening, those changed live since
            \* a document was handed over
    ops, reloads, blocks, pushes
vars == <<eng, dev, push, heard, cue, given, ops, reloads, blocks, pushes>>

Nothing == [frames |-> <<>>, due |-> <<>>, mixes |-> {}, beside |-> {}, broken |-> {}]
Closed == [running |-> FALSE, unit |-> FALSE, queue |-> FALSE, allowed |-> FALSE, talk |-> FALSE, click |-> FALSE,
           size |-> 256, count |-> 0, quiet |-> 0]
Init ==
    /\ eng = Idle /\ dev = Closed /\ push = "none" /\ heard = Nothing /\ cue = 0 /\ given = {}
    /\ ops = 0 /\ reloads = 0 /\ blocks = 0 /\ pushes = 0

----------------------------------------------------------------------------
(* The input queue *)

\* A queue the system refuses is one whose buffers never come.
LowLatency(e) == e.inp.capture
StartInput(d, e) == [d EXCEPT !.queue = @ \/ (d.allowed /\ (LowLatency(e) \/ d.talk))]
RefreshInput(d, e) ==
    IF ~d.running /\ ~d.unit THEN d
    ELSE IF d.allowed /\ (LowLatency(e) \/ d.talk) THEN StartInput(d, e) ELSE [d EXCEPT !.queue = FALSE]
Uncounted(d) == [d EXCEPT !.count = 0, !.quiet = Suppressed]

\* The callback reads what is wanted, without a lock ...
ReadInput ==
    /\ dev.queue /\ push = "none" /\ pushes < MaxPushes
    /\ eng.inp.capture \/ eng.inp.talk
    /\ push' = IF eng.inp.talk THEN "talk" ELSE "capture"
    /\ pushes' = pushes + 1 /\ heard' = Nothing
    /\ UNCHANGED <<eng, dev, cue, given, ops, reloads, blocks>>
\* ... and then appends the buffer, unless the buffer's lock is taken.
AppendInput ==
    /\ push # "none"
    /\ eng' \in {eng, PushInput(eng, PushFrames, push = "talk")}
    /\ push' = "none" /\ heard' = Nothing
    /\ UNCHANGED <<dev, cue, given, ops, reloads, blocks, pushes>>

----------------------------------------------------------------------------
(* Starting and stopping *)

\* The expected frame follows the timeline, one frame at a time.
Place(loop, at) == IF Valid(loop) /\ at >= loop.to THEN loop.from + ((at - loop.from) % (loop.to - loop.from)) ELSE at
After(loop, at) == IF Valid(loop) /\ at + 1 = loop.to THEN loop.from ELSE at + 1
Due(loop, at, size) ==
    LET due[k \in 0..size] == IF k = 0 THEN Place(loop, at) ELSE After(loop, due[k - 1])
    IN due

\* The reset is left out when another thread has the engine's lock.
Stopped(d) == [d EXCEPT !.running = FALSE, !.unit = FALSE, !.queue = FALSE]
Call == ops \in 1..MaxOps - 1 /\ ops' = ops + 1 /\ heard' = Nothing /\ UNCHANGED <<push, blocks, pushes>>
ChangeCall == Call /\ UNCHANGED <<reloads, given>>
Reload == Call /\ reloads < MaxReloads /\ reloads' = reloads + 1
Stop ==
    \E contended \in BOOLEAN :
        /\ Reload /\ dev.unit /\ UNCHANGED given
        /\ dev' = Stopped(dev)
        /\ eng' = IF contended THEN eng ELSE ResetRuntime(eng)
        /\ cue' = IF contended THEN cue ELSE 0

\* The playhead is kept over a restart; whether the device opens is up to the system.
Back(conf, at) == IF conf.ok /\ at > 0 THEN [conf EXCEPT !.e = Seek(@, at)] ELSE conf
Prepared(stopped, set, trouble) == Back(Configure(stopped, set, trouble.served, trouble.broken), eng.play)
Opened(set, e) ==
    StartInput([Closed EXCEPT !.running = TRUE, !.unit = TRUE, !.allowed = set.allowed, !.talk = set.talk,
                              !.click = set.click, !.size = set.size, !.quiet = dev.quiet], e)
Unopened(set) ==
    [Stopped(dev) EXCEPT !.allowed = set.allowed, !.talk = set.talk, !.click = set.click, !.size = set.size, !.count = 0]
Start(stopped, set, trouble) ==
    \E made \in {Prepared(stopped, set, trouble)} :
        \/ /\ made.ok
           /\ eng' = made.e /\ dev' = Opened(set, made.e) /\ cue' = cue
        \/ \* No device; the settings were not accepted; no audio unit; the unit did not start.
           /\ eng' \in {stopped, made.e} \cup (IF made.ok THEN {ResetRuntime(made.e)} ELSE {})
           /\ dev' = Unopened(set)
           /\ cue' = eng'.play
Restart ==
    /\ Reload /\ UNCHANGED given
    /\ \E set \in Settings, stopped \in {eng, ResetRuntime(eng)}, trouble \in Troubles :
        Start(stopped, set, trouble)

\* The bridge starts the engine with the document loaded before and after.
Open ==
    /\ ops = 0 /\ ~dev.unit
    /\ \E doc \in Docs, trouble \in Troubles :
       \E first \in {LoadProject(eng, doc, trouble.served, trouble.broken)} :
       \E conf \in {Configure(ResetRuntime(first.e), Opening, trouble.served, trouble.broken)} :
       \E again \in {LoadProject(conf.e, doc, trouble.served, trouble.broken)} :
       \E opened \in {Opened(Opening, conf.e)} :
            /\ first.ok /\ conf.ok
            /\ eng' = again.e
            /\ given' = UNION {{<<t.name, i>> : i \in DOMAIN t.inserts} : t \in Range(doc.tracks)}
            /\ dev' = IF again.ok THEN RefreshInput(Uncounted(opened), again.e) ELSE opened
    /\ ops' = 1 /\ heard' = Nothing /\ cue' = 0
    /\ UNCHANGED <<push, reloads, blocks, pushes>>

----------------------------------------------------------------------------
(* The document *)

Handed(made, at) ==
    /\ eng' = made.e
    /\ dev' = IF made.ok THEN RefreshInput(Uncounted(dev), made.e) ELSE dev
    /\ cue' = at /\ given' = {}
Load ==
    /\ Reload
    /\ \E doc \in Docs, trouble \in Troubles :
        \E made \in {LoadProject(eng, doc, trouble.served, trouble.broken)} : Handed(made, 0)
Update ==
    /\ Reload
    /\ \E doc \in Docs, trouble \in Troubles :
        \E made \in {UpdateProject(eng, doc, trouble.served, trouble.broken)} : Handed(made, cue)
PlayFile ==
    \E length \in Positions \ {0} :
        /\ Reload /\ eng' = LoadAudioFile(eng, length)
        /\ dev' = [dev EXCEPT !.queue = FALSE] /\ cue' = 0 /\ given' = {}

----------------------------------------------------------------------------
(* Changes that the engine takes over as it plays *)

Changeable == {t \in Range(eng.plan.tracks) : t.name \in Touched}
Change(e) == ChangeCall /\ eng' = e /\ eng' # eng /\ UNCHANGED <<dev, cue>>
Parameter(t, i, value) ==
    /\ Call /\ eng' = UpdateTrackParameter(eng, t.name, i, value) /\ eng' # eng
    /\ given' = given \cup {<<t.name, i>>} /\ UNCHANGED <<dev, cue, reloads>>
Live ==
    \/ \E on \in BOOLEAN : Change(SetTestTone(eng, on))
    \/ \E t \in Changeable :
        \/ \E i \in DOMAIN t.sends, on \in BOOLEAN : Change(UpdateTrackSend(eng, t.name, i, on))
        \/ \E i \in DOMAIN t.inserts, byp \in BOOLEAN : Change(UpdateTrackBypass(eng, t.name, i, byp))
        \/ \E i \in DOMAIN t.inserts, value \in Values : Parameter(t, i, value)
        \/ \E flip \in {"mute", "solo"} :
            Change(UpdateTrackPlayback(eng, t.name, IF flip = "mute" THEN ~t.mute ELSE t.mute,
                                       IF flip = "solo" THEN ~t.solo ELSE t.solo))
        \/ \E pitch \in {n.pitch : n \in eng.plan.notes}, on \in BOOLEAN :
            Change(QueueLive(eng, t.name, [pitch |-> pitch, on |-> on]))
    \/ \E i \in DOMAIN eng.plan.master, byp \in BOOLEAN : Change(UpdateMasterBypass(eng, i, byp))
    \/ \E i \in DOMAIN eng.plan.master, value \in Values : Change(UpdateMasterParameter(eng, i, value))
    \/ \E i \in DOMAIN eng.set.speaker, value \in Values : Change(UpdateSpeakerParameter(eng, i, value))
    \/ \E path \in {"internal", "external"}, server \in BOOLEAN : Change(SetMonitorPath(eng, path, server))
SetModules ==
    \E on \in BOOLEAN, target \in BOOLEAN, trouble \in Troubles :
        /\ Reload /\ eng' = SetMonitorModules(eng, eng.set.speaker, on, target, trouble.broken)
        /\ dev' = Uncounted(dev) /\ UNCHANGED <<cue, given>>
SetClick ==
    /\ ChangeCall /\ eng' = SetMetronome(eng, ~eng.set.click) /\ dev' = [dev EXCEPT !.click = ~eng.set.click]
    /\ UNCHANGED cue

\* Those after which the input queue is started or stopped.
Refreshing(e, d) == ChangeCall /\ eng' = e /\ dev' = RefreshInput(d, eng') /\ UNCHANGED cue
Station ==
    \E on \in BOOLEAN, route \in {"listen_room", "monitor_bus"} :
        Refreshing(SetTalkback(eng, on, route), [dev EXCEPT !.talk = on])
Allow == Refreshing(eng, [dev EXCEPT !.allowed = ~@])
Record == Refreshing(SetRecording(eng, ~eng.set.recording), dev)
Arm ==
    \E t \in Changeable, flip \in {"arm", "mon"} :
        Refreshing(UpdateTrackRealtime(eng, t.name, IF flip = "arm" THEN ~t.arm ELSE t.arm,
                                       IF flip = "mon" THEN ~t.mon ELSE t.mon, t.mute, t.solo), dev)

----------------------------------------------------------------------------
(* The transport *)

\* Starting the transport is not counted as a call: every behaviour of interest has it.
Run ==
    /\ ~eng.set.running /\ heard' = Nothing
    /\ eng' = SetRunning(eng, TRUE) /\ UNCHANGED <<dev, push, cue, given, ops, reloads, blocks, pushes>>
Halt == eng.set.running /\ Change(SetRunning(eng, FALSE))
GoTo == \E at \in Positions : ChangeCall /\ eng' = ArmSeekRamp(Seek(eng, at)) /\ cue' = at /\ UNCHANGED dev
ToStart == ChangeCall /\ eng' = Rewind(eng) /\ cue' = 0 /\ UNCHANGED dev

----------------------------------------------------------------------------
(* Blocks *)

Counted(d) == IF d.quiet > 0 THEN [d EXCEPT !.quiet = @ - 1] ELSE [d EXCEPT !.count = 1]
Block(size, trouble) ==
    /\ blocks < MaxBlocks /\ blocks' = blocks + 1
    /\ \E made \in {Render(eng, size, trouble)}, due \in {Due(eng.plan.loop, cue, size)} :
        /\ eng' = made.e
        /\ heard' = [frames |-> made.frames, due |-> [k \in 1..size |-> due[k - 1]], mixes |-> made.mixes,
                      beside |-> made.beside, broken |-> trouble.broken]
        /\ cue' = IF eng.set.running THEN due[size] ELSE cue
    /\ dev' = Counted(dev)
    /\ UNCHANGED <<push, given, ops, reloads, pushes>>
\* The device asks for a block, of at most the size it was started with.
RenderCallback == dev.unit /\ \E size \in 1..dev.size, trouble \in Troubles : size \in Sizes /\ Block(size, trouble)
\* Asking for the status renders a block of its own while no callback was counted and the metronome is on.
Status == dev.running /\ dev.count = 0 /\ dev.click /\ \E trouble \in Troubles : Block(dev.size, trouble)

Next ==
    \/ Open \/ Restart \/ Stop
    \/ Load \/ Update \/ PlayFile
    \/ Live \/ SetModules \/ SetClick \/ Station \/ Allow \/ Record \/ Arm
    \/ Run \/ Halt \/ GoTo \/ ToStart
    \/ ReadInput \/ AppendInput
    \/ RenderCallback \/ Status
Spec == Init /\ [][Next]_vars

----------------------------------------------------------------------------
(* What a listener may rely on *)

(* The frames of the timeline a block is made of follow each other, round the loop, from the frame the last
   block ended with or the program put the playhead on, whatever was loaded, changed or restarted in between. *)
PlayheadFollows == heard.frames # <<>> => heard.frames = heard.due

(* Without capture and without talkback no more of the microphone waits in the buffer than one callback that
   had begun before brought. *)
StaleInputBounded == ~eng.inp.capture /\ ~eng.inp.talk => eng.inp.held <= PushFrames

Tracks == eng.plan.tracks
Whole == heard.frames # <<>> /\ heard.broken = {} /\ eng.plan.graph.edges = Edges(Tracks)

\* A reference for what is heard: the tracks soloed ones play into, and the ways to the device.
SoloedNames == {t.name : t \in {t \in Range(Tracks) : Soloed(t)}}
Downstream ==
    LET Into(set, k) == set \cup {Receiver(Tracks, t.out) : t \in {t \in Range(Tracks) :
                            t.name \in set /\ ~t.mute /\ ~ExcludedFromSolo(t) /\ t.out # NoName}}
    IN FoldLeft(Into, SoloedNames, Tracks)
Audible(t) ==
    /\ ~t.mute /\ ~VcaMuted(Tracks, t)
    /\ SoloedNames = {} \/ t.name \in Downstream \/ Kind(t) \in {"master", "monitor"}
Targets(t) == {Receiver(Tracks, bus) : bus \in ({t.out} \cup {s.bus : s \in {s \in Range(t.sends) : s.on}}) \ {NoName}}
Ways ==
    LET Further(ways, k) == ways \cup UNION {{Append(w, n) : n \in Targets(TrackNamed(Tracks, Last(w))) \ (Range(w) \cup {NoName})}
                                             : w \in ways}
        begun == {<<t.name>> : t \in {t \in Range(Tracks) : Own(eng.plan, t, {}) # {}}}
    IN {w \in FoldLeft(Further, begun, Tracks) : TrackNamed(Tracks, Last(w)).out \in Physical
                                                 /\ \A i \in DOMAIN w : Audible(TrackNamed(Tracks, w[i]))}

(* The sound that leaves the mixer is that of every clip and instrument, once for each way of outputs and sends
   from its track to the device, through tracks that no mute, VCA or solo silences, and nothing else.  Not while
   the sends have been switched since the graph was built, nor with a bus whose input is monitored. *)
RoutesSound ==
    Whole /\ (\A t \in Range(Tracks) : Kind(t) # "audio" => ~Monitored(t, eng.plan.recording))
    => \A mix \in heard.mixes : {k.path : k \in mix} = Ways

(* With delay compensation every sound of the mixer reaches the device equally late, but for the latency of the
   inserts on its way that were bypassed or put back since the document was handed over: the waits are those of
   that moment, and a live bypass leaves them as they are.  It holds where what a route is fed with needs no
   correction further on (a bus had no latency or wait of its own), a server's insert reports no latency, and no
   track has two sends to one bus. *)
Corrected ==
    /\ eng.plan.pdc
    /\ \A t \in Range(Tracks) : IsInjective([i \in DOMAIN t.sends |-> t.sends[i].bus])
                               /\ \A x \in Range(t.inserts) : x.remote => x.lat = 0
    /\ \A e \in eng.plan.graph.edges : e.to # NoName => eng.plan.graph.lags[e.to] = 0 /\ eng.plan.wait[e.to] = 0
Shift(path) == Total(LAMBDA n : SelfLatency(TrackNamed(Tracks, n)) - eng.plan.graph.lags[n], path)
Aligned == Whole /\ Corrected => \A mix \in heard.mixes : Cardinality({k.delay - Shift(k.path) : k \in mix}) <= 1

(* What is heard of the mixer went through the inserts its tracks have, in their order, each with the value the
   plan has for it: after a block in which a plug-in failed, after a change of the value while the chain was not
   there, and after a chain was prepared again.  A local chain beside the graph has the values it was opened with
   and every value that was changed live; those of a document handed over later need not reach it, for a chain
   of the same plug-ins is taken over with the values it had. *)
Wanted(path) == FlattenSeq([i \in DOMAIN path |->
    LET inserts == Local(TrackNamed(Tracks, path[i]))
    IN [j \in DOMAIN inserts |-> <<inserts[j].plug, inserts[j].param>>]])
HeardAsPlanned ==
    heard.broken = {} =>
        /\ \A mix \in heard.mixes : \A k \in mix : IsPrefix(Wanted(k.path), k.fx)
        /\ \A x \in heard.beside : <<x.track, x.slot>> \in given =>
                x.value = TrackNamed(Tracks, x.track).inserts[x.slot].param
====
