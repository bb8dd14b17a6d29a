---- MODULE DspEngine ----
(***************************************************************************)
(* The engine behind the audio callback (NeuracoustDspEngine.cpp): its     *)
(* state is one record, guarded by one mutex in the code, and each of its  *)
(* operations here takes the record to the next one.  RealtimeEngine calls *)
(* them from the device's callbacks and from the program.                  *)
(*                                                                         *)
(* Fields: `ready` (configured), `size` (the longest block), `set` (the    *)
(* settings), `plan` and `rs` (what is rendered and the render state),     *)
(* `rt` (the chains prepared beside the graph: those of the master, of     *)
(* tracks with inserts on a DSP server, of the monitor output), `play`     *)
(* (the playhead; the count of frames beside it is never read),            *)
(* `wait` (the latency reported), `file` (the length of an audio file      *)
(* played instead of a project), `prev` (the size of the last block),      *)
(* `fade`, `ramp`, `path` and `mods` (frames left of the crossfade after a *)
(* reload, of the ramp after a seek, of the change of the monitor's path   *)
(* and of its modules) and `inp` (the microphone's buffer).                *)
(***************************************************************************)
EXTENDS RenderBlock

CONSTANTS
    FadeLength,     \* frames of the crossfade after a reload
    RampLength,     \* frames of the ramp after a seek
    ChangeLength,   \* frames of a change of the monitor's path or modules
    InputLimit,     \* frames the microphone's buffer holds,
    TalkLimit,      \* and while the talkback is on
    RemoteLatency   \* the latency the engine assumes of a chain on a DSP server

ASSUME LengthsAssumption == {FadeLength, RampLength, ChangeLength, InputLimit, TalkLimit} \subseteq Nat \ {0} /\ RemoteLatency \in Nat

----------------------------------------------------------------------------
(* The microphone *)

Eligible(e) == SelectSeq(e.plan.tracks, LAMBDA t : Monitored(t, e.set.recording))
EmptyInput(e) == [e EXCEPT !.inp.held = 0, !.inp.active = FALSE]
\* A slip: what is left of the input stays.
KeepsInput(e) == e
Unwanted(e) == IF ~e.inp.capture /\ ~e.inp.talk THEN EmptyInput(e) ELSE e
UpdatePolicy(e) ==
    Unwanted([e EXCEPT !.inp.capture = e.set.low /\ e.set.channels > 0 /\ Eligible(e) # <<>>,
                       !.inp.muted = /\ Eligible(e) # <<>>
                                     /\ LET t == Head(Eligible(e))
                                        IN t.mute \/ (~t.solo /\ \E x \in Range(e.plan.tracks) :
                                                        x.solo /\ x.name \notin {MasterName, MonitorName})])

\* What the input callback appends, having read `talk` before.
PushInput(e, frames, talk) ==
    [e EXCEPT !.inp.held = Min({@ + frames, IF talk THEN TalkLimit ELSE InputLimit}), !.inp.active = TRUE]

TalkToMonitor(e) == e.inp.talk /\ e.set.route \in {"monitor_bus", "all"}
MixesInput(e) == e.inp.capture \/ TalkToMonitor(e)
MixInput(e, size) == IF MixesInput(e) THEN [e EXCEPT !.inp.held = @ - Min({size, @})] ELSE e

----------------------------------------------------------------------------
(* Whether the monitor's processing is done inside the graph *)

AsksServer(e, path) == e.set.server /\ path \in {"external", "auto"}
RendersMonitor(e) ==
    /\ e.plan.clips # {} /\ e.set.dsp /\ ~AsksServer(e, e.set.path)
    /\ e.path.left = 0 /\ e.mods = 0 /\ ~e.set.tone /\ ~e.set.click
    /\ ~e.inp.capture /\ ~e.inp.active /\ ~e.inp.talk /\ e.file = 0
\* Moving it in or out of the graph starts the whole render state afresh.
SyncMonitor(e) ==
    IF e.plan.monitorDsp = RendersMonitor(e) THEN e
    ELSE [e EXCEPT !.plan.monitorDsp = RendersMonitor(e), !.rs = Fresh]

----------------------------------------------------------------------------
(* The chains beside the graph *)

OnServer(x) == x.remote /\ x.on /\ ~x.byp
BesideGraph(t) ==
    t.inserts # <<>> /\ t.type \notin {"folder", "bus_folder", "master", "monitor"} /\ t.out \in {MasterName} \cup Physical
Identity(x) == <<x.plug, OnServer(x), x.lat>>
Identities(inserts) == LET on == SelectSeq(inserts, LAMBDA x : x.on) IN [i \in DOMAIN on |-> Identity(on[i])]

\* What the prepared chains depend on: the plug-ins, not their parameters.
Signature(e) ==
    LET beside == SelectSeq(e.plan.tracks, LAMBDA t : BesideGraph(t) /\ Identities(t.inserts) # <<>>)
    IN [size |-> e.size, pdc |-> e.set.pdc,
        master |-> [i \in DOMAIN e.plan.master |-> <<e.plan.master[i].plug, e.plan.master[i].lat>>],
        tracks |-> [i \in DOMAIN beside |-> <<beside[i].name, beside[i].out, Identities(beside[i].inserts)>>],
        speaker |-> Identities(e.set.speaker)]

NoChains == [sig |-> <<>>, master |-> 0, output |-> <<>>, tracks |-> <<>>]
\* The chain of a track for its inserts at `slots`, taken over from `old` when it is the same one.
TrackChain(e, old, t, slots, remote, broken) ==
    LET xs == [j \in DOMAIN slots |-> t.inserts[slots[j]]]
        key == [name |-> t.name, out |-> t.out, size |-> e.size, inserts |-> [j \in DOMAIN xs |-> Identity(xs[j])]]
        same == {i \in DOMAIN old : ~old[i].remote /\ old[i].key = key}
        late == IF ~e.set.pdc THEN 0 ELSE IF remote THEN RemoteLatency ELSE Total(LAMBDA x : x.lat, xs)
    IN CASE slots = <<>> -> <<>>
         [] slots # <<>> /\ ~remote /\ same # {} ->
                <<[old[Min(same)] EXCEPT !.slots = slots, !.late = IF e.set.pdc THEN @ ELSE 0]>>
         [] slots # <<>> /\ (remote \/ same = {}) ->
                IF remote \/ Healthy(xs, broken)
                THEN <<[key |-> key, track |-> t.name, slots |-> slots, remote |-> remote, run |-> Loaded(xs), late |-> late]>>
                ELSE <<>>
TrackChains(e, old, t, served, broken) ==
    LET there == SelectSeq([i \in DOMAIN t.inserts |-> i], LAMBDA i : OnServer(t.inserts[i]))
        Far(i) == e.set.server /\ t.inserts[i].plug \in served
    IN TrackChain(e, old, t, SelectSeq(there, Far), TRUE, broken)
       \o TrackChain(e, old, t, SelectSeq(there, LAMBDA i : ~Far(i)), FALSE, broken)

Runs(xs) == SelectSeq(xs, LAMBDA x : x.on /\ ~x.byp)
PrepareOutput(e, broken) ==
    [e EXCEPT !.rt.output = IF Healthy(Runs(e.set.speaker), broken) THEN Loaded(Runs(e.set.speaker)) ELSE <<>>]

OutputLatency(e) == IF e.rt.output = <<>> THEN 0 ELSE Total(LAMBDA x : x.lat, Runs(e.set.speaker))
Reported(e) ==
    IF e.set.pdc THEN Max({e.plan.latency} \cup {c.late : c \in Range(e.rt.tracks)}) ELSE 0
Bare(e) == [e EXCEPT !.rt = [NoChains EXCEPT !.sig = e.rt.sig], !.wait = 0]
Latent(e) == IF e.set.pdc THEN Max({Reported(e), OutputLatency(e)}) ELSE 0
BesideChains(e, beside, served, broken) ==
    FlattenSeq([i \in DOMAIN beside |-> TrackChains(e, e.rt.tracks, beside[i], served, broken)])
Waiting(e) == [e EXCEPT !.wait = Latent(e)]
PrepareChains(e, served, broken) ==
    IF ~Healthy(e.plan.master, broken) THEN [ok |-> FALSE, e |-> Bare(e)]
    ELSE [ok |-> TRUE, e |-> Waiting(
        [PrepareOutput(Bare(e), broken) EXCEPT
            !.rt.sig = Signature(e), !.rt.master = Len(e.plan.master),
            !.rt.tracks = BesideChains(e, SelectSeq(e.plan.tracks, BesideGraph), served, broken)])]

\* A block is rendered and thrown away so that the plug-ins are loaded before the first one is heard.
Warm(e, broken) ==
    IF e.set.running \/ ~e.plan.effects \/ (~e.plan.processed /\ e.plan.master = <<>>) THEN e
    ELSE [e EXCEPT !.rs = ResetForSeek(RenderSegment(e.plan, e.rs, 0, e.size, broken).rs)]

----------------------------------------------------------------------------
(* Configuration, and the document *)

Steady == [from |-> "", to |-> "", left |-> 0]
Idle == [set |-> [running |-> FALSE, recording |-> FALSE, pdc |-> TRUE, low |-> FALSE, channels |-> 0, dsp |-> TRUE,
                  path |-> "internal", server |-> FALSE, tone |-> FALSE, click |-> FALSE, talk |-> FALSE,
                  route |-> "listen_room", speaker |-> <<>>, allowed |-> FALSE, size |-> 256],
         ready |-> FALSE, size |-> 256, plan |-> NoPlan, rs |-> Fresh, rt |-> NoChains, play |-> 0,
         wait |-> 0, file |-> 0, prev |-> 0, fade |-> 0, ramp |-> 0, path |-> Steady, mods |-> 0,
         inp |-> [capture |-> FALSE, muted |-> FALSE, talk |-> FALSE, active |-> FALSE, held |-> 0]]

Configure(e, set, served, broken) ==
    PrepareChains(UpdatePolicy([e EXCEPT !.set = set, !.size = set.size, !.ready = TRUE,
                                         !.plan.recording = set.recording, !.path = Steady, !.mods = 0,
                                         !.inp.talk = set.talk, !.inp.active = FALSE]), served, broken)

\* Everything prepared is let go; the document and the settings stay.
ResetRuntime(e) ==
    [EmptyInput(e) EXCEPT !.rs = Fresh, !.rt = [NoChains EXCEPT !.output = e.rt.output],
                          !.prev = IF e.ready THEN @ ELSE 0, !.fade = IF e.ready /\ e.prev > 0 THEN @ ELSE 0,
                          !.mods = 0, !.inp.capture = FALSE, !.inp.talk = FALSE,
                          !.play = 0, !.ready = FALSE]

PlaceAt(e, at) == [e EXCEPT !.play = at]
NoTrace(e) == [e EXCEPT !.prev = 0, !.fade = 0]

LoadAudioFile(e, length) ==
    UpdatePolicy([PlaceAt(e, 0) EXCEPT !.file = length, !.plan = NoPlan, !.rs = Fresh,
                                       !.rt = [NoChains EXCEPT !.output = e.rt.output], !.wait = 0])

\* The document's plan and the settings it carries.
Adopt(e, doc) ==
    LET plan == [MakePlan(doc) EXCEPT !.recording = e.set.recording, !.effects = TRUE]
    IN SyncMonitor(UpdatePolicy(
        [e EXCEPT !.plan = plan, !.rs = Fresh, !.set.pdc = doc.pdc, !.set.low = doc.low, !.set.talk = doc.talk,
                  !.set.route = doc.route, !.set.speaker = doc.speaker, !.inp.talk = doc.talk, !.mods = 0, !.file = 0]))
\* The chains are prepared again only when their signature changed.
Fading(e) == [e EXCEPT !.fade = IF e.prev > 0 THEN FadeLength ELSE @]
Renewed(prepared, broken) ==
    IF prepared.ok THEN [ok |-> TRUE, e |-> Warm(Fading(prepared.e), broken)] ELSE prepared
Renew(e, served, broken) ==
    IF ~e.ready THEN [ok |-> TRUE, e |-> e]
    ELSE IF Signature(e) = e.rt.sig THEN [ok |-> TRUE, e |-> Warm([e EXCEPT !.wait = Reported(e)], broken)]
    ELSE Renewed(PrepareChains(e, served, broken), broken)

LoadProject(e, doc, served, broken) == Renew(Adopt(PlaceAt(NoTrace(e), 0), doc), served, broken)
UpdateProject(e, doc, served, broken) == Renew(Adopt(e, doc), served, broken)

----------------------------------------------------------------------------
(* Changes of the plan without a reload: the graph stays as it was built *)

Has(e, n) == n \in TrackNames(e.plan.tracks)
IndexOf(e, n) == Min({i \in DOMAIN e.plan.tracks : e.plan.tracks[i].name = n})
OnTrack(e, n, F(_)) == [e EXCEPT !.plan.tracks[IndexOf(e, n)] = F(@)]

UpdateTrackSend(e, n, i, on) == UpdatePolicy(OnTrack(e, n, LAMBDA t : [t EXCEPT !.sends[i].on = on /\ t.sends[i].bus # NoName]))
UpdateTrackBypass(e, n, i, byp) == OnTrack(e, n, LAMBDA t : [t EXCEPT !.inserts[i].byp = byp])
UpdateTrackPlayback(e, n, mute, solo) == UpdatePolicy(OnTrack(e, n, LAMBDA t : [t EXCEPT !.mute = mute, !.solo = solo]))
UpdateTrackRealtime(e, n, arm, mon, mute, solo) ==
    UpdatePolicy(OnTrack(e, n, LAMBDA t : [t EXCEPT !.arm = arm, !.mon = mon, !.mute = mute, !.solo = solo]))

\* The value goes to the plan, to the route's chain and to a local chain beside the graph.
InGraph(x) == x.on /\ ~x.byp /\ ~x.remote
UpdateTrackParameter(e, n, i, value) ==
    LET t == TrackNamed(e.plan.tracks, n)
        at == Cardinality({j \in DOMAIN t.inserts : j <= i /\ InGraph(t.inserts[j])})
        stored == OnTrack(e, n, LAMBDA x : [x EXCEPT !.inserts[i].param = value])
        routed == IF InGraph(t.inserts[i]) /\ n \in DOMAIN e.rs.chains
                  THEN [stored EXCEPT !.rs.chains[n].run = UpdateParameter(@, at, value)] ELSE stored
        Push(c) == IF c.track = n /\ ~c.remote
                   THEN [c EXCEPT !.run = UpdateParameter(@, SelectInSeq(c.slots, LAMBDA s : s = i), value)] ELSE c
    IN [routed EXCEPT !.rt.tracks = [k \in DOMAIN @ |-> Push(@[k])]]

UpdateMasterBypass(e, i, byp) ==
    [e EXCEPT !.plan.master[i].byp = byp,
              !.wait = IF e.rt.master = 0 \/ e.rt.master # Len(e.plan.master) THEN @ ELSE Latent(e)]
\* Neither copy of the value reaches the chain that plays.
UpdateMasterParameter(e, i, value) == [e EXCEPT !.plan.master[i].param = value]
UpdateSpeakerParameter(e, i, value) ==
    LET at == Cardinality({j \in 1..i : InGraph([e.set.speaker[j] EXCEPT !.remote = FALSE])})
    IN [e EXCEPT !.set.speaker[i].param = value,
                 !.rt.output = IF @ # <<>> /\ e.set.speaker[i].on /\ ~e.set.speaker[i].byp
                               THEN UpdateParameter(@, at, value) ELSE @]

QueueLive(e, n, event) ==
    [e EXCEPT !.rs.live = With(@, n, Append(LiveOf(e.rs, n), event))]

----------------------------------------------------------------------------
(* The monitor and the transport *)

SetTestTone(e, on) == SyncMonitor([e EXCEPT !.set.tone = on])
SetMetronome(e, on) == SyncMonitor([e EXCEPT !.set.click = on])

\* `target` tells a change of nothing but the slot the speaker simulation aims at.
SetMonitorModules(e, speaker, on, target, broken) ==
    LET fades == e.ready /\ e.set.dsp /\ on /\ ~target /\ ~AsksServer(e, e.set.path)
    IN PrepareOutput(SyncMonitor([e EXCEPT !.set.speaker = speaker, !.set.dsp = on,
                                           !.mods = IF fades THEN ChangeLength ELSE 0]), broken)
SetMonitorPath(e, path, server) ==
    IF path = e.set.path THEN [e EXCEPT !.set.server = server]
    ELSE SyncMonitor([e EXCEPT !.set.server = server, !.set.path = path, !.mods = 0,
                               !.path = [from |-> e.set.path, to |-> path, left |-> ChangeLength]])
SetTalkback(e, on, route) == Unwanted([e EXCEPT !.set.talk = on, !.set.route = route, !.inp.talk = on])

SetRecording(e, on) == SyncMonitor(UpdatePolicy([e EXCEPT !.set.recording = on, !.plan.recording = on]))
Rewind(e) == [NoTrace(PlaceAt(e, 0)) EXCEPT !.rs = Fresh, !.ramp = 0]
Seek(e, at) == [NoTrace(PlaceAt(e, at)) EXCEPT !.rs = ResetForSeek(@), !.ramp = 0]
ArmSeekRamp(e) == [e EXCEPT !.ramp = RampLength]
SetRunning(e, on) ==
    LET set == [e EXCEPT !.set.running = on]
    IN IF on THEN [set EXCEPT !.rs = ResetForSeek(@)] ELSE set

----------------------------------------------------------------------------
(* A block of the device *)

HasContent(e) ==
    /\ e.set.running
    /\ \/ e.plan.clips # {} \/ e.plan.notes # {} \/ e.rs.live # <<>>
       \/ \E t \in Range(e.plan.tracks) : t.type = "instrument" /\ \E i \in DOMAIN t.rack : t.rack[i].on
       \/ e.plan.master # <<>> \/ e.plan.processed \/ e.rt.tracks # <<>> \/ e.rt.master > 0

\* The chains beside the graph: their sound takes the place of the track's dry sound, which is subtracted.
Awake(t, i) == i \in DOMAIN t.inserts /\ t.inserts[i].on /\ ~t.inserts[i].byp
AwakeSlots(e, c) == {j \in DOMAIN c.slots : Awake(TrackNamed(e.plan.tracks, c.track), c.slots[j])}
Overlays(e, c) ==
    LET t == TrackNamed(e.plan.tracks, c.track)
    IN ~c.remote /\ Has(e, c.track) /\ ~t.mute /\ (SoloMode(e.plan.tracks) => AllowedBySolo(e.plan.tracks, t))
Overlaid(e, c, broken) ==
    IF Overlays(e, c) THEN [c EXCEPT !.run = Process(@, AwakeSlots(e, c), broken)] ELSE c

\* The plug-ins its track's clips are heard through, and their values.
HasDry(e, t) ==
    t.name \in e.plan.clips /\ ~t.mute /\ ~Monitored(t, e.plan.recording) /\ (SoloMode(e.plan.tracks) => t.solo)
Overlay(e, c, broken) ==
    IF /\ Overlays(e, c) /\ ~MasterMuted(e.plan) /\ HasDry(e, TrackNamed(e.plan.tracks, c.track))
       /\ \A j \in AwakeSlots(e, c) : c.run[j].plug \notin broken
    THEN {[track |-> c.track, slot |-> c.slots[j], value |-> c.run[j].has] : j \in AwakeSlots(e, c)} ELSE {}

\* One segment of the block, up to the end of the loop.
Again(e, s, size) == e.plan.loop.on /\ s.at + size >= e.plan.loop.to /\ size < s.left
Stretch(at, size) == [k \in 1..size |-> at + k - 1]
Onward(e, s, size, made, again, broken) ==
    LET tracks == [k \in DOMAIN s.tracks |-> Overlaid(e, s.tracks[k], broken)]
    IN [rs |-> IF again THEN ResetForSeek(made.rs) ELSE made.rs,
        tracks |-> tracks,
        beside |-> s.beside \cup UNION {Overlay(e, c, broken) : c \in Range(tracks)},
        at |-> IF again THEN Wrapped(e.plan, s.at + size) ELSE s.at + size,
        left |-> s.left - size,
        frames |-> s.frames \o Stretch(s.at, size),
        mixes |-> s.mixes \cup {IF made.rs.failed THEN {} ELSE made.mix}]
Sized(e, s, size, broken) ==
    Onward(e, s, size, RenderSegment(e.plan, s.rs, s.at, size, broken), Again(e, s, size), broken)
Segment(e, s, broken) ==
    IF s.left = 0 THEN s
    ELSE Sized(e, s, IF e.plan.loop.on /\ s.at < e.plan.loop.to
                     THEN Min({s.left, e.plan.loop.to - s.at}) ELSE s.left, broken)
Begun(e, size) ==
    [rs |-> e.rs, tracks |-> e.rt.tracks, at |-> Wrapped(e.plan, e.play), left |-> size, frames |-> <<>>, mixes |-> {},
     beside |-> {}]
Segments(e, size, broken) ==
    LET made[k \in 0..size] == IF k = 0 THEN Begun(e, size) ELSE Segment(e, made[k - 1], broken)
    IN made[size]

\* The monitor's processing outside the graph; a server that does not answer holds or ends a change of path.
Monitoring(e, size, answers) ==
    CASE e.path.left > 0 ->
            IF AsksServer(e, e.path.to) /\ ~answers THEN e
            ELSE IF (AsksServer(e, e.path.from) /\ ~answers) \/ e.path.left <= size THEN [e EXCEPT !.path = Steady]
            ELSE [e EXCEPT !.path.left = @ - size]
      [] e.path.left = 0 /\ e.mods > 0 ->
            IF e.mods <= size THEN SyncMonitor([e EXCEPT !.mods = 0]) ELSE [e EXCEPT !.mods = @ - size]
      [] OTHER -> e
PlayOutput(e, broken) ==
    [e EXCEPT !.rt.output = IF \E i \in DOMAIN @ : @[i].plug \in broken THEN <<>> ELSE Process(@, DOMAIN @, broken)]
Fade(e, size) == [e EXCEPT !.fade = IF e.prev = size THEN Max({0, @ - size}) ELSE 0, !.prev = size]

\* A block: the engine after it, the frames of the timeline in it and the sounds of its segments.  `busy` is
\* the input's lock being taken.
Quiet(e) == IF e.set.running THEN e ELSE [e EXCEPT !.rs.live = <<>>]
Moved(e, size) ==
    [e EXCEPT !.ramp = Max({0, @ - size}), !.play = IF e.set.running THEN Wrapped(e.plan, @ + size) ELSE @]
OutsideMonitor(e, size, inside, answers) == IF e.set.dsp /\ ~inside THEN Monitoring(e, size, answers) ELSE e
Taken(e, made) == [e EXCEPT !.rs = made.rs, !.rt.tracks = made.tracks]
Sounding(e, size, inside, env) ==
    Moved(Fade(PlayOutput(OutsideMonitor(IF env.busy THEN e ELSE MixInput(e, size), size, inside, env.answers),
                          env.broken), size), size)
Heard(e, made, size, env) ==
    [e |-> Sounding(Taken(e, made), size, e.plan.monitorDsp, env), frames |-> made.frames, mixes |-> made.mixes,
     beside |-> made.beside]
RenderFrom(e, size, env) ==
    IF HasContent(e) THEN Heard(e, Segments(e, size, env.broken), size, env)
    ELSE [e |-> Sounding(e, size, FALSE, env), frames |-> <<>>, mixes |-> {}, beside |-> {}]
Render(e, size, env) == RenderFrom(Quiet(SyncMonitor(e)), size, env)
====
