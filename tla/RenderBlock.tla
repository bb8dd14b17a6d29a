---- MODULE RenderBlock ----
(***************************************************************************)
(* One block of a project as the renderer makes it                         *)
(* (ProjectAudioRenderer.cpp): the plan made of a document, the render     *)
(* state kept from block to block (the prepared plug-in chains and the     *)
(* notes each instrument holds) and the sound that leaves the mixer.       *)
(*                                                                         *)
(* Sound is a set of tokens [path, delay, fx]: what started at the first   *)
(* route of `path`, went through the others, is `delay` frames late and    *)
(* was processed by the plug-ins `fx`.  Levels are left out: a token is    *)
(* there or it is not.  Delay lines are taken as filled, so a delay is the *)
(* length of its line.                                                     *)
(***************************************************************************)
EXTENDS MixGraph, InsertChain

----------------------------------------------------------------------------
(* The plan made of a document: its tracks as they are, the graph of the moment *)

Local(t) == SelectSeq(t.inserts, LAMBDA x : x.on /\ ~x.byp /\ ~x.remote)
ProcessesInserts(t) == Kind(t) \in {"audio", "instrument", "aux", "bus_folder"}
ActiveInserts(ts) == UNION {{x \in Range(t.inserts) : x.on /\ ~x.byp} : t \in Range(ts)}
Valid(loop) == loop.on /\ loop.to > loop.from

\* The latency of everything a document plays through, the master chain included.
PlanLatency(doc, graph) ==
    LET longest == Longest(PathLatency(doc.tracks, graph.edges, graph.order))
        master == Total(LAMBDA x : x.lat, SelectSeq(doc.master, LAMBDA x : ~x.byp))
    IN IF doc.pdc THEN Max({longest + master} \cup {x.lat : x \in ActiveInserts(doc.tracks)}) ELSE 0

NoPlan == [tracks |-> <<>>, clips |-> {}, notes |-> {}, loop |-> [on |-> FALSE, from |-> 0, to |-> 0],
           pdc |-> TRUE, graph |-> [edges |-> {}, order |-> <<>>, lags |-> <<>>], wait |-> <<>>, latency |-> 0,
           master |-> <<>>, processed |-> FALSE, recording |-> FALSE, monitorDsp |-> FALSE, effects |-> FALSE]
MakePlan(doc) ==
    LET graph == Graph(doc.tracks)
    IN [NoPlan EXCEPT !.tracks = doc.tracks, !.clips = doc.clips, !.notes = doc.notes,
                      !.loop = [doc.loop EXCEPT !.on = Valid(doc.loop)], !.pdc = doc.pdc, !.graph = graph,
                      !.wait = IF doc.pdc THEN Compensation(doc.tracks, graph) ELSE <<>>,
                      !.latency = PlanLatency(doc, graph), !.master = doc.master,
                      !.processed = ActiveInserts(doc.tracks) # {}]

WaitOf(plan, n) == IF plan.pdc /\ n \in DOMAIN plan.wait THEN plan.wait[n] ELSE 0

\* A slip: the frame at which the loop ends is played.
WrappedLate(plan, at) ==
    IF plan.loop.on /\ at > plan.loop.to
    THEN plan.loop.from + ((at - plan.loop.from) % (plan.loop.to - plan.loop.from)) ELSE at
\* Where the frame `at` of the playback lies on the timeline.
Wrapped(plan, at) ==
    IF plan.loop.on /\ at >= plan.loop.to
    THEN plan.loop.from + ((at - plan.loop.from) % (plan.loop.to - plan.loop.from)) ELSE at

----------------------------------------------------------------------------
(* The state kept between blocks *)

\* `chains` holds the prepared inserts of a route and the size they were prepared for, `master` those of the
\* master, `racks` what each instrument slot holds, `live` the events played by hand.
Unprepared == [size |-> 0, run |-> <<>>]
Fresh == [chains |-> <<>>, master |-> Unprepared, racks |-> <<>>, live |-> <<>>, failed |-> FALSE]
ResetForSeek(rs) == [rs EXCEPT !.live = <<>>, !.failed = FALSE]

Without(f, x) == Restrict(f, DOMAIN f \ {x})
With(f, x, y) == [k \in DOMAIN f \cup {x} |-> IF k = x THEN y ELSE f[k]]

\* A chain is prepared again when the plug-ins change or the block outgrows it, never for a shorter block.
Reusable(chain, inserts, size) == Plugs(chain.run) = Plugs(inserts) /\ size <= chain.size
PrepareRoute(rs, n, inserts, size, broken) ==
    IF n \in DOMAIN rs.chains /\ Reusable(rs.chains[n], inserts, size) THEN rs
    ELSE IF Healthy(inserts, broken)
    THEN [rs EXCEPT !.chains = With(@, n, [run |-> Loaded(inserts),
                                          size |-> Max({size} \cup {@[m].size : m \in DOMAIN @ \cap {n}})])]
    ELSE [rs EXCEPT !.chains = Without(@, n)]
PushParameters(run, inserts) == FoldLeft(LAMBDA r, i : UpdateParameter(r, i, inserts[i].param), run, [i \in DOMAIN run |-> i])
RunRoute(rs, n, inserts, broken) ==
    IF n \in DOMAIN rs.chains
    THEN [rs EXCEPT !.chains[n].run = Process(PushParameters(@, inserts), DOMAIN inserts, broken)] ELSE rs
UpdateRoute(rs, n, inserts, size, broken) ==
    RunRoute(PrepareRoute(rs, n, inserts, size, broken), n, inserts, broken)

----------------------------------------------------------------------------
(* Instruments *)

RoutesTo(source, t) == source.type = "midi" /\ t.type = "instrument" /\ source.out = t.name
PlayedBy(plan, t) ==
    {t.name} \cup {s.name : s \in {s \in Range(plan.tracks) : RoutesTo(s, t) /\ ~PlaybackMuted(plan.tracks, s)}}

\* What is held after the notes of frames `from` up to `to`; an off comes before an on of the same frame.
HeldAfter(held, notes, from, to) ==
    LET ons == {n \in notes : n.on >= from /\ n.on < to}
        offs == {n \in notes : n.off >= from /\ n.off < to}
    IN {q \in held : \A o \in offs : o.pitch # q} \cup
       {n.pitch : n \in {n \in ons : \A o \in offs : o.pitch = n.pitch => o.off <= n.on}}
PlayLive(held, events) ==
    FoldLeft(LAMBDA h, e : IF e.on THEN h \cup {e.pitch} ELSE h \ {e.pitch}, held, events)

Player(plan, n, t) == n = t.name \/ \E s \in Range(plan.tracks) : s.name = n /\ RoutesTo(s, t)
LiveOf(rs, n) == IF n \in DOMAIN rs.live THEN rs.live[n] ELSE <<>>
LiveFor(rs, plan, t) ==
    LiveOf(rs, t.name) \o FlattenSeq([i \in DOMAIN plan.tracks |->
        IF RoutesTo(plan.tracks[i], t) THEN LiveOf(rs, plan.tracks[i].name) ELSE <<>>])

\* An instrument is loaded again whenever the length of a block differs from the last.
PlaySlot(rs, plan, t, i, start, size) ==
    LET key == <<t.name, i>>
        kept == key \in DOMAIN rs.racks /\ rs.racks[key].size = size
        held == IF kept THEN rs.racks[key].held ELSE {}
        notes == {n \in plan.notes : n.track \in PlayedBy(plan, t)}
    IN [rs EXCEPT !.racks = With(@, key, [size |-> size,
            held |-> PlayLive(HeldAfter(held, notes, start, start + size), LiveFor(rs, plan, t))])]
Slots(t, broken) == {i \in DOMAIN t.rack : t.rack[i].on /\ t.rack[i].plug \notin broken}
Sounds(plan, t, broken) ==
    t.type = "instrument" /\ ~PlaybackMuted(plan.tracks, t) /\ Slots(t, broken) # {}
PlayInstruments(rs, plan, start, size, broken) ==
    LET PlayTrack(r, t) ==
            IF t.type # "instrument" \/ PlaybackMuted(plan.tracks, t) THEN r
            ELSE LET played == FoldSet(LAMBDA i, acc : PlaySlot(acc, plan, t, i, start, size), r, Slots(t, broken))
                 IN [played EXCEPT !.live = Restrict(@, {n \in DOMAIN @ : ~Player(plan, n, t)})]
    IN FoldLeft(PlayTrack, rs, plan.tracks)

----------------------------------------------------------------------------
(* The mix of one segment *)

BusNames(plan) == TrackNames(plan.tracks) \cup
    UNION {{t.in, t.out} \cup {s.bus : s \in Range(t.sends)} : t \in Range(plan.tracks)} \cup
    {e.bus : e \in plan.graph.edges}
Late(tokens, d) == {[k EXCEPT !.delay = @ + d] : k \in tokens}
Processed(tokens, inserts, effects) ==
    {[k EXCEPT !.delay = @ + Total(LAMBDA x : x.lat, inserts), !.fx = @ \o effects] : k \in tokens}

\* A slip: a send does not wait.
SendAtOnce(t, bus, d) == 0
\* Two sends of a track to one bus share a delay line, which each of them advances.
SendWait(t, bus, d) == d \div Cardinality({i \in DOMAIN t.sends : t.sends[i].on /\ t.sends[i].bus = bus})

\* The sound a route makes itself: its clips, or its instruments.  Input monitoring takes the place of both.
HasClips(plan, t) == t.name \in plan.clips /\ Kind(t) \in {"audio", "instrument"}
Own(plan, t, broken) ==
    IF Monitored(t, plan.recording) \/ ~(HasClips(plan, t) \/ Sounds(plan, t, broken)) THEN {}
    ELSE {[path |-> <<t.name>>, delay |-> 0, fx |-> <<>>]}

RouteInserts(plan, t) == IF plan.effects /\ ProcessesInserts(t) THEN Local(t) ELSE <<>>
\* A route with nothing to process is passed over when muted, and when its input is monitored.
Skipped(plan, t) ==
    RouteInserts(plan, t) = <<>> /\ (PlaybackMuted(plan.tracks, t) \/ Monitored(t, plan.recording))

\* What comes out of a route's plug-ins: its input as it was when a plug-in cannot be loaded or fails.
Treated(rs, n, inserts, input, broken) ==
    [rs |-> rs,
     sound |-> IF inserts # <<>> /\ n \in DOMAIN rs.chains /\ Healthy(inserts, broken)
               THEN Processed(input, inserts, Effects(rs.chains[n].run, DOMAIN inserts)) ELSE input]
Treat(rs, n, inserts, input, size, broken) ==
    Treated(IF inserts = <<>> THEN rs ELSE UpdateRoute(rs, n, inserts, size, broken), n, inserts, input, broken)
Input(plan, t, bus, broken) ==
    Own(plan, t, broken) \cup {[k EXCEPT !.path = Append(@, t.name)] : k \in bus[IF t.in # NoName THEN t.in ELSE t.name]}

\* The sound of a route goes to its sends and its output, or to the device.
Deliver(plan, t, sound, wait, s, rs) ==
    LET main == {e \in plan.graph.edges : e.from = t.name /\ ~e.send}
        taps == {x.bus : x \in {x \in Range(t.sends) : x.on /\ x.bus # NoName}}
    IN [rs |-> rs,
        out |-> s.out \cup (IF \E e \in main : e.device THEN Late(sound, wait) ELSE {}),
        bus |-> [b \in DOMAIN s.bus |-> s.bus[b]
                   \cup (IF b \in taps THEN Late(sound, SendWait(t, b, wait)) ELSE {})
                   \cup (IF \E e \in main : ~e.device /\ e.bus = b THEN Late(sound, wait) ELSE {})]]
Leave(plan, t, made, s) ==
    Deliver(plan, t, IF PlaybackMuted(plan.tracks, t) THEN {} ELSE made.sound, WaitOf(plan, t.name), s, made.rs)
MixTrack(plan, t, size, broken, s) ==
    IF ~CarriesAudio(t) \/ Skipped(plan, t) THEN s
    ELSE Leave(plan, t, Treat(s.rs, t.name, RouteInserts(plan, t), Input(plan, t, s.bus, broken), size, broken), s)
MixRoutes(plan, rs, size, broken) ==
    FoldLeft(LAMBDA s, n : MixTrack(plan, TrackNamed(plan.tracks, n), size, broken, s),
             [rs |-> rs, out |-> {}, bus |-> [b \in BusNames(plan) |-> {}]], plan.graph.order)

\* Without a Master or a Monitor track its bus plays by itself.
Loose(plan, bus) ==
    UNION {bus[n] : n \in ({MasterName, MonitorName} \cap DOMAIN bus) \ TrackNames(plan.tracks)}
MasterMuted(plan) == MasterName \in TrackNames(plan.tracks) /\ TrackNamed(plan.tracks, MasterName).mute

MustPrepare(rs, plan, size) == plan.master # <<>> /\ (rs.master.size = 0 \/ size > rs.master.size)
\* A chain that cannot be prepared again is left empty, for the size it had.
PrepareMaster(rs, plan, size, broken) ==
    IF ~MustPrepare(rs, plan, size) THEN rs
    ELSE IF Healthy(plan.master, broken) THEN [rs EXCEPT !.master = [size |-> size, run |-> Loaded(plan.master)]]
    ELSE [rs EXCEPT !.master.run = <<>>, !.failed = TRUE]
\* The bypasses of the master's plug-ins are those the plan has now.
MasterOn(rs, plan) == {i \in DOMAIN rs.master.run : ~plan.master[i].byp}
ProcessMaster(rs, plan, broken) ==
    [rs EXCEPT !.master.run = Process(@, MasterOn(rs, plan), broken),
               !.failed = \E i \in MasterOn(rs, plan) : plan.master[i].plug \in broken]
MasterInserts(rs, plan) ==
    LET on == SelectSeq([i \in DOMAIN rs.master.run |-> i], LAMBDA i : ~plan.master[i].byp)
    IN [j \in DOMAIN on |-> plan.master[on[j]]]

Mastered(plan, rs, sum) ==
    [rs |-> rs,
     mix |-> IF rs.failed \/ plan.master = <<>> THEN sum
             ELSE Processed(sum, MasterInserts(rs, plan), Effects(rs.master.run, MasterOn(rs, plan)))]
PlayMaster(plan, s, broken) ==
    Mastered(plan, IF plan.master = <<>> THEN s.rs ELSE ProcessMaster(s.rs, plan, broken),
             IF MasterMuted(plan) THEN {} ELSE s.out \cup Loose(plan, s.bus))

\* A segment from the timeline frame `start`: the new state, and the sound of it.
RenderReady(plan, rs, start, size, broken) ==
    IF rs.failed THEN [rs |-> rs, mix |-> {}]
    ELSE PlayMaster(plan, MixRoutes(plan, PlayInstruments(rs, plan, start, size, broken), size, broken), broken)
RenderSegment(plan, rs, start, size, broken) ==
    RenderReady(plan, PrepareMaster([rs EXCEPT !.failed = FALSE], plan, size, broken), start, size, broken)
====
