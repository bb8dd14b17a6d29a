---- MODULE MixGraph ----
(***************************************************************************)
(* The mixer of a project as a graph (MixerGraph.cpp): which route feeds   *)
(* which, in what order the routes are rendered, how late each path is and *)
(* how long the shorter paths must wait; and which tracks a mute, a solo   *)
(* or a VCA silences (ProjectAudioRenderer.cpp).                           *)
(*                                                                         *)
(* A track is [name, type, in, out, sends, mute, solo, control, arm, mon,  *)
(* inserts, rack]: `in` and `out` are its buses, `sends` a sequence of     *)
(* [bus, on], `control` its VCA, `mon` its input monitoring, `rack` its    *)
(* instruments [plug, on] and `inserts` a sequence of [plug, on, byp,      *)
(* remote, lat, param], `remote` for one a DSP server has the module of.   *)
(***************************************************************************)
EXTENDS Integers, Sequences, FiniteSets, SequencesExt, FiniteSetsExt, Folds, Functions

CONSTANTS
    Names,      \* every track name, in the order the program's maps keep them
    Physical    \* the bus names that stand for outputs of the device

ASSUME NamesAssumption == Names \in Seq(STRING) /\ IsInjective(Names)
ASSUME PhysicalAssumption == Physical \subseteq STRING \ {""}

NoName == ""
MasterName == "Master"
MonitorName == "Monitor"

----------------------------------------------------------------------------
(* The routes *)

Kind(t) ==
    CASE t.name = MasterName -> "master"
      [] t.name = MonitorName -> "monitor"
      [] t.type = "basic_folder" -> "folder"
      [] t.type = "routing_folder" -> "bus_folder"
      [] t.type \in {"mono", "stereo"} -> "audio"
      [] OTHER -> t.type
CarriesAudio(t) == Kind(t) \in {"audio", "aux", "master", "monitor", "bus_folder", "instrument"}

TrackNames(ts) == {ts[i].name : i \in DOMAIN ts}
TrackNamed(ts, n) == ts[Min({i \in DOMAIN ts : ts[i].name = n})]

Total(f(_), seq) == FoldLeft(LAMBDA sum, x : sum + f(x), 0, seq)
SelfLatency(t) == Total(LAMBDA x : x.lat, SelectSeq(t.inserts, LAMBDA x : x.on /\ ~x.byp))

\* Who hears a bus: the first track that listens to it, else the track of that name.
Receiver(ts, bus) ==
    LET listening == {i \in DOMAIN ts : ts[i].in = bus}
    IN IF listening # {} THEN ts[Min(listening)].name
       ELSE IF bus \in TrackNames(ts) THEN bus ELSE NoName

Edge(ts, t, bus, send) ==
    LET to == Receiver(ts, bus)
    IN [from |-> t.name, bus |-> bus, send |-> send, to |-> to, device |-> to = NoName /\ bus \in Physical]
Edges(ts) ==
    UNION {{Edge(ts, t, t.out, FALSE) : x \in {t.out} \ {NoName}} \cup
           {Edge(ts, t, s.bus, TRUE) : s \in {s \in Range(t.sends) : s.on /\ s.bus # NoName}}
           : t \in {t \in Range(ts) : CarriesAudio(t)}}
Fed(edges, n) == {e.to : e \in {e \in edges : e.from = n}} \ {NoName, n}
Feeders(edges, n) == {e.from : e \in {e \in edges : e.to = n}} \ {n}

\* The members of a set in a list, in its order.
Those(list, S) ==
    LET those[k \in 0..Len(list)] ==
            IF k = 0 THEN <<>>
            ELSE IF list[k] \in S THEN Append(those[k - 1], list[k]) ELSE those[k - 1]
    IN those[Len(list)]

\* Kahn's algorithm; what a cycle leaves over follows in the order of the tracks.
Visit(edges, s) ==
    LET n == Head(s.ready)
        order == Append(s.order, n)
    IN IF s.ready = <<>> THEN s
       ELSE [order |-> order,
             ready |-> Tail(s.ready) \o Those(Names, {m \in Fed(edges, n) : Feeders(edges, m) \subseteq Range(order)})]
Visited(names, edges) ==
    LET visited[k \in 0..Len(names)] ==
            IF k = 0 THEN [order |-> <<>>, ready |-> Those(names, {n \in Range(names) : Feeders(edges, n) = {}})]
            ELSE Visit(edges, visited[k - 1])
    IN visited[Len(names)]
RenderOrder(ts, edges) ==
    LET names == [i \in DOMAIN ts |-> ts[i].name]
        sorted == Visited(names, edges).order
    IN sorted \o Those(names, Range(names) \ Range(sorted))

\* How late the longest path to each route is, its own inserts included; that of a route which has had its
\* turn stays.
Placed(order, k) == {order[i] : i \in 1..k}
Spread(ts, edges, path, n, done) ==
    [m \in DOMAIN path |-> IF m \in Fed(edges, n) \ done
                           THEN Max({path[m], path[n] + SelfLatency(TrackNamed(ts, m))}) ELSE path[m]]
PathLatency(ts, edges, order) ==
    LET path[k \in 0..Len(order)] ==
            IF k = 0 THEN [n \in TrackNames(ts) |-> SelfLatency(TrackNamed(ts, n))]
            ELSE Spread(ts, edges, path[k - 1], order[k], Placed(order, k - 1))
    IN path[Len(order)]
Longest(path) == Max({0} \cup Range(path))

\* The graph keeps the latency each route had when it was built.
Graph(ts) ==
    LET edges == Edges(ts)
    IN [edges |-> edges, order |-> RenderOrder(ts, edges), lags |-> [n \in TrackNames(ts) |-> SelfLatency(TrackNamed(ts, n))]]

\* What each route waits so that every path is as late as the longest.
Compensation(ts, graph) ==
    LET path == PathLatency(ts, graph.edges, graph.order)
    IN [n \in TrackNames(ts) |-> IF CarriesAudio(TrackNamed(ts, n)) THEN Longest(path) - path[n] ELSE 0]

----------------------------------------------------------------------------
(* Mute, solo, VCA and input monitoring *)

ExcludedFromSolo(t) == t.type \in {"master", "monitor", "vca", "folder"} \/ t.name \in {MasterName, MonitorName}
Soloed(t) == t.solo /\ ~ExcludedFromSolo(t)
SoloMode(ts) == \E t \in Range(ts) : Soloed(t)

\* The buses the soloed tracks play into, followed from track to track.
SoloBuses(ts) ==
    LET open == {t \in Range(ts) : ~t.mute /\ t.out # NoName}
        Follow(buses, k) == buses \cup {t.out : t \in {t \in open : ~ExcludedFromSolo(t) /\ t.in # NoName /\ t.in \in buses}}
    IN FoldLeft(Follow, {t.out : t \in {t \in open : Soloed(t)}}, ts)
ReceivesSoloed(ts, t) == ~t.mute /\ ~ExcludedFromSolo(t) /\ t.in # NoName /\ t.in \in SoloBuses(ts)
AllowedBySolo(ts, t) ==
    Soloed(t) \/ ReceivesSoloed(ts, t) \/ t.type \in {"master", "monitor"} \/ t.name \in {MasterName, MonitorName}

VcaMuted(ts, t) ==
    /\ t.control # NoName /\ t.type \notin {"master", "monitor", "vca"} /\ t.name \notin {MasterName, MonitorName}
    /\ t.control \in TrackNames(ts)
    /\ TrackNamed(ts, t.control).type = "vca" /\ TrackNamed(ts, t.control).mute
\* A slip: a VCA's mute is forgotten.
MutedWithoutVca(ts, t) == t.mute \/ (SoloMode(ts) /\ ~AllowedBySolo(ts, t))
PlaybackMuted(ts, t) == t.mute \/ (SoloMode(ts) /\ ~AllowedBySolo(ts, t)) \/ VcaMuted(ts, t)

SupportsInput(t) == t.type \in {"audio", "aux", "bus_folder"}
Monitored(t, recording) == SupportsInput(t) /\ (t.mon \/ (recording /\ t.arm))
====
