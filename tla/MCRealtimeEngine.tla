---- MODULE MCRealtimeEngine ----
(* Three documents as normalizeProjectRouting() leaves them, blocks of two or three frames, and the troubles of one plug-in and one server. *)
EXTENDS RealtimeEngine

MCNames == <<"Bass", "Keys", "Lead", "Master", "Monitor", "Part", "Room", "Vca">>
MCPhysical == {"Main 1-2"}
MCSizes == {2, 3}
MCTouched == {"Keys", "Lead", "Room", "Vca"}
MCPositions == {0, 6}
MCValues == {1}

\* Tracks and inserts.
Track(name, type, in, out) ==
    [name |-> name, type |-> type, in |-> in, out |-> out, sends |-> <<>>, mute |-> FALSE, solo |-> FALSE,
     control |-> "", arm |-> FALSE, mon |-> FALSE, inserts |-> <<>>, rack |-> <<>>]
Plug(plug, lat) == [plug |-> plug, on |-> TRUE, byp |-> FALSE, remote |-> FALSE, lat |-> lat, param |-> 0]
Remote(plug) == [Plug(plug, 0) EXCEPT !.remote = TRUE]
To(bus) == [bus |-> bus, on |-> TRUE]
Ends == <<Track("Master", "master", "", "Monitor"), Track("Monitor", "monitor", "Monitor", "Main 1-2")>>

Empty == [tracks |-> Ends, clips |-> {}, notes |-> {}, loop |-> [on |-> FALSE, from |-> 0, to |-> 0], pdc |-> TRUE,
          low |-> FALSE, master |-> <<>>, talk |-> FALSE, route |-> "listen_room", speaker |-> <<>>]

\* Two audio tracks, one of them late, both sent to a room; a VCA; a loop.
Mix == [Empty EXCEPT
    !.tracks = <<[Track("Lead", "audio", "", "Master") EXCEPT !.inserts = <<Plug("eq", 2), Plug("gate", 0)>>,
                                                               !.sends = <<To("Room")>>, !.control = "Vca"],
                 [Track("Bass", "audio", "", "Master") EXCEPT !.sends = <<To("Room")>>],
                 Track("Room", "aux", "Room", "Master"), Track("Vca", "vca", "", "")>> \o Ends,
    !.clips = {"Bass", "Lead"}, !.loop = [on |-> TRUE, from |-> 2, to |-> 5]]
\* An instrument played by its own part and by another track, behind a bus and a master plug-in.
Band == [Empty EXCEPT
    !.tracks = <<[Track("Keys", "instrument", "MIDI Input", "Room") EXCEPT !.rack = <<[plug |-> "synth", on |-> TRUE]>>,
                                                                 !.inserts = <<Plug("eq", 0)>>],
                 Track("Part", "midi", "MIDI Input", "Keys"), Track("Room", "bus_folder", "Room", "Master")>> \o Ends,
    !.notes = {[track |-> "Part", on |-> 0, off |-> 4, pitch |-> 60]}, !.master = <<Plug("gate", 1)>>]
\* A singer: a monitored track, another with an insert on a server, talkback, a speaker plug-in.
Take == [Empty EXCEPT
    !.tracks = <<[Track("Lead", "audio", "", "Master") EXCEPT !.arm = TRUE, !.mon = TRUE],
                 [Track("Keys", "audio", "", "Master") EXCEPT !.inserts = <<Remote("nds"), Remote("gate")>>]>> \o Ends,
    !.clips = {"Keys"}, !.low = TRUE, !.talk = TRUE, !.route = "monitor_bus", !.speaker = <<Plug("gate", 3)>>]
MCDocs == {Mix, Band, Take}

MCOpening == [Idle.set EXCEPT !.channels = 2, !.size = 3]
MCSettings == {[MCOpening EXCEPT !.allowed = TRUE, !.size = 2], [MCOpening EXCEPT !.server = TRUE]}
MCTroubles == {[broken |-> {}, served |-> {"nds"}, answers |-> TRUE, busy |-> FALSE],
               [broken |-> {"gate"}, served |-> {}, answers |-> FALSE, busy |-> TRUE]}
====
