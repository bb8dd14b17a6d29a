---- MODULE TrackEdits ----
(***************************************************************************)
(* The track operations of src/project/EditOperations.cpp and the routing  *)
(* rules of src/project/ProjectDocument.cpp.  Tracks refer to each other   *)
(* by name: their input and output, the buses of their sends, the VCA and  *)
(* the folder they belong to; clips, playlists and MIDI regions name the   *)
(* track they are on, and the document its tempo master.                   *)
(*                                                                         *)
(* A track is [name, type, in, out, folder, vca, armed, listening, open,   *)
(* sends, inserts, rack]; a send is [bus, on], an insert or an instrument  *)
(* is [plugin, bypassed] with None for an empty slot.  Names of tracks,    *)
(* buses and ports are numbers.                                            *)
(***************************************************************************)
EXTENDS Integers, Sequences, FiniteSets, SequencesExt, FiniteSetsExt

CONSTANTS Family,      \* Family[word]: the names "Audio 1", "Audio 2", ... of a word
          MaxInserts, MaxRack

None == 0
Master == 100
Monitor == 101
MainOut == 102      \* "Main 1-2", and every other physical output
MidiInput == 103
Instrument == 104   \* the output of a MIDI track
Input == 105        \* "Input 1", the input of a new track
FirstBus == 106     \* "Bus 1-2"

\* The channel strip of a track that was just made.
Clean == [name |-> None, type |-> "audio", in |-> Input, out |-> Master, folder |-> None, vca |-> None,
          armed |-> FALSE, listening |-> FALSE, open |-> TRUE, sends |-> <<>>, inserts |-> <<>>, rack |-> <<>>]

Protected == {Master, Monitor}
FolderTypes == {"folder", "bus_folder"}
TimelineTypes == {"audio", "aux", "bus_folder", "midi", "instrument"}
RoutingTypes == {"audio", "aux", "bus_folder", "midi", "instrument", "master", "monitor"}
VcaTargets == {"audio", "aux", "bus_folder", "instrument"}
MidiTypes == {"midi", "instrument"}

TrackNames(tracks) == {tracks[i].name : i \in DOMAIN tracks}
Position(tracks, name) == SelectInSeq(tracks, LAMBDA t : t.name = name)
Track(tracks, name) == tracks[Position(tracks, name)]
WithTrack(tracks, name, F(_)) == [i \in DOMAIN tracks |-> IF tracks[i].name = name THEN F(tracks[i]) ELSE tracks[i]]
Editable(tracks, name, types) ==
    name \in TrackNames(tracks) \ Protected /\ Track(tracks, name).type \in types

\* The item at index i goes before the item that was at index k, or to the end.
MoveItem(seq, i, k) == InsertAt(RemoveAt(seq, i), IF k > i THEN k - 1 ELSE k, seq[i])
SwapItems(seq, i, k) == [seq EXCEPT ![i] = seq[k], ![k] = seq[i]]

-----------------------------------------------------------------------------
\* The routing rules, applied to the document before the engine gets it

NormalTrack(t) ==
    LET idle == [t EXCEPT !.armed = FALSE, !.listening = FALSE]
        midi == [t EXCEPT !.vca = None, !.sends = <<>>,
                          !.out = IF @ \in {Master, Monitor, MainOut, Instrument} THEN None ELSE @]
        routed(u) == IF u.out \in {Monitor, MainOut} THEN [u EXCEPT !.out = Master] ELSE u
    IN  CASE t.name = Master -> [idle EXCEPT !.in = None, !.out = Monitor, !.folder = None]
          [] t.name = Monitor -> [idle EXCEPT !.in = Monitor, !.out = MainOut, !.folder = None]
          [] t.type = "folder" -> [idle EXCEPT !.in = None, !.out = None, !.folder = None]
          [] t.type = "bus_folder" -> routed([t EXCEPT !.folder = None])
          [] t.type = "midi" -> routed(midi)
          [] t.type \in {"audio", "aux", "instrument"} -> routed(t)
          [] OTHER -> idle

\* Master and Monitor come last; a tempo master that is no track becomes the first
\* timeline track.
NormalizeRouting(doc) ==
    LET tracks == [i \in DOMAIN doc.tracks |-> NormalTrack(doc.tracks[i])]
        ordered == SelectSeq(tracks, LAMBDA t : t.name \notin Protected)
                   \o <<Track(tracks, Master), Track(tracks, Monitor)>>
        first == SelectInSeq(ordered, LAMBDA t : t.type \in TimelineTypes)
    IN  [doc EXCEPT !.tracks = ordered,
                    !.tempoMaster = CASE @ \in TrackNames(ordered) -> @
                                      [] first # 0 -> ordered[first].name
                                      [] OTHER -> None]

-----------------------------------------------------------------------------
\* Adding, renaming, copying and deleting tracks

\* The first free name of the family, before Master.
FreeNames(tracks, word) == Family[word] \ TrackNames(tracks)
Word(type) == IF type = "bus_folder" THEN "folder" ELSE type
NewTrack(name, type) ==
    [Clean EXCEPT !.name = name, !.type = type,
                  !.in = CASE type = "audio" -> Input [] type \in MidiTypes -> MidiInput
                           [] type = "bus_folder" -> FirstBus [] OTHER -> None,
                  !.out = IF type \in {"audio", "instrument", "bus_folder"} THEN Master ELSE None]
AddTrack(tracks, type) ==
    InsertAt(tracks, SelectInSeq(tracks, LAMBDA t : t.name \in Protected),
             NewTrack(Min(FreeNames(tracks, Word(type))), type))

\* The folder a track belongs to keeps the old name.
CanRename(tracks, old, new) ==
    old \in TrackNames(tracks) \ Protected /\ new \notin TrackNames(tracks) \cup Protected
Renamed(old, new, name) == IF name = old THEN new ELSE name
RenameTrack(doc, old, new) ==
    LET R(n) == Renamed(old, new, n)
        Redirect(t) == [t EXCEPT !.name = R(@), !.in = R(@), !.out = R(@), !.vca = R(@),
                                 !.sends = [i \in DOMAIN @ |-> [@[i] EXCEPT !.bus = R(@)]]]
        OnTrack(seq) == [i \in DOMAIN seq |-> [seq[i] EXCEPT !.track = R(@)]]
    IN  [doc EXCEPT !.tracks = [i \in DOMAIN @ |-> Redirect(@[i])], !.tempoMaster = R(@),
                    !.clips = OnTrack(@), !.lists = OnTrack(@), !.regions = OnTrack(@)]

\* A folder is deleted alone, or with the tracks inside it.
Doomed(tracks, name, children) ==
    {name} \cup (IF children /\ Track(tracks, name).type \in FolderTypes
                 THEN {tracks[i].name : i \in {k \in DOMAIN tracks : tracks[k].folder = name /\ tracks[k].name \notin Protected}}
                 ELSE {})
ItemsOn(doc, names) ==
    {doc.clips[i].id : i \in {k \in DOMAIN doc.clips : doc.clips[k].track \in names}}
    \cup {doc.regions[i].id : i \in {k \in DOMAIN doc.regions : doc.regions[k].track \in names}}
CanDeleteTrack(doc, name, items, children) ==
    /\ name \in TrackNames(doc.tracks) \ Protected
    /\ items \/ ItemsOn(doc, Doomed(doc.tracks, name, children)) = {}
\* Mutant of DeleteTrack: what refers to the track is left as it is.
DeleteTrackOnly(doc, name, items, children) ==
    [doc EXCEPT !.tracks = SelectSeq(@, LAMBDA t : t.name # name), !.clips = SelectSeq(@, LAMBDA c : c.track # name)]

DeleteTrack(doc, name, items, children) ==
    LET gone == Doomed(doc.tracks, name, children)
        Off(seq) == IF items THEN SelectSeq(seq, LAMBDA x : x.track \notin gone) ELSE seq
        Forget(n) == IF n \in gone THEN None ELSE n
        Unsend(s) == IF s.bus \in gone THEN [s EXCEPT !.bus = None, !.on = FALSE] ELSE s
        Detach(t) == [t EXCEPT !.folder = Forget(@), !.vca = Forget(@), !.in = Forget(@),
                               !.out = IF @ \in gone THEN Master ELSE @,
                               !.sends = [i \in DOMAIN @ |-> Unsend(@[i])]]
        left == SelectSeq(doc.tracks, LAMBDA t : t.name \notin gone)
    IN  [doc EXCEPT !.clips = Off(@), !.regions = Off(@), !.lists = Off(@), !.tempoMaster = Forget(@),
                    !.tracks = [i \in DOMAIN left |-> Detach(left[i])]]
CanDeleteEmpty(doc, name) ==
    /\ CanDeleteTrack(doc, name, FALSE, FALSE)
    /\ \A i \in DOMAIN doc.tracks : doc.tracks[i].folder # name

-----------------------------------------------------------------------------
\* The order of the tracks and the folders they are in

Block(tracks, name) ==
    IF Track(tracks, name).type \in FolderTypes
    THEN {tracks[i].name : i \in {k \in DOMAIN tracks : tracks[k].name = name \/ tracks[k].folder = name}}
    ELSE {name}
CanMoveNear(tracks, name, target) ==
    /\ {name, target} \subseteq TrackNames(tracks)
    /\ name \notin Protected /\ target # Monitor /\ target \notin Block(tracks, name)
\* A folder takes its tracks along; a single track stays in its folder only when the target
\* is of that folder, and beside the folder itself it goes below it.
MoveNear(tracks, name, target, after) ==
    LET t == Track(tracks, name)
        u == Track(tracks, target)
        whole == t.type \in FolderTypes
        parent == IF u.type \in FolderTypes THEN u.name ELSE u.folder
        within == ~whole /\ t.folder # None /\ parent = t.folder
        below == target \notin Protected /\ (after \/ (within /\ u.name = t.folder))
        moving == SelectSeq(tracks, LAMBDA x : x.name \in Block(tracks, name))
        placed == [i \in DOMAIN moving |->
                    IF whole THEN moving[i] ELSE [moving[i] EXCEPT !.folder = IF within THEN @ ELSE None]]
        rest == SelectSeq(tracks, LAMBDA x : x.name \notin Block(tracks, name))
        at == Position(rest, target) + (IF below THEN 1 ELSE 0)
    IN  SubSeq(rest, 1, at - 1) \o placed \o SubSeq(rest, at, Len(rest))

\* One place up or down: near the next track that is not of the moved block.
Neighbours(tracks, name, down) ==
    {i \in DOMAIN tracks : /\ tracks[i].name \notin Block(tracks, name)
                           /\ IF down THEN i > Position(tracks, name) ELSE i < Position(tracks, name)}
Neighbour(tracks, name, down) ==
    LET near == Neighbours(tracks, name, down) IN tracks[IF down THEN Min(near) ELSE Max(near)].name
CanMoveTrack(tracks, name, down) ==
    /\ name \in TrackNames(tracks) \ Protected
    /\ Neighbours(tracks, name, down) # {} /\ Neighbour(tracks, name, down) \notin Protected
MoveTrack(tracks, name, down) == MoveNear(tracks, name, Neighbour(tracks, name, down), down)

CanMoveIntoFolder(tracks, name, folder) ==
    /\ {name, folder} \subseteq TrackNames(tracks) \ Protected /\ name # folder
    /\ Track(tracks, name).type \notin FolderTypes /\ Track(tracks, folder).type \in FolderTypes
\* Behind the tracks of the folder that directly follow it; the folder opens.
MoveIntoFolder(tracks, name, folder) ==
    LET rest == WithTrack(SelectSeq(tracks, LAMBDA t : t.name # name), folder, LAMBDA t : [t EXCEPT !.open = TRUE])
        at == Position(rest, folder)
        stop == {i \in at + 1..Len(rest) : rest[i].name \in Protected \/ rest[i].type \in FolderTypes \/ rest[i].folder # folder}
    IN  InsertAt(rest, Min(stop \cup {Len(rest) + 1}), [Track(tracks, name) EXCEPT !.folder = folder])
SetOpen(tracks, name, open) == WithTrack(tracks, name, LAMBDA t : [t EXCEPT !.open = open])

-----------------------------------------------------------------------------
\* A track's controls, sends and plug-in slots

CanArm(tracks, name) == Editable(tracks, name, TimelineTypes)
SetArmed(tracks, name, on) == WithTrack(tracks, name, LAMBDA t : [t EXCEPT !.armed = on])
SetListening(tracks, name, on) == WithTrack(tracks, name, LAMBDA t : [t EXCEPT !.listening = on])
\* A take is recorded on the first armed track, or on the first timeline track.
RecordingTarget(tracks) ==
    LET on == SelectSeq(tracks, LAMBDA t : t.name \notin Protected /\ t.type \in TimelineTypes)
        armed == SelectSeq(on, LAMBDA t : t.armed)
    IN  IF armed # <<>> THEN armed[1].name ELSE IF on # <<>> THEN on[1].name ELSE None

CanSetVca(tracks, name, vca) ==
    /\ Editable(tracks, name, VcaTargets)
    /\ vca # None => vca # name /\ Editable(tracks, vca, {"vca"})
SetVca(tracks, name, vca) == WithTrack(tracks, name, LAMBDA t : [t EXCEPT !.vca = vca])

CanRoute(tracks, name) == Editable(tracks, name, RoutingTypes)
HasSend(tracks, name, i) == CanRoute(tracks, name) /\ i \in DOMAIN Track(tracks, name).sends
SendsToItself(t, bus) == t.in # None /\ bus # None /\ t.in = bus
\* When the last send to a bus goes, the first empty track named "Aux ..." it feeds goes
\* too; what names that track is left as it is.
DropUnusedAux(doc, bus) ==
    LET used == \E i \in DOMAIN doc.tracks : \E k \in DOMAIN doc.tracks[i].sends : doc.tracks[i].sends[k].bus = bus
        aux == SelectInSeq(doc.tracks, LAMBDA t : /\ t.in = bus /\ t.name \in Family["aux"]
                                                  /\ \A k \in DOMAIN doc.clips : doc.clips[k].track # t.name)
    IN  IF bus = None \/ used \/ aux = 0 THEN doc ELSE [doc EXCEPT !.tracks = RemoveAt(@, aux)]
AddSend(tracks, name, bus, on) ==
    WithTrack(tracks, name, LAMBDA t :
        [t EXCEPT !.sends = Append(@, [bus |-> bus, on |-> on /\ bus # None /\ ~SendsToItself(t, bus)])])
CanSetSend(tracks, name, i, bus) == HasSend(tracks, name, i) /\ ~SendsToItself(Track(tracks, name), bus)
SetSend(doc, name, i, bus, on) ==
    LET old == Track(doc.tracks, name).sends[i].bus
        set == [doc EXCEPT !.tracks = WithTrack(@, name, LAMBDA t :
                    [t EXCEPT !.sends[i] = [bus |-> bus, on |-> on /\ bus # None]])]
    IN  IF old = bus THEN set ELSE DropUnusedAux(set, old)
CanEnableSend(tracks, name, i, on) ==
    HasSend(tracks, name, i) /\ (on => ~SendsToItself(Track(tracks, name), Track(tracks, name).sends[i].bus))
EnableSend(tracks, name, i, on) ==
    WithTrack(tracks, name, LAMBDA t : [t EXCEPT !.sends[i].on = on /\ t.sends[i].bus # None])
RemoveSend(doc, name, i) ==
    DropUnusedAux([doc EXCEPT !.tracks = WithTrack(@, name, LAMBDA t : [t EXCEPT !.sends = RemoveAt(@, i)])],
                  Track(doc.tracks, name).sends[i].bus)
MoveSend(tracks, name, i, k) == WithTrack(tracks, name, LAMBDA t : [t EXCEPT !.sends = MoveItem(@, i, k)])

Empty == [plugin |-> None, bypassed |-> FALSE]
Slot(plugin) == [plugin |-> plugin, bypassed |-> FALSE]
CanAddInsert(tracks, name) == CanRoute(tracks, name) /\ Len(Track(tracks, name).inserts) < MaxInserts
AddInsert(tracks, name) == WithTrack(tracks, name, LAMBDA t : [t EXCEPT !.inserts = Append(@, Empty)])
HasInsert(tracks, name, i) == CanRoute(tracks, name) /\ i \in DOMAIN Track(tracks, name).inserts
SetInsert(tracks, name, i, plugin) == WithTrack(tracks, name, LAMBDA t : [t EXCEPT !.inserts[i] = Slot(plugin)])
ToggleInsert(tracks, name, i) == WithTrack(tracks, name, LAMBDA t : [t EXCEPT !.inserts[i].bypassed = ~@])
RemoveInsert(tracks, name, i) == WithTrack(tracks, name, LAMBDA t : [t EXCEPT !.inserts = RemoveAt(@, i)])
MoveInsert(tracks, name, i, k) == WithTrack(tracks, name, LAMBDA t : [t EXCEPT !.inserts = MoveItem(@, i, k)])

\* The rack has no empty slot at its end, and its first slot is the track's instrument;
\* the MIDI input and the output are restored.
Compact(rack) ==
    LET filled == {i \in DOMAIN rack : rack[i].plugin # None} IN SubSeq(rack, 1, Max({0} \cup filled))
Padded(rack, i) == [k \in 1..(IF Len(rack) < i THEN i ELSE Len(rack)) |-> IF k \in DOMAIN rack THEN rack[k] ELSE Empty]
SetInstrument(tracks, name, i, plugin) ==
    WithTrack(tracks, name, LAMBDA t :
        [t EXCEPT !.rack = Compact([Padded(@, i) EXCEPT ![i] = Slot(plugin)]), !.in = MidiInput,
                  !.out = IF @ \in {None, Instrument} THEN Master ELSE @])
ToggleInstrument(tracks, name, i) == WithTrack(tracks, name, LAMBDA t : [t EXCEPT !.rack[i].bypassed = ~@])

-----------------------------------------------------------------------------
\* The master inserts: an external plug-in, an empty slot, or an effect of the engine's own,
\* which cannot be moved or removed.  An external plug-in takes the first slot that holds
\* none, and is there at most once.

OwnEffect == [plugin |-> Master, bypassed |-> FALSE]
External(slot) == slot.plugin \notin {None, Master}
CanAddMaster(inserts, plugin) ==
    /\ Slot(plugin).plugin \notin {s.plugin : s \in ToSet(inserts)}
    /\ Len(inserts) < MaxInserts \/ \E s \in ToSet(inserts) : ~External(s)
AddMaster(inserts, plugin) ==
    LET free == SelectInSeq(inserts, LAMBDA s : ~External(s))
    IN  IF free = 0 THEN Append(inserts, Slot(plugin)) ELSE [inserts EXCEPT ![free] = Slot(plugin)]
ClearMaster(inserts) == SelectSeq(inserts, LAMBDA s : ~External(s))
MasterNeighbours(inserts, i, down) ==
    {k \in DOMAIN inserts : External(inserts[k]) /\ IF down THEN k > i ELSE k < i}
MoveMaster(inserts, i, down) ==
    LET near == MasterNeighbours(inserts, i, down) IN SwapItems(inserts, i, IF down THEN Min(near) ELSE Max(near))
====
