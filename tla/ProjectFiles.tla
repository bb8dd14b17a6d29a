---- MODULE ProjectFiles ----
(***************************************************************************)
(* Writing a project document as text and reading the text back            *)
(* (src/project/ProjectDocument.cpp): what a saved and reopened document,  *)
(* or an undone and redone one, is made of.                                *)
(*                                                                         *)
(* The text of a document is the document with its times rounded: numbers  *)
(* are written with the stream's default of six significant digits.  The   *)
(* reader trusts nothing of the text: it drops, renames, moves and orders  *)
(* what it finds.  The fades, and the beats of notes, are short and are    *)
(* not rounded here; keys are found where they are meant to be, but for    *)
(* that of the instrument.                                                 *)
(***************************************************************************)
EXTENDS ClipEdits, EditModel, MidiEdits, MarkerEdits

CONSTANTS Base, Digits  \* a number keeps this many digits of this base
ASSUME TextAssumption == Base \in Nat \ {0, 1} /\ Digits \in Nat \ {0}

\* The unit of the last digit that is written: one, or a power of the base for long numbers.
Power[k \in Nat] == IF k = 0 THEN 1 ELSE Base * Power[k - 1]
LastUnit(n) == Power[Max({0} \cup {k \in 1..9 : n \div Power[k] >= Power[Digits - 1]})]

\* To the nearest multiple of it; a half goes up.
Rounded(n) == LastUnit(n) * ((2 * n + LastUnit(n)) \div (2 * LastUnit(n)))
Each(seq, F(_)) == [i \in DOMAIN seq |-> F(seq[i])]

-----------------------------------------------------------------------------
\* The edit model before it is written, and after it is read: the MIDI part of it

NormalMidiTrack(t) ==
    IF t.name \in Protected \/ t.type \notin MidiTypes THEN t
    ELSE [t EXCEPT !.in = IF @ \in {None, Input} THEN MidiInput ELSE @,
                   !.out = CASE t.type = "midi" /\ @ \in {None, Master} -> Instrument
                             [] t.type = "instrument" /\ @ \in {None, Instrument} -> Master
                             [] OTHER -> @,
                   !.rack = IF t.type = "midi" THEN <<>> ELSE Compact(SubSeq(@, 1, Smaller(Len(@), MaxRack)))]

\* A region stays only on a track that plays MIDI; its notes and events are put within
\* their limits and in order.
NormalRegion(r) ==
    Sorted([r EXCEPT !.start = AtLeast(0, @), !.events = InEventOrder(@),
                     !.notes = Each(@, LAMBDA n : [n EXCEPT !.pitch = Between(0, @, MaxPitch), !.at = AtLeast(0, @),
                                                            !.len = AtLeast(1, @), !.vel = Between(1, @, MaxVelocity)])])
NormalRegions(regions, tracks) ==
    LET midi == {t.name : t \in {x \in ToSet(tracks) : x.type \in MidiTypes}} \ Protected
    IN  InRegionOrder(Each(SelectSeq(regions, LAMBDA r : r.track \in midi /\ r.dur > 0), NormalRegion))

ForText(doc) ==
    LET d == NormalizeEditModel(doc) IN
    [d EXCEPT !.tracks = Each(@, NormalMidiTrack), !.regions = NormalRegions(@, doc.tracks)]

-----------------------------------------------------------------------------
\* Writing

WrittenRange(r) == [r EXCEPT !.lo = Rounded(@), !.hi = Rounded(@)]
WrittenPoints(points) == Each(points, LAMBDA q : [q EXCEPT !.at = Rounded(@)])
WrittenTimeline(d) ==
    [d EXCEPT !.map = WrittenPoints(@), !.sel = WrittenRange(@), !.loop = WrittenRange(@)]
WrittenClip(c) == [c EXCEPT !.start = Rounded(@), !.dur = Rounded(@), !.off = Rounded(@)]
WrittenDefs(defs) == [id \in DOMAIN defs |-> [defs[id] EXCEPT !.off = Rounded(@), !.dur = Rounded(@)]]
WrittenLists(lists) ==
    Each(lists, LAMBDA l : [l EXCEPT !.items = Each(@, LAMBDA q : [q EXCEPT !.start = Rounded(@)])])
WrittenVideos(videos) == Each(videos, WrittenClip)
\* A marker keeps what it recalls, and where it is.
WrittenMarkers(markers) == WrittenPoints(markers)
WrittenRack(rack) == SubSeq(rack, 1, Smaller(Len(rack), MaxRack))
WrittenTrack(t) == [t EXCEPT !.rack = WrittenRack(@)]
WrittenRegions(regions) == Each(regions, LAMBDA r : [r EXCEPT !.start = Rounded(@), !.dur = Rounded(@)])
Written(doc) ==
    LET d == WrittenTimeline(ForText(doc)) IN
    [d EXCEPT !.tracks = Each(@, WrittenTrack), !.clips = Each(@, WrittenClip), !.videos = WrittenVideos(@),
              !.defs = WrittenDefs(@), !.lists = WrittenLists(@), !.regions = WrittenRegions(@),
              !.points = WrittenPoints(@), !.markers = WrittenMarkers(@)]

-----------------------------------------------------------------------------
\* Reading

\* The tempo is brought within its limits.
ReadSettings(text) == [text EXCEPT !.tempo = Between(MinTempo, @, MaxTempo)]
\* The tempo map has a marker, and a range that is empty is off.
ReadRange(r) == IF r.hi <= r.lo THEN NoRange ELSE r
ReadTimeline(d) ==
    [d EXCEPT !.map = IF @ = <<>> THEN <<FirstMarker(d.tempo)>> ELSE ByTime(@),
              !.sel = ReadRange(@), !.loop = ReadRange(@)]

\* The text says "trackType":"instrument" before the track's inserts, and "instrument"
\* after them: the reader looks for the first object after the first "instrument", and that
\* is the first insert when there is one.  It counts only when the rack is empty.
ReadInstrument(slot) == IF slot.plugin = None THEN Empty ELSE slot
ReadRack(t) ==
    LET rack == Compact(Each(SubSeq(t.rack, 1, Smaller(Len(t.rack), MaxRack)), ReadInstrument)) IN
    IF rack = <<>> /\ t.inserts # <<>> THEN Compact(<<ReadInstrument(t.inserts[1])>>) ELSE rack
ReadSend(s) == [s EXCEPT !.on = @ /\ s.bus # None]
ReadTrack(t) ==
    LET type == CASE t.name = Master -> "master" [] t.name = Monitor -> "monitor" [] OTHER -> t.type
        control == type \in FolderTypes \cup {"vca"}
        read == [t EXCEPT
            !.type = type,
            !.in = CASE type = "master" -> None [] type = "monitor" -> Monitor
                     [] type \in MidiTypes /\ @ \in {None, Input} -> MidiInput [] OTHER -> @,
            !.out = CASE type = "master" -> Monitor [] type = "monitor" -> MainOut
                      [] type = "midi" /\ @ \in {None, Master} -> Instrument
                      [] type = "instrument" /\ @ \in {None, Instrument} -> Master
                      [] type \in {"audio", "aux", "bus_folder"} /\ @ \in {Monitor, MainOut} -> Master
                      [] OTHER -> @,
            !.rack = IF type = "instrument" THEN ReadRack(t) ELSE <<>>,
            !.sends = Each(@, ReadSend),
            !.folder = IF control \/ type \in {"master", "monitor"} THEN None ELSE @,
            !.vca = IF type \in {"vca", "master", "monitor"} THEN None ELSE @]
    IN  IF control THEN [read EXCEPT !.armed = FALSE, !.listening = FALSE] ELSE read

\* A document without a track that can hold clips gets the tracks of a new one.
DefaultTracks ==
    LET first == Min(Family["audio"]) IN
    <<NewTrack(first, "audio"), NewTrack(first + 1, "audio"),
      [NewTrack(Master, "master") EXCEPT !.out = Monitor],
      [NewTrack(Monitor, "monitor") EXCEPT !.in = Monitor, !.out = MainOut]>>
ReadTracks(tracks) ==
    LET read == Each(tracks, ReadTrack) IN IF Timeline(read) = {} THEN DefaultTracks ELSE read
\* Only a folder's name is a folder, and only a VCA's controls.
Rehoused(tracks) ==
    LET OfType(types) == {t.name : t \in {x \in ToSet(tracks) : x.type \in types}}
    IN  Each(tracks, LAMBDA t : [t EXCEPT !.folder = IF @ \in OfType(FolderTypes) THEN @ ELSE None,
                                          !.vca = IF @ \in OfType({"vca"}) \ {t.name} THEN @ ELSE None])

\* A clip without a track goes to the first that can hold it.
ReadClips(clips, tracks) ==
    LET fallback == tracks[SelectInSeq(tracks, LAMBDA t : t.type \in TimelineTypes)].name
        Home(c) == IF c.track \in TrackNames(tracks) \ Protected THEN c ELSE [c EXCEPT !.track = fallback]
    IN  Each(SelectSeq(clips, LAMBDA c : c.dur > 0), LAMBDA c : Clamp(Home(c)))
ReadDefs(defs) == [id \in {d \in DOMAIN defs : defs[d].dur > 0} |-> defs[id]]
ReadVideos(videos, sources) == SelectSeq(videos, LAMBDA v : v.dur > 0 /\ v.src \in sources)

\* Mutant of ReadLists: the alternate takes are not read.
ReadActiveLists(lists, tracks) == SelectSeq(lists, LAMBDA l : l.active /\ l.track \in TrackNames(tracks))

ReadLists(lists, tracks) == SelectSeq(lists, LAMBDA l : l.track \in TrackNames(tracks) \ Protected)
ReadPoints(points) == ByTime(Each(points, LAMBDA q : [q EXCEPT !.value = Limited(@)]))
ReadMarkers(markers) == ByTime(markers)

\* The regions are read last: a track that has one becomes a MIDI track.
ReadRegions(d, regions) ==
    LET closed == FolderTypes \cup {"master", "monitor"}
        kept == SelectSeq(regions, LAMBDA r : r.track \in TrackNames(d.tracks) /\ Track(d.tracks, r.track).type \notin closed)
        Playing(t) == IF \E r \in ToSet(kept) : r.track = t.name THEN MakeMidi(t) ELSE t
    IN  [d EXCEPT !.tracks = Each(@, Playing),
                  !.regions = InRegionOrder(Each(kept, LAMBDA r : Sorted([r EXCEPT !.events = InEventOrder(@)])))]

Parsed(text) ==
    LET routed == NormalizeRouting([ReadTimeline(ReadSettings(text)) EXCEPT !.tracks = ReadTracks(@)])
        tracks == Rehoused(routed.tracks)
        d == ForText([routed EXCEPT
                !.tracks = tracks, !.clips = ReadClips(@, tracks), !.defs = ReadDefs(@),
                !.videos = ReadVideos(@, text.sources), !.lists = ReadLists(@, tracks),
                !.points = ReadPoints(@), !.markers = ReadMarkers(@), !.regions = <<>>])
    IN  ReadRegions(d, text.regions)

\* A project file is opened with the clips of its active playlists.
Opened(text) == RebuildClips(Parsed(text))
====
