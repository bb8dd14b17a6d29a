---- MODULE Interchange ----
(***************************************************************************)
(* Handing a timeline to other programs and taking it back                 *)
(* (src/project/TimelineExport.cpp): an edit decision list, a Final Cut    *)
(* XML, the reference text that stands for AAF and OMF, and a standard     *)
(* MIDI file.  A form carries part of a document; the document that is     *)
(* read is a new one with that part.                                       *)
(*                                                                         *)
(* A text is a record here, with the fields the writer puts in it.  Names  *)
(* are written as they are, but for an empty one in the reference text,    *)
(* which is written "-".  Rounding to the digits of a number is left out:  *)
(* a tick of the model is a whole number of milliseconds, and a part of a  *)
(* BPM one of thousandths; a MIDI file has tempos to the microsecond of a  *)
(* beat.                                                                   *)
(***************************************************************************)
EXTENDS ProjectFiles

CONSTANTS DefaultTempo,  \* the tempo of a new project, 120
          Rate           \* the frame rate of the edit decision list, see below
ASSUME TempoAssumption == DefaultTempo \in MinTempo..MaxTempo

Dash == 107  \* "-", which stands for an empty name

\* A document nothing was put into.
EmptyDocument ==
    [tracks |-> <<>>, clips |-> <<>>, files |-> <<>>, defs |-> <<>>, lists |-> <<>>, regions |-> <<>>,
     tempoMaster |-> None, tempo |-> DefaultTempo, map |-> <<>>, markers |-> <<>>,
     points |-> <<>>, sel |-> NoRange, loop |-> NoRange, master |-> <<>>, videos |-> <<>>, sources |-> {}]
\* The document every import starts from: a new project without its tracks.
Blank == [EmptyDocument EXCEPT !.tempoMaster = Min(Family["audio"])]

\* What all three texts write of the clips: those that are heard, in the order of time.
Sounding(doc) == SelectSeq(doc.clips, LAMBDA c : ~c.muted /\ c.dur > 0 /\ c.track \notin Protected)
ClipEvents(doc) ==
    SortSeq(Sounding(doc), LAMBDA c, d : c.start < d.start \/ (c.start = d.start /\ c.track < d.track))
TypeOf(doc, name) == IF name \in TrackNames(doc.tracks) THEN Track(doc.tracks, name).type ELSE "audio"

\* A track is made when the first clip of it is read, with nothing but its name and type.
Ensured(tracks, e) ==
    IF e.track \in TrackNames(tracks) THEN tracks
    ELSE Append(tracks, [Clean EXCEPT !.name = e.track, !.type = e.type])
WithEnds(tracks) == tracks \o <<NewTrack(Master, "master"), NewTrack(Monitor, "monitor")>>
Finished(doc) ==
    NormalizeRouting([doc EXCEPT !.tracks = IF @ = <<>> THEN DefaultTracks ELSE WithEnds(@)])
InTimeOrder(doc) ==
    [doc EXCEPT !.map = ByTime(IF @ = <<>> THEN <<FirstMarker(doc.tempo)>> ELSE @),
                !.markers = ByTime(@)]
ReadVideoLines(text) == SelectSeq(text.videos, LAMBDA v : v.src \in text.sources /\ v.dur > 0)

-----------------------------------------------------------------------------
\* Time codes.  A rate is [num, den, nominal, second, drop]: num / den frames a second,
\* counted as nominal ones, in ticks of which second are a second; drop when the count skips
\* the first labels of most minutes.

\* The number of a frame when the labels that are skipped count as well.
DropLabel(frames, nominal) ==
    LET skipped == IF nominal = 60 THEN 4 ELSE 2
        minute == nominal * 60 - skipped
        tens == nominal * 600 - skipped * 9
        frame == frames % (nominal * 86400)
        rest == frame % tens
        ofTens == skipped * 9 * (frame \div tens)
    IN  frame + ofTens + (IF rest >= skipped THEN skipped * ((rest - skipped) \div minute) ELSE 0)
Label(t, rate) ==
    LET frames == ToNearest(AtLeast(0, t) * rate.num, rate.den * rate.second)
        label == IF rate.drop THEN DropLabel(frames, rate.nominal) ELSE frames
    IN  [second |-> label \div rate.nominal, frame |-> label % rate.nominal]
\* The seconds of a label are taken for seconds, though a label of a fractional rate has
\* nominal frames in each.
FromLabel(l, rate) == rate.second * l.second + ToNearest(l.frame * rate.den * rate.second, rate.num)

-----------------------------------------------------------------------------
\* The edit decision list: clips by place and time code, and the timeline in comments

EdlEvent(doc, c) ==
    [track |-> c.track, type |-> TypeOf(doc, c.track), src |-> c.src, gain |-> c.gain, fin |-> c.fin, fout |-> c.fout,
     srcIn |-> Label(AtLeast(0, c.off), Rate), srcOut |-> Label(AtLeast(0, c.off) + c.dur, Rate),
     recIn |-> Label(AtLeast(0, c.start), Rate), recOut |-> Label(AtLeast(0, c.start) + c.dur, Rate)]
EdlText(doc) ==
    [events |-> Each(ClipEvents(doc), LAMBDA c : EdlEvent(doc, c)), map |-> doc.map,
     markers |-> Each(doc.markers, LAMBDA m : [at |-> m.at, value |-> m.value]),
     videos |-> doc.videos, sources |-> doc.sources]

Span(from, to) == FromLabel(to, Rate) - FromLabel(from, Rate)
EdlClip(e, n) ==
    [id |-> <<n>>, track |-> e.track, src |-> e.src, start |-> FromLabel(e.recIn, Rate), off |-> FromLabel(e.srcIn, Rate),
     dur |-> AtLeast(0, Smaller(Span(e.srcIn, e.srcOut), Span(e.recIn, e.recOut))), fin |-> e.fin, fout |-> e.fout,
     gain |-> e.gain, muted |-> FALSE, inv |-> FALSE, locked |-> FALSE, scale |-> 1]
Numbered(points) == [i \in DOMAIN points |-> [id |-> i, at |-> points[i].at, value |-> points[i].value]]
EdlTimeline(text) ==
    [Blank EXCEPT !.map = text.map, !.markers = Numbered(text.markers),
                  !.videos = ReadVideoLines(text), !.sources = text.sources,
                  !.tempo = IF text.map = <<>> THEN @ ELSE Whole(text.map[1].value)]
\* A track of the type its events name is there even when no clip of it has a length.
EdlTracks(text) == FoldLeft(Ensured, <<>>, text.events)
EdlClips(text) ==
    SelectSeq([i \in DOMAIN text.events |-> EdlClip(text.events[i], i)], LAMBDA c : c.dur > 0)
FromEdl(text) ==
    InTimeOrder(Finished([EdlTimeline(text) EXCEPT !.clips = EdlClips(text), !.tracks = EdlTracks(text)]))

-----------------------------------------------------------------------------
\* Final Cut XML: clips by the media they are of, under their own ids, and the timeline as
\* metadata

FcpxmlClip(doc, c) == [c EXCEPT !.muted = FALSE, !.inv = FALSE, !.locked = FALSE, !.scale = 1]
                      @@ [type |-> TypeOf(doc, c.track)]
\* A clip refers to the asset of its file, which is as long as the clips need it.
FcpxmlAssets(doc) ==
    LET used == ToSet(Sounding(doc))
    IN  [src \in {c.src : c \in used} |-> Max({c.off + c.dur : c \in {u \in used : u.src = src}})]
FcpxmlText(doc) ==
    [assets |-> FcpxmlAssets(doc), clips |-> Each(ClipEvents(doc), LAMBDA c : FcpxmlClip(doc, c)), tempo |-> doc.tempo, map |-> doc.map,
     markers |-> doc.markers, videos |-> doc.videos, sources |-> doc.sources]
WithoutType(c) == [f \in DOMAIN c \ {"type"} |-> c[f]]
FcpxmlTimeline(text) ==
    [Blank EXCEPT !.tempo = text.tempo, !.map = text.map, !.markers = text.markers,
                  !.videos = ReadVideoLines(text), !.sources = text.sources]
FromFcpxml(text) ==
    InTimeOrder(Finished([FcpxmlTimeline(text) EXCEPT
        !.clips = Each(SelectSeq(text.clips, LAMBDA c : c.src \in DOMAIN text.assets), WithoutType), !.tracks = FoldLeft(Ensured, <<>>, text.clips)]))

-----------------------------------------------------------------------------
\* The reference text has the tracks of the clips, with where they come from and go to; it
\* has no markers

ReferenceName(name) == IF name = None THEN Dash ELSE name
ReadName(text) == IF text = Dash THEN None ELSE text
ReferenceTrack(t) ==
    [Clean EXCEPT !.name = t.name, !.type = t.type, !.in = ReferenceName(t.in), !.out = ReferenceName(t.out), !.armed = t.armed]
ReferenceText(doc) ==
    LET used == SetToSortSeq({c.track : c \in ToSet(Sounding(doc))} \cap TrackNames(doc.tracks), <)
    IN  [clips |-> Each(ClipEvents(doc), LAMBDA c : [c EXCEPT !.locked = FALSE, !.scale = 1]),
         tracks |-> Each(used, LAMBDA name : ReferenceTrack(Track(doc.tracks, name))),
         tempo |-> doc.tempo, map |-> doc.map, videos |-> doc.videos, sources |-> doc.sources]
ReferenceTimeline(text) ==
    [Blank EXCEPT !.tempo = text.tempo, !.map = text.map, !.videos = ReadVideoLines(text), !.sources = text.sources]
ReadReferenceTrack(t) == [t EXCEPT !.in = ReadName(@), !.out = ReadName(@)]
FromReference(text) ==
    Finished([ReferenceTimeline(text) EXCEPT
        !.tracks = Each(text.tracks, ReadReferenceTrack),
        !.clips = SelectSeq(text.clips, LAMBDA c : c.dur > 0 /\ c.track \in TrackNames(text.tracks))])

-----------------------------------------------------------------------------
\* The MIDI file.  Its first track has the tempos and the markers, its second the clips as
\* text for a reader, then one track for each that has regions; of the first two only the
\* tempos are read.  Ticks are the units of notes, as the tempo is constant.

TickOf(time) == Units * AtLeast(0, time)
TimeOf(tick) == tick \div Units
NoteTick(r, at) == TickOf(r.start) + AtLeast(0, at)

\* The tempos in order from the start on; of two at one time the later.
FileTempos(doc) ==
    LET inOrder == ByTime(doc.map)
        full == IF inOrder[1].at > 0 THEN <<[inOrder[1] EXCEPT !.at = 0]>> \o inOrder ELSE inOrder
    IN  Picked(full, Ascending({i \in DOMAIN full : \A k \in DOMAIN full : k > i => full[k].at # full[i].at}))
ConductorTrack(doc) ==
    Each(FileTempos(doc), LAMBDA m : [tick |-> TickOf(m.at), tempo |-> m.value])
    \o Each(doc.markers, LAMBDA m : [tick |-> TickOf(m.at), marker |-> m.id])
ReadTempos(track) ==
    Each(Picked(track, Ascending({i \in DOMAIN track : "tempo" \in DOMAIN track[i]})),
         LAMBDA e : [id |-> 0, at |-> TimeOf(e.tick), value |-> e.tempo])
\* What is said of a clip, at the tick it begins on.
CueTrack(doc) == Each(ClipEvents(doc), LAMBDA c : [tick |-> TickOf(c.start), clip |-> c.id])

HeardRegions(doc) == SelectSeq(doc.regions, LAMBDA r : ~r.muted /\ r.dur > 0 /\ r.track \notin Protected)
\* A note becomes a strike and a release, which is at the region's end when the note is not
\* over by then; what begins after the end is left out.
NoteSignals(r, i) ==
    LET n == r.notes[i]
        from == NoteTick(r, n.at)
        to == AtMost(TickOf(RegionEnd(r)), NoteTick(r, n.at + n.len))
        Signal(tick, kind, value) == [tick |-> tick, kind |-> kind, pitch |-> n.pitch, value |-> value, id |-> <<r.id, i>>]
    IN  IF n.muted \/ from >= TickOf(RegionEnd(r)) THEN {} ELSE {Signal(from, "on", n.vel), Signal(to, "off", 0)}
EventSignals(r, i) ==
    LET e == r.events[i]
        tick == NoteTick(r, e.at)
    IN  IF tick >= TickOf(RegionEnd(r)) THEN {} ELSE {[tick |-> tick, kind |-> e.kind, pitch |-> 0, value |-> e.value, id |-> <<r.id, i>>]}
Signals(r) == UNION {NoteSignals(r, i) : i \in DOMAIN r.notes} \cup UNION {EventSignals(r, i) : i \in DOMAIN r.events}

\* Of the signals of a tick the releases are first and the strikes last.
Turn(kind) == CASE kind = "off" -> 1 [] kind = "on" -> 3 [] OTHER -> 2
Before(a, b) == \E k \in 1..5 : a[k] < b[k] /\ \A j \in 1..k - 1 : a[j] = b[j]
InPlayingOrder(signals) ==
    LET Key(s) == <<s.tick, Turn(s.kind), s.pitch, s.id[1], s.id[2]>>
    IN  SortSeq(FoldSet(LAMBDA s, seq : Append(seq, s), <<>>, signals), LAMBDA s, u : Before(Key(s), Key(u)))
\* A track has the distance of each signal from the one before it.
Distances(signals) ==
    [i \in DOMAIN signals |-> [signals[i] EXCEPT !.tick = AtLeast(0, @ - (IF i = 1 THEN 0 ELSE signals[i - 1].tick))]]
MidiFile(doc) ==
    LET regions == HeardRegions(doc)
        OfTrack(name) == UNION {Signals(r) : r \in {x \in ToSet(regions) : x.track = name}}
        names == {r.track : r \in {x \in ToSet(regions) : Signals(x) # {}}}
    IN  [conductor |-> ConductorTrack(doc), cues |-> CueTrack(doc),
         tracks |-> Each(SetToSortSeq(names, <),
                         LAMBDA name : [name |-> name, signals |-> Distances(InPlayingOrder(OfTrack(name)))])]

\* A release ends the last note of its pitch that was struck and is not over.
Sequenced == [tick |-> 0, held |-> [pitch \in 0..MaxPitch |-> <<>>], notes |-> <<>>, events |-> <<>>]
\* A signal at its own tick.
Arrived(s, e) == [e EXCEPT !.tick = s.tick + @]
\* Mutant of Sequence: every note of the pitch ends.
SequenceAll(s, e) ==
    LET held == s.held[e.pitch] IN
    CASE e.kind = "on" -> [s EXCEPT !.held[e.pitch] = Append(held, e)]
      [] e.kind = "off" /\ held = <<>> -> s
      [] e.kind = "off" -> [s EXCEPT !.held[e.pitch] = <<>>, !.notes = Append(@, [from |-> Last(held), to |-> e.tick])]
      [] OTHER -> [s EXCEPT !.events = Append(@, e)]

Sequence(s, e) ==
    LET held == s.held[e.pitch] IN
    CASE e.kind = "on" -> [s EXCEPT !.held[e.pitch] = Append(held, e)]
      [] e.kind = "off" /\ (held = <<>> \/ Last(held).tick >= e.tick) -> s
      [] e.kind = "off" -> [s EXCEPT !.held[e.pitch] = Front(held), !.notes = Append(@, [from |-> Last(held), to |-> e.tick])]
      [] OTHER -> [s EXCEPT !.events = Append(@, e)]

\* One region from the first signal of a track to the last, on whole ticks of the timeline.
FileRegion(id, track) ==
    LET Step(s, e) == [Sequence(s, Arrived(s, e)) EXCEPT !.tick = Arrived(s, e).tick]
        read == FoldLeft(Step, Sequenced, track.signals)
        ticks == {e.tick : e \in ToSet(read.events)} \cup UNION {{n.from.tick, n.to} : n \in ToSet(read.notes)}
        start == TimeOf(Min(ticks))
        end == -TimeOf(-Max(ticks))
        notes == SortSeq(read.notes, LAMBDA m, n : m.from.tick < n.from.tick)
    IN  [id |-> id, track |-> track.name, start |-> start, dur |-> AtLeast(MinDur, end - start),
         notes |-> [i \in DOMAIN notes |->
            [id |-> i, pitch |-> notes[i].from.pitch, at |-> notes[i].from.tick - TickOf(start),
             len |-> AtLeast(1, notes[i].to - notes[i].from.tick), vel |-> AtLeast(1, notes[i].from.value), muted |-> FALSE]],
         events |-> [i \in DOMAIN read.events |->
            [id |-> i, at |-> read.events[i].tick - TickOf(start), kind |-> read.events[i].kind, value |-> read.events[i].value]],
         muted |-> FALSE, locked |-> FALSE]
\* The tempo of a new project stays before those of the file, and is the project's.
FromMidi(file) ==
    [Blank EXCEPT
        !.map = <<FirstMarker(DefaultTempo)>> \o ReadTempos(file.conductor),
        !.tracks = WithEnds(Each(file.tracks, LAMBDA t : [NewTrack(t.name, "midi") EXCEPT !.out = Instrument])),
        !.regions = [i \in DOMAIN file.tracks |-> FileRegion(i, file.tracks[i])]]

-----------------------------------------------------------------------------
\* Out and back in.  The texts are taken back when there is a clip or a marker in them, the
\* MIDI file when there is a note; the reference text always.

Forms == {"edl", "fcpxml", "reference", "midi"}
CanExchange(form, doc) ==
    CASE form \in {"edl", "fcpxml"} -> Sounding(doc) # <<>> \/ doc.markers # <<>>
      [] form = "reference" -> TRUE
      [] form = "midi" -> \E r \in ToSet(HeardRegions(doc)) : \E i \in DOMAIN r.notes : NoteSignals(r, i) # {}
Exchanged(form, doc) ==
    CASE form = "edl" -> FromEdl(EdlText(doc))
      [] form = "fcpxml" -> FromFcpxml(FcpxmlText(doc))
      [] form = "reference" -> FromReference(ReferenceText(doc))
      [] form = "midi" -> FromMidi(MidiFile(doc))
====
