---- MODULE MidiEdits ----
(***************************************************************************)
(* The MIDI regions of src/project/EditOperations.cpp.  A region is [id,   *)
(* track, start, dur, notes, events, muted, locked]: start and dur in      *)
(* ticks of the timeline.  A note is [id, pitch, at, len, vel, muted] and  *)
(* an event (a controller, pitch bend or program change) [id, at, kind,    *)
(* value], at and len in units of the shortest note, a 960th of a beat.    *)
(* The tempo is constant, Units units to a tick.                           *)
(*                                                                         *)
(* A locked region refuses every operation but the one that unlocks it.    *)
(***************************************************************************)
EXTENDS TrackEdits, Listing

CONSTANTS Units,              \* units of note time in a tick
          MinDur,             \* the shortest region, 0.05 s, in ticks
          MaxPitch, MaxVelocity
ASSUME UnitsAssumption == Units \in Nat \ {0}

RegionIds(regions) == {regions[i].id : i \in DOMAIN regions}
Region(regions, id) == regions[SelectInSeq(regions, LAMBDA r : r.id = id)]
FreeRegion(regions, id) == id \in RegionIds(regions) /\ ~Region(regions, id).locked
ChangeRegion(regions, id, F(_)) == [i \in DOMAIN regions |-> IF regions[i].id = id THEN F(regions[i]) ELSE regions[i]]
InRegionOrder(regions) ==
    Picked(regions, Ranked(DOMAIN regions, LAMBDA i, k :
        \/ regions[i].start < regions[k].start
        \/ regions[i].start = regions[k].start /\ (regions[i].id < regions[k].id \/ (regions[i].id = regions[k].id /\ i < k))))
InNoteOrder(notes) ==
    SortSeq(notes, LAMBDA m, n : \/ m.at < n.at
                                 \/ m.at = n.at /\ (m.pitch < n.pitch \/ (m.pitch = n.pitch /\ m.id < n.id)))
InEventOrder(events) == SortSeq(events, LAMBDA d, e : d.at < e.at \/ (d.at = e.at /\ d.id < e.id))
NextId(seq) == Min({n \in 1..Len(seq) + 1 : \A i \in DOMAIN seq : seq[i].id # n})
Notes(r, F(_)) == [r EXCEPT !.notes = [i \in DOMAIN @ |-> F(@[i])]]
Sorted(r) == [r EXCEPT !.notes = InNoteOrder(@)]
RegionEnd(r) == r.start + r.dur
AtLeast(lo, x) == IF x < lo THEN lo ELSE x
AtMost(hi, x) == IF x > hi THEN hi ELSE x

-----------------------------------------------------------------------------
\* Regions

\* A region on a track that is neither makes it a MIDI track, whatever it was.
MidiTarget(tracks, name) == Editable(tracks, name, {"audio", "aux", "vca", "midi", "instrument"})
MakeMidi(t) ==
    IF t.type \in MidiTypes THEN t
    ELSE [t EXCEPT !.type = "midi", !.in = IF @ \in {None, Input} THEN MidiInput ELSE @,
                   !.out = IF @ \in {None, Master} THEN Instrument ELSE @]
AddRegion(doc, name, start, dur) ==
    [doc EXCEPT !.tracks = WithTrack(@, name, MakeMidi),
                !.regions = InRegionOrder(Append(@, [id |-> NextId(@), track |-> name, start |-> start,
                                dur |-> AtLeast(MinDur, dur), notes |-> <<>>, events |-> <<>>,
                                muted |-> FALSE, locked |-> FALSE]))]
MoveRegion(doc, id, name, start) ==
    [doc EXCEPT !.tracks = WithTrack(@, name, MakeMidi),
                !.regions = InRegionOrder(ChangeRegion(@, id, LAMBDA r : [r EXCEPT !.track = name, !.start = start]))]
ResizeRegion(regions, id, dur) == ChangeRegion(regions, id, LAMBDA r : [r EXCEPT !.dur = AtLeast(MinDur, dur)])

\* The notes keep their time: they move back by what the start moved on.  A note that is
\* left with no more than the shortest length goes, and so does an event before the start.
TrimmedStart(r, start) ==
    LET from == AtLeast(0, AtMost(RegionEnd(r) - MinDur, start))
        by == Units * (from - r.start)
        Cut(n) == IF n.at < by THEN [n EXCEPT !.len = AtLeast(0, @ + n.at - by), !.at = 0]
                  ELSE [n EXCEPT !.at = @ - by]
        shifted == [i \in DOMAIN r.events |-> [r.events[i] EXCEPT !.at = @ - by]]
    IN  [Notes(r, Cut) EXCEPT !.start = from, !.dur = AtLeast(MinDur, RegionEnd(r) - from),
                              !.notes = SelectSeq(@, LAMBDA n : n.len > 1),
                              !.events = SelectSeq(shifted, LAMBDA e : e.at >= 0)]
TrimRegionStart(regions, id, start) == InRegionOrder(ChangeRegion(regions, id, LAMBDA r : TrimmedStart(r, start)))

\* A note across the cut is divided.  The events are not: both parts have all of them, at
\* the distance from their own start that they had from the whole region's.
CanSplitRegion(regions, id, at) ==
    FreeRegion(regions, id) /\ at > Region(regions, id).start /\ at < RegionEnd(Region(regions, id))
\* Mutant of RightNote: the part before the cut is not taken off the length.
RightNoteWhole(n, cut) == [n EXCEPT !.at = AtLeast(0, @ - cut)]

LeftNote(n, cut) == [n EXCEPT !.len = AtLeast(1, AtMost(cut, n.at + @) - n.at)]
RightNote(n, cut) == [n EXCEPT !.at = AtLeast(0, @ - cut), !.len = AtLeast(1, n.at + @ - AtLeast(n.at, cut))]
SplitRegion(regions, id, at) ==
    LET r == Region(regions, id)
        cut == Units * (at - r.start)
        before == SelectSeq(r.notes, LAMBDA n : n.at < cut)
        after == SelectSeq(r.notes, LAMBDA n : n.at + AtLeast(1, n.len) > cut)
        left == [r EXCEPT !.dur = AtLeast(MinDur, at - r.start),
                          !.notes = [i \in DOMAIN before |-> LeftNote(before[i], cut)]]
        right == [r EXCEPT !.id = NextId(regions), !.start = at, !.dur = AtLeast(MinDur, RegionEnd(r) - at),
                           !.notes = [i \in DOMAIN after |-> RightNote(after[i], cut)]]
    IN  InRegionOrder(Append(ChangeRegion(regions, id, LAMBDA x : left), right))
DuplicateRegion(regions, id, start) ==
    InRegionOrder(Append(regions, [Region(regions, id) EXCEPT !.id = NextId(regions), !.start = start]))
DeleteRegion(regions, id) == Picked(regions, Ascending({i \in DOMAIN regions : regions[i].id # id}))
SetRegionFlag(regions, id, flag, on) ==
    ChangeRegion(regions, id, LAMBDA r : IF flag = "muted" THEN [r EXCEPT !.muted = on] ELSE [r EXCEPT !.locked = on])

-----------------------------------------------------------------------------
\* Notes and events of a region

Pitched(n, pitch) == [n EXCEPT !.pitch = AtMost(MaxPitch, AtLeast(0, pitch))]
Transpose(r, by) == Notes(r, LAMBDA n : IF n.muted THEN n ELSE Pitched(n, n.pitch + by))
\* Offset gives each note the offset the generator draws for it; velocities stay.  The notes
\* are left in the order of events, whatever their pitch.
Humanize(r, Offset(_)) ==
    LET moved == Notes(r, LAMBDA n : IF n.muted THEN n ELSE [n EXCEPT !.at = AtLeast(0, @ + Offset(n))])
    IN  [moved EXCEPT !.notes = InEventOrder(@)]
\* Only when a note is moved are the notes put in order.
Quantize(r, q) ==
    LET moved == Notes(r, LAMBDA n : [n EXCEPT !.at = q * ((2 * @ + q) \div (2 * q))])
    IN  IF moved = r THEN r ELSE Sorted(moved)

WithNote(notes, pitch, at, len) ==
    InNoteOrder(Append(notes, [id |-> NextId(notes), pitch |-> pitch, at |-> at, len |-> AtLeast(1, len),
                               vel |-> MaxVelocity, muted |-> FALSE]))
AddNote(r, pitch, at, len) == [r EXCEPT !.notes = WithNote(@, pitch, at, len)]
Chosen(r, ids, F(_)) == Notes(r, LAMBDA n : IF n.id \in ids THEN F(n) ELSE n)
MoveNotes(r, ids, up, later) ==
    Sorted(Chosen(r, ids, LAMBDA n : [Pitched(n, n.pitch + up) EXCEPT !.at = AtLeast(0, @ + later)]))
ResizeNotes(r, ids, by) == Chosen(r, ids, LAMBDA n : [n EXCEPT !.len = AtLeast(1, @ + by)])
AdjustVelocities(r, ids, by) == Chosen(r, ids, LAMBDA n : [n EXCEPT !.vel = AtMost(MaxVelocity, AtLeast(1, @ + by))])
MuteNote(r, id, on) == Chosen(r, {id}, LAMBDA n : [n EXCEPT !.muted = on])
DeleteNotes(r, ids) == [r EXCEPT !.notes = SelectSeq(@, LAMBDA n : n.id \notin ids)]
WithEvent(events, at, kind, value) ==
    InEventOrder(Append(events, [id |-> NextId(events), at |-> at, kind |-> kind, value |-> value]))
AddEvent(r, at, kind, value) == [r EXCEPT !.events = WithEvent(@, at, kind, value)]
MoveEvent(r, id, at) ==
    [r EXCEPT !.events = InEventOrder([i \in DOMAIN @ |-> IF @[i].id = id THEN [@[i] EXCEPT !.at = at] ELSE @[i]])]
DeleteEvent(r, id) == [r EXCEPT !.events = SelectSeq(@, LAMBDA e : e.id # id)]

-----------------------------------------------------------------------------
\* A recorded take: what was played, [kind, pitch, at] with at in units after its start

\* A note lasts until its pitch is released or struck again (the first strike is lost
\* then), one still held until the end of the take.
Strikes(take, i) == {k \in i + 1..Len(take) : take[k].pitch = take[i].pitch /\ take[k].kind \in {"on", "off"}}
TakeEnd(take, dur) == Max({Units * dur} \cup {take[i].at + 1 : i \in DOMAIN take})
TakeNotes(take, dur) ==
    {[pitch |-> take[i].pitch, at |-> take[i].at,
      len |-> AtLeast(1, (IF Strikes(take, i) = {} THEN TakeEnd(take, dur) ELSE take[Min(Strikes(take, i))].at) - take[i].at)] :
        i \in {k \in DOMAIN take : take[k].kind = "on"
                                   /\ (Strikes(take, k) # {} => take[Min(Strikes(take, k))].kind = "off")}}
TakeEvents(take) == SelectSeq(take, LAMBDA e : e.kind \notin {"on", "off"})

\* The range a take replaces, in units of the timeline: its own extent, or the punch's.
Replaced(take, start, dur, mode, punch) ==
    LET end == Units * start + TakeEnd(take, dur) IN
    IF mode = "punch" THEN <<AtLeast(Units * start, Units * punch[1]), AtMost(end, Units * punch[2])>>
    ELSE <<Units * start, end>>
\* A take goes to the first free region of the track that touches the range, or to a new one.
TakeTargets(regions, name, range) ==
    SelectInSeq(regions, LAMBDA r : /\ r.track = name /\ ~r.locked /\ ~r.muted
                                    /\ Units * r.start <= range[2] /\ Units * RegionEnd(r) >= range[1])
CanRecordTake(doc, name, take, dur) ==
    /\ Editable(doc.tracks, name, MidiTypes) /\ dur > 0
    /\ TakeNotes(take, dur) # {} \/ TakeEvents(take) # <<>>
\* What was played before the region's start is put at its start.
TakeTime(r, start, at) == AtLeast(0, Units * (start - r.start) + at)
Cleared(r, range) ==
    LET From(x) == Units * r.start + x.at IN
    [r EXCEPT !.notes = SelectSeq(@, LAMBDA n : ~(From(n) < range[2] /\ From(n) + n.len > range[1])),
              !.events = SelectSeq(@, LAMBDA e : From(e) \notin range[1]..range[2])]
WithTake(r, take, start, dur) ==
    LET notes == SetToSortSeq(TakeNotes(take, dur), LAMBDA m, n : m.at < n.at \/ (m.at = n.at /\ m.pitch < n.pitch))
    IN  [r EXCEPT !.notes = FoldLeft(LAMBDA ns, n : WithNote(ns, n.pitch, TakeTime(r, start, n.at), n.len), @, notes),
                  !.events = FoldLeft(LAMBDA es, e : WithEvent(es, TakeTime(r, start, e.at), e.kind, e.pitch), @, TakeEvents(take))]
RecordTake(doc, name, take, start, dur, mode, punch) ==
    LET range == Replaced(take, start, dur, mode, punch)
        ticks == -((-TakeEnd(take, dur)) \div Units)
        found == IF mode = "new" THEN 0 ELSE TakeTargets(doc.regions, name, range)
        held == IF found = 0 THEN AddRegion(doc, name, start, ticks) ELSE doc
        id == IF found = 0 THEN NextId(doc.regions) ELSE doc.regions[found].id
        Extended(r) == [r EXCEPT !.dur = AtLeast(@, start + ticks - r.start)]
        Kept(r) == IF mode \in {"replace", "punch"} /\ range[2] > range[1] THEN Cleared(r, range) ELSE r
    IN  [held EXCEPT !.regions = ChangeRegion(@, id, LAMBDA r : WithTake(Kept(Extended(r)), take, start, dur))]

-----------------------------------------------------------------------------
\* What is heard of the regions: each sounding note with its times on the timeline, in units
\* (collectMidiEventsForRenderBlock of the renderer)
SoundingNotes(regions) ==
    UNION {{[track |-> r.track, pitch |-> n.pitch, vel |-> n.vel, from |-> Units * r.start + n.at,
             to |-> AtMost(Units * RegionEnd(r), Units * r.start + n.at + n.len)] :
                n \in {m \in ToSet(r.notes) : ~m.muted /\ m.at < Units * r.dur}} :
           r \in {s \in ToSet(regions) : ~s.muted}}
\* An event is played when it begins inside its region.
SoundingEvents(regions) ==
    UNION {{[track |-> r.track, kind |-> e.kind, value |-> e.value, t |-> Units * r.start + e.at] :
                e \in {x \in ToSet(r.events) : x.at < Units * r.dur}} : r \in {s \in ToSet(regions) : ~s.muted}}
====
