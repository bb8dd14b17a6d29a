---- MODULE MarkerEdits ----
(***************************************************************************)
(* Points on the timeline of src/project/EditOperations.cpp: markers, and  *)
(* the chord and lyric events that work the same way, tempo markers,       *)
(* automation points, the edit selection and the loop.  A point is [id,    *)
(* at, value]; a tempo marker and an automation point have no id of their  *)
(* own and are known by their time.                                        *)
(*                                                                         *)
(* The project's tempo is a whole number of BPM, a tempo marker's is       *)
(* counted in parts of one.  A part is a thousandth at the finest, which   *)
(* is what every text of a project keeps.                                  *)
(***************************************************************************)
EXTENDS Listing, SequencesExt, FiniteSetsExt

CONSTANTS MinTempo, MaxTempo, \* the limits of a tempo, 20 and 400 BPM
          BpmParts,           \* the parts of a BPM
          MinValue, MaxValue  \* the limits of an automation value
ASSUME LimitsAssumption ==
    /\ {MinTempo, MaxTempo, MinValue, MaxValue} \subseteq Int /\ MinValue <= MaxValue
    /\ BpmParts \in Nat \ {0}

Gap(a, b) == IF a < b THEN b - a ELSE a - b
\* A half goes up.
ToNearest(n, d) == (2 * n + d) \div (2 * d)

\* Of two points with the same time and id the first stays the first, as std::sort leaves so few.
Earlier(p, i, q, k) == p.at < q.at \/ (p.at = q.at /\ (p.id < q.id \/ (p.id = q.id /\ i < k)))
ByTime(points) == Picked(points, Ranked(DOMAIN points, LAMBDA i, k : Earlier(points[i], i, points[k], k)))
FreshPoint(points) == Min({n \in 1..Len(points) + 1 : \A i \in DOMAIN points : points[i].id # n})

\* The nearest point within the tolerance: of two at one distance, the later in the list.
Near(points, at, tolerance) == {i \in DOMAIN points : Gap(points[i].at, at) <= tolerance}
Nearest(points, at, tolerance) ==
    LET near == Near(points, at, tolerance) IN
    Max({i \in near : \A k \in near : Gap(points[i].at, at) <= Gap(points[k].at, at)})

AddMarker(points, at, value) == ByTime(Append(points, [id |-> FreshPoint(points), at |-> at, value |-> value]))
DeleteNearest(points, at, tolerance) == RemoveAt(points, Nearest(points, at, tolerance))
RenameNearest(points, at, tolerance, value) == [points EXCEPT ![Nearest(points, at, tolerance)].value = value]
MoveNearest(points, at, tolerance, to) == ByTime([points EXCEPT ![Nearest(points, at, tolerance)].at = to])

\* A transcription's segments replace the events from a tolerance before the first to one
\* after the end of the last.
ApplyTranscription(points, starts, length, tolerance, replace) ==
    LET stays == {i \in DOMAIN points : \/ ~replace
                                        \/ points[i].at < Min(starts) - tolerance
                                        \/ points[i].at > Max(starts) + length + tolerance}
        kept == Picked(points, Ascending(stays))
        free == (1..Len(kept) + Cardinality(starts)) \ {kept[i].id : i \in DOMAIN kept}
        New(n, at) == [id |-> Ascending(free)[n], at |-> at, value |-> at]
    IN  ByTime(kept \o [n \in 1..Cardinality(starts) |-> New(n, Ascending(starts)[n])])

-----------------------------------------------------------------------------
\* The tempo map has at least one marker, and the tempo of its first, as a whole number, is
\* the project's

InParts(tempo) == BpmParts * tempo
Bpms == InParts(MinTempo)..InParts(MaxTempo)
\* Mutant of Whole: the parts are cut off.
WholeBelow(bpm) == bpm \div BpmParts

Whole(bpm) == ToNearest(bpm, BpmParts)
Tempo(project, map) == [project EXCEPT !.map = map, !.tempo = Whole(map[1].value)]
ValidTempo(bpm) == bpm \in Bpms
\* What a document without a tempo marker is given.
FirstMarker(tempo) == [id |-> 0, at |-> 0, value |-> InParts(tempo)]
\* A marker takes the place of one no further away than 5 ms, which here is one at its time.
AddTempo(project, at, bpm) ==
    LET map == project.map
        same == SelectInSeq(map, LAMBDA m : m.at = at)
    IN  Tempo(project, IF same # 0 THEN [map EXCEPT ![same].value = bpm]
                       ELSE ByTime(Append(map, [id |-> 0, at |-> at, value |-> bpm])))
MoveNearestTempo(project, at, tolerance, to, bpm) ==
    Tempo(project, ByTime([project.map EXCEPT ![Nearest(project.map, at, tolerance)].at = to,
                                              ![Nearest(project.map, at, tolerance)].value = bpm]))
CanDeleteTempo(project, at, tolerance) == Len(project.map) > 1 /\ Near(project.map, at, tolerance) # {}
DeleteNearestTempo(project, at, tolerance) == Tempo(project, DeleteNearest(project.map, at, tolerance))

-----------------------------------------------------------------------------
\* Automation: a point at the time of another takes its place when it is set, but not when
\* it is moved there

Limited(value) == Max({MinValue, Min({value, MaxValue})})
SetPoint(points, at, value) ==
    LET same == SelectInSeq(points, LAMBDA p : p.at = at) IN
    IF same # 0 THEN [points EXCEPT ![same].value = Limited(value)]
    ELSE ByTime(Append(points, [id |-> 0, at |-> at, value |-> Limited(value)]))
MovePoint(points, i, at, value) == ByTime([points EXCEPT ![i] = [id |-> 0, at |-> at, value |-> Limited(value)]])
DeletePoints(points, lo, hi) ==
    Picked(points, Ascending({i \in DOMAIN points : points[i].at < lo \/ points[i].at > hi}))

-----------------------------------------------------------------------------
\* The selection and the loop, a range [on, lo, hi] each

NoRange == [on |-> FALSE, lo |-> 0, hi |-> 0]
RangeOf(a, b) == [on |-> TRUE, lo |-> IF a < b THEN a ELSE b, hi |-> IF a < b THEN b ELSE a]
\* The nearest edge of a clip on either side of a time.
Edges(clips) == UNION {{clips[i].start, clips[i].start + clips[i].dur} : i \in DOMAIN clips}
EdgeAfter(edges, at) == {e \in edges : e > at}
EdgeBefore(edges, at) == {e \in edges : e < at}
CanSurround(edges, at) == EdgeAfter(edges, at) # {} /\ EdgeBefore(edges, at) # {}
Surrounding(edges, at) == RangeOf(Max(EdgeBefore(edges, at)), Min(EdgeAfter(edges, at)))
\* Selecting a clip a second time clears the selection, and a loop over the same clip; the
\* first time, a loop that is on follows the selection.
ToggleSelection(project, c, clearLoop) ==
    LET range == RangeOf(c.start, c.start + c.dur) IN
    IF project.sel = range
    THEN [project EXCEPT !.sel = NoRange, !.loop = IF clearLoop /\ @ = range THEN NoRange ELSE @]
    ELSE [project EXCEPT !.sel = range, !.loop = IF @.on THEN range ELSE @]
====
