---- MODULE ClipEdits ----
(***************************************************************************)
(* The clip operations of src/project/EditOperations.cpp, as operators on  *)
(* a sequence of clips in the order of project.clips.  An operation of the *)
(* code returns false and leaves the document alone when it is refused:    *)
(* its refusals are the Can... operators here, and the operator of the     *)
(* operation is what it makes of the clips otherwise.                      *)
(*                                                                         *)
(* A clip is [id, track, src, start, dur, off, fin, fout, gain, muted,     *)
(* inv, locked, scale]: what decides what is heard, and what the guards    *)
(* read.  Times are whole ticks and a fade counts half ticks, so that the  *)
(* limit of half the duration is a whole number.  src is the id of the     *)
(* media source and the path of its file.  An id is a sequence of words:   *)
(* the code appends "-split" or "-copy-2" to the id of the clip a new one  *)
(* comes from.                                                             *)
(***************************************************************************)
EXTENDS Listing, SequencesExt, FiniteSetsExt

CONSTANTS MinGain, MaxGain,  \* the gain limits, -60 dB and 24 dB
          ShortFade,         \* the fade of a range edit, 0.05 s, in half ticks
          SourceLength       \* SourceLength[file]: the length of a media file

Larger(a, b) == IF a >= b THEN a ELSE b
Smaller(a, b) == IF a <= b THEN a ELSE b
Between(lo, x, hi) == Larger(lo, Smaller(hi, x))

NoFile == <<>>
IdOf(src) == src[1]
PathOf(src) == src[2]
LengthOf(c) == SourceLength[PathOf(c.src)]
End(c) == c.start + c.dur
Ids(clips) == {clips[i].id : i \in DOMAIN clips}
Named(clips, id) == clips[SelectInSeq(clips, LAMBDA c : c.id = id)]
Free(clips, id) == id \in Ids(clips) /\ ~Named(clips, id).locked
Change(clips, id, F(_)) == [i \in DOMAIN clips |-> IF clips[i].id = id THEN F(clips[i]) ELSE clips[i]]
ChangeAll(clips, P(_), F(_)) == [i \in DOMAIN clips |-> IF P(clips[i]) THEN F(clips[i]) ELSE clips[i]]
Without(clips, id) == Picked(clips, Ascending({i \in DOMAIN clips : clips[i].id # id}))

\* A fade reaches at most to the middle of the clip.
Clamp(c) == [c EXCEPT !.fin = Between(0, @, c.dur), !.fout = Between(0, @, c.dur)]

\* base-split, base-split-2, ...: the first of them no clip has.
FreshId(clips, base, word) ==
    Append(base, <<word, Min({n \in 1..Len(clips) + 1 : Append(base, <<word, n>>) \notin Ids(clips)})>>)

\* Mutant of Part: the place in the source does not follow the start.
PartAtOffset(c, from, to) == [c EXCEPT !.start = from, !.dur = to - from]

\* The part of a clip between two times of its own extent.
Part(c, from, to) == [c EXCEPT !.start = from, !.off = @ + (from - c.start), !.dur = to - from]
Slice(c, from, to) == Clamp(Part(c, from, to))

Overlaps(c, lo, hi) == Smaller(hi, End(c)) > Larger(lo, c.start)

-----------------------------------------------------------------------------
\* One clip

Move(clips, id, start) == Change(clips, id, LAMBDA c : [c EXCEPT !.start = start])

CanTrimStart(clips, id, start) ==
    /\ Free(clips, id)
    /\ start < End(Named(clips, id))
    /\ Named(clips, id).off + (start - Named(clips, id).start) >= 0
TrimStart(clips, id, start) == Change(clips, id, LAMBDA c : Slice(c, start, End(c)))

CanTrimEnd(clips, id, end) == Free(clips, id) /\ end > Named(clips, id).start
TrimEnd(clips, id, end) == Change(clips, id, LAMBDA c : Slice(c, c.start, end))

CanSplit(clips, id, at) ==
    Free(clips, id) /\ at > Named(clips, id).start /\ at < End(Named(clips, id))
SplitId(clips, id) == FreshId(clips, id, "split")
Split(clips, id, at) ==
    LET c == Named(clips, id) IN
    Append(Change(clips, id, LAMBDA d : Slice(d, d.start, at)),
           [Slice(c, at, End(c)) EXCEPT !.id = SplitId(clips, id)])

\* The metadata that must agree is the media file's, and follows from src; two clips may
\* be glued whatever their gain and their time scale.
CanGlue(l, r) ==
    /\ ~l.locked /\ ~r.locked
    /\ l.track = r.track /\ l.src = r.src /\ l.muted = r.muted /\ l.inv = r.inv
    /\ End(l) = r.start
    /\ l.off + l.dur = r.off
GlueLeft(l, r) == Clamp([l EXCEPT !.dur = Larger(0, End(r) - l.start), !.fout = r.fout])
Glued(clips, l, r) == Without(Change(clips, l.id, LAMBDA c : GlueLeft(l, r)), r.id)

\* The selected clip is glued to the first clip of the list that continues it, or that it
\* continues.
GluePartners(clips, id) ==
    {i \in DOMAIN clips : clips[i].id # id /\ (CanGlue(Named(clips, id), clips[i]) \/ CanGlue(clips[i], Named(clips, id)))}
CanGlueAdjacent(clips, id) == Free(clips, id) /\ GluePartners(clips, id) # {}
GlueAdjacent(clips, id) ==
    LET c == Named(clips, id)
        other == clips[Min(GluePartners(clips, id))]
    IN  IF CanGlue(c, other) THEN Glued(clips, c, other) ELSE Glued(clips, other, c)

CanGlueSelected(clips, a, b) ==
    /\ a # b /\ Free(clips, a) /\ Free(clips, b)
    /\ CanGlue(Named(clips, a), Named(clips, b)) \/ CanGlue(Named(clips, b), Named(clips, a))
GlueSelected(clips, a, b) ==
    LET c == Named(clips, a)
        d == Named(clips, b)
    IN  IF CanGlue(c, d) THEN Glued(clips, c, d) ELSE Glued(clips, d, c)

\* Passes over the clips in track and time order, one glue to a pass, until none is found.
InOrder(clips) == SortSeq(clips, LAMBDA c, d : c.track < d.track \/ (c.track = d.track /\ c.start < d.start))
GluesInRange(clips, lo, hi) ==
    LET cs == InOrder(clips) IN
    {cs[k].id : k \in {n \in 1..Len(cs) - 1 : End(cs[n]) \in lo..hi /\ CanGlue(cs[n], cs[n + 1])}}
GluePass(cs, lo, hi) ==
    LET first == SelectInSeq(InOrder(cs), LAMBDA c : c.id \in GluesInRange(cs, lo, hi))
        id == InOrder(cs)[first].id
    IN  IF first # 0 /\ CanGlueAdjacent(cs, id) THEN GlueAdjacent(cs, id) ELSE cs
GlueRange(clips, lo, hi) == Repeated(2 * Len(clips), clips, LAMBDA cs, n : GluePass(cs, lo, hi))

-----------------------------------------------------------------------------
\* Copies of clips.  Every copy goes to the end of the list.

CopyId(clips, id) == FreshId(clips, id, "copy")
Placed(clips, c, track, start) ==
    Append(clips, Clamp([c EXCEPT !.id = CopyId(clips, c.id), !.track = track, !.start = start]))
Duplicate(clips, id, start) ==
    Append(clips, [Named(clips, id) EXCEPT !.id = CopyId(clips, id), !.start = start])
DuplicateToTrack(clips, id, start, track) == Placed(clips, Named(clips, id), track, start)
Paste(clips, c, start) == Placed(clips, c, c.track, start)

\* The range form takes every id from the clips as they were before the first copy.
CanPasteRange(copied, tracks) == copied # <<>> /\ \A i \in DOMAIN copied : copied[i].track \in tracks /\ copied[i].dur > 0
PasteIds(clips, copied) == [i \in DOMAIN copied |-> CopyId(clips, copied[i].id)]
PasteRange(clips, copied, start) ==
    clips \o [i \in DOMAIN copied |->
                Clamp([copied[i] EXCEPT !.id = PasteIds(clips, copied)[i], !.start = start + Larger(0, @)])]

\* Moving or copying in shuffle mode closes the gap left behind and opens one for the clip.
Shift(clips, P(_), by) == ChangeAll(clips, LAMBDA c : ~c.locked /\ P(c), LAMBDA c : [c EXCEPT !.start = Larger(0, @ + by)])
ShuffleInTrack(clips, id, start) ==
    LET c == Named(clips, id)
        later == start > c.start
        At(cs, place) == Change(cs, id, LAMBDA d : [d EXCEPT !.start = place])
        Same(d) == d.id # id /\ d.track = c.track
    IN  IF later
        THEN At(Shift(clips, LAMBDA d : Same(d) /\ d.start >= End(c) /\ d.start <= start, -c.dur),
                Larger(c.start, start - c.dur))
        ELSE At(Shift(clips, LAMBDA d : Same(d) /\ d.start >= start /\ d.start < c.start, c.dur), start)
ShuffleToTrack(clips, id, start, track) ==
    LET c == Named(clips, id)
        closed == Shift(clips, LAMBDA d : d.id # id /\ d.track = c.track /\ d.start >= End(c), -c.dur)
        opened == Shift(closed, LAMBDA d : d.id # id /\ d.track = track /\ d.start >= start, c.dur)
    IN  Change(opened, id, LAMBDA d : [d EXCEPT !.track = track, !.start = start])
CanShuffleMove(clips, id, start, track) ==
    Free(clips, id) /\ (track # Named(clips, id).track \/ start # Named(clips, id).start)
ShuffleMove(clips, id, start, track) ==
    IF track = Named(clips, id).track THEN ShuffleInTrack(clips, id, start)
    ELSE ShuffleToTrack(clips, id, start, track)
\* A clip of the target track at or after the insertion is moved first, the source too.
ShuffleDuplicate(clips, id, start, track) ==
    LET opened == Shift(clips, LAMBDA d : d.track = track /\ d.start >= start, Named(clips, id).dur)
    IN  Placed(opened, Named(opened, id), track, start)
-----------------------------------------------------------------------------
\* A range of time, lo < hi, over every track

\* The pieces before and after the range stay; the right piece takes an id that no clip
\* had before the operation.
LeftOf(c, lo) == Slice(c, c.start, lo)
RightOf(clips, c, hi) == [Slice(c, hi, End(c)) EXCEPT !.id = SplitId(clips, c.id)]
Spared(c, lo, hi) == c.locked \/ End(c) <= lo \/ c.start >= hi
CanClearRange(clips, lo, hi) == \E i \in DOMAIN clips : ~clips[i].locked /\ End(clips[i]) > lo /\ clips[i].start < hi
\* Place 2i - 1 is that of the clip i or its left piece, place 2i that of its right piece.
ClearedAt(clips, lo, hi, n) ==
    LET c == clips[(n + 1) \div 2] IN
    IF Spared(c, lo, hi) THEN c ELSE IF n % 2 = 1 THEN LeftOf(c, lo) ELSE RightOf(clips, c, hi)
StaysAt(clips, lo, hi, n) ==
    LET c == clips[(n + 1) \div 2] IN
    IF n % 2 = 1 THEN Spared(c, lo, hi) \/ c.start < lo ELSE ~Spared(c, lo, hi) /\ End(c) > hi
ClearRange(clips, lo, hi) ==
    Picked([n \in 1..2 * Len(clips) |-> ClearedAt(clips, lo, hi, n)],
           Ascending({n \in 1..2 * Len(clips) : StaysAt(clips, lo, hi, n)}))
CanShuffleDeleteRange(clips, lo, hi) ==
    CanClearRange(clips, lo, hi) \/ \E i \in DOMAIN clips : ~clips[i].locked /\ clips[i].start >= hi
ShuffleDeleteRange(clips, lo, hi) == Shift(ClearRange(clips, lo, hi), LAMBDA c : c.start >= hi, lo - hi)

\* Copies carry their place in the range as their start.
Copied(c, lo, hi) == [Slice(c, Larger(lo, c.start), Smaller(hi, End(c))) EXCEPT !.start = @ - lo]
\* The order of copies: of two at one place the first stays the first.
Leads(c, i, d, k) == c.start < d.start \/ (c.start = d.start /\ (c.track < d.track \/ (c.track = d.track /\ i < k)))
CopyRange(clips, lo, hi) ==
    LET copies == [i \in DOMAIN clips |-> Copied(clips[i], lo, hi)]
    IN  Picked(copies, Ranked({i \in DOMAIN clips : Overlaps(clips[i], lo, hi)},
                              LAMBDA i, k : Leads(copies[i], i, copies[k], k)))
CutCopies(clips, lo, hi) == CopyRange(Picked(clips, Ascending({i \in DOMAIN clips : ~clips[i].locked})), lo, hi)
CanCutRange(clips, lo, hi) == CutCopies(clips, lo, hi) # <<>> /\ CanClearRange(clips, lo, hi)
DuplicateRange(clips, lo, hi) == PasteRange(clips, CopyRange(clips, lo, hi), hi)

\* Each clip is cut at the end of the range before it is cut at its start.
SplitAt(clips, id, at) == IF CanSplit(clips, id, at) THEN Split(clips, id, at) ELSE clips
CutBy(c, lo, hi) == ~c.locked /\ ((lo > c.start /\ lo < End(c)) \/ (hi > c.start /\ hi < End(c)))
CanSeparateRange(clips, lo, hi) == \E i \in DOMAIN clips : CutBy(clips[i], lo, hi)
SeparateRange(clips, lo, hi) ==
    Repeated(Len(clips), clips, LAMBDA cs, i :
        IF CutBy(clips[i], lo, hi) THEN SplitAt(SplitAt(cs, clips[i].id, hi), clips[i].id, lo) ELSE cs)

\* A locked clip is kept whole; what is left of the others is the range.
TrimToRange(clips, lo, hi) ==
    LET kept == Picked(clips, Ascending({i \in DOMAIN clips : clips[i].locked \/ Overlaps(clips[i], lo, hi)})) IN
    ChangeAll(kept, LAMBDA c : ~c.locked, LAMBDA c : Slice(c, Larger(lo, c.start), Smaller(hi, End(c))))

QuantizeRange(clips, lo, hi, q) ==
    ChangeAll(clips, LAMBDA c : ~c.locked /\ c.start >= lo /\ c.start < hi,
              LAMBDA c : [c EXCEPT !.start = q * ((2 * @ + q) \div (2 * q))])

\* Mutant of InsideRange: locked clips are not left out.
InsideRangeLocked(c, lo, hi) == c.start >= lo /\ End(c) <= hi /\ Overlaps(c, lo, hi)

\* Gain, mute and polarity of a range cut the clips at its ends first: the cuts are made
\* even when no clip inside has anything to change.
InsideRange(c, lo, hi) == ~c.locked /\ c.start >= lo /\ End(c) <= hi /\ Overlaps(c, lo, hi)
ChangeRange(clips, lo, hi, F(_)) ==
    ChangeAll(SeparateRange(clips, lo, hi), LAMBDA c : InsideRange(c, lo, hi), F)
Gained(c, gain) == [c EXCEPT !.gain = Between(MinGain, gain, MaxGain)]
AdjustGainRange(clips, lo, hi, delta) == ChangeRange(clips, lo, hi, LAMBDA c : Gained(c, c.gain + delta))
Flagged(c, flag, value) == IF flag = "muted" THEN [c EXCEPT !.muted = value] ELSE [c EXCEPT !.inv = value]
FlagRange(clips, lo, hi, flag, value) == ChangeRange(clips, lo, hi, LAMBDA c : Flagged(c, flag, value))

-----------------------------------------------------------------------------
\* Levels, fades and media of a clip

SetGain(clips, id, gain) == Change(clips, id, LAMBDA c : Gained(c, gain))
SetFlag(clips, id, flag, value) == Change(clips, id, LAMBDA c : Flagged(c, flag, value))
SetLocked(clips, id, locked) == Change(clips, id, LAMBDA c : [c EXCEPT !.locked = locked])
SetTrack(clips, id, track) == Change(clips, id, LAMBDA c : [c EXCEPT !.track = track])
SetFades(clips, id, fin, fout) == Change(clips, id, LAMBDA c : Clamp([c EXCEPT !.fin = fin, !.fout = fout]))

\* The gain that brings the loudest sample of the clip's part of the file to the target.
CanNormalize(clips, id) == Free(clips, id) /\ Named(clips, id).off < LengthOf(Named(clips, id))
Normalized(c, target, Peak(_)) == Gained(c, target - Peak(PathOf(c.src)))
NormalizeGain(clips, id, target, Peak(_)) == Change(clips, id, LAMBDA c : Normalized(c, target, Peak))
NormalizeRange(clips, lo, hi, target, Peak(_)) ==
    ChangeRange(clips, lo, hi, LAMBDA c : IF c.off < LengthOf(c) THEN Normalized(c, target, Peak) ELSE c)

CanSlip(clips, id, delta) ==
    LET c == Named(clips, id) IN
    Free(clips, id) /\ c.dur <= LengthOf(c) /\ c.off + delta \in 0..LengthOf(c) - c.dur
Slip(clips, id, delta) == Change(clips, id, LAMBDA c : [c EXCEPT !.off = @ + delta])
\* A file that clips are made from gives the source its id.
SetSource(clips, id, file, dur) ==
    Change(clips, id, LAMBDA c : Clamp([c EXCEPT !.src = <<file, file>>, !.off = 0, !.dur = dur]))

\* Fitting a clip to the tempo changes its length and leaves its fades as they are.
CanStretch(clips, id, scale) == Free(clips, id) /\ (Named(clips, id).dur * scale) % Named(clips, id).scale = 0
Stretch(clips, id, scale) == Change(clips, id, LAMBDA c : [c EXCEPT !.dur = (@ * scale) \div c.scale, !.scale = scale])

\* The clip and every unlocked clip of its track that overlaps it fade over the overlap: of
\* two, the one that starts later fades in.
Crossfade(clips, id) ==
    LET c == Named(clips, id)
        Fade(d) == 2 * (Smaller(End(c), End(d)) - Larger(c.start, d.start))
        hit == {i \in DOMAIN clips : /\ clips[i].id # id /\ clips[i].track = c.track /\ ~clips[i].locked
                                     /\ Fade(clips[i]) > 0}
        before == {i \in hit : c.start >= clips[i].start}
        Longest(S, fade) == Max({fade} \cup {Fade(clips[i]) : i \in S})
    IN  [i \in DOMAIN clips |->
            CASE clips[i].id = id /\ hit # {} ->
                   Clamp([clips[i] EXCEPT !.fin = Longest(before, @), !.fout = Longest(hit \ before, @)])
              [] i \in before -> Clamp([clips[i] EXCEPT !.fout = Longest({i}, @)])
              [] i \in hit \ before -> Clamp([clips[i] EXCEPT !.fin = Longest({i}, @)])
              [] OTHER -> clips[i]]
CanCrossfade(clips, id) == Free(clips, id) /\ Crossfade(clips, id) # clips

\* Every clip of the range is crossfaded; one that this leaves with the fades it had before
\* the operation gets a short fade at each end that lies in the range.
FadedAtEdges(c, lo, hi) ==
    LET short == Smaller(ShortFade, c.dur)
    IN  Clamp([c EXCEPT !.fin = IF c.start >= lo /\ c.start < hi THEN Larger(@, short) ELSE @,
                        !.fout = IF End(c) > lo /\ End(c) <= hi THEN Larger(@, short) ELSE @])
FadePass(cs, before, lo, hi) ==
    LET crossed == Crossfade(cs, before.id)
        now == Named(crossed, before.id)
    IN  IF now.fin = before.fin /\ now.fout = before.fout
        THEN Change(crossed, before.id, LAMBDA c : FadedAtEdges(c, lo, hi)) ELSE crossed
FadeRange(clips, lo, hi) ==
    Repeated(Len(clips), clips, LAMBDA cs, i :
        IF ~clips[i].locked /\ Overlaps(clips[i], lo, hi) THEN FadePass(cs, clips[i], lo, hi) ELSE cs)

-----------------------------------------------------------------------------
\* Video clips have no fades: [id, src, start, dur, off, muted, locked].  The guards of
\* moving, trimming and splitting are those of the audio clips.

AddVideo(videos, src, start, dur) ==
    LET n == Min({k \in 1..Len(videos) + 1 : <<k>> \notin Ids(videos)})
    IN  Append(videos, [id |-> <<n>>, src |-> src, start |-> start, dur |-> dur, off |-> 0, muted |-> FALSE, locked |-> FALSE])
TrimVideoStart(videos, id, start) == Change(videos, id, LAMBDA c : Part(c, start, End(c)))
TrimVideoEnd(videos, id, end) == Change(videos, id, LAMBDA c : Part(c, c.start, end))
SplitVideo(videos, id, at) ==
    LET c == Named(videos, id) IN
    Append(TrimVideoEnd(videos, id, at), [Part(c, at, End(c)) EXCEPT !.id = SplitId(videos, id)])
\* A source goes with the last clip of it.
UnusedSource(videos, id) ==
    {Named(videos, id).src} \ {c.src : c \in ToSet(Without(videos, id))}
====
