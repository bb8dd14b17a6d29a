---- MODULE ProjectMedia ----
(***************************************************************************)
(* The media of a project, and what is made of it: the files that imports, *)
(* takes and collecting put into the project's folder                      *)
(* (src/project/AudioImport.cpp, src/project/ProjectDocument.cpp), the     *)
(* pool of its sources (src/project/ProjectMediaPool.cpp), and the mixes,  *)
(* stems and video plans that are delivered (src/audio/OfflineBounce.cpp,  *)
(* src/project/TimelineExport.cpp).                                        *)
(*                                                                         *)
(* A file is <<folder, name, number, kind>>, the number being that of      *)
(* "name 2.wav", or 1 without one.  A disk maps the files that exist to    *)
(* what is in them, a set: of one recording, of the moments of a mix and   *)
(* its range, or of the facts of a manifest; {} cannot be read as audio.   *)
(* Rates, levels, dither and the pacing of a realtime bounce are left out. *)
(***************************************************************************)
EXTENDS Interchange

CONSTANT StemName  \* StemName[track]: a track's name made fit for a file

InFolder(file, folder) == file[1] = folder
Name(file) == file[2]
Kind(file) == file[4]
Beside(file, kind) == [file EXCEPT ![4] = kind]
Readable(disk, file) == file \in DOMAIN disk /\ disk[file] # {}
\* A file is written under another name and then renamed: it is there in whole, or as it was.
Put(disk, file, content) == (file :> content) @@ disk

\* Mutant of NewFile: what has the name is written over.
NewFileNamed(disk, folder, name, kind) == <<folder, name, 1, kind>>

\* A file never takes the place of another: it gets the first number that is free.
NewFile(disk, folder, name, kind) ==
    <<folder, name, Min({n \in 1..Cardinality(DOMAIN disk) + 1 : <<folder, name, n, kind>> \notin DOMAIN disk}), kind>>

-----------------------------------------------------------------------------
\* Into the folder

\* A WAV that is in the folder already is used where it is; anything else is converted.
ImportedTo(disk, folder, file) ==
    IF Kind(file) = "wav" /\ InFolder(file, folder) THEN file ELSE NewFile(disk, folder, Name(file), "wav")

\* Every file that clips have elsewhere is copied into the folder, once, and the clips are
\* pointed at the copies.  The sources of the playlists are left as they are.
CopyInto(all, file, folder) ==
    LET copy == NewFile(all.disk, folder, Name(file), Kind(file))
    IN  [disk |-> Put(all.disk, copy, all.disk[file]), to |-> Put(all.to, file, copy)]
Collected(doc, disk, folder) ==
    LET Outside(file) == file \in DOMAIN disk /\ ~InFolder(file, folder)
        Copy(all, c) ==
            IF Outside(PathOf(c.src)) /\ PathOf(c.src) \notin DOMAIN all.to THEN CopyInto(all, PathOf(c.src), folder) ELSE all
        done == FoldLeft(Copy, [disk |-> disk, to |-> <<>>], doc.clips)
        Moved(c) == IF PathOf(c.src) \in DOMAIN done.to THEN [c EXCEPT !.src[2] = done.to[@]] ELSE c
    IN  [disk |-> done.disk, clips |-> Each(doc.clips, Moved)]

-----------------------------------------------------------------------------
\* The pool: the sources, and the uses the active playlists have for them

\* Each operation normalises the document first.

UsedIds(d) ==
    LET placed == {q.def : q \in UNION {ToSet(l.items) : l \in {x \in ToSet(d.lists) : x.active}}}
    IN  {d.defs[x].src : x \in placed \cap DOMAIN d.defs}
Unused(d) == DOMAIN d.files \ UsedIds(d)
\* The unused sources go and their definitions stay: an alternate take has no file then.
WithoutUnused(doc, d) == [doc EXCEPT !.files = Restrict(@, DOMAIN @ \ Unused(d))]

Relinked(d, id, file) == RebuildClips([d EXCEPT !.files[id] = file])

\* With the source go its definitions and every placement of them, and the clips whose source
\* or whose file is no longer one of the project's.
SourceIds(d) == {d.defs[x].src : x \in DOMAIN d.defs}
Removed(d, id) ==
    LET left == {x \in DOMAIN d.defs : d.defs[x].src # id}
        Kept(l) == [l EXCEPT !.items = SelectSeq(@, LAMBDA q : q.def \in left)]
    IN  [d EXCEPT !.files = Restrict(@, DOMAIN @ \ {id}), !.defs = Restrict(@, left), !.lists = Each(@, Kept)]
OfSources(d) ==
    LET paths == {d.files[s] : s \in DOMAIN d.files} \cup {NoFile}
    IN  [d EXCEPT !.clips = SelectSeq(@, LAMBDA c : IdOf(c.src) \in DOMAIN d.files /\ PathOf(c.src) \in paths)]
WithoutSource(d, id) == OfSources(RebuildClips(Removed(d, id)))

-----------------------------------------------------------------------------
\* What a render is made of

\* The moments of a range at which clips are heard; a file that is missing is silence.
Moments(clips, disk, range) ==
    UNION {{[track |-> c.track, t |-> t, of |-> disk[PathOf(c.src)], at |-> c.off + t - c.start] :
                t \in Larger(range.lo, c.start)..Smaller(range.hi, End(c)) - 1} :
           c \in {x \in clips : ~x.muted /\ Readable(disk, PathOf(x.src))}}
Missing(clips, disk) == {c.id : c \in {x \in clips : ~Readable(disk, PathOf(x.src))}}

\* A project in which nothing is played is one second long.
Duration(doc) ==
    LET last == Max({0} \cup {End(c) : c \in Played(doc)} \cup {RegionEnd(r) : r \in {x \in ToSet(doc.regions) : ~x.muted}})
    IN  IF last = 0 THEN 1 ELSE last
CanRender(doc, selection) == selection => doc.sel.on /\ doc.sel.lo < doc.sel.hi
RenderRange(doc, selection) ==
    IF selection THEN [lo |-> Larger(0, doc.sel.lo), hi |-> doc.sel.hi] ELSE [lo |-> 0, hi |-> Duration(doc)]

\* The document as its manifests tell it: by its clips, not by what its playlists play.
Colliding(doc) ==
    {pair \in (DOMAIN doc.clips) \X (DOMAIN doc.clips) :
        LET left == doc.clips[pair[1]]
            right == doc.clips[pair[2]]
        IN  /\ pair[1] < pair[2] /\ left.track = right.track
            /\ Larger(left.start, right.start) < Smaller(End(left), End(right))}
Health(doc, disk) ==
    [overlaps |-> Cardinality(Colliding(doc)), muted |-> Cardinality({i \in DOMAIN doc.clips : doc.clips[i].muted}),
     missing |-> Cardinality({i \in DOMAIN doc.clips : PathOf(doc.clips[i].src) \notin DOMAIN disk})]
ClipsOf(doc, track) == SortSeq(SelectSeq(doc.clips, LAMBDA c : c.track = track), LAMBDA c, d : c.start < d.start)
ClipSnapshot(clips, disk) == [i \in DOMAIN clips |-> [clip |-> clips[i], missing |-> PathOf(clips[i].src) \notin DOMAIN disk]]
TrackSnapshots(doc, disk) ==
    {[track |-> t, clips |-> ClipSnapshot(ClipsOf(doc, t.name), disk)] : t \in ToSet(doc.tracks)}
TimelineContext(doc) == [tempo |-> doc.tempo, loop |-> doc.loop, markers |-> doc.markers]

-----------------------------------------------------------------------------
\* The mix: what the engine plays of the document, without its loop.  The audio is written
\* before the manifest, and a manifest that cannot be written leaves it there.

MixManifest(doc, clips, disk, range) ==
    [range |-> range, health |-> Health(doc, disk), missing |-> Missing(clips, disk),
     tracks |-> TrackSnapshots(doc, disk), master |-> doc.master, timeline |-> TimelineContext(doc)]
Mix(clips, disk, range) == Moments(clips, disk, range) \cup {range}
Bounced(doc, clips, disk, file, range, fault) ==
    LET mixed == IF fault = "audio" THEN disk ELSE Put(disk, file, Mix(clips, disk, range))
    IN  IF fault = "none" THEN Put(mixed, Beside(file, "bounce"), {MixManifest(doc, clips, disk, range)}) ELSE mixed

-----------------------------------------------------------------------------
\* Stems: the document with one of its tracks, rendered for each track that has clips.

\* The playlists of the other tracks are still in it, and their clips in the plan; but no
\* track plays them.  A track that goes to another's bus finds nothing there.
StemDoc(doc, track) ==
    [doc EXCEPT !.tracks = <<[Track(@, track) EXCEPT !.armed = FALSE]>>, !.master = <<>>, !.loop = NoRange,
                !.clips = SelectSeq(@, LAMBDA c : c.track = track)]
StemPlan(doc, track) == Played(StemDoc(doc, track))
StemClips(doc, plan, track) == {c \in plan : c.track = track /\ Track(doc.tracks, track).out = Master}
StemTracks(doc) ==
    SelectSeq(Each(doc.tracks, LAMBDA t : t.name),
              LAMBDA name : name \notin Protected /\ \E c \in ToSet(doc.clips) : c.track = name)

\* Mutant of StemFile: two names may be made fit for the same file.
StemFileNamed(disk, folder, track) == NewFileNamed(disk, folder, StemName[track], "wav")

StemFile(disk, folder, track) == NewFile(disk, folder, StemName[track], "wav")

\* The first stem that cannot be written ends the export, and those that have been stay.
WithStem(doc, all, track, plan, whole, file) ==
    [all EXCEPT !.disk = Put(@, file, Moments(StemClips(doc, plan, track), @, whole) \cup {whole}),
                !.stems = Append(@, [track |-> track, file |-> file]),
                !.missing = @ \cup Missing(plan, all.disk)]
AddStem(doc, whole, folder, fault, all, track) ==
    IF Len(all.stems) + 1 >= fault THEN all
    ELSE WithStem(doc, all, track, StemPlan(doc, track), whole, StemFile(all.disk, folder, track))
StemManifest(doc, all) ==
    [stems |-> Each(all.stems, LAMBDA s : [stem |-> s, clips |-> ClipSnapshot(ClipsOf(doc, s.track), all.disk)]),
     missing |-> all.missing, health |-> Health(doc, all.disk), master |-> doc.master, timeline |-> TimelineContext(doc)]
StemManifestFile(folder) == <<folder, 0, 1, "stems">>
Delivered(doc, folder, fault, all) ==
    LET ok == StemTracks(doc) # <<>> /\ Len(StemTracks(doc)) + 1 < fault
    IN  [disk |-> IF ok THEN Put(all.disk, StemManifestFile(folder), {StemManifest(doc, all)}) ELSE all.disk,
         stems |-> all.stems, ok |-> ok]
Stems(doc, disk, whole, folder, fault) ==
    Delivered(doc, folder, fault,
              FoldLeft(LAMBDA all, track : AddStem(doc, whole, folder, fault, all, track),
                       [disk |-> disk, stems |-> <<>>, missing |-> {}], StemTracks(doc)))

-----------------------------------------------------------------------------
\* The plan of a video: the clips that are shown, in the order of time

VideoPlan(doc) ==
    SortSeq(SelectSeq(doc.videos, LAMBDA v : ~v.muted /\ v.dur > 0 /\ v.src \in doc.sources),
            LAMBDA v, w : v.start < w.start)
====
