---- MODULE EditModel ----
(***************************************************************************)
(* The edit model of a project document: clips, the definitions that hold  *)
(* their media, and the playlists that place them on the tracks.  The      *)
(* renderer never plays project.clips: it rebuilds the clips from the      *)
(* active playlists (src/project/ProjectDocument.cpp).                     *)
(*                                                                         *)
(* A document is a record with at least tracks, clips, files, defs and     *)
(* lists.  files maps the id of a media source, the file it was made from, *)
(* to the file it is now; defs maps a clip's id to its [src, off, dur],    *)
(* src being such an id (a definition's id is the clip's with a prefix).   *)
(* A playlist is [id, track, active, items], its id the track it was named *)
(* after and a number.  A placement is [id, def, ...] with the fields of   *)
(* Look: its id and its legacy clip id are always set together, and are    *)
(* one field here.                                                         *)
(***************************************************************************)
EXTENDS TrackEdits, ClipEdits

\* Names are numbers, ordered as the code's sorted sets of names are.
Timeline(tracks) == {tracks[i].name : i \in {k \in DOMAIN tracks : tracks[k].type \in TimelineTypes}}

ListsOf(lists, track) == SelectSeq(lists, LAMBDA l : l.track = track)
Active(lists, track) == SelectInSeq(lists, LAMBDA l : l.track = track /\ l.active)
FreshList(lists, track) ==
    <<track, Min({n \in 1..Len(lists) + 1 : <<track, n>> \notin {lists[i].id : i \in DOMAIN lists}})>>
NewList(lists, track, active, items) ==
    Append(lists, [id |-> FreshList(lists, track), track |-> track, active |-> active, items |-> items])

Look(c) == [start |-> c.start, fin |-> c.fin, fout |-> c.fout, gain |-> c.gain, muted |-> c.muted,
            inv |-> c.inv, locked |-> c.locked, scale |-> c.scale]
Media(c) == [src |-> IdOf(c.src), off |-> c.off, dur |-> c.dur]
Placement(c) == [id |-> c.id, def |-> c.id] @@ Look(c)
Placeable(doc, c) == c.dur > 0 /\ c.track \in Timeline(doc.tracks)

-----------------------------------------------------------------------------
\* From the clips to the playlists

\* Every playlist is dropped, the alternate takes with the active one, and each timeline
\* track gets a single active playlist of its clips.  The file of a source is that of the
\* first clip of it.
RebuildModel(doc) ==
    LET placed == SelectSeq(doc.clips, LAMBDA c : Placeable(doc, c))
        names == SetToSortSeq(Timeline(doc.tracks), <)
        filed == SelectSeq(placed, LAMBDA c : PathOf(c.src) # NoFile)
        Items(track) == LET cs == SelectSeq(placed, LAMBDA c : c.track = track)
                        IN  [i \in DOMAIN cs |-> Placement(cs[i])]
    IN  [doc EXCEPT
            !.files = [id \in {IdOf(filed[i].src) : i \in DOMAIN filed} |->
                        PathOf(filed[SelectInSeq(filed, LAMBDA c : IdOf(c.src) = id)].src)],
            !.defs = [id \in {placed[i].id : i \in DOMAIN placed} |->
                        Media(placed[SelectInSeq(placed, LAMBDA c : c.id = id)])],
            !.lists = [i \in DOMAIN names |->
                        [id |-> <<names[i], 1>>, track |-> names[i], active |-> TRUE, items |-> Items(names[i])]]]

\* Clips that no placement of their track's active playlist has are added to it; a
\* definition that already has the clip's name is kept as it is.
WithActiveList(lists, track) ==
    IF Active(lists, track) # 0 THEN lists
    ELSE IF ListsOf(lists, track) = <<>> THEN NewList(lists, track, TRUE, <<>>)
    ELSE [lists EXCEPT ![SelectInSeq(lists, LAMBDA l : l.track = track)].active = TRUE]
Adopt(doc, c) ==
    LET i == Active(doc.lists, c.track) IN
    IF ~Placeable(doc, c) \/ c.id \in {doc.lists[i].items[k].id : k \in DOMAIN doc.lists[i].items} THEN doc
    ELSE [doc EXCEPT !.files = IF PathOf(c.src) = NoFile THEN @ ELSE @ @@ (IdOf(c.src) :> PathOf(c.src)),
                     !.defs = @ @@ (c.id :> Media(c)),
                     !.lists[i].items = Append(@, Placement(c))]
MergeOrphans(doc) ==
    LET names == SetToSortSeq(Timeline(doc.tracks), <)
        listed == [doc EXCEPT !.lists = FoldLeft(WithActiveList, @, names)]
        merged == FoldLeft(Adopt, listed, doc.clips)
    IN  [doc EXCEPT !.files = merged.files, !.defs = merged.defs, !.lists = merged.lists]

NormalizeEditModel(doc) ==
    IF DOMAIN doc.files = {} \/ DOMAIN doc.defs = {} \/ doc.lists = <<>> THEN RebuildModel(doc) ELSE MergeOrphans(doc)

-----------------------------------------------------------------------------
\* From the playlists to the clips

\* A placement whose definition is gone is skipped, and a source that is gone is a clip
\* without a file; a second placement of an id takes the id with a number.
Sourced(files, id) == <<id, IF id \in DOMAIN files THEN files[id] ELSE NoFile>>
ClipOf(doc, track, p) ==
    [doc.defs[p.def] EXCEPT !.src = Sourced(doc.files, @)] @@ [id |-> p.id, track |-> track] @@ Look(p)
Distinct(taken, id) ==
    IF id \notin taken THEN id
    ELSE Append(id, <<"again", Min({n \in 2..Cardinality(taken) + 2 : Append(id, <<"again", n>>) \notin taken})>>)
ActiveClips(doc) ==
    LET On(l) == LET ps == SelectSeq(l.items, LAMBDA p : p.def \in DOMAIN doc.defs)
                 IN  [i \in DOMAIN ps |-> ClipOf(doc, l.track, ps[i])]
        playing == SelectSeq(doc.lists, LAMBDA l : l.active)
        Add(cs, c) == Append(cs, [c EXCEPT !.id = Distinct({cs[i].id : i \in DOMAIN cs}, @)])
    IN  FoldLeft(Add, <<>>, FlattenSeq([i \in DOMAIN playing |-> On(playing[i])]))

\* The clips in track and time order; two that start together keep the order of their
\* placements, where the code orders them by id.  The clips stay when no playlist is active and
\* there is nothing that one could play.
RebuildClips(doc) ==
    IF (\A i \in DOMAIN doc.lists : ~doc.lists[i].active)
       /\ (DOMAIN doc.defs = {} \/ \A i \in DOMAIN doc.lists : doc.lists[i].items = <<>>)
    THEN doc
    ELSE [doc EXCEPT !.clips = SortSeq(ActiveClips(doc), LAMBDA c, d :
                                   c.track < d.track \/ (c.track = d.track /\ c.start < d.start))]

\* What the engine plays of a document: the render plan is made from the clips of the
\* active playlists of a normalised copy.
Played(doc) == ToSet(RebuildClips(NormalizeEditModel(doc)).clips)

-----------------------------------------------------------------------------
\* Playlists of a track: each operation normalises the document first

ListIds(doc) == {doc.lists[i].id : i \in DOMAIN doc.lists}
ListAt(doc, id) == SelectInSeq(doc.lists, LAMBDA l : l.id = id)

CreatePlaylist(doc, track) ==
    LET d == NormalizeEditModel(doc) IN [d EXCEPT !.lists = NewList(@, track, FALSE, <<>>)]
\* The copy shares the placements' ids and definitions with its original.
DuplicatePlaylist(doc, track) ==
    LET d == NormalizeEditModel(doc)
    IN  [d EXCEPT !.lists = NewList(@, track, FALSE, d.lists[Active(d.lists, track)].items)]
ActivatePlaylist(doc, id) ==
    LET d == NormalizeEditModel(doc)
        track == d.lists[ListAt(d, id)].track
    IN  RebuildClips([d EXCEPT !.lists = [i \in DOMAIN @ |->
            IF @[i].track = track THEN [@[i] EXCEPT !.active = (d.lists[i].id = id)] ELSE @[i]]])
\* A track keeps at least one; the first that is left becomes active after the active one.
CanDeletePlaylist(doc, id) ==
    LET d == NormalizeEditModel(doc) IN
    id \in ListIds(d) /\ Len(ListsOf(d.lists, d.lists[ListAt(d, id)].track)) > 1
DeletePlaylist(doc, id) ==
    LET d == NormalizeEditModel(doc)
        gone == d.lists[ListAt(d, id)]
        left == SelectSeq(d.lists, LAMBDA l : l.id # id)
        heir == SelectInSeq(left, LAMBDA l : l.track = gone.track)
    IN  RebuildClips([d EXCEPT !.lists = IF gone.active THEN [left EXCEPT ![heir].active = TRUE] ELSE left])
CanPromote(doc, id, item) ==
    LET d == NormalizeEditModel(doc) IN
    /\ id \in ListIds(d)
    /\ \E k \in DOMAIN d.lists[ListAt(d, id)].items : d.lists[ListAt(d, id)].items[k].id = item
    /\ Active(d.lists, d.lists[ListAt(d, id)].track) # 0
\* A take is promoted under its own id, or under a fresh one when the active playlist has
\* a placement of that id; its definition stays shared.
Promoted(d, from, to, item) ==
    LET p == from.items[SelectInSeq(from.items, LAMBDA q : q.id = item)]
        ids == {d.lists[to].items[k].id : k \in DOMAIN d.lists[to].items}
        comp == Append(item, <<"comp", Min({n \in 1..Cardinality(ids) + 1 : Append(item, <<"comp", n>>) \notin ids})>>)
    IN  [d EXCEPT !.lists[to].items = Append(@, IF item \in ids THEN [p EXCEPT !.id = comp] ELSE p)]
Promote(doc, id, item) ==
    LET d == NormalizeEditModel(doc)
        from == d.lists[ListAt(d, id)]
    IN  RebuildClips(Promoted(d, from, Active(d.lists, from.track), item))

\* Deleting a clip takes its placements out of every playlist; setting its gain sets that
\* of its placement in the active one.
Unplace(lists, id) == [i \in DOMAIN lists |-> [lists[i] EXCEPT !.items = SelectSeq(@, LAMBDA p : p.id # id)]]
SyncGain(lists, c) ==
    [i \in DOMAIN lists |->
        IF ~lists[i].active \/ lists[i].track # c.track THEN lists[i]
        ELSE [lists[i] EXCEPT !.items = [k \in DOMAIN @ |-> IF @[k].id = c.id THEN [@[k] EXCEPT !.gain = c.gain] ELSE @[k]]]]
====
