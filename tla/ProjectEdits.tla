---- MODULE ProjectEdits ----
(***************************************************************************)
(* Editing a project: the commands of                                      *)
(* src/bridge/NeuracoustEngineBridge.cpp that call the operations of       *)
(* src/project/EditOperations.cpp, and what the engine plays after them.   *)
(*                                                                         *)
(* A command first calls its operation.  When that returns true the clips  *)
(* are put back into the playlists, if it is clips that were edited, the   *)
(* routing rules are applied and the engine gets the document; when it     *)
(* returns false the command stops, with whatever the operation has        *)
(* changed by then.  Operations the bridge does not export are driven the  *)
(* same way.                                                               *)
(*                                                                         *)
(* A behaviour starts from one of the run's documents, edits one area of   *)
(* it, and ends after a number of commands.                                *)
(***************************************************************************)
EXTENDS ProjectMedia

CONSTANTS Start,     \* Start[area]: the documents a behaviour of the area starts from
          MaxEdits,  \* MaxEdits[area]: the number of commands of a behaviour
          Times,     \* the times commands are given
          Deltas,    \* the distances
          Gains,     \* gains and levels
          Tempos,    \* the tempos markers are given, in parts of a BPM
          Targets,   \* the tracks clips are dropped on
          Peaks,     \* Peaks[file]: the loudest sample of a media file
          Takes,     \* recorded MIDI takes, [events, dur] each
          Notation,  \* [pitches, shifts, q]: what notes are edited by
          ReopenedAfter, \* ReopenedAfter[area]: documents of at most so many commands are reopened
          ExchangedAfter, \* ExchangedAfter[area]: documents of at most so many commands are exchanged
          Folder,    \* Folder[area]: where the project of an area of media keeps its files
          Files,     \* the files there are at first
          Output     \* [mix, stems, take]: a mix's file, the stems' folder and the name of takes

\* The timeline of a document: markers, tempo map and automation in the order of time, which is how
\* the renderer and the tempo map read them, the project's tempo no further from the first tempo
\* marker's than the nearest whole number of BPM is, and ranges from their start to their end.
Follows(tempo, bpm) == 2 * Gap(InParts(tempo), bpm) <= BpmParts
InTime(points) == \A i, k \in DOMAIN points : i < k => points[i].at <= points[k].at
Ordered(d) ==
    /\ InTime(d.markers) /\ InTime(d.map) /\ InTime(d.points)
    /\ d.map # <<>> /\ Follows(d.tempo, d.map[1].value)
    /\ \A i \in DOMAIN d.points : d.points[i].value \in MinValue..MaxValue
    /\ \A r \in {d.sel, d.loop} : r.lo <= r.hi
Typed(d) ==
    /\ {"markers", "map", "points", "tempo", "sel", "loop", "clips"} \subseteq DOMAIN d
    /\ d.markers \in Seq([id : Nat, at : Nat, value : Int])
    /\ d.map \in Seq([id : {0}, at : Nat, value : Bpms]) /\ d.tempo \in MinTempo..MaxTempo
    /\ d.points \in Seq([id : {0}, at : Nat, value : Int])
    /\ {d.sel, d.loop} \subseteq [on : BOOLEAN, lo : Nat, hi : Nat]
Timed(clips) == \A i \in DOMAIN clips : clips[i].start \in Nat /\ clips[i].dur \in Nat
\* The lists that are edited: each clip and each region has an id of its own, and its place.
IsClip(c) ==
    /\ {"id", "track", "start", "dur", "locked", "scale"} \subseteq DOMAIN c
    /\ Listed(c.id) /\ c.track \in Int /\ c.start \in Int /\ c.dur \in Int /\ c.scale \in Nat \ {0}
IsRegion(r) == {"id", "start", "dur", "locked"} \subseteq DOMAIN r /\ r.id \in Nat /\ r.start \in Int /\ r.dur \in Int
ClipList(clips) == Labelled(clips) /\ \A i \in DOMAIN clips : IsClip(clips[i])
RegionList(regions) == Labelled(regions) /\ \A i \in DOMAIN regions : IsRegion(regions[i])
GivenInputs ==
    /\ Times \subseteq Nat /\ Gains \subseteq Int /\ Deltas \subseteq Int /\ Targets \subseteq Int
    /\ MinDur \in Nat /\ \A file \in DOMAIN SourceLength : SourceLength[file] \in Nat
    /\ \A take \in Takes : take.dur \in Nat /\ Listed(take.events) /\ \A i \in DOMAIN take.events : take.events[i].at \in Nat
    /\ DOMAIN Folder \cap {"points", "clips", "midi", "notes"} = {}
GivenDocument(d) ==
    /\ Typed(d) /\ Ordered(d) /\ Timed(d.clips)
    /\ "regions" \in DOMAIN d /\ ClipList(d.clips) /\ RegionList(d.regions)
ASSUME EditsAssumption ==
    GivenInputs /\ \A part \in DOMAIN Start : MaxEdits[part] \in Nat /\ \A d \in Start[part] : GivenDocument(d)

VARIABLES
    doc,         \* the project document
    clipboard,   \* copied clips
    playing,     \* the clips of the engine's render plan
    reconciled,  \* the engine has been given what the document holds
    disk,        \* the files there are, and what is in them
    area, edits,
    did          \* the last command: only properties read it

vars == <<doc, clipboard, playing, reconciled, disk, area, edits, did>>

Init ==
    /\ area \in DOMAIN Start
    /\ doc \in Start[area]
    /\ clipboard = <<>>
    /\ playing = Played(doc)
    /\ reconciled = TRUE
    /\ disk = IF area \in DOMAIN Folder THEN Files ELSE <<>>
    /\ edits = 0
    /\ did = <<"open">>

-----------------------------------------------------------------------------
\* How a command ends

Reconcile(d) ==
    /\ doc' = NormalizeRouting(d)
    /\ playing' = Played(doc')
    /\ reconciled' = TRUE
Done(command, d) == did' = command /\ Reconcile(d) /\ UNCHANGED clipboard
\* Mutant of Rebuilt: the clips are not put back into the playlists.
OnlyClips(clips) == [doc EXCEPT !.clips = clips]

Rebuilt(clips) == RebuildModel([doc EXCEPT !.clips = clips])
EditClips(command, clips) == Done(command, Rebuilt(clips))
\* The operation has changed the document and then returned false.
Refuse(command, clips) ==
    /\ clips # doc.clips
    /\ doc' = [doc EXCEPT !.clips = clips]
    /\ reconciled' = FALSE
    /\ did' = command
    /\ UNCHANGED <<clipboard, playing>>

Editing(part) ==
    /\ area = part /\ edits < MaxEdits[part]
    /\ edits' = edits + 1
    /\ UNCHANGED <<disk, area>>

-----------------------------------------------------------------------------
\* One clip

MoveClip(id, t) == Free(doc.clips, id) /\ EditClips(<<"move">>, Move(doc.clips, id, t))
TrimClipStart(id, t) == CanTrimStart(doc.clips, id, t) /\ EditClips(<<"trim start">>, TrimStart(doc.clips, id, t))
TrimClipEnd(id, t) == CanTrimEnd(doc.clips, id, t) /\ EditClips(<<"trim end">>, TrimEnd(doc.clips, id, t))
SplitClip(id, t) == CanSplit(doc.clips, id, t) /\ EditClips(<<"split">>, Split(doc.clips, id, t))
DuplicateClip(id) ==
    EditClips(<<"copy">>, Duplicate(doc.clips, id, End(Named(doc.clips, id))))
SetClipGain(id, gain) ==
    LET clips == SetGain(doc.clips, id, gain) IN
    /\ Free(doc.clips, id)
    /\ Done(<<"gain">>, RebuildModel([doc EXCEPT !.clips = clips, !.lists = SyncGain(@, Named(clips, id))]))
SetClipFades(id, fin, fout) == Free(doc.clips, id) /\ EditClips(<<"fades">>, SetFades(doc.clips, id, fin, fout))

\* A clip is dropped on any track that is there but the two at the end: on a folder or a VCA
\* as well, which have no playlist.
Droppable(track) == track \in TrackNames(doc.tracks) \ Protected

\* On its own track a clip is moved; on another it is pasted and the original deleted.  A
\* locked original stays: the command returns false, and so does the copy.
MoveClipToTrack(id, t, track) ==
    LET c == Named(doc.clips, id)
        pasted == Paste(doc.clips, [c EXCEPT !.track = track], t)
    IN  CASE c.track = track -> Free(doc.clips, id) /\ EditClips(<<"move">>, Move(doc.clips, id, t))
          [] c.track # track /\ ~c.locked ->
                Done(<<"move to track">>, RebuildModel([doc EXCEPT !.clips = Without(pasted, id), !.lists = Unplace(@, id)]))
          [] OTHER -> Refuse(<<"refused">>, pasted)

\* The operations on one clip that the bridge does not export
SlipClip(id, by) == CanSlip(doc.clips, id, by) /\ EditClips(<<"slip">>, Slip(doc.clips, id, by))
StretchClip(id, scale) == CanStretch(doc.clips, id, scale) /\ EditClips(<<"stretch">>, Stretch(doc.clips, id, scale))
CrossfadeClip(id) == CanCrossfade(doc.clips, id) /\ EditClips(<<"fades">>, Crossfade(doc.clips, id))
NormalizeClip(id, target) ==
    CanNormalize(doc.clips, id) /\ EditClips(<<"gain">>, NormalizeGain(doc.clips, id, target, LAMBDA file : Peaks[file]))
SetClipFlag(id, flag, on) == Free(doc.clips, id) /\ EditClips(<<"flag">>, SetFlag(doc.clips, id, flag, on))
SetClipLocked(id, on) == EditClips(<<"lock">>, SetLocked(doc.clips, id, on))
SetClipTrack(id, track) ==
    Free(doc.clips, id) /\ track \in Timeline(doc.tracks) /\ EditClips(<<"move">>, SetTrack(doc.clips, id, track))
SetClipSource(id, file) == Free(doc.clips, id) /\ EditClips(<<"source">>, SetSource(doc.clips, id, file, SourceLength[file]))
GlueClip(id) == CanGlueAdjacent(doc.clips, id) /\ EditClips(<<"glue">>, GlueAdjacent(doc.clips, id))
CopyClipToTrack(id, t, track) == EditClips(<<"copy">>, DuplicateToTrack(doc.clips, id, t, track))
ShuffleClip(id, t, track) ==
    CanShuffleMove(doc.clips, id, t, track) /\ EditClips(<<"shuffle">>, ShuffleMove(doc.clips, id, t, track))
ShuffleCopy(id, t, track) == EditClips(<<"shuffle">>, ShuffleDuplicate(doc.clips, id, t, track))

-----------------------------------------------------------------------------
\* The clips of a selection, in the order of the document

Selected(ids) == Picked(doc.clips, Ascending({i \in DOMAIN doc.clips : doc.clips[i].id \in ids}))
Earliest(ids) == Min({c.start : c \in ToSet(Selected(ids))})
FreeOf(ids) == {id \in ids : Free(doc.clips, id)}
Offsets(ids) == [i \in DOMAIN Selected(ids) |-> [Selected(ids)[i] EXCEPT !.start = @ - Earliest(ids)]]
Deleted(ids) ==
    RebuildModel([doc EXCEPT !.clips = Picked(@, Ascending({i \in DOMAIN @ : @[i].id \notin FreeOf(ids)})),
                             !.lists = FoldSet(LAMBDA id, lists : Unplace(lists, id), @, FreeOf(ids))])

CopyClips(ids) ==
    /\ clipboard' = Offsets(ids)
    /\ did' = <<"copied">>
    /\ UNCHANGED <<doc, playing, reconciled>>
DeleteClips(ids) == FreeOf(ids) # {} /\ Done(<<"delete">>, Deleted(ids))
\* Nothing is deleted of a selection that is locked, but it has been copied.
CutClips(ids) ==
    IF FreeOf(ids) = {} THEN CopyClips(ids)
    ELSE clipboard' = Offsets(ids) /\ did' = <<"delete">> /\ Reconcile(Deleted(ids))
PasteClips(t) ==
    /\ CanPasteRange(clipboard, TrackNames(doc.tracks) \ Protected)
    /\ EditClips(<<"copy">>, PasteRange(doc.clips, clipboard, t))
\* The earliest of the selection stops at the start, and the others keep their distance.
MoveClips(ids, by) ==
    LET delta == Larger(by, -Earliest(ids)) IN
    /\ FreeOf(ids) # {}
    /\ EditClips(<<"move">>, ChangeAll(doc.clips, LAMBDA c : c.id \in FreeOf(ids), LAMBDA c : [c EXCEPT !.start = @ + delta]))
SplitClips(ids, t) ==
    LET chosen == Selected(ids)
        clips == Repeated(Len(chosen), doc.clips, LAMBDA cs, i : SplitAt(cs, chosen[i].id, t))
    IN
    clips # doc.clips /\ EditClips(<<"split">>, clips)
DuplicateClips(ids) ==
    LET chosen == Selected(ids)
        span == Max({End(c) : c \in ToSet(chosen)}) - Earliest(ids)
    IN  EditClips(<<"copy">>, Repeated(Len(chosen), doc.clips, LAMBDA cs, i : Duplicate(cs, chosen[i].id, chosen[i].start + span)))
GlueClips(a, b) == CanGlueSelected(doc.clips, a, b) /\ EditClips(<<"glue">>, GlueSelected(doc.clips, a, b))

-----------------------------------------------------------------------------
\* A range of time

CopyTimeRange(lo, hi) ==
    /\ CopyRange(doc.clips, lo, hi) # <<>>
    /\ clipboard' = CopyRange(doc.clips, lo, hi)
    /\ did' = <<"copied">>
    /\ UNCHANGED <<doc, playing, reconciled>>
CutTimeRange(lo, hi) ==
    /\ CanCutRange(doc.clips, lo, hi)
    /\ clipboard' = CutCopies(doc.clips, lo, hi)
    /\ did' = <<"clear", lo, hi>>
    /\ Reconcile(Rebuilt(ClearRange(doc.clips, lo, hi)))
ClearTimeRange(lo, hi) ==
    CanClearRange(doc.clips, lo, hi) /\ EditClips(<<"clear", lo, hi>>, ClearRange(doc.clips, lo, hi))
SeparateTimeRange(lo, hi) ==
    CanSeparateRange(doc.clips, lo, hi) /\ EditClips(<<"split">>, SeparateRange(doc.clips, lo, hi))
DuplicateTimeRange(lo, hi) ==
    CopyRange(doc.clips, lo, hi) # <<>> /\ EditClips(<<"copy">>, DuplicateRange(doc.clips, lo, hi))

\* The operations on a range that the bridge does not export.  When all that an operation
\* did was to cut the clips at the ends of the range, it returns false, and so does the
\* trimming that leaves no clip in the range.
EditRange(command, clips, changed) ==
    IF changed THEN EditClips(command, clips) ELSE Refuse(<<"refused">>, clips)
GlueTimeRange(lo, hi) == GluesInRange(doc.clips, lo, hi) # {} /\ EditClips(<<"glue">>, GlueRange(doc.clips, lo, hi))
ShuffleDelete(lo, hi) ==
    CanShuffleDeleteRange(doc.clips, lo, hi) /\ EditClips(<<"shuffle">>, ShuffleDeleteRange(doc.clips, lo, hi))
TrimTimeRange(lo, hi) ==
    LET clips == TrimToRange(doc.clips, lo, hi) IN
    clips # doc.clips
    /\ EditRange(<<"trim">>, clips, \E c \in ToSet(clips) : Overlaps(c, lo, hi))
QuantizeClips(lo, hi, q) ==
    LET clips == QuantizeRange(doc.clips, lo, hi, q) IN clips # doc.clips /\ EditClips(<<"move">>, clips)
AdjustGains(lo, hi, by) ==
    LET clips == AdjustGainRange(doc.clips, lo, hi, by) IN
    EditRange(<<"gain">>, clips, clips # SeparateRange(doc.clips, lo, hi))
SetRangeFlag(lo, hi, flag, on) ==
    LET clips == FlagRange(doc.clips, lo, hi, flag, on) IN
    EditRange(<<"flag">>, clips, clips # SeparateRange(doc.clips, lo, hi))
NormalizeClips(lo, hi, target) ==
    LET clips == NormalizeRange(doc.clips, lo, hi, target, LAMBDA file : Peaks[file]) IN
    EditRange(<<"gain">>, clips, clips # SeparateRange(doc.clips, lo, hi))
FadeClips(lo, hi) ==
    LET clips == FadeRange(doc.clips, lo, hi) IN clips # doc.clips /\ EditClips(<<"fades">>, clips)

ClipCommand ==
    /\ Editing("clips")
    /\ \/ \E id \in Ids(doc.clips) :
             \/ \E t \in Times :
                   \/ MoveClip(id, t) \/ TrimClipStart(id, t) \/ TrimClipEnd(id, t) \/ SplitClip(id, t)
                   \/ \E track \in Targets :
                         /\ Droppable(track)
                         /\ \/ MoveClipToTrack(id, t, track) \/ CopyClipToTrack(id, t, track)
                            \/ ShuffleClip(id, t, track) \/ ShuffleCopy(id, t, track)
             \/ \E by \in Deltas : SlipClip(id, by)
             \/ \E scale \in {1, 2} : StretchClip(id, scale)
             \/ \E fin, fout \in {0, 3} : SetClipFades(id, fin, fout)
             \/ \E gain \in Gains : SetClipGain(id, gain) \/ NormalizeClip(id, gain)
             \/ \E on \in BOOLEAN : SetClipLocked(id, on) \/ \E flag \in {"muted", "inv"} : SetClipFlag(id, flag, on)
             \/ \E track \in Targets : SetClipTrack(id, track)
             \/ \E file \in DOMAIN SourceLength : SetClipSource(id, file)
             \/ DuplicateClip(id) \/ CrossfadeClip(id) \/ GlueClip(id)
             \/ \E other \in Ids(doc.clips) : GlueClips(id, other)
       \/ \E ids \in (SUBSET Ids(doc.clips)) \ {{}} :
             \/ CopyClips(ids) \/ DeleteClips(ids) \/ CutClips(ids) \/ DuplicateClips(ids)
             \/ \E t \in Times : SplitClips(ids, t)
             \/ \E by \in Deltas : MoveClips(ids, by)
       \/ \E t \in Times : PasteClips(t)
       \/ \E lo, hi \in Times :
             /\ lo < hi
             /\ \/ CopyTimeRange(lo, hi) \/ CutTimeRange(lo, hi) \/ ClearTimeRange(lo, hi)
                \/ SeparateTimeRange(lo, hi) \/ DuplicateTimeRange(lo, hi) \/ GlueTimeRange(lo, hi)
                \/ ShuffleDelete(lo, hi) \/ TrimTimeRange(lo, hi) \/ QuantizeClips(lo, hi, 2) \/ FadeClips(lo, hi)
                \/ \E by \in Deltas : AdjustGains(lo, hi, by)
                \/ \E gain \in Gains : NormalizeClips(lo, hi, gain)
                \/ \E flag \in {"muted", "inv"}, on \in BOOLEAN : SetRangeFlag(lo, hi, flag, on)

-----------------------------------------------------------------------------
\* The playlists of a track; edits of clips between them

EditPlaylists(d) == Done(<<"playlist">>, d)
\* A file that is imported, and a recorded take, become a new clip.
ImportedId == <<Min({n \in 1..Len(doc.clips) + 1 : <<n>> \notin Ids(doc.clips)})>>
NewClip(track, file, t, dur) ==
    [id |-> ImportedId, track |-> track, src |-> <<file, file>>, start |-> t, dur |-> dur, off |-> 0, fin |-> 0, fout |-> 0,
     gain |-> 0, muted |-> FALSE, inv |-> FALSE, locked |-> FALSE, scale |-> 1]
AppendClip(command, track, file, t, dur) == Done(command, Rebuilt(Append(doc.clips, NewClip(track, file, t, dur))))
ImportClip(track, file, t, dur) == track \in Timeline(doc.tracks) /\ AppendClip(<<"import">>, track, file, t, dur)
RecordClip(file, t, dur) ==
    LET track == RecordingTarget(doc.tracks) IN track # None /\ AppendClip(<<"import">>, track, file, t, dur)
\* The copy of a track has its clips and all of its playlists; a clip keeps its media
\* definition, and the copy of a clip its name in every playlist.
Fresh(id, taken) ==
    LET Suffixed(n) == id \o [k \in 1..n |-> <<"copy", 0>>]
    IN  Suffixed(Min({n \in 0..Cardinality(taken) : Suffixed(n) \notin taken}))
DuplicateTrack(name) ==
    LET new == Min(Family.copy \ TrackNames(doc.tracks))
        clips == SelectSeq(doc.clips, LAMBDA c : c.track = name)
        CopyItem(q, taken) ==
            [q EXCEPT !.id = IF q.id \in Ids(clips) THEN CopyId(doc.clips, q.id) ELSE Fresh(CopyId(doc.clips, q.id), taken)]
        CopyList(lists, l) ==
            LET taken == {q.id : q \in UNION {ToSet(m.items) : m \in {x \in ToSet(lists) : x.track = new}}}
            IN  Append(lists, [l EXCEPT !.id = FreshList(lists, new), !.track = new,
                                        !.items = [i \in DOMAIN @ |-> CopyItem(@[i], taken)]])
    IN  [doc EXCEPT !.tracks = InsertAt(@, Position(@, name) + 1, [Track(@, name) EXCEPT !.name = new, !.armed = FALSE]),
                    !.clips = @ \o [i \in DOMAIN clips |-> [clips[i] EXCEPT !.id = CopyId(doc.clips, @), !.track = new]],
                    !.lists = FoldLeft(CopyList, @, ListsOf(@, name))]
CanDuplicateTrack(name) ==
    name \in TrackNames(doc.tracks) \ Protected /\ Family.copy \ TrackNames(doc.tracks) # {}

PlaylistCommand ==
    /\ Editing("playlists")
    /\ \/ \E track \in Timeline(doc.tracks) : EditPlaylists(CreatePlaylist(doc, track)) \/ EditPlaylists(DuplicatePlaylist(doc, track))
       \/ \E id \in ListIds(NormalizeEditModel(doc)) :
             \/ EditPlaylists(ActivatePlaylist(doc, id))
             \/ CanDeletePlaylist(doc, id) /\ EditPlaylists(DeletePlaylist(doc, id))
             \/ \E item \in Ids(doc.clips) : CanPromote(doc, id, item) /\ EditPlaylists(Promote(doc, id, item))
       \/ \E id \in Ids(doc.clips), t \in Times : MoveClip(id, t) \/ TrimClipEnd(id, t)
       \/ \E id \in Ids(doc.clips) : DeleteClips({id})
       \/ \E name \in TrackNames(doc.tracks) : CanDuplicateTrack(name) /\ Done(<<"track">>, DuplicateTrack(name))
       \/ \E file \in DOMAIN SourceLength, t \in Times :
             RecordClip(file, t, 2) \/ \E track \in TrackNames(doc.tracks) : ImportClip(track, file, t, 2)

-----------------------------------------------------------------------------
\* Tracks

EditTracks(tracks) == Done(<<"track">>, [doc EXCEPT !.tracks = tracks])
AddNewTrack(type) == FreeNames(doc.tracks, Word(type)) # {} /\ EditTracks(AddTrack(doc.tracks, type))
DeleteNamedTrack(name, all) ==
    CanDeleteTrack(doc, name, all, all) /\ Done(<<"delete track">>, RebuildModel(DeleteTrack(doc, name, all, all)))
DeleteEmptyTrack(name) ==
    CanDeleteEmpty(doc, name) /\ Done(<<"delete track">>, RebuildModel(DeleteTrack(doc, name, FALSE, FALSE)))
RenameNamedTrack(old, new) ==
    CanRename(doc.tracks, old, new) /\ Done(<<"rename">>, RebuildModel(RenameTrack(doc, old, new)))
TrackCommand ==
    /\ Editing("tracks")
    /\ \/ \E type \in {"audio", "aux", "midi", "instrument", "folder", "bus_folder", "vca"} : AddNewTrack(type)
       \/ \E name \in TrackNames(doc.tracks) :
             \/ \E all \in BOOLEAN : DeleteNamedTrack(name, all)
             \/ DeleteEmptyTrack(name)
             \/ \E new \in Family.audio : RenameNamedTrack(name, new)
             \/ \E down \in BOOLEAN : CanMoveTrack(doc.tracks, name, down) /\ EditTracks(MoveTrack(doc.tracks, name, down))
             \/ \E target \in TrackNames(doc.tracks), after \in BOOLEAN :
                   CanMoveNear(doc.tracks, name, target) /\ EditTracks(MoveNear(doc.tracks, name, target, after))
             \/ \E folder \in TrackNames(doc.tracks) :
                   CanMoveIntoFolder(doc.tracks, name, folder) /\ EditTracks(MoveIntoFolder(doc.tracks, name, folder))
             \/ \E on \in BOOLEAN :
                   \/ Editable(doc.tracks, name, FolderTypes) /\ EditTracks(SetOpen(doc.tracks, name, on))
                   \/ /\ CanArm(doc.tracks, name)
                      /\ EditTracks(SetArmed(doc.tracks, name, on)) \/ EditTracks(SetListening(doc.tracks, name, on))
             \/ \E vca \in TrackNames(doc.tracks) \cup {None} :
                   CanSetVca(doc.tracks, name, vca) /\ EditTracks(SetVca(doc.tracks, name, vca))

-----------------------------------------------------------------------------
\* The sends, inserts and instruments of a track

Buses == {None, FirstBus, FirstBus + 1}
PlugIns == {None, 1}
\* The first slot that is empty, or a new one.
AddPlugIn(name, plugin) ==
    LET free == SelectInSeq(Track(doc.tracks, name).inserts, LAMBDA s : s.plugin = None)
        tracks == IF free = 0 THEN AddInsert(doc.tracks, name) ELSE doc.tracks
        slot == IF free = 0 THEN Len(Track(tracks, name).inserts) ELSE free
    IN  /\ CanRoute(doc.tracks, name) /\ (free = 0 => CanAddInsert(doc.tracks, name))
        /\ EditTracks(SetInsert(tracks, name, slot, plugin))
EditInsert(name, i) ==
    /\ HasInsert(doc.tracks, name, i)
    /\ \/ EditTracks(RemoveInsert(doc.tracks, name, i))
       \/ Track(doc.tracks, name).inserts[i].plugin # None /\ EditTracks(ToggleInsert(doc.tracks, name, i))
       \/ \E k \in 1..Len(Track(doc.tracks, name).inserts) + 1 :
             k \notin {i, i + 1} /\ EditTracks(MoveInsert(doc.tracks, name, i, k))
EditSend(name, i) ==
    LET sends == Track(doc.tracks, name).sends IN
    /\ HasSend(doc.tracks, name, i)
    /\ \/ Done(<<"send">>, RemoveSend(doc, name, i))
       \/ \E bus \in Buses, on \in BOOLEAN :
             CanSetSend(doc.tracks, name, i, bus) /\ Done(<<"send">>, SetSend(doc, name, i, bus, on))
       \/ \E on \in BOOLEAN : CanEnableSend(doc.tracks, name, i, on) /\ EditTracks(EnableSend(doc.tracks, name, i, on))
       \/ \E k \in 1..Len(sends) + 1 : k \notin {i, i + 1} /\ EditTracks(MoveSend(doc.tracks, name, i, k))
EditInstrument(name, i) ==
    LET rack == Track(doc.tracks, name).rack IN
    /\ name \in TrackNames(doc.tracks) /\ Track(doc.tracks, name).type = "instrument"
    /\ \/ \E plugin \in PlugIns : EditTracks(SetInstrument(doc.tracks, name, i, plugin))
       \/ i \in DOMAIN rack /\ rack[i].plugin # None /\ EditTracks(ToggleInstrument(doc.tracks, name, i))
EditMaster(inserts) == Done(<<"master">>, [doc EXCEPT !.master = inserts])
MasterCommand ==
    \/ \E plugin \in PlugIns \ {None} : CanAddMaster(doc.master, plugin) /\ EditMaster(AddMaster(doc.master, plugin))
    \/ Len(doc.master) < MaxInserts /\ EditMaster(Append(doc.master, Empty))
    \/ (\E s \in ToSet(doc.master) : External(s)) /\ EditMaster(ClearMaster(doc.master))
    \/ \E i \in DOMAIN doc.master :
          \/ doc.master[i] # OwnEffect /\ EditMaster(RemoveAt(doc.master, i))
          \/ /\ External(doc.master[i])
             /\ \/ EditMaster([doc.master EXCEPT ![i].bypassed = ~@])
                \/ \E down \in BOOLEAN :
                      MasterNeighbours(doc.master, i, down) # {} /\ EditMaster(MoveMaster(doc.master, i, down))

StripCommand ==
    /\ Editing("strips")
    /\ \/ MasterCommand
       \/ \E name \in TrackNames(doc.tracks) :
             \/ \E plugin \in PlugIns \ {None} : AddPlugIn(name, plugin)
             \/ CanAddInsert(doc.tracks, name) /\ EditTracks(AddInsert(doc.tracks, name))
             \/ \E i \in 1..MaxInserts : EditInsert(name, i)
             \/ \E bus \in Buses, on \in BOOLEAN :
                   CanRoute(doc.tracks, name) /\ EditTracks(AddSend(doc.tracks, name, bus, on))
             \/ \E i \in DOMAIN Track(doc.tracks, name).sends : EditSend(name, i)
             \/ \E i \in 1..MaxRack : EditInstrument(name, i)

-----------------------------------------------------------------------------
\* MIDI regions and their notes

EditRegions(command, regions) == Done(command, [doc EXCEPT !.regions = regions])
EditRegion(command, id, F(_)) ==
    FreeRegion(doc.regions, id) /\ EditRegions(command, ChangeRegion(doc.regions, id, F))
AddMidiRegion(name, t, dur) == MidiTarget(doc.tracks, name) /\ Done(<<"region">>, AddRegion(doc, name, t, dur))
MoveMidiRegion(id, name, t) ==
    /\ FreeRegion(doc.regions, id) /\ MidiTarget(doc.tracks, name)
    /\ Done(<<"region">>, MoveRegion(doc, id, name, t))
ResizeMidiRegion(id, dur) ==
    FreeRegion(doc.regions, id) /\ dur > 0 /\ EditRegions(<<"region">>, ResizeRegion(doc.regions, id, dur))
TrimMidiRegionStart(id, t) ==
    FreeRegion(doc.regions, id) /\ EditRegions(<<"trim region", id, t>>, TrimRegionStart(doc.regions, id, t))
SplitMidiRegion(id, t) ==
    CanSplitRegion(doc.regions, id, t) /\ EditRegions(<<"split region", id, t>>, SplitRegion(doc.regions, id, t))
RecordMidiTake(name, take, start, mode, punch) ==
    /\ CanRecordTake(doc, name, take.events, take.dur)
    /\ Done(<<"take", name, take, start, mode>>, RecordTake(doc, name, take.events, start, take.dur, mode, punch))
MidiCommand ==
    /\ Editing("midi")
    /\ \/ \E name \in TrackNames(doc.tracks), t \in Times :
             \/ AddMidiRegion(name, t, 2)
             \/ \E take \in Takes, mode \in {"new", "merge", "replace", "punch"} : RecordMidiTake(name, take, t, mode, <<3, 5>>)
       \/ \E id \in RegionIds(doc.regions) :
             \/ \E t \in Times :
                   \/ \E name \in TrackNames(doc.tracks) : MoveMidiRegion(id, name, t)
                   \/ ResizeMidiRegion(id, t) \/ TrimMidiRegionStart(id, t) \/ SplitMidiRegion(id, t)
                   \/ FreeRegion(doc.regions, id) /\ EditRegions(<<"region">>, DuplicateRegion(doc.regions, id, t))
             \/ FreeRegion(doc.regions, id) /\ EditRegions(<<"region">>, DeleteRegion(doc.regions, id))
             \/ \E on \in BOOLEAN :
                   \/ FreeRegion(doc.regions, id) /\ EditRegions(<<"region">>, SetRegionFlag(doc.regions, id, "muted", on))
                   \/ EditRegions(<<"lock">>, SetRegionFlag(doc.regions, id, "locked", on))

NoteCommand ==
    /\ Editing("notes")
    /\ \E id \in RegionIds(doc.regions), pitch \in Notation.pitches, by \in Notation.shifts :
          LET r == Region(doc.regions, id)
              OfRegion(F(_)) == EditRegion(<<"notes">>, id, F)
          IN  \/ OfRegion(LAMBDA x : Transpose(x, by))
              \/ OfRegion(LAMBDA x : Humanize(x, LAMBDA n : IF n.pitch = pitch THEN by ELSE 0))
              \/ OfRegion(LAMBDA x : Quantize(x, Notation.q))
              \/ OfRegion(LAMBDA x : AddNote(x, pitch, AtLeast(0, by), 2))
              \/ \E ids \in (SUBSET {r.notes[i].id : i \in DOMAIN r.notes}) \ {{}} :
                    \/ OfRegion(LAMBDA x : MoveNotes(x, ids, pitch - r.notes[1].pitch, by))
                    \/ OfRegion(LAMBDA x : ResizeNotes(x, ids, by))
                    \/ OfRegion(LAMBDA x : AdjustVelocities(x, ids, by))
                    \/ OfRegion(LAMBDA x : DeleteNotes(x, ids))
                    \/ \E n \in ids, on \in BOOLEAN : OfRegion(LAMBDA x : MuteNote(x, n, on))
              \/ OfRegion(LAMBDA x : AddEvent(x, AtLeast(0, by), "control", pitch))
              \/ \E i \in DOMAIN r.events :
                    OfRegion(LAMBDA x : MoveEvent(x, r.events[i].id, AtLeast(0, by))) \/ OfRegion(LAMBDA x : DeleteEvent(x, r.events[i].id))

-----------------------------------------------------------------------------
\* Markers, tempo, automation, selection and loop.  Markers and the selection touch no
\* audio, and the engine is not given the document.

Mark(d) == doc' = d /\ did' = <<"mark">> /\ UNCHANGED <<clipboard, playing, reconciled>>
EditMarkers(markers) == Mark([doc EXCEPT !.markers = markers])
EditPoints(points) == Done(<<"automation">>, [doc EXCEPT !.points = points])
PointCommand ==
    /\ Editing("points")
    /\ \/ \E at \in Times :
             \/ EditMarkers(AddMarker(doc.markers, at, at))
             \/ /\ Near(doc.markers, at, 1) # {}
                /\ \/ EditMarkers(DeleteNearest(doc.markers, at, 1)) \/ EditMarkers(RenameNearest(doc.markers, at, 1, 9))
                   \/ \E to \in Times : EditMarkers(MoveNearest(doc.markers, at, 1, to))
             \/ \E to \in Times, replace \in BOOLEAN :
                   EditMarkers(ApplyTranscription(doc.markers, {at, to}, 1, 1, replace))
             \/ \E bpm \in Tempos :
                   /\ ValidTempo(bpm)
                   /\ \/ Done(<<"tempo">>, AddTempo(doc, at, bpm))
                      \/ \E to \in Times : /\ Near(doc.map, at, 1) # {}
                                           /\ Done(<<"tempo">>, MoveNearestTempo(doc, at, 1, to, bpm))
             \/ CanDeleteTempo(doc, at, 1) /\ Done(<<"tempo">>, DeleteNearestTempo(doc, at, 1))
             \/ \E value \in Gains :
                   \/ EditPoints(SetPoint(doc.points, at, value))
                   \/ \E i \in DOMAIN doc.points : EditPoints(MovePoint(doc.points, i, at, value))
             \/ \E to \in Times : at < to /\ DeletePoints(doc.points, at, to) # doc.points /\ EditPoints(DeletePoints(doc.points, at, to))
             \/ CanSurround(Edges(doc.clips), at) /\ Mark([doc EXCEPT !.sel = Surrounding(Edges(doc.clips), at)])
             \/ \E to \in Times : at < to /\ Done(<<"loop">>, [doc EXCEPT !.loop = RangeOf(at, to)])
       \/ \E c \in ToSet(doc.clips), clearLoop \in BOOLEAN : Mark(ToggleSelection(doc, c, clearLoop))

-----------------------------------------------------------------------------
\* Video clips

EditVideos(videos) == Done(<<"video">>, [doc EXCEPT !.videos = videos])
DeleteVideo(id) ==
    /\ Free(doc.videos, id)
    /\ Done(<<"video">>, [doc EXCEPT !.videos = Without(@, id), !.sources = @ \ UnusedSource(doc.videos, id)])
ImportVideo(t, dur) ==
    LET src == Min(1..Cardinality(doc.sources) + 1 \ doc.sources)
    IN  Done(<<"video">>, [doc EXCEPT !.videos = AddVideo(@, src, t, dur), !.sources = @ \cup {src}])
VideoCommand ==
    /\ Editing("video")
    /\ \/ \E t \in Times : ImportVideo(t, 4)
       \/ \E id \in Ids(doc.videos) :
             \/ \E t \in Times :
                   \/ Free(doc.videos, id) /\ EditVideos(Move(doc.videos, id, t))
                   \/ CanTrimStart(doc.videos, id, t) /\ EditVideos(TrimVideoStart(doc.videos, id, t))
                   \/ CanTrimEnd(doc.videos, id, t) /\ EditVideos(TrimVideoEnd(doc.videos, id, t))
                   \/ CanSplit(doc.videos, id, t) /\ EditVideos(SplitVideo(doc.videos, id, t))
             \/ DeleteVideo(id)
             \/ \E on \in BOOLEAN :
                   \/ Free(doc.videos, id) /\ EditVideos(SetFlag(doc.videos, id, "muted", on))
                   \/ EditVideos(SetLocked(doc.videos, id, on))

-----------------------------------------------------------------------------
\* Media and deliveries

HasFiles == area \in DOMAIN Folder
Saved == Folder[area] = "pool"  \* an unsaved project keeps its files in a temporary folder
Stays(command, files) == did' = command /\ disk' = files /\ UNCHANGED <<doc, clipboard, playing, reconciled>>

\* A file that was converted stays when its clip cannot be placed.
ImportFile(track, file, t, dur) ==
    LET made == ImportedTo(disk, Folder[area], file) IN
    /\ Readable(disk, file)
    /\ IF track \in Timeline(doc.tracks)
       THEN /\ AppendClip(<<"import", ImportedId, made, file>>, track, made, t, dur)
            /\ disk' = Put(disk, made, disk[file])
       ELSE made # file /\ Stays(<<"refused">>, Put(disk, made, disk[file]))
\* A take has its file, its clip and its manifest.
RecordTakeFile(t, dur) ==
    LET made == NewFile(disk, Folder[area], Output.take, "wav")
        take == {[take |-> Cardinality(DOMAIN disk)]}
    IN  /\ Saved /\ RecordingTarget(doc.tracks) # None
        /\ AppendClip(<<"import", ImportedId, made, NoFile>>, RecordingTarget(doc.tracks), made, t, dur)
        /\ disk' = Put(Put(disk, made, take), Beside(made, "take"), {[clip |-> ImportedId, at |-> t]})
PoolCommand ==
    /\ UNCHANGED disk
    /\ \E d \in {NormalizeEditModel(doc)} :
          \/ \E id \in DOMAIN d.files, file \in DOMAIN Files : Done(<<"relink", id, file>>, Relinked(d, id, file))
          \/ \E id \in SourceIds(d) : Done(<<"remove", id>>, WithoutSource(d, id))
          \/ Unused(d) # {} /\ Done(<<"tidy">>, WithoutUnused(doc, d))
          \/ \E id \in ListIds(doc) : EditPlaylists(ActivatePlaylist(doc, id))

\* A mix is made of the document, or of a text of it that was taken before.
BounceTo(file, selection, snapshot, fault) ==
    \E d \in {IF snapshot THEN Parsed(Written(doc)) ELSE doc} :
        /\ CanRender(d, selection)
        /\ Stays(<<"bounce", file, selection, fault>>,
                 Bounced(d, Played(d), disk, file, RenderRange(d, selection), fault))
ExportStems(folder, fault) ==
    \E made \in {Stems(doc, disk, RenderRange(doc, FALSE), folder, fault)} :
        Stays(<<"stems", made.stems, made.ok>>, made.disk)
\* The clips have moved, and nothing is told of it: see Collected.
Collect ==
    \E made \in {Collected(doc, disk, Folder[area])} :
        /\ Saved
        /\ doc' = [doc EXCEPT !.clips = made.clips]
        /\ disk' = made.disk
        /\ did' = <<"collect">>
        /\ reconciled' = FALSE
        /\ UNCHANGED <<clipboard, playing>>
\* Somebody moves a file away.
LoseFile(file) == Stays(<<"lost">>, Restrict(disk, DOMAIN disk \ {file}))

MediaCommand ==
    /\ HasFiles /\ edits < MaxEdits[area]
    /\ UNCHANGED area
    /\ \/ /\ edits' = edits + 1
          /\ \/ PoolCommand
             \/ \E track \in TrackNames(doc.tracks), file \in DOMAIN disk : ImportFile(track, file, 1, 2)
             \/ RecordTakeFile(1, 2)
             \/ \E file \in DOMAIN disk : LoseFile(file)
             \/ \E selection, snapshot \in BOOLEAN, fault \in {"none", "audio", "manifest"} :
                   BounceTo(Output.mix, selection, snapshot, fault)
             \/ \E fault \in {1, 2, 3, 9} : ExportStems(Output.stems, fault)
       \/ edits' = MaxEdits[area] /\ Collect

-----------------------------------------------------------------------------
\* The project is saved and opened again.  The copied clips stay; nothing is edited after.
Reopen ==
    /\ edits <= ReopenedAfter[area]
    /\ edits' = MaxEdits[area] + 1
    /\ UNCHANGED <<disk, area>>
    /\ Done(<<"reopen">>, Opened(Written(doc)))

\* It is written for another program, and a project is made of what was written.
Exchange(form) ==
    /\ area \in DOMAIN ExchangedAfter /\ edits <= ExchangedAfter[area]
    /\ CanExchange(form, doc)
    /\ edits' = MaxEdits[area] + 1
    /\ UNCHANGED <<disk, area>>
    /\ Done(<<"exchange", form>>, Exchanged(form, doc))

Next ==
    \/ ClipCommand \/ PlaylistCommand \/ TrackCommand \/ StripCommand \/ MidiCommand \/ NoteCommand
    \/ PointCommand \/ VideoCommand \/ MediaCommand
    \/ Reopen
    \/ \E form \in Forms : Exchange(form)

Spec == Init /\ [][Next]_vars

-----------------------------------------------------------------------------
\* What must hold of the document

Unique(S(_), D) == \A i, k \in D : S(i) = S(k) => i = k

\* The clips that are shown are the clips that are played, whenever the last command was
\* carried out: an operation changes the shown clips, the engine renders the playlists, and
\* each command has to put the one back into the other (applyClipEdit and its callers).
\* A clip that was dropped on a folder or a VCA is shown and not played: pasteClip takes the clip
\* and rebuildProjectEditModelFromClips skips it, as the playlists are those of the tracks that
\* can play.  When no track can play there are no playlists, and the engine is given the clips.
\* Left out are clips whose source has been deleted, which are silent, and clips that show
\* another file than their source has, because it was given another or put into the project
\* again: the engine plays that of the source.
Resourcing == \E c \in ToSet(doc.clips) : IdOf(c.src) \in DOMAIN doc.files /\ doc.files[IdOf(c.src)] # PathOf(c.src)
WithFile(clips) == {c \in clips : PathOf(c.src) # NoFile}
CanPlay(d, c) == Timeline(d.tracks) # {} => c.track \in Timeline(d.tracks)
Playable(d) == {c \in WithFile(ToSet(d.clips)) : CanPlay(d, c)}
ShownIsPlayed == reconciled /\ ~Resourcing => Playable(doc) = WithFile(playing)

\* What is heard on a track in a tick, of clips that are not stretched: where in which file.
Heard(clips, track, t) ==
    {[src |-> c.src, at |-> c.off + (t - c.start), inv |-> c.inv, gain |-> c.gain] :
        c \in {d \in clips : d.track = track /\ ~d.muted /\ t \in d.start..End(d) - 1}}
HeardOfLocked(clips, track, t) == Heard({c \in clips : c.locked}, track, t)
Ungained(heard) == {[h EXCEPT !.gain = 0] : h \in heard}
Horizon == 0..Max({0} \cup {End(c) : c \in playing \cup playing'})

\* Splitting, separating and gluing clips leave every tick of every track as it was heard, a
\* glued clip at the level of its first part; clearing or cutting a range silences the range,
\* but for locked clips, and nothing else; a copy takes nothing away.
CutsKeepSound ==
    [][reconciled /\ reconciled' /\ (\A c \in playing : c.scale = 1) =>
        \A track \in Timeline(doc.tracks), t \in Horizon :
            LET before == Heard(playing, track, t)
                after == Heard(playing', track, t)
            IN  CASE did'[1] = "split" -> after = before
                  [] did'[1] = "glue" -> Ungained(after) = Ungained(before)
                  [] did'[1] = "clear" /\ t \in did'[2]..did'[3] - 1 -> after = HeardOfLocked(playing, track, t)
                  [] did'[1] = "clear" -> after = before
                  [] did'[1] = "copy" -> before \subseteq after
                  [] OTHER -> TRUE]_vars

\* A command on clips, regions or notes leaves every locked clip and region exactly as it was,
\* unless it unlocks it, or makes a new document: of the project's text, which rounds long
\* times (ReopenKeeps has what it keeps), or of another program's form.
LockedUntouched ==
    [][did'[1] \notin {"lock", "exchange", "reopen"} /\ area \in {"clips", "midi", "notes"} =>
        /\ \A c \in ToSet(doc.clips) : c.locked => c \in ToSet(doc'.clips)
        /\ \A r \in ToSet(doc.regions) : r.locked => r \in ToSet(doc'.regions)]_vars

\* Splitting a region keeps every sounding moment of every note, and adds none: but where less
\* than the shortest region is left after the cut, the second part is longer than what was left,
\* and the notes that reach past the old end, or begin there, sound on to its end (the clamp of
\* splitMidiRegion, which asks for a microsecond on either side); moving its start keeps the
\* end of every note and the sound after the new start of each that has more than the
\* shortest length left; a take is heard where it was played, when no region of the track
\* that it could go to starts after it.
SoundingMoments(regions) ==
    UNION {{[track |-> n.track, pitch |-> n.pitch, vel |-> n.vel, t |-> t] : t \in n.from..n.to - 1} : n \in SoundingNotes(regions)}
SplitKeeps(id, cut) ==
    LET before == SoundingMoments(doc.regions)
        after == SoundingMoments(doc'.regions)
        longer == Units * RegionEnd(Region(doc.regions, id))..Units * (cut + MinDur) - 1
    IN  before \subseteq after /\ \A m \in after \ before : m.t \in longer
TrimKeeps(before, after, cut) ==
    \A n \in before : n.to - AtLeast(cut, n.from) > 1 => [n EXCEPT !.from = AtLeast(cut, @)] \in after
MidiKeepsTime ==
    [][CASE did'[1] = "split region" -> SplitKeeps(did'[2], did'[3])
         [] did'[1] = "trim region" ->
               LET old == <<Region(doc.regions, did'[2])>>
                   new == <<Region(doc'.regions, did'[2])>>
               IN  /\ TrimKeeps(SoundingNotes(old), SoundingNotes(new), Units * new[1].start)
                   /\ SoundingMoments(new) \subseteq SoundingMoments(old)
         [] did'[1] = "take" /\ (\A r \in ToSet(doc.regions) : r.track = did'[2] => r.start <= did'[4]) ->
               \A n \in TakeNotes(did'[3].events, did'[3].dur) :
                  \E m \in SoundingNotes(doc'.regions) :
                     m.track = did'[2] /\ m.pitch = n.pitch /\ m.from = Units * did'[4] + n.at
         [] OTHER -> TRUE]_vars

\* Every name that a track, a clip, a playlist or a region refers to is a track's or a
\* port's, whatever is deleted or renamed: but for the folders, whose tracks keep the old
\* name when they are renamed, and for tracks that are gone with the last send they served.
\* It is one thing's only: copies, splits, pastes and takes get ids that nothing else has.
References(t) == {t.in, t.out, t.vca} \cup {t.sends[i].bus : i \in DOMAIN t.sends}
NamesResolve ==
    LET known == TrackNames(doc.tracks) \cup {None, MainOut, MidiInput, Instrument, Input} \cup Buses IN
    /\ \A t \in ToSet(doc.tracks) : References(t) \subseteq known
    /\ doc.tempoMaster \in known
    /\ \A x \in ToSet(doc.clips) \cup ToSet(doc.regions) : x.track \in TrackNames(doc.tracks)
    /\ area # "strips" => {doc.lists[i].track : i \in DOMAIN doc.lists} \subseteq Timeline(doc.tracks)
    /\ {v.src : v \in ToSet(doc.videos)} = doc.sources
    /\ Unique(LAMBDA i : doc.tracks[i].name, DOMAIN doc.tracks)
    /\ \A seq \in {doc.clips, doc.videos, doc.lists, doc.regions, doc.markers}
                  \cup {doc.regions[i].notes : i \in DOMAIN doc.regions} :
          Unique(LAMBDA i : seq[i].id, DOMAIN seq)
    /\ Unique(LAMBDA i : doc.lists[i].track, {i \in DOMAIN doc.lists : doc.lists[i].active})

\* The timeline of the document is in order, whatever points are added, moved, renamed or deleted,
\* and whatever the document goes through: routing rules, texts and other programs.
TimelineInOrder == Ordered(doc)

\* What a project is made of: the tracks, the takes, the MIDI, the timeline and the effects.
\* Left out is what the reader takes from control tracks, a VCA's folder and the recording
\* flags of a routing folder, and the folder of tracks whose folder has been renamed.
Uncontrolled(t) ==
    [t EXCEPT !.folder = IF t.type = "vca" THEN None ELSE @,
              !.armed = @ /\ t.type # "bus_folder", !.listening = @ /\ t.type # "bus_folder"]
Content(d) ==
    [tracks |-> Each(Rehoused(d.tracks), Uncontrolled), master |-> d.master, tempoMaster |-> d.tempoMaster,
     clips |-> Playable(d),
     takes |-> {[track |-> l.track, active |-> l.active, items |-> ToSet(l.items)] :
                  l \in {x \in ToSet(d.lists) : x.items # <<>> /\ x.track \in TrackNames(d.tracks)}},
     regions |-> {[r EXCEPT !.notes = ToSet(@), !.events = ToSet(@)] : r \in ToSet(d.regions)},
     timeline |-> <<d.map, d.tempo, ToSet(d.markers), d.points, d.sel, d.loop>>,
     videos |-> d.videos, sources |-> d.sources]
\* An instrument track without an instrument: the text of its first effect reads as one.
Misread(t) == t.type = "instrument" /\ t.rack = <<>> /\ t.inserts # <<>> /\ t.inserts[1].plugin # None

\* A project that is saved and opened again is the project that was saved, and plays the
\* same: as far as the engine had been given it, and but for the clips on folders and VCAs, which
\* are gone, a clip that shows another file than it plays, takes all of whose files were deleted,
\* the tracks of a project on which no clip can be, and the instrument of a track that has an
\* effect and no instrument.
ReopenKeeps ==
    [][did' = <<"reopen">> /\ reconciled /\ ~Resourcing /\ Timeline(doc.tracks) # {} /\ (\A t \in ToSet(doc.tracks) : ~Misread(t))
       /\ (\A l \in ToSet(doc.lists) : l.items # <<>> => DOMAIN doc.files # {}) =>
        Content(doc') = Content(doc) /\ playing' = playing]_vars

\* What a form carries of the clips that are heard, whatever they are called
HeardAs(form, clips) ==
    {[c EXCEPT !.id = <<>>, !.locked = FALSE, !.scale = 1, !.inv = @ /\ form = "reference"] : c \in {d \in clips : ~d.muted}}
Places(points) == {[at |-> points[i].at, value |-> points[i].value] : i \in DOMAIN points}
Unaccented(moments) == {[m EXCEPT !.vel = 0] : m \in moments}
LastTick(regions, track) ==
    Max({0} \cup {n.to : n \in {m \in SoundingNotes(regions) : m.track = track}}
            \cup {e.t : e \in {f \in SoundingEvents(regions) : f.track = track}})
InsideTrack(regions) == {e \in SoundingEvents(regions) : e.t < LastTick(regions, e.track)}

\* The clips on tracks that can play: a project that has none gives the engine the others.
OnTracks(clips, d) == {c \in clips : c.track \in Timeline(d.tracks)}

\* A timeline that goes out to another program's form and comes back sounds as it did: every
\* clip that is heard is at its place, from its place in the source, at its level, once; the
\* texts bring the tempos and the video back, two of them the markers; a MIDI file brings back
\* every moment at which a note sounds and every event but those that end a track.  No form
\* carries the stretching of clips, and only one their polarity.
ExchangeKeeps ==
    [][did'[1] = "exchange" /\ reconciled =>
        LET form == did'[2] IN
        IF form = "midi"
        THEN /\ Unaccented(SoundingMoments(doc'.regions)) = Unaccented(SoundingMoments(doc.regions))
             /\ InsideTrack(doc.regions) \subseteq SoundingEvents(doc'.regions)
        ELSE /\ HeardAs(form, OnTracks(playing', doc')) = HeardAs(form, OnTracks(playing, doc))
             /\ Cardinality(OnTracks(playing', doc')) = Cardinality({c \in OnTracks(playing, doc) : ~c.muted})
             /\ doc'.tempo = doc.tempo /\ Places(doc'.map) = Places(doc.map)
             /\ doc'.videos = doc.videos /\ doc'.sources = doc.sources
             /\ form # "reference" => Places(doc'.markers) = Places(doc.markers)]_vars

\* What is heard of a project's sources: where, from which source, and what is in its file.
FromFiles(clips, files) ==
    {[id |-> c.id, track |-> c.track, start |-> c.start, dur |-> c.dur, off |-> c.off, source |-> IdOf(c.src),
      of |-> files[PathOf(c.src)]] : c \in {d \in clips : ~d.muted /\ Readable(files, PathOf(d.src))}}
Recorded(file) == Kind(file) \in {"wav", "mp3"} /\ file # Output.mix

\* No import, take, mix, stem or collecting takes the place of a recording, in the project's
\* folder or elsewhere, and none changes what is heard: a new clip plays what was imported
\* beside all that was heard; giving a source another file, or removing it, changes the clips
\* of that source only, and removing the unused ones none; the clips that have been collected
\* have the recordings they had, in the folder.
MediaKept ==
    [][HasFiles /\ did'[1] # "lost" =>
        /\ \A f \in DOMAIN disk : Recorded(f) => f \in DOMAIN disk' /\ disk'[f] = disk[f]
        /\ LET before == FromFiles(playing, disk)
               after == FromFiles(playing', disk')
               Others(heard) == {h \in heard : h.source # did'[2]}
           IN  CASE did'[1] = "import" /\ ~Resourcing' ->
                        /\ before \subseteq after
                        /\ \E h \in after : h.id = did'[2] /\ h.of = disk'[did'[3]]
                        /\ did'[4] # NoFile => disk'[did'[3]] = disk[did'[4]]
                 [] did'[1] = "relink" ->
                        /\ Others(after) = Others(before)
                        /\ \A h \in after \ Others(after) : h.of = disk[did'[3]]
                 [] did'[1] = "remove" -> after = Others(before)
                 [] did'[1] \in {"tidy", "bounce", "stems"} -> after = before
                 [] did'[1] = "refused" -> before \subseteq after
                 [] did'[1] = "collect" ->
                        \A i \in DOMAIN doc.clips :
                            LET from == PathOf(doc.clips[i].src)
                                to == PathOf(doc'.clips[i].src)
                            IN  Readable(disk, from) => InFolder(to, Folder[area]) /\ disk'[to] = disk[from]
                 [] OTHER -> TRUE]_vars

\* What is delivered is what is played.  A mix has every moment at which a clip is heard in
\* its range, and its manifest has the clips of the engine and tells which of them are silent;
\* each stem has a file of its own with what its track plays, if the track goes to the master,
\* and every track that plays has one; a video has all the clips that are shown, in order.
ListedClips(manifest) == UNION {{t.clips[i].clip : i \in DOMAIN t.clips} : t \in manifest.tracks}
DeliveriesHold ==
    [][/\ did'[1] = "bounce" /\ did'[4] = "none" /\ reconciled /\ ~Resourcing =>
            LET file == did'[2]
                range == RenderRange(doc, did'[3])
            IN  /\ disk'[file] = Moments(playing, disk, range) \cup {range}
                /\ \E m \in disk'[Beside(file, "bounce")] :
                      m.range = range /\ ListedClips(m) = playing /\ m.missing = Missing(playing, disk)
       /\ did'[1] = "stems" /\ did'[3] /\ reconciled /\ ~Resourcing =>
            LET stems == ToSet(did'[2])
                whole == RenderRange(doc, FALSE)
            IN  /\ Cardinality({s.file : s \in stems}) = Cardinality({c.track : c \in playing})
                /\ \A s \in stems : Track(doc.tracks, s.track).out = Master =>
                      disk'[s.file] = Moments({c \in playing : c.track = s.track}, disk, whole) \cup {whole}
       /\ LET plan == VideoPlan(doc')
          IN  /\ ToSet(plan) = {v \in ToSet(doc'.videos) : ~v.muted}
              /\ \A i \in 1..Len(plan) - 1 : plan[i].start <= plan[i + 1].start]_vars
====
