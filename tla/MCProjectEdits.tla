---- MODULE MCProjectEdits ----
(***************************************************************************)
(* Small documents to edit, one or two for each area of a project.         *)
(***************************************************************************)
EXTENDS ProjectEdits

Audio(n) == [Clean EXCEPT !.name = n]
Ends == <<[Clean EXCEPT !.name = Master, !.type = "master", !.in = None, !.out = Monitor],
          [Clean EXCEPT !.name = Monitor, !.type = "monitor", !.in = Monitor, !.out = MainOut]>>
TakeFile == <<"pool", 1, 1, "wav">>
ClipAt(n, track, start, dur, off) ==
    [id |-> <<n>>, track |-> track, src |-> <<TakeFile, TakeFile>>, start |-> start, dur |-> dur, off |-> off, fin |-> 1, fout |-> 0,
     gain |-> 2, muted |-> FALSE, inv |-> FALSE, locked |-> FALSE, scale |-> 1]
Project(tracks, clips) ==
    NormalizeRouting(RebuildModel([tracks |-> tracks \o Ends, clips |-> clips, files |-> <<>>, defs |-> <<>>, lists |-> <<>>, regions |-> <<>>,
                  tempoMaster |-> tracks[1].name, tempo |-> 2, map |-> <<FirstMarker(2)>>,
                  markers |-> <<>>, points |-> <<>>, sel |-> NoRange, loop |-> NoRange,
                  master |-> <<OwnEffect, Empty>>, videos |-> <<>>, sources |-> {}]))

\* Two clips that continue each other, and a locked one on the other track, beside a folder.
Folder21 == [Audio(21) EXCEPT !.type = "folder"]
Vca31 == [Audio(31) EXCEPT !.type = "vca", !.in = None, !.out = None]
Continued == Project(<<Audio(1), Audio(2), Folder21>>,
                     <<ClipAt(1, 1, 0, 4, 0), ClipAt(2, 1, 4, 2, 4), [ClipAt(3, 2, 1, 3, 1) EXCEPT !.locked = TRUE]>>)
\* Two clips that overlap, with a locked one under the first, beside a VCA.
Overlapping == Project(<<Audio(1), Audio(2), Vca31>>,
                       <<ClipAt(1, 1, 0, 5, 1), ClipAt(2, 1, 3, 3, 2), [ClipAt(3, 1, 0, 2, 3) EXCEPT !.locked = TRUE]>>)

Note(id, pitch, at, len) == [id |-> id, pitch |-> pitch, at |-> at, len |-> len, vel |-> 2, muted |-> FALSE]
RegionAt(id, track, start, dur, notes) ==
    [id |-> id, track |-> track, start |-> start, dur |-> dur, notes |-> notes,
     events |-> <<[id |-> 1, at |-> 1, kind |-> "control", value |-> 1]>>, muted |-> FALSE, locked |-> FALSE]
Midi(n) == [Clean EXCEPT !.name = n, !.type = "midi", !.in = MidiInput, !.out = None]
Melody == [Project(<<Midi(1), Audio(2)>>, <<>>) EXCEPT
    !.regions = <<RegionAt(1, 1, 2, 4, <<Note(1, 1, 0, 5), Note(2, 2, 3, 1), Note(3, 1, 6, 4)>>),
                  [RegionAt(2, 1, 7, 2, <<Note(1, 1, 0, 2)>>) EXCEPT !.locked = TRUE]>>]

Tracks == Project(<<Audio(1),
                    [Audio(2) EXCEPT !.out = FirstBus, !.folder = 21, !.vca = 31],
                    Folder21, Vca31>>, <<ClipAt(1, 2, 0, 2, 0), ClipAt(2, 21, 1, 2, 0)>>)
\* An auxiliary track fed by the only send of another track.
Strips == [Project(<<[Audio(1) EXCEPT !.sends = <<[bus |-> FirstBus, on |-> TRUE]>>,
                                     !.inserts = <<Slot(1), Empty>>],
                    [Audio(11) EXCEPT !.type = "aux", !.in = FirstBus],
                    [Audio(51) EXCEPT !.type = "instrument", !.in = MidiInput, !.rack = <<Slot(1)>>]>>, <<>>)
          EXCEPT !.master = <<Slot(2), OwnEffect, Slot(3)>>]
Points == [Project(<<Audio(1)>>, <<ClipAt(1, 1, 2, 3, 0)>>) EXCEPT
    !.markers = <<[id |-> 1, at |-> 2, value |-> 1], [id |-> 2, at |-> 3, value |-> 1]>>,
    !.points = <<[id |-> 0, at |-> 2, value |-> 1]>>]

\* A track with an alternate take, one with a file from elsewhere, and a folder.
Song == <<"elsewhere", 1, 1, "wav">>
Other == <<"pool", 2, 1, "wav">>
MCFiles == TakeFile :> {[take |-> 1]} @@ Song :> {[take |-> 2]} @@ Other :> {[take |-> 3]}
           @@ <<"elsewhere", 2, 1, "mp3">> :> {[take |-> 4]} @@ <<"elsewhere", 3, 1, "mp3">> :> {}
WithTakes ==
    LET d == Project(<<Audio(1), Audio(2), Folder21>>,
                     <<ClipAt(1, 1, 0, 3, 1), [ClipAt(2, 2, 1, 2, 0) EXCEPT !.src = <<Song, Song>>]>>)
        alternate == [ClipAt(3, 1, 1, 3, 0) EXCEPT !.src = <<Other, Other>>]
    IN  [d EXCEPT !.files = @ @@ Other :> Other, !.defs = @ @@ <<3>> :> Media(alternate),
                  !.lists = NewList(@, 1, FALSE, <<Placement(alternate)>>), !.sel = RangeOf(1, 3)]

MCStart == [clips |-> {Continued, Overlapping}, playlists |-> {Project(<<Audio(1)>>, <<ClipAt(1, 1, 0, 4, 0)>>)},
            tracks |-> {Tracks}, strips |-> {Strips}, midi |-> {Melody}, notes |-> {Melody}, points |-> {Points},
            video |-> {Project(<<Audio(1)>>, <<>>)}, media |-> {WithTakes}, unsaved |-> {WithTakes}]
MCMaxEdits == [clips |-> 2, playlists |-> 3, tracks |-> 2, strips |-> 2, midi |-> 2, notes |-> 2, points |-> 2, video |-> 4,
               media |-> 2, unsaved |-> 1]
MCTimes == {0, 2, 3, 5}
MCDeltas == {-2, 1}
MCGains == {1, 3}
\* One and a half BPM, and a quarter less than three.
MCTempos == {6, 11}
MCTargets == {1, 2, 21, 31, Master}
MCSourceLength == TakeFile :> 8
MCPeaks == TakeFile :> 1
MCTakes == {[events |-> <<[kind |-> "on", pitch |-> 1, at |-> 0], [kind |-> "control", pitch |-> 2, at |-> 1],
                          [kind |-> "on", pitch |-> 2, at |-> 2], [kind |-> "off", pitch |-> 1, at |-> 3]>>, dur |-> 3]}
MCNotation == [pitches |-> {1, 3}, shifts |-> {-3, 2}, q |-> 2]
MCFamily == [audio |-> 1..4, aux |-> {11, 12}, folder |-> {21, 22, 23}, vca |-> {31, 32}, midi |-> {41, 42},
             instrument |-> {51, 52}, copy |-> {71, 72}]

MCFolder == [media |-> "pool", unsaved |-> "temp"]
MCStemName == [track \in {1, 2} |-> 100]
MCOutput == [mix |-> <<"out", 9, 1, "wav">>, stems |-> "out", take |-> 8]
MCReopenedAfter == [MCMaxEdits EXCEPT !.clips = 1]
MCExchangedAfter == [clips |-> 1, tracks |-> 1, midi |-> 1, notes |-> 1, points |-> 2, video |-> 2]
\* Frames of half a second, two ticks to the second.
MCRate == [num |-> 2, den |-> 1, nominal |-> 2, second |-> 2, drop |-> FALSE]

\* The broadcast rate, in tenths of a second.  For an hour, a time code with dropped labels
\* comes back within a tenth of a second; without them it comes back as early as 3.6 s.
Broadcast == [num |-> 2997, den |-> 100, nominal |-> 30, second |-> 10, drop |-> TRUE]
ASSUME DropFrameFollowsTheClock == \A t \in 0..3600 : Gap(FromLabel(Label(10 * t, Broadcast), Broadcast), 10 * t) <= 1

\* A project of a quarter of an hour, in milliseconds.
Long == Project(<<Audio(1), Audio(2)>>, <<ClipAt(1, 1, 0, 9000, 0)>>)
MCLong == [clips |-> {Long}]
MCLongEdits == [clips |-> 1]
MCNoExchange == <<>>
MCNoFolder == <<>>
MCLongTimes == {3600, 1000123}
====
