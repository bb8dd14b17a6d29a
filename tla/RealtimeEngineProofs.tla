------------------------- MODULE RealtimeEngineProofs -------------------------
(***************************************************************************)
(* What holds of the engine for all documents, settings and lengths.       *)
(*                                                                         *)
(* The microphone's buffer: once neither capture nor talkback wants the    *)
(* input, no more of it waits than one callback that had begun before      *)
(* brings.  The input is one field of the engine's record, which some      *)
(* thirty operations rewrite.  Each either leaves it alone (Keeps),        *)
(* empties it unless it is wanted (Settled), or is the callback or the     *)
(* block.                                                                  *)
(*                                                                         *)
(* The playhead: the frames of a block are those due, from where the last  *)
(* one ended.  Each operation leaves the playhead and the loop alone       *)
(* (Stays) or says where it puts them; a block is followed segment by      *)
(* segment round the loop.                                                 *)
(*                                                                         *)
(* The mixer: its routes are rendered after what feeds them, and the waits *)
(* that the compensation of delays gives them make all paths equally late. *)
(* The lists the two algorithms fill are followed round by round, with an  *)
(* invariant of the rounds each (VisitOK, PathOK).                         *)
(***************************************************************************)
EXTENDS RealtimeEngine, TLAPS, NaturalsInduction, WellFoundedInduction, FiniteSetTheorems

Held(e) == "inp" \in DOMAIN e
InputOK(e) ==
    /\ Held(e)
    /\ {"capture", "muted", "talk", "active", "held"} \subseteq DOMAIN e.inp
    /\ e.inp.held \in Nat
InputWanted(e) == e.inp.capture \/ e.inp.talk

Keeps(f, e) == Held(f) /\ f.inp = e.inp
Settled(e) == InputOK(e) /\ (~InputWanted(e) => e.inp.held = 0)

\* The inductive invariant: while a callback is under way the buffer is still empty.
InputInv ==
    /\ InputOK(eng)
    /\ ~InputWanted(eng) => eng.inp.held <= IF push = "none" THEN PushFrames ELSE 0
-----------------------------------------------------------------------------
LEMMA KeepsOK ==
    ASSUME NEW e, NEW f, Keeps(f, e)
    PROVE  (InputOK(e) => InputOK(f)) /\ (Settled(e) => Settled(f)) /\ (InputWanted(f) = InputWanted(e))
PROOF
BY DEF Keeps, InputOK, Settled, InputWanted, Held

LEMMA MinOfTwo ==
    ASSUME NEW a \in Nat, NEW b \in Nat
    PROVE  Min({a, b}) \in {a, b} /\ Min({a, b}) <= a /\ Min({a, b}) <= b
PROOF
<1>1. CASE a <= b
  <2>1. a \in {a, b} /\ \A y \in {a, b} : a <= y
    BY <1>1
  <2>. QED BY <1>1, <2>1 DEF Min
<1>2. CASE ~(a <= b)
  <2>1. b \in {a, b} /\ \A y \in {a, b} : b <= y
    BY <1>2
  <2>. QED BY <1>2, <2>1 DEF Min
<1>. QED BY <1>1, <1>2

LEMMA EmptyInputSettles ==
    ASSUME NEW e, InputOK(e)
    PROVE  Settled(EmptyInput(e)) /\ EmptyInput(e).inp.held = 0
PROOF
<1>1. EmptyInput(e).inp = [[e.inp EXCEPT !.held = 0] EXCEPT !.active = FALSE] /\ Held(EmptyInput(e))
  BY DEF InputOK, Held, EmptyInput
<1>. DEFINE i == [[e.inp EXCEPT !.held = 0] EXCEPT !.active = FALSE]
<1>2. i.held = 0 /\ DOMAIN i = DOMAIN e.inp
  BY DEF InputOK
<1>. HIDE DEF i
<1>. QED BY <1>1, <1>2 DEF Settled, InputOK, i

LEMMA UnwantedSettles ==
    ASSUME NEW e, InputOK(e)
    PROVE  Settled(Unwanted(e))
PROOF
<1>1. CASE InputWanted(e)
  BY <1>1 DEF InputWanted, Unwanted, Settled
<1>2. CASE ~InputWanted(e)
  BY <1>2, EmptyInputSettles DEF InputWanted, Unwanted
<1>. QED BY <1>1, <1>2

LEMMA PolicySettles ==
    ASSUME NEW e, InputOK(e)
    PROVE  Settled(UpdatePolicy(e))
PROOF
<1>. DEFINE c == e.set.low /\ e.set.channels > 0 /\ Eligible(e) # <<>>
            m == /\ Eligible(e) # <<>>
                 /\ LET t == Head(Eligible(e))
                    IN t.mute \/ (~t.solo /\ \E x \in Range(e.plan.tracks) :
                                    x.solo /\ x.name \notin {MasterName, MonitorName})
            f == [e EXCEPT !.inp.capture = c, !.inp.muted = m]
<1>1. UpdatePolicy(e) = Unwanted(f)
  BY DEF UpdatePolicy
<1>. HIDE DEF c, m
<1>2. f.inp = [[e.inp EXCEPT !.capture = c] EXCEPT !.muted = m] /\ Held(f)
  BY DEF InputOK, Held
<1>. DEFINE i == [[e.inp EXCEPT !.capture = c] EXCEPT !.muted = m]
<1>3. i.held = e.inp.held /\ DOMAIN i = DOMAIN e.inp
  BY DEF InputOK
<1>. HIDE DEF i, f
<1>4. InputOK(f)
  BY <1>2, <1>3 DEF InputOK, i
<1>. QED BY <1>1, <1>4, UnwantedSettles

\* Setting the talkback leaves a buffer, wanted or not.
LEMMA TalkOK ==
    ASSUME NEW e, InputOK(e), NEW on
    PROVE  InputOK([e EXCEPT !.inp.talk = on])
PROOF
<1>. DEFINE i == [e.inp EXCEPT !.talk = on]
            f == [e EXCEPT !.inp.talk = on]
<1>1. f.inp = i /\ Held(f)
  BY DEF InputOK, Held
<1>2. i.held = e.inp.held /\ DOMAIN i = DOMAIN e.inp
  BY DEF InputOK
<1>. HIDE DEF i, f
<1>. QED BY <1>1, <1>2 DEF InputOK, f
-----------------------------------------------------------------------------
\* Operations that leave the input alone.
LEMMA SyncMonitorKeeps == ASSUME NEW e, Held(e) PROVE Keeps(SyncMonitor(e), e)
BY DEF SyncMonitor, Keeps, Held

LEMMA PrepareOutputKeeps == ASSUME NEW e, Held(e), NEW broken PROVE Keeps(PrepareOutput(e, broken), e)
BY DEF PrepareOutput, Keeps, Held

LEMMA BareKeeps == ASSUME NEW e, Held(e) PROVE Keeps(Bare(e), e)
BY DEF Bare, Keeps, Held

LEMMA PrepareChainsKeeps ==
    ASSUME NEW e, Held(e), NEW served, NEW broken
    PROVE  Keeps(PrepareChains(e, served, broken).e, e)
PROOF
<1>1. CASE ~Healthy(e.plan.master, broken)
  BY <1>1, BareKeeps DEF PrepareChains
<1>2. CASE Healthy(e.plan.master, broken)
  <2>. DEFINE o == PrepareOutput(Bare(e), broken)
              c == BesideChains(e, SelectSeq(e.plan.tracks, BesideGraph), served, broken)
              f == [o EXCEPT !.rt.sig = Signature(e), !.rt.master = Len(e.plan.master),
                             !.rt.tracks = c]
  <2>1. Keeps(o, e)
    BY BareKeeps, PrepareOutputKeeps DEF Keeps
  <2>2. PrepareChains(e, served, broken).e = Waiting(f)
    BY <1>2 DEF PrepareChains
  <2>. HIDE DEF o, c
  <2>3. Keeps(f, e)
    BY <2>1 DEF Keeps, Held
  <2>. HIDE DEF f
  <2>4. Keeps(Waiting(f), f)
    BY <2>3 DEF Waiting, Keeps, Held
  <2>. QED BY <2>2, <2>3, <2>4 DEF Keeps
<1>. QED BY <1>1, <1>2

LEMMA WarmKeeps == ASSUME NEW e, Held(e), NEW broken PROVE Keeps(Warm(e, broken), e)
BY DEF Warm, Keeps, Held

LEMMA RenewKeeps ==
    ASSUME NEW e, Held(e), NEW served, NEW broken
    PROVE  Keeps(Renew(e, served, broken).e, e)
PROOF
<1>1. CASE ~e.ready
  BY <1>1 DEF Renew, Keeps
<1>2. CASE e.ready /\ Signature(e) = e.rt.sig
  <2>. DEFINE f == [e EXCEPT !.wait = Reported(e)]
  <2>1. Keeps(f, e)
    BY DEF Keeps, Held
  <2>2. Renew(e, served, broken).e = Warm(f, broken)
    BY <1>2 DEF Renew
  <2>. HIDE DEF f
  <2>. QED BY <2>1, <2>2, WarmKeeps DEF Keeps
<1>3. CASE e.ready /\ Signature(e) # e.rt.sig
  <2>. DEFINE p == PrepareChains(e, served, broken)
  <2>1. Keeps(p.e, e)
    BY PrepareChainsKeeps
  <2>2. Renew(e, served, broken) = Renewed(p, broken)
    BY <1>3 DEF Renew
  <2>. HIDE DEF p
  <2>3. Keeps(Fading(p.e), p.e)
    BY <2>1 DEF Fading, Keeps, Held
  <2>4. Keeps(Warm(Fading(p.e), broken), p.e)
    BY <2>3, WarmKeeps DEF Keeps
  <2>5. Renewed(p, broken).e \in {p.e, Warm(Fading(p.e), broken)}
    BY DEF Renewed
  <2>. QED BY <2>1, <2>2, <2>4, <2>5 DEF Keeps
<1>. QED BY <1>1, <1>2, <1>3

LEMMA PlaceAtKeeps == ASSUME NEW e, Held(e), NEW at PROVE Keeps(PlaceAt(e, at), e)
BY DEF PlaceAt, Keeps, Held

LEMMA NoTraceKeeps == ASSUME NEW e, Held(e) PROVE Keeps(NoTrace(e), e)
BY DEF NoTrace, Keeps, Held

LEMMA SeekKeeps == ASSUME NEW e, Held(e), NEW at PROVE Keeps(Seek(e, at), e)
PROOF
<1>1. Keeps(NoTrace(PlaceAt(e, at)), e)
  BY PlaceAtKeeps, NoTraceKeeps DEF Keeps
<1>. QED BY <1>1 DEF Seek, Keeps, Held

LEMMA RewindKeeps == ASSUME NEW e, Held(e) PROVE Keeps(Rewind(e), e)
PROOF
<1>1. Keeps(NoTrace(PlaceAt(e, 0)), e)
  BY PlaceAtKeeps, NoTraceKeeps DEF Keeps
<1>. QED BY <1>1 DEF Rewind, Keeps, Held

LEMMA TransportKeeps ==
    ASSUME NEW e, Held(e), NEW on
    PROVE  Keeps(ArmSeekRamp(e), e) /\ Keeps(SetRunning(e, on), e)
BY DEF ArmSeekRamp, SetRunning, Keeps, Held
-----------------------------------------------------------------------------
\* Operations after which the input is empty unless it is wanted.
LEMMA ResetRuntimeSettles == ASSUME NEW e, InputOK(e) PROVE Settled(ResetRuntime(e))
PROOF
<1>. DEFINE f == EmptyInput(e)
            g == [f EXCEPT !.rs = Fresh, !.rt = [NoChains EXCEPT !.output = e.rt.output],
                           !.prev = IF e.ready THEN @ ELSE 0,
                           !.fade = IF e.ready /\ e.prev > 0 THEN @ ELSE 0, !.mods = 0]
            h == [g EXCEPT !.inp.capture = FALSE, !.inp.talk = FALSE]
            r == [h EXCEPT !.play = 0, !.ready = FALSE]
<1>1. ResetRuntime(e) = r
  BY DEF ResetRuntime
<1>2. Settled(f) /\ f.inp.held = 0
  BY EmptyInputSettles
<1>. HIDE DEF f
<1>3. Keeps(g, f)
  BY <1>2 DEF Keeps, Held, Settled, InputOK
<1>. HIDE DEF g
<1>. DEFINE i == [[g.inp EXCEPT !.capture = FALSE] EXCEPT !.talk = FALSE]
<1>4. Held(h) /\ h.inp = i
  BY <1>3 DEF Keeps, Held
<1>5. i.held = 0 /\ DOMAIN i = DOMAIN g.inp
  BY <1>2, <1>3 DEF Keeps, Settled, InputOK
<1>. HIDE DEF h, i
<1>6. Keeps(r, h)
  BY <1>4 DEF Keeps, Held
<1>7. InputOK(h) /\ h.inp.held = 0
  BY <1>2, <1>3, <1>4, <1>5 DEF Keeps, Settled, InputOK
<1>. HIDE DEF r
<1>. QED BY <1>1, <1>6, <1>7, KeepsOK DEF Settled

LEMMA LoadAudioFileSettles ==
    ASSUME NEW e, InputOK(e), NEW length
    PROVE  Settled(LoadAudioFile(e, length))
PROOF
<1>. DEFINE p == PlaceAt(e, 0)
            f == [p EXCEPT !.file = length, !.plan = NoPlan, !.rs = Fresh,
                           !.rt = [NoChains EXCEPT !.output = e.rt.output], !.wait = 0]
<1>1. LoadAudioFile(e, length) = UpdatePolicy(f)
  BY DEF LoadAudioFile
<1>2. Keeps(p, e)
  BY PlaceAtKeeps DEF InputOK
<1>. HIDE DEF p
<1>3. Keeps(f, p)
  BY <1>2 DEF Keeps, Held
<1>. HIDE DEF f
<1>. QED BY <1>1, <1>2, <1>3, KeepsOK, PolicySettles

LEMMA AdoptSettles ==
    ASSUME NEW e, InputOK(e), NEW doc
    PROVE  Settled(Adopt(e, doc))
PROOF
<1>. DEFINE plan == [MakePlan(doc) EXCEPT !.recording = e.set.recording, !.effects = TRUE]
            f == [e EXCEPT !.plan = plan, !.rs = Fresh, !.set.pdc = doc.pdc, !.set.low = doc.low,
                           !.set.talk = doc.talk, !.set.route = doc.route,
                           !.set.speaker = doc.speaker]
            g == [f EXCEPT !.inp.talk = doc.talk]
            h == [g EXCEPT !.mods = 0, !.file = 0]
<1>1. Adopt(e, doc) = SyncMonitor(UpdatePolicy(h))
  BY DEF Adopt
<1>. HIDE DEF plan
<1>2. Keeps(f, e)
  BY DEF Keeps, Held, InputOK
<1>. HIDE DEF f
<1>3. InputOK(g)
  BY <1>2, KeepsOK, TalkOK
<1>. HIDE DEF g
<1>4. Keeps(h, g)
  BY <1>3 DEF Keeps, Held, InputOK
<1>. HIDE DEF h
<1>5. Settled(UpdatePolicy(h))
  BY <1>3, <1>4, KeepsOK, PolicySettles
<1>6. Keeps(SyncMonitor(UpdatePolicy(h)), UpdatePolicy(h))
  BY <1>5, SyncMonitorKeeps DEF Settled, InputOK
<1>. QED BY <1>1, <1>5, <1>6, KeepsOK

LEMMA ProjectSettles ==
    ASSUME NEW e, InputOK(e), NEW doc, NEW served, NEW broken
    PROVE  /\ Settled(UpdateProject(e, doc, served, broken).e)
           /\ Settled(LoadProject(e, doc, served, broken).e)
PROOF
<1>1. ASSUME NEW f, InputOK(f) PROVE Settled(Renew(Adopt(f, doc), served, broken).e)
  <2>1. Settled(Adopt(f, doc))
    BY <1>1, AdoptSettles
  <2>2. Keeps(Renew(Adopt(f, doc), served, broken).e, Adopt(f, doc))
    BY <2>1, RenewKeeps DEF Settled, InputOK
  <2>. QED BY <2>1, <2>2, KeepsOK
<1>2. Keeps(PlaceAt(NoTrace(e), 0), e)
  BY NoTraceKeeps, PlaceAtKeeps DEF Keeps, InputOK
<1>3. InputOK(PlaceAt(NoTrace(e), 0))
  BY <1>2, KeepsOK
<1>. QED BY <1>1, <1>3 DEF UpdateProject, LoadProject

LEMMA ConfigureSettles ==
    ASSUME NEW e, InputOK(e), NEW set, NEW served, NEW broken
    PROVE  Settled(Configure(e, set, served, broken).e)
PROOF
<1>. DEFINE f == [e EXCEPT !.set = set, !.size = set.size, !.ready = TRUE,
                           !.plan.recording = set.recording, !.path = Steady, !.mods = 0]
            g == [f EXCEPT !.inp.talk = set.talk, !.inp.active = FALSE]
            i == [[f.inp EXCEPT !.talk = set.talk] EXCEPT !.active = FALSE]
<1>1. Configure(e, set, served, broken) = PrepareChains(UpdatePolicy(g), served, broken)
  BY DEF Configure
<1>2. Keeps(f, e)
  BY DEF Keeps, Held, InputOK
<1>. HIDE DEF f
<1>3. Held(g) /\ g.inp = i
  BY <1>2 DEF Keeps, Held
<1>4. i.held = e.inp.held /\ DOMAIN i = DOMAIN e.inp
  BY <1>2 DEF Keeps, InputOK
<1>. HIDE DEF g, i
<1>5. Settled(UpdatePolicy(g))
  BY <1>3, <1>4, PolicySettles DEF InputOK
<1>6. Keeps(PrepareChains(UpdatePolicy(g), served, broken).e, UpdatePolicy(g))
  BY <1>5, PrepareChainsKeeps DEF Settled, InputOK
<1>. QED BY <1>1, <1>5, <1>6, KeepsOK

LEMMA SetTalkbackSettles ==
    ASSUME NEW e, InputOK(e), NEW on, NEW route
    PROVE  Settled(SetTalkback(e, on, route))
PROOF
<1>. DEFINE f == [e EXCEPT !.set.talk = on, !.set.route = route]
            g == [f EXCEPT !.inp.talk = on]
<1>1. SetTalkback(e, on, route) = Unwanted(g)
  BY DEF SetTalkback
<1>2. Keeps(f, e)
  BY DEF Keeps, Held, InputOK
<1>. HIDE DEF f
<1>3. InputOK(g)
  BY <1>2, KeepsOK, TalkOK
<1>. QED BY <1>1, <1>3, UnwantedSettles

LEMMA SetRecordingSettles ==
    ASSUME NEW e, InputOK(e), NEW on
    PROVE  Settled(SetRecording(e, on))
PROOF
<1>. DEFINE f == [e EXCEPT !.set.recording = on, !.plan.recording = on]
<1>1. Keeps(f, e)
  BY DEF Keeps, Held, InputOK
<1>2. SetRecording(e, on) = SyncMonitor(UpdatePolicy(f))
  BY DEF SetRecording
<1>. HIDE DEF f
<1>3. Settled(UpdatePolicy(f))
  BY <1>1, KeepsOK, PolicySettles
<1>4. Keeps(SyncMonitor(UpdatePolicy(f)), UpdatePolicy(f))
  BY <1>3, SyncMonitorKeeps DEF Settled, InputOK
<1>. QED BY <1>2, <1>3, <1>4, KeepsOK

\* A change of one track, whatever is done to it.
LEMMA TracksKeep ==
    ASSUME NEW e, Held(e), NEW k, NEW t
    PROVE  Keeps([e EXCEPT !.plan.tracks[k] = t], e)
BY DEF Keeps, Held

LEMMA TrackSettles ==
    ASSUME NEW e, InputOK(e), NEW n, NEW arm, NEW mon, NEW mute, NEW solo, NEW i, NEW on
    PROVE  /\ Settled(UpdateTrackSend(e, n, i, on))
           /\ Settled(UpdateTrackPlayback(e, n, mute, solo))
           /\ Settled(UpdateTrackRealtime(e, n, arm, mon, mute, solo))
PROOF
<1>1. ASSUME NEW k, NEW t PROVE Settled(UpdatePolicy([e EXCEPT !.plan.tracks[k] = t]))
  <2>1. Keeps([e EXCEPT !.plan.tracks[k] = t], e)
    BY TracksKeep DEF InputOK
  <2>. DEFINE f == [e EXCEPT !.plan.tracks[k] = t]
  <2>. HIDE DEF f
  <2>. QED BY <2>1, KeepsOK, PolicySettles DEF f
<1>. QED BY <1>1 DEF UpdateTrackSend, UpdateTrackPlayback, UpdateTrackRealtime, OnTrack

LEMMA LiveKeeps ==
    ASSUME NEW e, Held(e), NEW n, NEW i, NEW value, NEW on, NEW path, NEW server, NEW event
    PROVE  /\ Keeps(SetTestTone(e, on), e)
           /\ Keeps(UpdateTrackBypass(e, n, i, on), e)
           /\ Keeps(UpdateTrackParameter(e, n, i, value), e)
           /\ Keeps(UpdateMasterBypass(e, i, on), e)
           /\ Keeps(UpdateMasterParameter(e, i, value), e)
           /\ Keeps(UpdateSpeakerParameter(e, i, value), e)
           /\ Keeps(SetMonitorPath(e, path, server), e)
           /\ Keeps(QueueLive(e, n, event), e)
           /\ Keeps(SetMetronome(e, on), e)
PROOF
<1>1. Keeps(SetTestTone(e, on), e) /\ Keeps(SetMetronome(e, on), e)
  BY DEF SetTestTone, SetMetronome, SyncMonitor, Keeps, Held
<1>2. Keeps(UpdateTrackBypass(e, n, i, on), e)
  BY DEF UpdateTrackBypass, OnTrack, Keeps, Held
<1>3. Keeps(UpdateTrackParameter(e, n, i, value), e)
  BY DEF UpdateTrackParameter, OnTrack, Keeps, Held
<1>4. Keeps(UpdateMasterBypass(e, i, on), e) /\ Keeps(UpdateMasterParameter(e, i, value), e)
  BY DEF UpdateMasterBypass, UpdateMasterParameter, Keeps, Held
<1>5. Keeps(UpdateSpeakerParameter(e, i, value), e)
  BY DEF UpdateSpeakerParameter, Keeps, Held
<1>6. Keeps(SetMonitorPath(e, path, server), e)
  BY DEF SetMonitorPath, SyncMonitor, Keeps, Held
<1>7. Keeps(QueueLive(e, n, event), e)
  BY DEF QueueLive, Keeps, Held
<1>. QED BY <1>1, <1>2, <1>3, <1>4, <1>5, <1>6, <1>7

LEMMA SetMonitorModulesKeeps ==
    ASSUME NEW e, Held(e), NEW speaker, NEW on, NEW target, NEW broken
    PROVE  Keeps(SetMonitorModules(e, speaker, on, target, broken), e)
BY DEF SetMonitorModules, PrepareOutput, SyncMonitor, Keeps, Held
-----------------------------------------------------------------------------
\* The callback and the block.
LEMMA PushInputAdds ==
    ASSUME NEW e, InputOK(e), NEW frames \in Nat, NEW talk
    PROVE  LET f == PushInput(e, frames, talk)
           IN  /\ InputOK(f) /\ InputWanted(f) = InputWanted(e)
               /\ f.inp.held <= e.inp.held + frames
PROOF
<1>. DEFINE f == PushInput(e, frames, talk)
            limit == IF talk THEN TalkLimit ELSE InputLimit
            n == Min({e.inp.held + frames, limit})
            i == [[e.inp EXCEPT !.held = n] EXCEPT !.active = TRUE]
<1>1. f.inp = i /\ Held(f)
  BY DEF PushInput, InputOK, Held
<1>2. n \in Nat /\ n <= e.inp.held + frames
  <2>1. limit \in Nat /\ e.inp.held + frames \in Nat
    BY LengthsAssumption DEF InputOK
  <2>. HIDE DEF limit
  <2>2. n \in {e.inp.held + frames, limit} /\ n <= e.inp.held + frames
    BY <2>1, MinOfTwo
  <2>. QED BY <2>1, <2>2
<1>. HIDE DEF f, n
<1>3. i.held = n /\ i.capture = e.inp.capture /\ i.talk = e.inp.talk /\ DOMAIN i = DOMAIN e.inp
  BY DEF InputOK
<1>. HIDE DEF i
<1>4. InputOK(f) /\ InputWanted(f) = InputWanted(e) /\ f.inp.held = n
  BY <1>1, <1>2, <1>3 DEF InputOK, InputWanted
<1>. QED BY <1>2, <1>4 DEF f

\* What a step of a block may do with the input: take some of it.
Takes(f, e) == /\ InputOK(f) /\ InputWanted(f) = InputWanted(e)
               /\ f.inp.held <= e.inp.held

LEMMA KeepsTakes ==
    ASSUME NEW e, InputOK(e), NEW f, Keeps(f, e)
    PROVE  Takes(f, e)
PROOF
<1>1. e.inp.held \in Nat /\ f.inp.held = e.inp.held
  BY DEF InputOK, Keeps
<1>2. f.inp.held <= e.inp.held
  BY <1>1
<1>. QED BY <1>2, KeepsOK DEF Takes

LEMMA TakesTwice ==
    ASSUME NEW e, NEW f, NEW g, InputOK(e), Takes(f, e), Takes(g, f)
    PROVE  Takes(g, e)
BY DEF Takes, InputOK

LEMMA MixInputTakes ==
    ASSUME NEW e, InputOK(e), NEW size \in Nat
    PROVE  Takes(MixInput(e, size), e)
PROOF
<1>1. CASE ~MixesInput(e)
  BY <1>1, KeepsTakes DEF MixInput, Keeps, InputOK
<1>2. CASE MixesInput(e)
  <2>. DEFINE f == MixInput(e, size)
              n == e.inp.held - Min({size, e.inp.held})
              i == [e.inp EXCEPT !.held = n]
  <2>1. f.inp = i /\ Held(f)
    BY <1>2 DEF MixInput, InputOK, Held
  <2>2. n \in Nat /\ n <= e.inp.held
    <3>1. e.inp.held \in Nat
      BY DEF InputOK
    <3>2. Min({size, e.inp.held}) \in {size, e.inp.held} /\ Min({size, e.inp.held}) <= e.inp.held
      BY <3>1, MinOfTwo
    <3>3. Min({size, e.inp.held}) \in Nat
      BY <3>1, <3>2
    <3>. QED BY <3>1, <3>2, <3>3
  <2>. HIDE DEF f, n
  <2>3. i.held = n /\ i.capture = e.inp.capture /\ i.talk = e.inp.talk /\ DOMAIN i = DOMAIN e.inp
    BY DEF InputOK
  <2>. HIDE DEF i
  <2>4. InputOK(f) /\ InputWanted(f) = InputWanted(e) /\ f.inp.held <= e.inp.held
    BY <2>1, <2>2, <2>3 DEF InputOK, InputWanted
  <2>. QED BY <2>4 DEF Takes, f
<1>. QED BY <1>1, <1>2

LEMMA OutsideMonitorKeeps ==
    ASSUME NEW e, Held(e), NEW size, NEW inside, NEW answers
    PROVE  Keeps(OutsideMonitor(e, size, inside, answers), e)
PROOF
<1>1. Keeps(Monitoring(e, size, answers), e)
  <2>1. CASE e.path.left > 0
    BY <2>1 DEF Monitoring, Keeps, Held
  <2>2. CASE ~(e.path.left > 0) /\ e.path.left = 0 /\ e.mods > 0
    BY <2>2 DEF Monitoring, SyncMonitor, Keeps, Held
  <2>3. CASE ~(e.path.left > 0) /\ ~(e.path.left = 0 /\ e.mods > 0)
    BY <2>3 DEF Monitoring, Keeps, Held
  <2>. QED BY <2>1, <2>2, <2>3
<1>. QED BY <1>1 DEF OutsideMonitor, Keeps

LEMMA SoundingTakes ==
    ASSUME NEW e, InputOK(e), NEW size \in Nat, NEW inside, NEW env
    PROVE  Takes(Sounding(e, size, inside, env), e)
PROOF
<1>. DEFINE m == IF env.busy THEN e ELSE MixInput(e, size)
            o == OutsideMonitor(m, size, inside, env.answers)
            p == PlayOutput(o, env.broken)
            f == Fade(p, size)
            r == Moved(f, size)
<1>1. Sounding(e, size, inside, env) = r
  BY DEF Sounding
<1>2. Takes(m, e) /\ InputOK(m)
  <2>1. Takes(e, e)
    BY KeepsTakes DEF Keeps, InputOK
  <2>. QED BY <2>1, MixInputTakes DEF Takes
<1>. HIDE DEF m
<1>3. Keeps(o, m)
  BY <1>2, OutsideMonitorKeeps DEF InputOK
<1>. HIDE DEF o
<1>4. Keeps(p, o)
  BY <1>3 DEF PlayOutput, Keeps, Held
<1>. HIDE DEF p
<1>5. Keeps(f, p)
  BY <1>4 DEF Fade, Keeps, Held
<1>. HIDE DEF f
<1>6. Keeps(r, f)
  BY <1>5 DEF Moved, Keeps, Held
<1>. HIDE DEF r
<1>7. Keeps(r, m)
  BY <1>3, <1>4, <1>5, <1>6 DEF Keeps
<1>. QED BY <1>1, <1>2, <1>7, KeepsTakes, TakesTwice

LEMMA RenderTakes ==
    ASSUME NEW e, InputOK(e), NEW size \in Nat, NEW env
    PROVE  Takes(Render(e, size, env).e, e)
PROOF
<1>. DEFINE s == SyncMonitor(e)
            q == Quiet(s)
            made == Segments(q, size, env.broken)
            t == Taken(q, made)
<1>1. Keeps(s, e)
  BY SyncMonitorKeeps DEF InputOK
<1>. HIDE DEF s
<1>2. Keeps(q, s)
  BY <1>1 DEF Quiet, Keeps, Held
<1>3. Keeps(q, e) /\ InputOK(q) /\ Takes(q, e)
  BY <1>1, <1>2, KeepsOK, KeepsTakes DEF Keeps
<1>4. Render(e, size, env) = RenderFrom(q, size, env)
  BY DEF Render, s
<1>. HIDE DEF q
<1>5. CASE HasContent(q)
  <2>1. RenderFrom(q, size, env).e = Sounding(t, size, q.plan.monitorDsp, env)
    BY <1>5 DEF RenderFrom, Heard
  <2>. HIDE DEF made
  <2>2. Keeps(t, q)
    BY <1>3 DEF Taken, Keeps, Held, InputOK
  <2>. HIDE DEF t
  <2>3. InputOK(t) /\ Takes(t, q)
    BY <1>3, <2>2, KeepsOK, KeepsTakes
  <2>4. Takes(Sounding(t, size, q.plan.monitorDsp, env), t)
    BY <2>3, SoundingTakes
  <2>5. Takes(Sounding(t, size, q.plan.monitorDsp, env), q)
    BY <1>3, <2>3, <2>4, TakesTwice
  <2>. QED BY <1>3, <1>4, <2>1, <2>5, TakesTwice
<1>6. CASE ~HasContent(q)
  <2>1. RenderFrom(q, size, env).e = Sounding(q, size, FALSE, env)
    BY <1>6 DEF RenderFrom
  <2>2. Takes(Sounding(q, size, FALSE, env), q)
    BY <1>3, SoundingTakes
  <2>. QED BY <1>3, <1>4, <2>1, <2>2, TakesTwice
<1>. QED BY <1>5, <1>6
-----------------------------------------------------------------------------
\* The device's size stays a number.
DeviceOK(d) == "size" \in DOMAIN d /\ d.size \in Nat

LEMMA DeviceSteps ==
    ASSUME NEW d, DeviceOK(d), NEW e, NEW on
    PROVE  /\ DeviceOK(RefreshInput(d, e)) /\ DeviceOK(StartInput(d, e)) /\ DeviceOK(Uncounted(d))
           /\ DeviceOK(Stopped(d)) /\ DeviceOK(Counted(d))
           /\ DeviceOK([d EXCEPT !.queue = on]) /\ DeviceOK([d EXCEPT !.click = on])
           /\ DeviceOK([d EXCEPT !.talk = on]) /\ DeviceOK([d EXCEPT !.allowed = on])
BY DEF DeviceOK, RefreshInput, StartInput, Uncounted, Stopped, Counted

LEMMA OpenedOK ==
    ASSUME NEW set, set.size \in Nat, NEW e
    PROVE  DeviceOK(Opened(set, e))
PROOF
<1>. DEFINE d == [Closed EXCEPT !.running = TRUE, !.unit = TRUE, !.allowed = set.allowed,
                                !.talk = set.talk, !.click = set.click, !.size = set.size,
                                !.quiet = dev.quiet]
<1>1. DeviceOK(d)
  BY DEF DeviceOK, Closed
<1>. HIDE DEF d
<1>2. DeviceOK(StartInput(d, e))
  BY <1>1, DeviceSteps
<1>. QED BY <1>2 DEF Opened, d

LEMMA UnopenedOK ==
    ASSUME NEW set, set.size \in Nat, DeviceOK(dev)
    PROVE  DeviceOK(Unopened(set))
PROOF
<1>1. DeviceOK(Stopped(dev))
  BY DeviceSteps
<1>. DEFINE d == Stopped(dev)
<1>. HIDE DEF d
<1>2. DeviceOK([d EXCEPT !.allowed = set.allowed, !.talk = set.talk, !.click = set.click,
                         !.size = set.size, !.count = 0])
  BY <1>1 DEF DeviceOK, d
<1>. QED BY <1>2 DEF Unopened, d
-----------------------------------------------------------------------------
IInv == InputInv /\ DeviceOK(dev)

\* A step that leaves the buffer settled, or leaves it and the callback alone.
LEMMA SettledStep ==
    ASSUME IInv, DeviceOK(dev'), Settled(eng')
    PROVE  IInv'
PROOF
<1>1. (IF push' = "none" THEN PushFrames ELSE 0) \in Nat
  BY FramesAssumption
<1>2. InputOK(eng') /\ (~InputWanted(eng') => eng'.inp.held = 0)
  BY DEF Settled
<1>. QED BY <1>1, <1>2 DEF IInv, InputInv, InputOK, Held, InputWanted, DeviceOK

LEMMA TakingStep ==
    ASSUME IInv, DeviceOK(dev'), Takes(eng', eng), push' = push
    PROVE  IInv'
PROOF
<1>1. InputOK(eng') /\ InputWanted(eng') = InputWanted(eng) /\ eng'.inp.held <= eng.inp.held
      /\ eng'.inp.held \in Nat /\ eng.inp.held \in Nat
  BY DEF Takes, IInv, InputInv, InputOK
<1>2. (IF push = "none" THEN PushFrames ELSE 0) \in Nat
  BY FramesAssumption
<1>3. ~InputWanted(eng') => eng'.inp.held <= IF push = "none" THEN PushFrames ELSE 0
  BY <1>1, <1>2 DEF IInv, InputInv
<1>. QED BY <1>1, <1>3 DEF IInv, InputInv, InputOK, Held, InputWanted, DeviceOK

LEMMA KeepingStep ==
    ASSUME IInv, DeviceOK(dev'), Keeps(eng', eng), push' = push
    PROVE  IInv'
BY KeepsTakes, TakingStep DEF IInv, InputInv

LEMMA InitIInv == Init => IInv
PROOF
<1>. SUFFICES ASSUME Init PROVE IInv
  OBVIOUS
<1>1. eng.inp = [capture |-> FALSE, muted |-> FALSE, talk |-> FALSE, active |-> FALSE, held |-> 0]
      /\ "inp" \in DOMAIN eng
  BY DEF Init, Idle
<1>2. DeviceOK(dev)
  BY DEF Init, Closed, DeviceOK
<1>. QED BY <1>1, <1>2, FramesAssumption DEF Init, IInv, InputInv, InputOK, Held, InputWanted

LEMMA StartIInv ==
    ASSUME IInv, NEW set \in Settings, NEW stopped \in {eng, ResetRuntime(eng)},
           NEW trouble, Start(stopped, set, trouble), push' = push
    PROVE  IInv'
PROOF
<1>1. PICK made \in {Prepared(stopped, set, trouble)} :
        \/ /\ made.ok
           /\ eng' = made.e /\ dev' = Opened(set, made.e) /\ cue' = cue
        \/ /\ eng' \in {stopped, made.e} \cup (IF made.ok THEN {ResetRuntime(made.e)} ELSE {})
           /\ dev' = Unopened(set)
           /\ cue' = eng'.play
  BY DEF Start
<1>. DEFINE conf == Configure(stopped, set, trouble.served, trouble.broken)
<1>2. InputOK(eng) /\ Settled(ResetRuntime(eng)) /\ DeviceOK(dev)
  BY ResetRuntimeSettles DEF IInv, InputInv
<1>3. InputOK(stopped)
  BY <1>2 DEF Settled
<1>4. Settled(conf.e)
  BY <1>3, ConfigureSettles
<1>5. Settled(made.e)
  <2>1. made = Back(conf, eng.play)
    BY DEF Prepared
  <2>. HIDE DEF conf
  <2>2. Held(conf.e)
    BY <1>4 DEF Settled, InputOK
  <2>3. made.e \in {conf.e, Seek(conf.e, eng.play)}
    <3>1. CASE conf.ok /\ eng.play > 0
      <4>1. "e" \in DOMAIN conf
        BY DEF conf, Configure, PrepareChains
      <4>. QED BY <2>1, <3>1, <4>1 DEF Back
    <3>2. CASE ~(conf.ok /\ eng.play > 0)
      BY <2>1, <3>2 DEF Back
    <3>. QED BY <3>1, <3>2
  <2>4. Keeps(Seek(conf.e, eng.play), conf.e)
    BY <2>2, SeekKeeps
  <2>. QED BY <1>4, <2>3, <2>4, KeepsOK
<1>6. Settled(ResetRuntime(made.e))
  BY <1>5, ResetRuntimeSettles DEF Settled
<1>7. DeviceOK(dev')
  <2>1. set.size \in Nat
    BY FramesAssumption
  <2>. QED BY <1>1, <1>2, <2>1, OpenedOK, UnopenedOK
<1>8. CASE eng' = eng
  BY <1>2, <1>7, <1>8, KeepingStep DEF Keeps, InputOK
<1>9. CASE Settled(eng')
  BY <1>7, <1>9, SettledStep
<1>. QED BY <1>1, <1>2, <1>5, <1>6, <1>8, <1>9

LEMMA NextIInv == IInv /\ [Next]_vars => IInv'
PROOF
<1>. SUFFICES ASSUME IInv, [Next]_vars PROVE IInv'
  OBVIOUS
<1>0. InputOK(eng) /\ Held(eng) /\ DeviceOK(dev)
  BY DEF IInv, InputInv, InputOK
<1>1. CASE Open
  <2>1. PICK doc \in Docs, trouble \in Troubles :
          \E first \in {LoadProject(eng, doc, trouble.served, trouble.broken)} :
          \E conf \in {Configure(ResetRuntime(first.e), Opening, trouble.served, trouble.broken)} :
          \E again \in {LoadProject(conf.e, doc, trouble.served, trouble.broken)} :
          \E opened \in {Opened(Opening, conf.e)} :
            /\ eng' = again.e
            /\ dev' = IF again.ok THEN RefreshInput(Uncounted(opened), again.e) ELSE opened
    BY <1>1 DEF Open
  <2>. DEFINE first == LoadProject(eng, doc, trouble.served, trouble.broken)
              conf == Configure(ResetRuntime(first.e), Opening, trouble.served, trouble.broken)
              again == LoadProject(conf.e, doc, trouble.served, trouble.broken)
              opened == Opened(Opening, conf.e)
  <2>2. eng' = again.e /\ dev' = IF again.ok THEN RefreshInput(Uncounted(opened), again.e) ELSE opened
    BY <2>1
  <2>3. Settled(first.e)
    BY <1>0, ProjectSettles
  <2>. HIDE DEF first
  <2>4. Settled(conf.e)
    BY <2>3, ResetRuntimeSettles, ConfigureSettles DEF Settled
  <2>. HIDE DEF conf
  <2>5. Settled(again.e)
    BY <2>4, ProjectSettles DEF Settled
  <2>. HIDE DEF again
  <2>6. DeviceOK(opened)
    BY FramesAssumption, OpenedOK
  <2>. HIDE DEF opened
  <2>7. DeviceOK(Uncounted(opened))
    BY <2>6, DeviceSteps
  <2>8. DeviceOK(RefreshInput(Uncounted(opened), again.e))
    BY <2>7, DeviceSteps
  <2>. QED BY <2>2, <2>5, <2>6, <2>8, SettledStep
<1>2. CASE Restart
  <2>1. push' = push /\ \E set \in Settings, stopped \in {eng, ResetRuntime(eng)}, trouble \in Troubles :
                            Start(stopped, set, trouble)
    BY <1>2 DEF Restart, Reload, Call
  <2>. QED BY <2>1, StartIInv
<1>3. CASE Stop
  <2>1. push' = push /\ dev' = Stopped(dev) /\ eng' \in {eng, ResetRuntime(eng)}
    BY <1>3 DEF Stop, Reload, Call
  <2>2. DeviceOK(dev')
    BY <1>0, <2>1, DeviceSteps
  <2>3. CASE eng' = eng
    BY <1>0, <2>1, <2>2, <2>3, KeepingStep DEF Keeps
  <2>4. CASE eng' = ResetRuntime(eng)
    BY <1>0, <2>2, <2>4, ResetRuntimeSettles, SettledStep
  <2>. QED BY <2>1, <2>3, <2>4
<1>4. ASSUME NEW made, NEW at, Settled(made.e), Handed(made, at) PROVE IInv'
  <2>1. eng' = made.e /\ dev' = IF made.ok THEN RefreshInput(Uncounted(dev), made.e) ELSE dev
    BY <1>4 DEF Handed
  <2>2. DeviceOK(Uncounted(dev))
    BY <1>0, DeviceSteps
  <2>3. DeviceOK(dev')
    BY <1>0, <2>1, <2>2, DeviceSteps
  <2>. QED BY <1>4, <2>1, <2>3, SettledStep
<1>5. CASE Load
  <2>1. PICK doc \in Docs, trouble \in Troubles :
            Handed(LoadProject(eng, doc, trouble.served, trouble.broken), 0)
    BY <1>5 DEF Load
  <2>. QED BY <1>0, <1>4, <2>1, ProjectSettles
<1>6. CASE Update
  <2>1. PICK doc \in Docs, trouble \in Troubles :
            Handed(UpdateProject(eng, doc, trouble.served, trouble.broken), cue)
    BY <1>6 DEF Update
  <2>. QED BY <1>0, <1>4, <2>1, ProjectSettles
<1>7. CASE PlayFile
  <2>1. PICK length \in Positions \ {0} :
            eng' = LoadAudioFile(eng, length) /\ dev' = [dev EXCEPT !.queue = FALSE]
    BY <1>7 DEF PlayFile
  <2>. QED BY <1>0, <2>1, LoadAudioFileSettles, DeviceSteps, SettledStep
<1>8. ASSUME NEW e, Change(e), Settled(e) \/ Keeps(e, eng) PROVE IInv'
  <2>1. eng' = e /\ dev' = dev /\ push' = push
    BY <1>8 DEF Change, ChangeCall, Call
  <2>. QED BY <1>0, <1>8, <2>1, SettledStep, KeepingStep
<1>9. CASE Live
  <2>1. CASE \E on \in BOOLEAN : Change(SetTestTone(eng, on))
    BY <1>0, <1>8, <2>1, LiveKeeps
  <2>2. ASSUME NEW t \in Changeable, NEW i \in DOMAIN t.sends, NEW on \in BOOLEAN,
               Change(UpdateTrackSend(eng, t.name, i, on))
        PROVE  IInv'
    BY <1>0, <1>8, <2>2, TrackSettles
  <2>3. ASSUME NEW t \in Changeable, NEW i \in DOMAIN t.inserts, NEW byp \in BOOLEAN,
               Change(UpdateTrackBypass(eng, t.name, i, byp))
        PROVE  IInv'
    BY <1>0, <1>8, <2>3, LiveKeeps
  <2>4. ASSUME NEW t \in Changeable, NEW i \in DOMAIN t.inserts, NEW value \in Values,
               Parameter(t, i, value)
        PROVE  IInv'
    <3>1. eng' = UpdateTrackParameter(eng, t.name, i, value) /\ dev' = dev /\ push' = push
      BY <2>4 DEF Parameter, Call
    <3>. QED BY <1>0, <3>1, LiveKeeps, KeepingStep
  <2>5. ASSUME NEW t \in Changeable, NEW flip \in {"mute", "solo"},
               Change(UpdateTrackPlayback(eng, t.name, IF flip = "mute" THEN ~t.mute ELSE t.mute,
                                          IF flip = "solo" THEN ~t.solo ELSE t.solo))
        PROVE  IInv'
    BY <1>0, <1>8, <2>5, TrackSettles
  <2>6. ASSUME NEW t \in Changeable, NEW pitch, NEW on \in BOOLEAN,
               Change(QueueLive(eng, t.name, [pitch |-> pitch, on |-> on]))
        PROVE  IInv'
    BY <1>0, <1>8, <2>6, LiveKeeps
  <2>7. CASE \E i \in DOMAIN eng.plan.master, byp \in BOOLEAN : Change(UpdateMasterBypass(eng, i, byp))
    BY <1>0, <1>8, <2>7, LiveKeeps
  <2>8. CASE \E i \in DOMAIN eng.plan.master, value \in Values :
                 Change(UpdateMasterParameter(eng, i, value))
    BY <1>0, <1>8, <2>8, LiveKeeps
  <2>9. CASE \E i \in DOMAIN eng.set.speaker, value \in Values :
                 Change(UpdateSpeakerParameter(eng, i, value))
    BY <1>0, <1>8, <2>9, LiveKeeps
  <2>10. CASE \E path \in {"internal", "external"}, server \in BOOLEAN :
                 Change(SetMonitorPath(eng, path, server))
    BY <1>0, <1>8, <2>10, LiveKeeps
  <2>. QED
    BY <1>9, <2>1, <2>2, <2>3, <2>4, <2>5, <2>6, <2>7, <2>8, <2>9, <2>10 DEF Live
<1>10. CASE SetModules
  <2>1. PICK on \in BOOLEAN, target \in BOOLEAN, trouble \in Troubles :
            /\ eng' = SetMonitorModules(eng, eng.set.speaker, on, target, trouble.broken)
            /\ dev' = Uncounted(dev) /\ push' = push
    BY <1>10 DEF SetModules, Reload, Call
  <2>. QED BY <1>0, <2>1, SetMonitorModulesKeeps, DeviceSteps, KeepingStep
<1>11. CASE SetClick
  <2>1. eng' = SetMetronome(eng, ~eng.set.click) /\ dev' = [dev EXCEPT !.click = ~eng.set.click]
        /\ push' = push
    BY <1>11 DEF SetClick, ChangeCall, Call
  <2>. QED BY <1>0, <2>1, LiveKeeps, DeviceSteps, KeepingStep
<1>12. ASSUME NEW e, NEW d, DeviceOK(d), Refreshing(e, d), Settled(e) \/ Keeps(e, eng) PROVE IInv'
  <2>1. eng' = e /\ dev' = RefreshInput(d, eng') /\ push' = push
    BY <1>12 DEF Refreshing, ChangeCall, Call
  <2>2. DeviceOK(dev')
    BY <1>12, <2>1, DeviceSteps
  <2>. QED BY <1>12, <2>1, <2>2, SettledStep, KeepingStep
<1>13. CASE Station
  <2>1. PICK on \in BOOLEAN, route \in {"listen_room", "monitor_bus"} :
            Refreshing(SetTalkback(eng, on, route), [dev EXCEPT !.talk = on])
    BY <1>13 DEF Station
  <2>. QED BY <1>0, <1>12, <2>1, SetTalkbackSettles, DeviceSteps
<1>14. CASE Allow
  <2>1. Refreshing(eng, [dev EXCEPT !.allowed = ~dev.allowed])
    BY <1>14 DEF Allow
  <2>. QED BY <1>0, <1>12, <2>1, DeviceSteps DEF Keeps
<1>15. CASE Record
  BY <1>0, <1>12, <1>15, SetRecordingSettles DEF Record
<1>16. CASE Arm
  <2>1. PICK t \in Changeable, flip \in {"arm", "mon"} :
            Refreshing(UpdateTrackRealtime(eng, t.name, IF flip = "arm" THEN ~t.arm ELSE t.arm,
                                           IF flip = "mon" THEN ~t.mon ELSE t.mon, t.mute, t.solo),
                       dev)
    BY <1>16 DEF Arm
  <2>. QED BY <1>0, <1>12, <2>1, TrackSettles
<1>17. CASE Run
  <2>1. eng' = SetRunning(eng, TRUE) /\ dev' = dev /\ push' = push
    BY <1>17 DEF Run
  <2>. QED BY <1>0, <2>1, TransportKeeps, KeepingStep
<1>18. CASE Halt
  BY <1>0, <1>8, <1>18, TransportKeeps DEF Halt
<1>19. CASE GoTo
  <2>1. PICK at \in Positions : eng' = ArmSeekRamp(Seek(eng, at)) /\ dev' = dev /\ push' = push
    BY <1>19 DEF GoTo, ChangeCall, Call
  <2>2. Keeps(Seek(eng, at), eng)
    BY <1>0, SeekKeeps
  <2>3. Keeps(ArmSeekRamp(Seek(eng, at)), eng)
    BY <2>2, TransportKeeps DEF Keeps
  <2>. QED BY <1>0, <2>1, <2>3, KeepingStep
<1>20. CASE ToStart
  <2>1. eng' = Rewind(eng) /\ dev' = dev /\ push' = push
    BY <1>20 DEF ToStart, ChangeCall, Call
  <2>. QED BY <1>0, <2>1, RewindKeeps, KeepingStep
<1>21. CASE ReadInput
  <2>1. eng' = eng /\ dev' = dev /\ InputWanted(eng)
    BY <1>21 DEF ReadInput, InputWanted
  <2>. QED BY <1>0, <2>1 DEF IInv, InputInv
<1>22. CASE AppendInput
  <2>1. push # "none" /\ push' = "none" /\ dev' = dev
        /\ eng' \in {eng, PushInput(eng, PushFrames, push = "talk")}
    BY <1>22 DEF AppendInput
  <2>2. ~InputWanted(eng) => eng.inp.held = 0
    BY <2>1 DEF IInv, InputInv, InputOK
  <2>3. InputOK(eng') /\ InputWanted(eng') = InputWanted(eng)
        /\ (~InputWanted(eng) => eng'.inp.held <= PushFrames)
    <3>1. CASE eng' = eng
      BY <1>0, <2>2, <3>1, FramesAssumption
    <3>2. CASE eng' = PushInput(eng, PushFrames, push = "talk")
      <4>. DEFINE f == PushInput(eng, PushFrames, push = "talk")
      <4>1. InputOK(f) /\ InputWanted(f) = InputWanted(eng) /\ f.inp.held <= eng.inp.held + PushFrames
        BY <1>0, FramesAssumption, PushInputAdds
      <4>. HIDE DEF f
      <4>2. ~InputWanted(eng) => f.inp.held <= PushFrames
        BY <2>2, <4>1, FramesAssumption
      <4>. QED BY <3>2, <4>1, <4>2 DEF f
    <3>. QED BY <2>1, <3>1, <3>2
  <2>. QED BY <1>0, <2>1, <2>3 DEF IInv, InputInv, InputOK, InputWanted, Held
<1>23. ASSUME NEW size \in Nat, NEW trouble, Block(size, trouble) PROVE IInv'
  <2>1. eng' = Render(eng, size, trouble).e /\ dev' = Counted(dev) /\ push' = push
    BY <1>23 DEF Block
  <2>. QED BY <1>0, <2>1, RenderTakes, DeviceSteps, TakingStep
<1>24. CASE RenderCallback
  BY <1>23, <1>24, FramesAssumption DEF RenderCallback
<1>25. CASE Status
  BY <1>0, <1>23, <1>25 DEF Status, DeviceOK
<1>26. CASE UNCHANGED vars
  BY <1>0, <1>26, KeepingStep DEF vars, Keeps
<1>. QED
  BY <1>1, <1>2, <1>3, <1>5, <1>6, <1>7, <1>9, <1>10, <1>11, <1>13, <1>14, <1>15, <1>16, <1>17,
     <1>18, <1>19, <1>20, <1>21, <1>22, <1>24, <1>25, <1>26
  DEF Next

\* For all documents, settings, block sizes and lengths: without capture and without
\* talkback no more of the microphone waits in the buffer than one callback that had
\* begun before brought, whatever was loaded, configured, reset or armed in between.
THEOREM InputNeverStale == Spec => []StaleInputBounded
PROOF
<1>1. IInv => StaleInputBounded
  <2>. SUFFICES ASSUME IInv, ~eng.inp.capture /\ ~eng.inp.talk PROVE eng.inp.held <= PushFrames
    BY DEF StaleInputBounded
  <2>1. eng.inp.held \in Nat /\ eng.inp.held <= IF push = "none" THEN PushFrames ELSE 0
    BY DEF IInv, InputInv, InputOK, InputWanted
  <2>. QED BY <2>1, FramesAssumption
<1>. QED BY <1>1, InitIInv, NextIInv, PTL DEF Spec
-----------------------------------------------------------------------------
(* The playhead.  Two more fields decide which frames are heard: `play` and *)
(* the plan's loop.  What leaves both alone Stays.                           *)
Rolls(e) == {"play", "plan", "set"} \subseteq DOMAIN e /\ "loop" \in DOMAIN e.plan
Stays(f, e) == Rolls(f) /\ f.play = e.play /\ f.plan.loop = e.plan.loop
LoopOK(loop) == loop \in [on : BOOLEAN, from : Nat, to : Nat] /\ (loop.on => loop.to > loop.from)
PlayOK(e) == Rolls(e) /\ e.play \in Nat /\ LoopOK(e.plan.loop)

LEMMA StaysOK ==
    ASSUME NEW e, NEW f, Stays(f, e)
    PROVE  PlayOK(e) => PlayOK(f)
BY DEF Stays, PlayOK

LEMMA PolicyStays == ASSUME NEW e, Rolls(e) PROVE Stays(UpdatePolicy(e), e)
PROOF
<1>1. ASSUME NEW f, Rolls(f) PROVE Stays(Unwanted(f), f)
  BY <1>1 DEF Unwanted, EmptyInput, Stays, Rolls
<1>. DEFINE c == e.set.low /\ e.set.channels > 0 /\ Eligible(e) # <<>>
            m == /\ Eligible(e) # <<>>
                 /\ LET t == Head(Eligible(e))
                    IN t.mute \/ (~t.solo /\ \E x \in Range(e.plan.tracks) :
                                    x.solo /\ x.name \notin {MasterName, MonitorName})
            f == [e EXCEPT !.inp.capture = c, !.inp.muted = m]
<1>2. UpdatePolicy(e) = Unwanted(f)
  BY DEF UpdatePolicy
<1>. HIDE DEF c, m
<1>3. Stays(f, e)
  BY DEF Stays, Rolls
<1>. HIDE DEF f
<1>. QED BY <1>1, <1>2, <1>3 DEF Stays

LEMMA SyncMonitorStays == ASSUME NEW e, Rolls(e) PROVE Stays(SyncMonitor(e), e)
BY DEF SyncMonitor, Stays, Rolls

LEMMA PrepareOutputStays == ASSUME NEW e, Rolls(e), NEW broken PROVE Stays(PrepareOutput(e, broken), e)
BY DEF PrepareOutput, Stays, Rolls

LEMMA PrepareChainsStays ==
    ASSUME NEW e, Rolls(e), NEW served, NEW broken
    PROVE  Stays(PrepareChains(e, served, broken).e, e)
PROOF
<1>0. Stays(Bare(e), e)
  BY DEF Bare, Stays, Rolls
<1>1. CASE ~Healthy(e.plan.master, broken)
  BY <1>0, <1>1 DEF PrepareChains
<1>2. CASE Healthy(e.plan.master, broken)
  <2>. DEFINE o == PrepareOutput(Bare(e), broken)
              c == BesideChains(e, SelectSeq(e.plan.tracks, BesideGraph), served, broken)
              f == [o EXCEPT !.rt.sig = Signature(e), !.rt.master = Len(e.plan.master),
                             !.rt.tracks = c]
  <2>1. Stays(o, e)
    BY <1>0, PrepareOutputStays DEF Stays
  <2>2. PrepareChains(e, served, broken).e = Waiting(f)
    BY <1>2 DEF PrepareChains
  <2>. HIDE DEF o, c
  <2>3. Stays(f, e)
    BY <2>1 DEF Stays, Rolls
  <2>. HIDE DEF f
  <2>4. Stays(Waiting(f), f)
    BY <2>3 DEF Waiting, Stays, Rolls
  <2>. QED BY <2>2, <2>3, <2>4 DEF Stays
<1>. QED BY <1>1, <1>2

LEMMA WarmStays == ASSUME NEW e, Rolls(e), NEW broken PROVE Stays(Warm(e, broken), e)
BY DEF Warm, Stays, Rolls

LEMMA RenewStays ==
    ASSUME NEW e, Rolls(e), NEW served, NEW broken
    PROVE  Stays(Renew(e, served, broken).e, e)
PROOF
<1>1. CASE ~e.ready
  BY <1>1 DEF Renew, Stays
<1>2. CASE e.ready /\ Signature(e) = e.rt.sig
  <2>. DEFINE f == [e EXCEPT !.wait = Reported(e)]
  <2>1. Stays(f, e)
    BY DEF Stays, Rolls
  <2>2. Renew(e, served, broken).e = Warm(f, broken)
    BY <1>2 DEF Renew
  <2>. HIDE DEF f
  <2>. QED BY <2>1, <2>2, WarmStays DEF Stays
<1>3. CASE e.ready /\ Signature(e) # e.rt.sig
  <2>. DEFINE p == PrepareChains(e, served, broken)
  <2>1. Stays(p.e, e)
    BY PrepareChainsStays
  <2>2. Renew(e, served, broken) = Renewed(p, broken)
    BY <1>3 DEF Renew
  <2>. HIDE DEF p
  <2>3. Stays(Fading(p.e), p.e)
    BY <2>1 DEF Fading, Stays, Rolls
  <2>4. Stays(Warm(Fading(p.e), broken), p.e)
    BY <2>3, WarmStays DEF Stays
  <2>5. Renewed(p, broken).e \in {p.e, Warm(Fading(p.e), broken)}
    BY DEF Renewed
  <2>. QED BY <2>1, <2>2, <2>4, <2>5 DEF Stays
<1>. QED BY <1>1, <1>2, <1>3

\* Where the operations that move the playhead put it.
LEMMA PlacesPlayhead ==
    ASSUME NEW e, PlayOK(e), NEW at \in Nat
    PROVE  /\ PlayOK(Seek(e, at)) /\ Seek(e, at).play = at
           /\ PlayOK(ArmSeekRamp(Seek(e, at))) /\ ArmSeekRamp(Seek(e, at)).play = at
           /\ PlayOK(Rewind(e)) /\ Rewind(e).play = 0
PROOF
<1>. DEFINE f(x) == NoTrace(PlaceAt(e, x))
<1>1. ASSUME NEW x \in Nat PROVE PlayOK(f(x)) /\ f(x).play = x
  BY <1>1 DEF NoTrace, PlaceAt, PlayOK, Rolls
<1>2. Seek(e, at) = [f(at) EXCEPT !.rs = ResetForSeek(f(at).rs), !.ramp = 0]
  BY DEF Seek
<1>3. Rewind(e) = [f(0) EXCEPT !.rs = Fresh, !.ramp = 0]
  BY DEF Rewind
<1>. HIDE DEF f
<1>4. PlayOK(Seek(e, at)) /\ Seek(e, at).play = at
  BY <1>1, <1>2 DEF PlayOK, Rolls
<1>5. PlayOK(Rewind(e)) /\ Rewind(e).play = 0
  BY <1>1, <1>3 DEF PlayOK, Rolls
<1>6. Stays(ArmSeekRamp(Seek(e, at)), Seek(e, at))
  BY <1>4 DEF ArmSeekRamp, Stays, PlayOK, Rolls
<1>. QED BY <1>4, <1>5, <1>6, StaysOK DEF Stays

LEMMA ResetRuntimePlays ==
    ASSUME NEW e, PlayOK(e)
    PROVE  PlayOK(ResetRuntime(e)) /\ ResetRuntime(e).play = 0
PROOF
<1>1. PlayOK(EmptyInput(e))
  BY DEF EmptyInput, PlayOK, Rolls
<1>. DEFINE f == EmptyInput(e)
<1>2. ResetRuntime(e) =
        [f EXCEPT !.rs = Fresh, !.rt = [NoChains EXCEPT !.output = e.rt.output],
                  !.prev = IF e.ready THEN @ ELSE 0, !.fade = IF e.ready /\ e.prev > 0 THEN @ ELSE 0,
                  !.mods = 0, !.inp.capture = FALSE, !.inp.talk = FALSE,
                  !.play = 0, !.ready = FALSE]
  BY DEF ResetRuntime
<1>3. PlayOK(f)
  BY <1>1
<1>. HIDE DEF f
<1>. QED BY <1>2, <1>3 DEF PlayOK, Rolls

LEMMA LoadAudioFilePlays ==
    ASSUME NEW e, PlayOK(e), NEW length
    PROVE  PlayOK(LoadAudioFile(e, length)) /\ LoadAudioFile(e, length).play = 0
PROOF
<1>. DEFINE f == [PlaceAt(e, 0) EXCEPT !.file = length, !.plan = NoPlan, !.rs = Fresh,
                                       !.rt = [NoChains EXCEPT !.output = e.rt.output], !.wait = 0]
<1>1. LoadAudioFile(e, length) = UpdatePolicy(f)
  BY DEF LoadAudioFile
<1>2. Rolls(f) /\ f.play = 0 /\ f.plan.loop = [on |-> FALSE, from |-> 0, to |-> 0]
  BY DEF PlaceAt, PlayOK, Rolls, NoPlan
<1>. HIDE DEF f
<1>3. PlayOK(f)
  BY <1>2 DEF PlayOK, LoopOK
<1>. QED BY <1>1, <1>2, <1>3, PolicyStays, StaysOK DEF Stays

LEMMA AdoptPlays ==
    ASSUME NEW e, PlayOK(e), NEW doc \in Docs
    PROVE  PlayOK(Adopt(e, doc)) /\ Adopt(e, doc).play = e.play
PROOF
<1>. DEFINE plan == [MakePlan(doc) EXCEPT !.recording = e.set.recording, !.effects = TRUE]
            f == [e EXCEPT !.plan = plan, !.rs = Fresh, !.set.pdc = doc.pdc, !.set.low = doc.low,
                           !.set.talk = doc.talk, !.set.route = doc.route,
                           !.set.speaker = doc.speaker, !.inp.talk = doc.talk, !.mods = 0, !.file = 0]
            loop == [doc.loop EXCEPT !.on = Valid(doc.loop)]
<1>1. Adopt(e, doc) = SyncMonitor(UpdatePolicy(f))
  BY DEF Adopt
<1>2. plan.loop = loop /\ "loop" \in DOMAIN plan
  BY DEF MakePlan, NoPlan
<1>3. LoopOK(loop)
  BY FramesAssumption DEF LoopOK, Valid
<1>. HIDE DEF plan, loop
<1>4. Rolls(f) /\ f.play = e.play /\ f.plan = plan
  BY <1>2 DEF PlayOK, Rolls
<1>. HIDE DEF f
<1>5. PlayOK(f)
  BY <1>2, <1>3, <1>4 DEF PlayOK
<1>6. Stays(UpdatePolicy(f), f)
  BY <1>4, PolicyStays
<1>7. Stays(SyncMonitor(UpdatePolicy(f)), f)
  BY <1>6, SyncMonitorStays DEF Stays
<1>. QED BY <1>1, <1>4, <1>5, <1>7, StaysOK DEF Stays

LEMMA ProjectPlays ==
    ASSUME NEW e, PlayOK(e), NEW doc \in Docs, NEW served, NEW broken
    PROVE  /\ PlayOK(UpdateProject(e, doc, served, broken).e)
           /\ UpdateProject(e, doc, served, broken).e.play = e.play
           /\ PlayOK(LoadProject(e, doc, served, broken).e)
           /\ LoadProject(e, doc, served, broken).e.play = 0
PROOF
<1>1. ASSUME NEW f, PlayOK(f)
      PROVE  /\ PlayOK(Renew(Adopt(f, doc), served, broken).e)
             /\ Renew(Adopt(f, doc), served, broken).e.play = f.play
  <2>1. PlayOK(Adopt(f, doc)) /\ Adopt(f, doc).play = f.play
    BY <1>1, AdoptPlays
  <2>2. Stays(Renew(Adopt(f, doc), served, broken).e, Adopt(f, doc))
    BY <2>1, RenewStays DEF PlayOK
  <2>. QED BY <2>1, <2>2, StaysOK DEF Stays
<1>2. PlayOK(PlaceAt(NoTrace(e), 0)) /\ PlaceAt(NoTrace(e), 0).play = 0
  BY DEF PlaceAt, NoTrace, PlayOK, Rolls
<1>. QED BY <1>1, <1>2 DEF UpdateProject, LoadProject

LEMMA ConfigureStays ==
    ASSUME NEW e, Rolls(e), NEW set, NEW served, NEW broken
    PROVE  Stays(Configure(e, set, served, broken).e, e)
PROOF
<1>. DEFINE f == [e EXCEPT !.set = set, !.size = set.size, !.ready = TRUE,
                           !.plan.recording = set.recording, !.path = Steady, !.mods = 0,
                           !.inp.talk = set.talk, !.inp.active = FALSE]
<1>1. Configure(e, set, served, broken) = PrepareChains(UpdatePolicy(f), served, broken)
  BY DEF Configure
<1>2. Stays(f, e)
  BY DEF Stays, Rolls
<1>. HIDE DEF f
<1>3. Stays(UpdatePolicy(f), e)
  BY <1>2, PolicyStays DEF Stays
<1>4. Stays(PrepareChains(UpdatePolicy(f), served, broken).e, e)
  BY <1>3, PrepareChainsStays DEF Stays
<1>. QED BY <1>1, <1>4

\* The changes the program makes as the engine plays move nothing.
LEMMA ChangesStay ==
    ASSUME NEW e, Rolls(e), NEW n, NEW i, NEW value, NEW on, NEW path, NEW server, NEW event,
           NEW arm, NEW mon, NEW mute, NEW solo, NEW route, NEW speaker, NEW target, NEW broken
    PROVE  /\ Stays(SetTestTone(e, on), e)
           /\ Stays(SetMetronome(e, on), e)
           /\ Stays(UpdateTrackSend(e, n, i, on), e)
           /\ Stays(UpdateTrackBypass(e, n, i, on), e)
           /\ Stays(UpdateTrackParameter(e, n, i, value), e)
           /\ Stays(UpdateTrackPlayback(e, n, mute, solo), e)
           /\ Stays(UpdateTrackRealtime(e, n, arm, mon, mute, solo), e)
           /\ Stays(QueueLive(e, n, event), e)
           /\ Stays(UpdateMasterBypass(e, i, on), e)
           /\ Stays(UpdateMasterParameter(e, i, value), e)
           /\ Stays(UpdateSpeakerParameter(e, i, value), e)
           /\ Stays(SetMonitorPath(e, path, server), e)
           /\ Stays(SetMonitorModules(e, speaker, on, target, broken), e)
           /\ Stays(SetTalkback(e, on, route), e)
           /\ Stays(SetRecording(e, on), e)
           /\ Stays(SetRunning(e, on), e)
PROOF
<1>1. Stays(SetTestTone(e, on), e) /\ Stays(SetMetronome(e, on), e)
  BY DEF SetTestTone, SetMetronome, SyncMonitor, Stays, Rolls
<1>2. ASSUME NEW k, NEW t PROVE Stays(UpdatePolicy([e EXCEPT !.plan.tracks[k] = t]), e)
  <2>. DEFINE f == [e EXCEPT !.plan.tracks[k] = t]
  <2>1. Stays(f, e)
    BY DEF Stays, Rolls
  <2>. HIDE DEF f
  <2>2. Stays(UpdatePolicy(f), f)
    BY <2>1, PolicyStays DEF Stays
  <2>. QED BY <2>1, <2>2 DEF Stays, f
<1>3. /\ Stays(UpdateTrackSend(e, n, i, on), e)
      /\ Stays(UpdateTrackPlayback(e, n, mute, solo), e)
      /\ Stays(UpdateTrackRealtime(e, n, arm, mon, mute, solo), e)
  BY <1>2 DEF UpdateTrackSend, UpdateTrackPlayback, UpdateTrackRealtime, OnTrack
<1>4. Stays(UpdateTrackBypass(e, n, i, on), e)
  BY DEF UpdateTrackBypass, OnTrack, Stays, Rolls
<1>5. Stays(UpdateTrackParameter(e, n, i, value), e)
  BY DEF UpdateTrackParameter, OnTrack, Stays, Rolls
<1>6. Stays(QueueLive(e, n, event), e)
  BY DEF QueueLive, Stays, Rolls
<1>7. Stays(UpdateMasterBypass(e, i, on), e) /\ Stays(UpdateMasterParameter(e, i, value), e)
  BY DEF UpdateMasterBypass, UpdateMasterParameter, Stays, Rolls
<1>8. Stays(UpdateSpeakerParameter(e, i, value), e)
  BY DEF UpdateSpeakerParameter, Stays, Rolls
<1>9. Stays(SetMonitorPath(e, path, server), e)
  BY DEF SetMonitorPath, SyncMonitor, Stays, Rolls
<1>10. Stays(SetMonitorModules(e, speaker, on, target, broken), e)
  <2>. DEFINE fades == e.ready /\ e.set.dsp /\ on /\ ~target /\ ~AsksServer(e, e.set.path)
              f == [e EXCEPT !.set.speaker = speaker, !.set.dsp = on, !.mods = IF fades THEN ChangeLength ELSE 0]
  <2>1. SetMonitorModules(e, speaker, on, target, broken) = PrepareOutput(SyncMonitor(f), broken)
    BY DEF SetMonitorModules
  <2>. HIDE DEF fades
  <2>2. Stays(f, e)
    BY DEF Stays, Rolls
  <2>. HIDE DEF f
  <2>3. Stays(SyncMonitor(f), e)
    BY <2>2, SyncMonitorStays DEF Stays
  <2>. QED BY <2>1, <2>3, PrepareOutputStays DEF Stays
<1>11. Stays(SetTalkback(e, on, route), e)
  BY DEF SetTalkback, Unwanted, EmptyInput, Stays, Rolls
<1>12. Stays(SetRecording(e, on), e)
  <2>. DEFINE f == [e EXCEPT !.set.recording = on, !.plan.recording = on]
  <2>1. SetRecording(e, on) = SyncMonitor(UpdatePolicy(f))
    BY DEF SetRecording
  <2>2. Stays(f, e)
    BY DEF Stays, Rolls
  <2>. HIDE DEF f
  <2>3. Stays(UpdatePolicy(f), e)
    BY <2>2, PolicyStays DEF Stays
  <2>. QED BY <2>1, <2>3, SyncMonitorStays DEF Stays
<1>13. Stays(SetRunning(e, on), e)
  BY DEF SetRunning, Stays, Rolls
<1>. QED BY <1>1, <1>3, <1>4, <1>5, <1>6, <1>7, <1>8, <1>9, <1>10, <1>11, <1>12, <1>13
-----------------------------------------------------------------------------
(* Where a frame lies on the timeline.                                      *)
LEMMA SmallestNat ==
    ASSUME NEW Bad \in SUBSET Nat, Bad # {}
    PROVE  \E n \in Bad : n = 0 \/ (n - 1 \in Nat /\ n - 1 \notin Bad)
PROOF
<1>. DEFINE R == OpToRel(<, Nat)
<1>1. R = {p \in Nat \X Nat : p[1] < p[2]}
  BY Zenon DEF OpToRel
<1>2. IsWellFoundedOn(R, Nat)
  BY NatLessThanWellFounded, Zenon
<1>. HIDE DEF R
<1>3. PICK n \in Bad : \A m \in Bad : ~(<<m, n>> \in R)
  BY <1>2, WFMin
<1>4. \A m \in Bad : ~(m < n)
  <2>1. ASSUME NEW m \in Bad, m < n PROVE <<m, n>> \in R
    <3>1. <<m, n>> \in Nat \X Nat /\ <<m, n>>[1] < <<m, n>>[2]
      BY <2>1
    <3>. QED BY <1>1, <3>1, Zenon
  <2>. QED BY <1>3, <2>1
<1>. QED BY <1>4

LEMMA ModDef ==
    ASSUME NEW a \in Nat, NEW n \in Nat \ {0}
    PROVE  \E q \in Int : a = (q * n) + (a % n)
PROOF
<1>1. a \div n \in Int /\ a = ((a \div n) * n) + (a % n)
  OBVIOUS
<1>. QED BY <1>1

LEMMA ModUnique ==
    ASSUME NEW q \in Int, NEW r \in Nat, NEW n \in Nat \ {0}, r < n
    PROVE  ((q * n) + r) % n = r
OBVIOUS

LEMMA ModRange ==
    ASSUME NEW a \in Nat, NEW n \in Nat \ {0}
    PROVE  a % n \in 0 .. n - 1
OBVIOUS

\* Going on by less than what is left of the divisor, or by exactly that.
LEMMA ModAdd ==
    ASSUME NEW a \in Nat, NEW n \in Nat \ {0}, NEW i \in Nat
    PROVE  /\ (a % n) + i < n => (a + i) % n = (a % n) + i
           /\ (a % n) + i = n => (a + i) % n = 0
PROOF
<1>. DEFINE r == a % n
<1>1. PICK q \in Int : a = (q * n) + r
  BY ModDef
<1>2. r \in 0 .. n - 1
  BY ModRange
<1>. HIDE DEF r
<1>3. CASE r + i < n
  <2>1. a + i = (q * n) + (r + i)
    BY <1>1, <1>2
  <2>2. r + i \in Nat
    BY <1>2
  <2>3. ((q * n) + (r + i)) % n = r + i
    BY <1>3, <2>2, ModUnique
  <2>. QED BY <1>2, <1>3, <2>1, <2>3 DEF r
<1>4. CASE r + i = n
  <2>1. a + i = ((q + 1) * n) + 0
    BY <1>1, <1>2, <1>4
  <2>2. (((q + 1) * n) + 0) % n = 0
    BY ModUnique
  <2>. QED BY <1>2, <1>4, <2>1, <2>2 DEF r
<1>5. CASE ~(r + i < n) /\ r + i # n
  BY <1>5 DEF r
<1>. QED BY <1>3, <1>4, <1>5

LEMMA PlaceNat ==
    ASSUME NEW loop, LoopOK(loop), NEW at \in Nat
    PROVE  /\ Place(loop, at) \in Nat
           /\ Valid(loop) = loop.on
           /\ loop.on => Place(loop, at) < loop.to
PROOF
<1>1. loop.on \in BOOLEAN /\ loop.from \in Nat /\ loop.to \in Nat /\ (loop.on => loop.to > loop.from)
  BY DEF LoopOK
<1>2. Valid(loop) = loop.on
  BY <1>1 DEF Valid
<1>3. CASE loop.on /\ at >= loop.to
  <2>1. at - loop.from \in Nat /\ loop.to - loop.from \in Nat \ {0}
    BY <1>1, <1>3
  <2>2. (at - loop.from) % (loop.to - loop.from) \in 0 .. (loop.to - loop.from) - 1
    BY <2>1, ModRange
  <2>3. Place(loop, at) = loop.from + ((at - loop.from) % (loop.to - loop.from))
    BY <1>2, <1>3 DEF Place
  <2>. DEFINE r == (at - loop.from) % (loop.to - loop.from)
  <2>. HIDE DEF r
  <2>. QED BY <1>1, <1>2, <2>2, <2>3 DEF r
<1>4. CASE ~(loop.on /\ at >= loop.to)
  BY <1>1, <1>2, <1>4 DEF Place
<1>. QED BY <1>3, <1>4

\* Up to the end of the loop the frames follow each other, and after it comes its start.
LEMMA PlaceAdd ==
    ASSUME NEW loop, LoopOK(loop), NEW at \in Nat, NEW i \in Nat
    PROVE  /\ (loop.on => Place(loop, at) + i < loop.to) => Place(loop, at + i) = Place(loop, at) + i
           /\ loop.on /\ Place(loop, at) + i = loop.to => Place(loop, at + i) = loop.from
PROOF
<1>. DEFINE from == loop.from
            to == loop.to
            a == at - from
            n == to - from
<1>1. loop.on \in BOOLEAN /\ from \in Nat /\ to \in Nat /\ (loop.on => to > from)
  BY DEF LoopOK
<1>2. Valid(loop) = loop.on
  BY PlaceNat
<1>3. CASE ~loop.on
  <2>1. Place(loop, at) = at /\ Place(loop, at + i) = at + i
    BY <1>2, <1>3 DEF Place
  <2>. QED BY <1>3, <2>1
<1>4. CASE loop.on /\ at >= to
  <2>1. a \in Nat /\ n \in Nat \ {0} /\ a + i = (at + i) - from /\ at + i >= to
    BY <1>1, <1>4
  <2>2. Place(loop, at) = from + (a % n)
    BY <1>2, <1>4 DEF Place
  <2>3. Place(loop, at + i) = from + ((a + i) % n)
    BY <1>2, <1>4, <2>1 DEF Place
  <2>4. a % n \in Nat
    <3>. HIDE DEF a, n
    <3>1. a % n \in 0 .. n - 1
      BY <2>1, ModRange
    <3>. QED BY <2>1, <3>1
  <2>5. /\ (a % n) + i < n => (a + i) % n = (a % n) + i
        /\ (a % n) + i = n => (a + i) % n = 0
    BY <2>1, ModAdd
  <2>. DEFINE r == a % n
              s == (a + i) % n
  <2>6. /\ Place(loop, at) = from + r /\ Place(loop, at + i) = from + s /\ r \in Nat
        /\ r + i < n => s = r + i
        /\ r + i = n => s = 0
    BY <2>2, <2>3, <2>4, <2>5
  <2>. HIDE DEF r, s
  <2>7. (r + i < n <=> (from + r) + i < to) /\ (r + i = n <=> (from + r) + i = to)
    BY <1>1, <2>6
  <2>. HIDE DEF from, to, n, a
  <2>8. ((from + r) + i < to) => Place(loop, at + i) = (from + r) + i
    BY <1>1, <2>6, <2>7
  <2>9. ((from + r) + i = to) => Place(loop, at + i) = from
    BY <1>1, <2>6, <2>7
  <2>. QED BY <1>4, <2>6, <2>8, <2>9 DEF from, to
<1>5. CASE loop.on /\ ~(at >= to)
  <2>1. Place(loop, at) = at
    BY <1>2, <1>5 DEF Place
  <2>2. CASE at + i < to
    <3>1. Place(loop, at + i) = at + i
      BY <1>1, <1>2, <2>2 DEF Place
    <3>. QED BY <1>1, <2>1, <2>2, <3>1
  <2>3. CASE at + i = to
    <3>1. n \in Nat \ {0}
      BY <1>1, <1>5
    <3>2. n % n = 0
      <4>. HIDE DEF n
      <4>1. ((1 * n) + 0) % n = 0
        BY <3>1, ModUnique
      <4>2. (1 * n) + 0 = n
        BY <3>1
      <4>. QED BY <4>1, <4>2
    <3>3. Place(loop, at + i) = from + (n % n)
      BY <1>1, <1>2, <1>5, <2>3 DEF Place
    <3>. DEFINE z == n % n
    <3>. HIDE DEF z
    <3>4. Place(loop, at + i) = from
      BY <1>1, <3>2, <3>3 DEF z
    <3>. QED BY <1>1, <1>5, <2>1, <2>3, <3>4
  <2>4. CASE at + i > to
    BY <1>1, <1>5, <2>1, <2>4
  <2>. QED BY <1>1, <2>2, <2>3, <2>4
<1>. QED BY <1>1, <1>3, <1>4, <1>5
-----------------------------------------------------------------------------
(* What a listener expects, in closed form.                                 *)
IsDue(due, loop, at, size) ==
    due = [k \in 0 .. size |-> IF k = 0 THEN Place(loop, at) ELSE After(loop, due[k - 1])]

LEMMA DueIs ==
    ASSUME NEW loop, LoopOK(loop), NEW at \in Nat, NEW size \in Nat
    PROVE  Due(loop, at, size) = [k \in 0 .. size |-> Place(loop, at + k)]
PROOF
<1>. DEFINE places == [k \in 0 .. size |-> Place(loop, at + k)]
            due == CHOOSE due : IsDue(due, loop, at, size)
<1>1. Due(loop, at, size) = due
  BY DEF Due, IsDue
<1>2. ASSUME NEW k \in 0 .. size
      PROVE  (k = 0 => places[k] = Place(loop, at)) /\ (k # 0 => places[k] = After(loop, places[k - 1]))
  <2>1. CASE k = 0
    BY <2>1
  <2>2. CASE k # 0
    <3>1. k - 1 \in 0 .. size /\ at + (k - 1) \in Nat /\ (at + (k - 1)) + 1 = at + k
      BY <2>2
    <3>. DEFINE p == Place(loop, at + (k - 1))
    <3>2. places[k - 1] = p /\ places[k] = Place(loop, at + k)
      BY <3>1
    <3>3. /\ (loop.on => p + 1 < loop.to) => Place(loop, at + k) = p + 1
          /\ loop.on /\ p + 1 = loop.to => Place(loop, at + k) = loop.from
      BY <3>1, PlaceAdd
    <3>4. p \in Nat /\ Valid(loop) = loop.on /\ (loop.on => p < loop.to)
      BY <3>1, PlaceNat
    <3>. HIDE DEF p, places
    <3>5. loop.on \in BOOLEAN /\ loop.to \in Nat
      BY DEF LoopOK
    <3>. QED BY <2>2, <3>2, <3>3, <3>4, <3>5 DEF After
  <2>. QED BY <2>1, <2>2
<1>3. IsDue(places, loop, at, size)
  <2>. DEFINE again == [k \in 0 .. size |-> IF k = 0 THEN Place(loop, at) ELSE After(loop, places[k - 1])]
  <2>1. \A k \in 0 .. size : places[k] = again[k]
    <3>. HIDE DEF places
    <3>. QED BY <1>2
  <2>. QED BY <2>1 DEF IsDue
<1>4. IsDue(due, loop, at, size)
  BY <1>3
<1>. HIDE DEF due
<1>5. \A k \in 0 .. size : due[k] = places[k]
  <2>. DEFINE Bad == {k \in 0 .. size : due[k] # places[k]}
  <2>. SUFFICES ASSUME Bad # {} PROVE FALSE
    OBVIOUS
  <2>1. PICK k \in Bad : k = 0 \/ (k - 1 \in Nat /\ k - 1 \notin Bad)
    <3>1. Bad \in SUBSET Nat
      OBVIOUS
    <3>. HIDE DEF Bad
    <3>. QED BY <3>1, SmallestNat
  <2>2. k \in 0 .. size /\ due[k] # places[k]
    BY <2>1
  <2>3. due[k] = IF k = 0 THEN Place(loop, at) ELSE After(loop, due[k - 1])
    BY <1>4, <2>2 DEF IsDue
  <2>4. k # 0 => due[k - 1] = places[k - 1]
    BY <2>1, <2>2
  <2>. HIDE DEF places, Bad
  <2>. QED BY <1>2, <2>2, <2>3, <2>4
<1>6. DOMAIN due = 0 .. size /\ due = [k \in 0 .. size |-> due[k]]
  BY <1>4 DEF IsDue
<1>. QED BY <1>1, <1>5, <1>6
-----------------------------------------------------------------------------
(* The segments a block is rendered in.                                     *)
LEMMA FunctionIsSeq ==
    ASSUME NEW S, NEW n \in Nat, NEW f \in [1 .. n -> S]
    PROVE  f \in Seq(S) /\ Len(f) = n /\ DOMAIN f = 1 .. n
OBVIOUS

LEMMA FramesJoin ==
    ASSUME NEW d \in Nat, NEW n \in Nat, NEW p \in [1 .. d + n -> Nat],
           NEW f, f = [j \in 1 .. d |-> p[j]],
           NEW g, g = [k \in 1 .. n |-> p[d + k]]
    PROVE  f \o g = p
PROOF
<1>1. f \in Seq(Nat) /\ Len(f) = d /\ g \in Seq(Nat) /\ Len(g) = n
  <2>1. \A j \in 1 .. d : p[j] \in Nat
    OBVIOUS
  <2>2. \A k \in 1 .. n : p[d + k] \in Nat
    OBVIOUS
  <2>3. f \in [1 .. d -> Nat] /\ g \in [1 .. n -> Nat]
    BY <2>1, <2>2
  <2>. QED BY <2>3, FunctionIsSeq
<1>2. f \o g \in Seq(Nat) /\ Len(f \o g) = d + n
  BY <1>1
<1>3. ASSUME NEW i \in 1 .. d + n PROVE (f \o g)[i] = p[i]
  <2>1. CASE i \in 1 .. d
    <3>1. (f \o g)[i] = f[i]
      BY <1>1, <2>1
    <3>. QED BY <2>1, <3>1
  <2>2. CASE i \notin 1 .. d
    <3>1. i - d \in 1 .. n /\ d + (i - d) = i
      BY <2>2
    <3>2. (f \o g)[i] = g[i - d]
      BY <1>1, <2>2, <3>1
    <3>. QED BY <3>1, <3>2
  <2>. QED BY <2>1, <2>2
<1>4. DOMAIN (f \o g) = 1 .. d + n /\ (f \o g) = [i \in 1 .. d + n |-> (f \o g)[i]]
  BY <1>2
<1>. QED BY <1>3, <1>4

\* What is rendered of the block: `left` frames are wanted, the others are those due.
SegmentsOK(s, e, size) ==
    /\ s.left \in 0 .. size
    /\ s.frames = [j \in 1 .. size - s.left |-> Place(e.plan.loop, e.play + (j - 1))]
    /\ s.left > 0 => s.at = Place(e.plan.loop, e.play + (size - s.left))

LEMMA WrappedIsPlace ==
    ASSUME NEW e, PlayOK(e), NEW at \in Nat
    PROVE  Wrapped(e.plan, at) = Place(e.plan.loop, at)
BY PlaceNat DEF Wrapped, Place, PlayOK

LEMMA BegunOK ==
    ASSUME NEW e, PlayOK(e), NEW size \in Nat
    PROVE  SegmentsOK(Begun(e, size), e, size)
PROOF
<1>1. /\ Begun(e, size).left = size /\ Begun(e, size).frames = <<>>
      /\ Begun(e, size).at = Place(e.plan.loop, e.play)
  BY WrappedIsPlace DEF Begun, PlayOK
<1>2. size - size = 0 /\ e.play + 0 = e.play
  BY DEF PlayOK
<1>3. [j \in 1 .. 0 |-> Place(e.plan.loop, e.play + (j - 1))] = <<>>
  OBVIOUS
<1>. QED BY <1>1, <1>2, <1>3 DEF SegmentsOK

LEMMA SizedLeft ==
    ASSUME NEW e, NEW s, NEW n, NEW broken
    PROVE  Sized(e, s, n, broken).left = s.left - n
BY Zenon DEF Sized, Onward

LEMMA SizedAt ==
    ASSUME NEW e, NEW s, NEW n, NEW broken
    PROVE  Sized(e, s, n, broken).at = IF Again(e, s, n) THEN Wrapped(e.plan, s.at + n) ELSE s.at + n
BY Zenon DEF Sized, Onward

LEMMA SizedFrames ==
    ASSUME NEW e, NEW s, NEW n, NEW broken
    PROVE  Sized(e, s, n, broken).frames = s.frames \o Stretch(s.at, n)
BY Zenon DEF Sized, Onward

\* The length of a segment: up to the end of the loop, or what is left.
SegmentLength(e, s) ==
    IF e.plan.loop.on /\ s.at < e.plan.loop.to THEN Min({s.left, e.plan.loop.to - s.at}) ELSE s.left

LEMMA SegmentFacts ==
    ASSUME NEW e, PlayOK(e), NEW size \in Nat, NEW s, SegmentsOK(s, e, size), s.left > 0
    PROVE  LET loop == e.plan.loop
           IN  /\ LoopOK(loop) /\ e.play \in Nat
               /\ loop.on \in BOOLEAN /\ loop.to \in Nat /\ loop.from \in Nat
               /\ loop.on => loop.to > loop.from
               /\ s.left \in 1 .. size /\ e.play + (size - s.left) \in Nat
               /\ s.at = Place(loop, e.play + (size - s.left)) /\ s.at \in Nat
               /\ loop.on => s.at < loop.to
PROOF
<1>. DEFINE loop == e.plan.loop
            d == size - s.left
<1>3. LoopOK(loop) /\ e.play \in Nat
  BY DEF PlayOK
<1>4. loop.on \in BOOLEAN /\ loop.to \in Nat /\ loop.from \in Nat /\ (loop.on => loop.to > loop.from)
  BY <1>3 DEF LoopOK
<1>5. s.left \in 1 .. size /\ d \in Nat /\ s.at = Place(loop, e.play + d) /\ e.play + d \in Nat
  BY <1>3 DEF SegmentsOK
<1>6. s.at \in Nat /\ (loop.on => s.at < loop.to)
  BY <1>3, <1>5, PlaceNat
<1>. QED BY <1>3, <1>4, <1>5, <1>6

LEMMA LengthFits ==
    ASSUME NEW e, PlayOK(e), NEW size \in Nat, NEW s, SegmentsOK(s, e, size), s.left > 0
    PROVE  /\ SegmentLength(e, s) \in 1 .. s.left
           /\ e.plan.loop.on => SegmentLength(e, s) <= e.plan.loop.to - s.at
           /\ SegmentLength(e, s) < s.left /\ e.plan.loop.on => SegmentLength(e, s) = e.plan.loop.to - s.at
PROOF
<1>. DEFINE loop == e.plan.loop
            n == SegmentLength(e, s)
<1>1. /\ loop.on \in BOOLEAN /\ loop.to \in Nat /\ s.left \in 1 .. size /\ s.at \in Nat
      /\ loop.on => s.at < loop.to
  BY SegmentFacts
<1>2. CASE loop.on
  <2>1. n = Min({s.left, loop.to - s.at})
    BY <1>1, <1>2 DEF SegmentLength
  <2>. HIDE DEF n, loop
  <2>2. loop.to - s.at \in Nat /\ loop.to - s.at > 0 /\ s.left \in Nat
    BY <1>1, <1>2
  <2>3. n \in {s.left, loop.to - s.at} /\ n <= s.left /\ n <= loop.to - s.at
    BY <2>1, <2>2, MinOfTwo
  <2>4. /\ n \in 1 .. s.left
        /\ n <= loop.to - s.at
        /\ n < s.left => n = loop.to - s.at
    BY <1>1, <2>2, <2>3
  <2>. QED BY <1>2, <2>4 DEF n, loop
<1>3. CASE ~loop.on
  <2>1. n = s.left
    BY <1>3 DEF SegmentLength
  <2>. QED BY <1>1, <1>3, <2>1
<1>. QED BY <1>2, <1>3

LEMMA SizedOK ==
    ASSUME NEW e, PlayOK(e), NEW size \in Nat, NEW s, SegmentsOK(s, e, size), s.left > 0, NEW broken,
           NEW n \in 1 .. s.left, e.plan.loop.on => n <= e.plan.loop.to - s.at,
           n < s.left /\ e.plan.loop.on => n = e.plan.loop.to - s.at
    PROVE  SegmentsOK(Sized(e, s, n, broken), e, size) /\ Sized(e, s, n, broken).left < s.left
PROOF
<1>. DEFINE loop == e.plan.loop
            d == size - s.left
            t == Sized(e, s, n, broken)
            P(k) == Place(loop, e.play + k)
<1>2. /\ t.left = s.left - n
      /\ t.at = IF Again(e, s, n) THEN Wrapped(e.plan, s.at + n) ELSE s.at + n
      /\ t.frames = s.frames \o Stretch(s.at, n)
  <2>1. t.left = s.left - n
    BY SizedLeft
  <2>2. t.at = IF Again(e, s, n) THEN Wrapped(e.plan, s.at + n) ELSE s.at + n
    BY SizedAt
  <2>3. t.frames = s.frames \o Stretch(s.at, n)
    BY SizedFrames
  <2>. QED BY <2>1, <2>2, <2>3
<1>. HIDE DEF t
<1>3. LoopOK(loop) /\ e.play \in Nat
  BY SegmentFacts
<1>4. loop.on \in BOOLEAN /\ loop.to \in Nat /\ loop.from \in Nat /\ (loop.on => loop.to > loop.from)
  BY SegmentFacts
<1>5. s.left \in 1 .. size /\ d \in Nat /\ s.at = P(d) /\ e.play + d \in Nat
  BY SegmentFacts
<1>6. s.at \in Nat /\ (loop.on => s.at < loop.to)
  BY SegmentFacts
<1>7. /\ n \in 1 .. s.left
      /\ loop.on => n <= loop.to - s.at
      /\ n < s.left /\ loop.on => n = loop.to - s.at
  OBVIOUS
<1>8. Again(e, s, n) <=> loop.on /\ s.at + n >= loop.to /\ n < s.left
  BY DEF Again
<1>9. ASSUME NEW k \in Nat, k < n PROVE P(d + k) = s.at + k
  <2>1. loop.on => s.at + k < loop.to
    BY <1>4, <1>6, <1>7, <1>9
  <2>2. (loop.on => Place(loop, e.play + d) + k < loop.to)
          => Place(loop, (e.play + d) + k) = Place(loop, e.play + d) + k
    BY <1>3, <1>5, PlaceAdd
  <2>3. (e.play + d) + k = e.play + (d + k)
    BY <1>3, <1>5
  <2>. HIDE DEF loop
  <2>. QED BY <1>5, <2>1, <2>2, <2>3
<1>10. t.left \in 0 .. size /\ t.left < s.left /\ size - t.left = d + n
  <2>1. t.left = s.left - n
    BY <1>2
  <2>2. n \in 1 .. s.left /\ s.left \in 1 .. size
    BY <1>5, <1>7
  <2>. QED BY <2>1, <2>2
<1>11. t.frames = [j \in 1 .. d + n |-> P(j - 1)]
  <2>. DEFINE p == [j \in 1 .. d + n |-> P(j - 1)]
  <2>0. d \in Nat /\ n \in Nat
    BY <1>5, <1>7
  <2>1. \A j \in 1 .. d + n : P(j - 1) \in Nat
    <3>1. ASSUME NEW j \in 1 .. d + n PROVE P(j - 1) \in Nat
      <4>1. e.play + (j - 1) \in Nat
        BY <1>3, <2>0
      <4>. QED BY <1>3, <4>1, PlaceNat
    <3>. QED BY <3>1
  <2>2. p \in [1 .. d + n -> Nat]
    BY <2>1
  <2>3. s.frames = [j \in 1 .. d |-> p[j]]
    <3>1. s.frames = [j \in 1 .. d |-> P(j - 1)]
      BY DEF SegmentsOK
    <3>2. \A j \in 1 .. d : p[j] = P(j - 1)
      BY <2>0
    <3>. HIDE DEF p
    <3>. QED BY <3>1, <3>2
  <2>4. [k \in 1 .. n |-> s.at + (k - 1)] = [k \in 1 .. n |-> p[d + k]]
    <3>1. ASSUME NEW k \in 1 .. n PROVE s.at + (k - 1) = p[d + k]
      <4>1. d + k \in 1 .. d + n /\ k - 1 \in Nat /\ k - 1 < n /\ (d + k) - 1 = d + (k - 1)
        BY <2>0
      <4>2. p[d + k] = P(d + (k - 1))
        BY <4>1
      <4>3. P(d + (k - 1)) = s.at + (k - 1)
        BY <1>9, <4>1
      <4>. QED BY <1>6, <2>0, <4>2, <4>3
    <3>. HIDE DEF p
    <3>. QED BY <3>1
  <2>. HIDE DEF p
  <2>5. s.frames \o [k \in 1 .. n |-> s.at + (k - 1)] = p
    <3>. DEFINE f == s.frames
                g == [k \in 1 .. n |-> s.at + (k - 1)]
    <3>1. f = [j \in 1 .. d |-> p[j]] /\ g = [k \in 1 .. n |-> p[d + k]]
      BY <2>3, <2>4
    <3>. HIDE DEF f, g, d
    <3>2. f \o g = p
      BY <2>0, <2>2, <3>1, FramesJoin
    <3>. QED BY <3>2 DEF f, g
  <2>6. Stretch(s.at, n) = [k \in 1 .. n |-> s.at + (k - 1)]
    BY Zenon DEF Stretch
  <2>. QED BY <1>2, <2>5, <2>6 DEF p
<1>12. t.left > 0 => t.at = P(d + n)
  <2>. SUFFICES ASSUME t.left > 0 PROVE t.at = P(d + n)
    OBVIOUS
  <2>1. n < s.left /\ n \in Nat
    BY <1>2, <1>5, <1>7
  <2>2. (e.play + d) + n = e.play + (d + n)
    BY <1>3, <1>5, <2>1
  <2>3. /\ (loop.on => s.at + n < loop.to) => P(d + n) = s.at + n
        /\ loop.on /\ s.at + n = loop.to => P(d + n) = loop.from
    <3>1. /\ (loop.on => Place(loop, e.play + d) + n < loop.to)
              => Place(loop, (e.play + d) + n) = Place(loop, e.play + d) + n
          /\ loop.on /\ Place(loop, e.play + d) + n = loop.to => Place(loop, (e.play + d) + n) = loop.from
      BY <1>3, <1>5, <2>1, PlaceAdd
    <3>. HIDE DEF loop
    <3>. QED BY <1>5, <2>2, <3>1
  <2>4. CASE loop.on
    <3>1. s.at + n = loop.to
      BY <1>4, <1>6, <1>7, <2>1, <2>4
    <3>2. Again(e, s, n)
      BY <1>4, <1>8, <2>1, <2>4, <3>1
    <3>3. t.at = Place(loop, s.at + n)
      <4>1. s.at + n \in Nat
        BY <1>6, <2>1
      <4>. QED BY <1>2, <3>2, <4>1, WrappedIsPlace
    <3>4. Place(loop, loop.to) = loop.from
      <4>1. loop.from \in Nat /\ loop.to - loop.from \in Nat /\ loop.from + (loop.to - loop.from) = loop.to
        BY <1>4, <2>4
      <4>2. Place(loop, loop.from) = loop.from
        BY <1>4, <2>4 DEF Place, Valid
      <4>3. loop.on /\ Place(loop, loop.from) + (loop.to - loop.from) = loop.to
              => Place(loop, loop.from + (loop.to - loop.from)) = loop.from
        BY <1>3, <4>1, PlaceAdd
      <4>. HIDE DEF loop
      <4>. QED BY <2>4, <4>1, <4>2, <4>3
    <3>. HIDE DEF loop
    <3>. QED BY <2>3, <2>4, <3>1, <3>3, <3>4
  <2>5. CASE ~loop.on
    <3>1. ~Again(e, s, n)
      BY <1>8, <2>5
    <3>. QED BY <1>2, <2>3, <2>5, <3>1
  <2>. QED BY <1>4, <2>4, <2>5
<1>13. SegmentsOK(t, e, size) /\ t.left < s.left
  BY <1>10, <1>11, <1>12 DEF SegmentsOK
<1>. QED BY <1>13 DEF t

LEMMA SegmentOK ==
    ASSUME NEW e, PlayOK(e), NEW size \in Nat, NEW s, SegmentsOK(s, e, size), s.left > 0, NEW broken
    PROVE  SegmentsOK(Segment(e, s, broken), e, size) /\ Segment(e, s, broken).left < s.left
PROOF
<1>1. Segment(e, s, broken) = Sized(e, s, SegmentLength(e, s), broken)
  BY DEF Segment, SegmentLength, SegmentsOK
<1>. DEFINE n == SegmentLength(e, s)
<1>2. /\ n \in 1 .. s.left /\ (e.plan.loop.on => n <= e.plan.loop.to - s.at)
      /\ n < s.left /\ e.plan.loop.on => n = e.plan.loop.to - s.at
  BY LengthFits
<1>. HIDE DEF n
<1>3. SegmentsOK(Sized(e, s, n, broken), e, size) /\ Sized(e, s, n, broken).left < s.left
  BY <1>2, SizedOK
<1>. QED BY <1>1, <1>3 DEF n

IsMade(made, e, size, broken, len) ==
    made = [k \in 0 .. len |-> IF k = 0 THEN Begun(e, size) ELSE Segment(e, made[k - 1], broken)]

LEMMA MadeExists ==
    ASSUME NEW e, NEW size, NEW broken, NEW len \in Nat
    PROVE  \E made : IsMade(made, e, size, broken, len)
PROOF
<1>. DEFINE Bad == {n \in Nat : ~ \E made : IsMade(made, e, size, broken, n)}
<1>1. SUFFICES ASSUME Bad # {} PROVE FALSE
  OBVIOUS
<1>2. PICK n \in Bad : n = 0 \/ (n - 1 \in Nat /\ n - 1 \notin Bad)
  <2>1. Bad \in SUBSET Nat
    OBVIOUS
  <2>. HIDE DEF Bad
  <2>. QED BY <1>1, <2>1, SmallestNat
<1>3. CASE n = 0
  <2>1. IsMade([k \in 0 .. 0 |-> Begun(e, size)], e, size, broken, 0)
    BY DEF IsMade
  <2>. QED BY <1>2, <1>3, <2>1
<1>4. CASE n # 0
  <2>1. PICK made : IsMade(made, e, size, broken, n - 1)
    BY <1>2, <1>4
  <2>. DEFINE longer == [k \in 0 .. n |-> IF k = n THEN Segment(e, made[n - 1], broken) ELSE made[k]]
  <2>2. ASSUME NEW k \in 0 .. n
        PROVE  longer[k] = IF k = 0 THEN Begun(e, size) ELSE Segment(e, longer[k - 1], broken)
    <3>1. CASE k = n
      <4>1. longer[k - 1] = made[n - 1] /\ longer[k] = Segment(e, made[n - 1], broken)
        BY <1>2, <1>4, <3>1
      <4>. HIDE DEF longer
      <4>. QED BY <1>4, <3>1, <4>1
    <3>2. CASE k # n /\ k # 0
      <4>1. k \in 0 .. n - 1 /\ k - 1 \in 0 .. n /\ k - 1 # n
        BY <1>2, <3>2
      <4>2. longer[k] = made[k] /\ longer[k - 1] = made[k - 1]
        BY <3>2, <4>1
      <4>3. made[k] = Segment(e, made[k - 1], broken)
        BY <2>1, <3>2, <4>1 DEF IsMade
      <4>. HIDE DEF longer
      <4>. QED BY <3>2, <4>2, <4>3
    <3>3. CASE k # n /\ k = 0
      <4>1. made[0] = Begun(e, size)
        BY <2>1, <1>2, <1>4 DEF IsMade
      <4>. QED BY <3>3, <4>1
    <3>. QED BY <3>1, <3>2, <3>3
  <2>3. IsMade(longer, e, size, broken, n)
    <3>1. longer = [k \in 0 .. n |-> longer[k]]
      OBVIOUS
    <3>. HIDE DEF longer
    <3>. QED BY <2>2, <3>1 DEF IsMade
  <2>. QED BY <1>2, <2>3
<1>. QED BY <1>3, <1>4

\* A block is rendered whole, and its frames are those due.
LEMMA SegmentsFollow ==
    ASSUME NEW e, PlayOK(e), NEW size \in Nat, NEW broken
    PROVE  Segments(e, size, broken).frames = [j \in 1 .. size |-> Place(e.plan.loop, e.play + (j - 1))]
PROOF
<1>. DEFINE made == CHOOSE made : IsMade(made, e, size, broken, size)
<1>1. Segments(e, size, broken) = made[size]
  BY DEF Segments, IsMade
<1>2. IsMade(made, e, size, broken, size)
  BY MadeExists
<1>. HIDE DEF made
<1>. DEFINE OK(k) == SegmentsOK(made[k], e, size) /\ made[k].left <= size - k
            Bad == {k \in 0 .. size : ~OK(k)}
<1>3. ASSUME Bad # {} PROVE FALSE
  <2>1. PICK k \in Bad : k = 0 \/ (k - 1 \in Nat /\ k - 1 \notin Bad)
    <3>1. Bad \in SUBSET Nat
      OBVIOUS
    <3>. HIDE DEF Bad
    <3>. QED BY <1>3, <3>1, SmallestNat
  <2>2. k \in 0 .. size /\ ~OK(k)
    BY <2>1
  <2>3. made[k] = IF k = 0 THEN Begun(e, size) ELSE Segment(e, made[k - 1], broken)
    BY <1>2, <2>2 DEF IsMade
  <2>4. CASE k = 0
    <3>1. SegmentsOK(made[k], e, size)
      BY <2>3, <2>4, BegunOK
    <3>. QED BY <2>2, <2>4, <3>1 DEF SegmentsOK
  <2>5. CASE k # 0
    <3>. DEFINE s == made[k - 1]
    <3>1. SegmentsOK(s, e, size) /\ s.left <= size - (k - 1) /\ k \in 1 .. size
      BY <2>1, <2>2, <2>5
    <3>2. s.left \in Nat
      BY <3>1 DEF SegmentsOK
    <3>3. made[k] = Segment(e, s, broken)
      BY <2>3, <2>5
    <3>. HIDE DEF s, OK, Bad
    <3>4. CASE s.left > 0
      <4>1. SegmentsOK(made[k], e, size) /\ made[k].left < s.left
        BY <3>1, <3>3, <3>4, SegmentOK
      <4>2. made[k].left \in Nat
        BY <4>1 DEF SegmentsOK
      <4>3. made[k].left <= size - k
        BY <3>1, <3>2, <4>1, <4>2
      <4>. QED BY <2>2, <4>1, <4>3 DEF OK
    <3>5. CASE s.left = 0
      <4>1. made[k] = s
        BY <3>3, <3>5 DEF Segment
      <4>2. s.left <= size - k
        BY <3>1, <3>5
      <4>. QED BY <2>2, <3>1, <4>1, <4>2 DEF OK
    <3>. QED BY <3>2, <3>4, <3>5
  <2>. QED BY <2>4, <2>5
<1>4. OK(size)
  BY <1>3
<1>5. made[size].left = 0
  BY <1>4 DEF SegmentsOK
<1>. QED BY <1>1, <1>4, <1>5 DEF SegmentsOK
-----------------------------------------------------------------------------
(* A block.                                                                 *)
Rides(f, e) == Stays(f, e) /\ f.set.running = e.set.running

LEMMA BlockRides ==
    ASSUME NEW e, Rolls(e), NEW size, NEW answers, NEW broken, NEW made, NEW inside
    PROVE  /\ Rides(SyncMonitor(e), e)
           /\ Rides(Quiet(e), e)
           /\ Rides(MixInput(e, size), e)
           /\ Rides(OutsideMonitor(e, size, inside, answers), e)
           /\ Rides(PlayOutput(e, broken), e)
           /\ Rides(Fade(e, size), e)
           /\ Rides(Taken(e, made), e)
PROOF
<1>1. ASSUME NEW f, Rolls(f) PROVE Rides(SyncMonitor(f), f)
  BY <1>1 DEF SyncMonitor, Rides, Stays, Rolls
<1>2. Rides(Quiet(e), e)
  BY DEF Quiet, Rides, Stays, Rolls
<1>3. Rides(MixInput(e, size), e)
  BY DEF MixInput, Rides, Stays, Rolls
<1>4. Rides(OutsideMonitor(e, size, inside, answers), e)
  <2>1. Rides(Monitoring(e, size, answers), e)
    <3>1. Rides([e EXCEPT !.path = Steady], e) /\ Rides([e EXCEPT !.path.left = @ - size], e)
          /\ Rides([e EXCEPT !.mods = @ - size], e) /\ Rides(e, e)
      BY DEF Rides, Stays, Rolls
    <3>2. Rides([e EXCEPT !.mods = 0], e)
      BY DEF Rides, Stays, Rolls
    <3>3. Rides(SyncMonitor([e EXCEPT !.mods = 0]), e)
      <4>. DEFINE f == [e EXCEPT !.mods = 0]
      <4>. HIDE DEF f
      <4>1. Rides(f, e)
        BY <3>2 DEF f
      <4>2. Rides(SyncMonitor(f), f)
        BY <1>1, <4>1 DEF Rides, Stays
      <4>. QED BY <4>1, <4>2 DEF Rides, Stays, f
    <3>. QED BY <3>1, <3>3 DEF Monitoring
  <2>. QED BY <2>1 DEF OutsideMonitor, Rides, Stays
<1>5. Rides(PlayOutput(e, broken), e)
  BY DEF PlayOutput, Rides, Stays, Rolls
<1>6. Rides(Fade(e, size), e)
  BY DEF Fade, Rides, Stays, Rolls
<1>7. Rides(Taken(e, made), e)
  BY DEF Taken, Rides, Stays, Rolls
<1>. QED BY <1>1, <1>2, <1>3, <1>4, <1>5, <1>6, <1>7

\* Where the playhead is after a block.
MovedOn(f, e, size) ==
    /\ PlayOK(f)
    /\ f.play = IF e.set.running THEN Place(e.plan.loop, e.play + size) ELSE e.play

LEMMA MovedPlays ==
    ASSUME NEW e, PlayOK(e), NEW size \in Nat
    PROVE  MovedOn(Moved(e, size), e, size)
PROOF
<1>1. e.play + size \in Nat /\ LoopOK(e.plan.loop)
  BY DEF PlayOK
<1>2. Wrapped(e.plan, e.play + size) = Place(e.plan.loop, e.play + size)
      /\ Place(e.plan.loop, e.play + size) \in Nat
  BY <1>1, WrappedIsPlace, PlaceNat
<1>. DEFINE r == Max({0, e.ramp - size})
            p == IF e.set.running THEN Wrapped(e.plan, e.play + size) ELSE e.play
            f == [e EXCEPT !.ramp = r, !.play = p]
<1>3. Moved(e, size) = f
  BY DEF Moved
<1>4. p = (IF e.set.running THEN Place(e.plan.loop, e.play + size) ELSE e.play) /\ p \in Nat
  BY <1>2 DEF PlayOK
<1>. HIDE DEF r, p
<1>5. Rolls(f) /\ f.play = p /\ f.plan = e.plan
  BY DEF PlayOK, Rolls
<1>. HIDE DEF f
<1>. QED BY <1>3, <1>4, <1>5 DEF MovedOn, PlayOK

LEMMA SoundingPlays ==
    ASSUME NEW e, PlayOK(e), NEW size \in Nat, NEW inside, NEW env
    PROVE  MovedOn(Sounding(e, size, inside, env), e, size)
PROOF
<1>. DEFINE a == IF env.busy THEN e ELSE MixInput(e, size)
            b == OutsideMonitor(a, size, inside, env.answers)
            c == PlayOutput(b, env.broken)
            d == Fade(c, size)
<1>1. Sounding(e, size, inside, env) = Moved(d, size)
  BY DEF Sounding
<1>2. Rides(a, e)
  BY BlockRides DEF Rides, Stays, PlayOK
<1>. HIDE DEF a
<1>3. Rides(b, e)
  BY <1>2, BlockRides DEF Rides, Stays
<1>. HIDE DEF b
<1>4. Rides(c, e)
  BY <1>3, BlockRides DEF Rides, Stays
<1>. HIDE DEF c
<1>5. Rides(d, e)
  BY <1>4, BlockRides DEF Rides, Stays
<1>. HIDE DEF d
<1>6. PlayOK(d)
  BY <1>5, StaysOK DEF Rides
<1>7. MovedOn(Moved(d, size), d, size)
  BY <1>6, MovedPlays
<1>. QED BY <1>1, <1>5, <1>7 DEF MovedOn, Rides, Stays

LEMMA RenderFollows ==
    ASSUME NEW e, PlayOK(e), NEW size \in Nat, NEW env
    PROVE  /\ MovedOn(Render(e, size, env).e, e, size)
           /\ Render(e, size, env).frames # <<>>
                => Render(e, size, env).frames = [j \in 1 .. size |-> Place(e.plan.loop, e.play + (j - 1))]
PROOF
<1>. DEFINE q == Quiet(SyncMonitor(e))
            r == RenderFrom(q, size, env)
<1>1. Rides(q, e)
  <2>1. Rides(SyncMonitor(e), e)
    BY BlockRides DEF PlayOK
  <2>2. Rides(Quiet(SyncMonitor(e)), SyncMonitor(e))
    BY <2>1, BlockRides DEF Rides, Stays
  <2>. QED BY <2>1, <2>2 DEF Rides, Stays
<1>2. Render(e, size, env) = r
  BY DEF Render
<1>. HIDE DEF q
<1>3. PlayOK(q)
  BY <1>1, StaysOK DEF Rides
<1>4. CASE HasContent(q)
  <2>. DEFINE made == Segments(q, size, env.broken)
              t == Taken(q, made)
  <2>1. r.e = Sounding(t, size, q.plan.monitorDsp, env)
    BY <1>4 DEF RenderFrom, Heard
  <2>2. r.frames = made.frames
    BY <1>4 DEF RenderFrom, Heard
  <2>3. made.frames = [j \in 1 .. size |-> Place(q.plan.loop, q.play + (j - 1))]
    BY <1>3, SegmentsFollow
  <2>. HIDE DEF made
  <2>4. Rides(t, q)
    BY <1>3, BlockRides DEF PlayOK
  <2>. HIDE DEF t
  <2>5. PlayOK(t)
    BY <1>3, <2>4, StaysOK DEF Rides
  <2>6. MovedOn(Sounding(t, size, q.plan.monitorDsp, env), t, size)
    BY <2>5, SoundingPlays
  <2>. QED BY <1>1, <1>2, <2>1, <2>2, <2>3, <2>4, <2>6 DEF MovedOn, Rides, Stays
<1>5. CASE ~HasContent(q)
  <2>1. r.e = Sounding(q, size, FALSE, env) /\ r.frames = <<>>
    BY <1>5 DEF RenderFrom
  <2>2. MovedOn(Sounding(q, size, FALSE, env), q, size)
    BY <1>3, SoundingPlays
  <2>. QED BY <1>1, <1>2, <2>1, <2>2 DEF MovedOn, Rides, Stays
<1>. QED BY <1>4, <1>5
-----------------------------------------------------------------------------
\* The engine's playhead is the frame the listener expects next.
CueInv == PlayOK(eng) /\ eng.play = cue /\ PlayheadFollows

LEMMA InitCueInv == Init => CueInv
PROOF
<1>. SUFFICES ASSUME Init PROVE CueInv
  OBVIOUS
<1>1. /\ {"play", "plan", "set"} \subseteq DOMAIN eng /\ eng.play = 0 /\ eng.plan = NoPlan
      /\ cue = 0 /\ heard.frames = <<>>
  BY DEF Init, Idle, Nothing
<1>2. "loop" \in DOMAIN NoPlan /\ NoPlan.loop = [on |-> FALSE, from |-> 0, to |-> 0]
  BY DEF NoPlan
<1>3. LoopOK([on |-> FALSE, from |-> 0, to |-> 0])
  BY DEF LoopOK
<1>. QED BY <1>1, <1>2, <1>3 DEF CueInv, PlayOK, Rolls, PlayheadFollows

\* A step in which no block is heard.
LEMMA SilentStep ==
    ASSUME PlayOK(eng'), eng'.play = cue', heard' = Nothing
    PROVE  CueInv'
PROOF
<1>1. heard'.frames = <<>>
  BY DEF Nothing
<1>. QED BY <1>1 DEF CueInv, PlayOK, Rolls, LoopOK, PlayheadFollows

LEMMA StayingStep ==
    ASSUME CueInv, Stays(eng', eng), cue' = cue, heard' = Nothing
    PROVE  CueInv'
PROOF
<1>1. PlayOK(eng') /\ eng'.play = cue'
  BY StaysOK DEF CueInv, Stays
<1>. QED BY <1>1, SilentStep

LEMMA StartCue ==
    ASSUME CueInv, NEW set, NEW stopped \in {eng, ResetRuntime(eng)},
           NEW trouble, Start(stopped, set, trouble), heard' = Nothing
    PROVE  CueInv'
PROOF
<1>1. PICK made \in {Prepared(stopped, set, trouble)} :
        \/ /\ made.ok
           /\ eng' = made.e /\ dev' = Opened(set, made.e) /\ cue' = cue
        \/ /\ eng' \in {stopped, made.e} \cup (IF made.ok THEN {ResetRuntime(made.e)} ELSE {})
           /\ dev' = Unopened(set)
           /\ cue' = eng'.play
  BY DEF Start
<1>. DEFINE conf == Configure(stopped, set, trouble.served, trouble.broken)
<1>2. PlayOK(eng) /\ PlayOK(ResetRuntime(eng)) /\ ResetRuntime(eng).play = 0 /\ eng.play \in Nat
  BY ResetRuntimePlays DEF CueInv, PlayOK
<1>3. PlayOK(stopped) /\ (stopped.play = eng.play \/ stopped.play = 0)
  BY <1>2
<1>4. Stays(conf.e, stopped)
  BY <1>3, ConfigureStays DEF PlayOK
<1>5. PlayOK(conf.e) /\ (conf.e.play = eng.play \/ conf.e.play = 0)
  BY <1>3, <1>4, StaysOK DEF Stays
<1>6. made = Back(conf, eng.play)
  BY DEF Prepared
<1>7. "e" \in DOMAIN conf
  BY DEF Configure, PrepareChains
<1>. HIDE DEF conf
<1>8. PlayOK(made.e) /\ (made.ok => made.e.play = eng.play)
  <2>1. CASE conf.ok /\ eng.play > 0
    <3>1. made.e = Seek(conf.e, eng.play)
      BY <1>6, <1>7, <2>1 DEF Back
    <3>. QED BY <1>2, <1>5, <3>1, PlacesPlayhead
  <2>2. CASE ~(conf.ok /\ eng.play > 0)
    <3>1. made = conf
      BY <1>6, <2>2 DEF Back
    <3>. QED BY <1>2, <1>5, <2>2, <3>1
  <2>. QED BY <2>1, <2>2
<1>9. PlayOK(ResetRuntime(made.e))
  BY <1>8, ResetRuntimePlays
<1>10. CASE made.ok /\ eng' = made.e /\ cue' = cue
  BY <1>8, <1>10, SilentStep DEF CueInv
<1>11. CASE eng' \in {stopped, made.e} \cup (IF made.ok THEN {ResetRuntime(made.e)} ELSE {}) /\ cue' = eng'.play
  <2>1. PlayOK(eng')
    BY <1>3, <1>8, <1>9, <1>11
  <2>. QED BY <1>11, <2>1, SilentStep
<1>. QED BY <1>1, <1>10, <1>11

LEMMA BlockCue ==
    ASSUME CueInv, NEW size \in Nat, NEW trouble, Block(size, trouble)
    PROVE  CueInv'
PROOF
<1>. DEFINE made == Render(eng, size, trouble)
            due == Due(eng.plan.loop, cue, size)
<1>1. /\ eng' = made.e
      /\ heard' = [frames |-> made.frames, due |-> [k \in 1 .. size |-> due[k - 1]], mixes |-> made.mixes,
                   beside |-> made.beside, broken |-> trouble.broken]
      /\ cue' = IF eng.set.running THEN due[size] ELSE cue
  BY DEF Block
<1>2. PlayOK(eng) /\ eng.play = cue /\ LoopOK(eng.plan.loop) /\ cue \in Nat
  BY DEF CueInv, PlayOK
<1>3. due = [k \in 0 .. size |-> Place(eng.plan.loop, cue + k)]
  BY <1>2, DueIs
<1>4. /\ MovedOn(made.e, eng, size)
      /\ made.frames # <<>> => made.frames = [j \in 1 .. size |-> Place(eng.plan.loop, cue + (j - 1))]
  BY <1>2, RenderFollows
<1>. HIDE DEF made, due
<1>5. due[size] = Place(eng.plan.loop, cue + size)
  BY <1>3
<1>6. [k \in 1 .. size |-> due[k - 1]] = [j \in 1 .. size |-> Place(eng.plan.loop, cue + (j - 1))]
  <2>1. \A k \in 1 .. size : due[k - 1] = Place(eng.plan.loop, cue + (k - 1))
    <3>1. \A k \in 1 .. size : k - 1 \in 0 .. size
      OBVIOUS
    <3>. QED BY <1>3, <3>1
  <2>. QED BY <2>1
<1>7. PlayOK(eng') /\ eng'.play = cue'
  BY <1>1, <1>2, <1>4, <1>5 DEF MovedOn
<1>8. heard'.frames = made.frames /\ heard'.due = [k \in 1 .. size |-> due[k - 1]]
  BY <1>1
<1>9. heard'.frames # <<>> => heard'.frames = heard'.due
  BY <1>4, <1>6, <1>8
<1>. QED BY <1>7, <1>9 DEF CueInv, PlayOK, Rolls, LoopOK, PlayheadFollows

LEMMA NextCueInv == CueInv /\ IInv /\ [Next]_vars => CueInv'
PROOF
<1>. SUFFICES ASSUME CueInv, IInv, [Next]_vars PROVE CueInv'
  OBVIOUS
<1>0. PlayOK(eng) /\ Rolls(eng) /\ eng.play = cue /\ cue \in Nat
  BY DEF CueInv, PlayOK
<1>1. CASE Open
  <2>1. PICK doc \in Docs, trouble \in Troubles :
          \E first \in {LoadProject(eng, doc, trouble.served, trouble.broken)} :
          \E conf \in {Configure(ResetRuntime(first.e), Opening, trouble.served, trouble.broken)} :
          \E again \in {LoadProject(conf.e, doc, trouble.served, trouble.broken)} :
             eng' = again.e
    BY <1>1 DEF Open
  <2>. DEFINE first == LoadProject(eng, doc, trouble.served, trouble.broken)
              conf == Configure(ResetRuntime(first.e), Opening, trouble.served, trouble.broken)
              again == LoadProject(conf.e, doc, trouble.served, trouble.broken)
  <2>2. eng' = again.e /\ heard' = Nothing /\ cue' = 0
    BY <1>1, <2>1 DEF Open
  <2>3. PlayOK(first.e)
    BY <1>0, ProjectPlays
  <2>. HIDE DEF first
  <2>4. PlayOK(ResetRuntime(first.e))
    BY <2>3, ResetRuntimePlays
  <2>5. PlayOK(conf.e)
    BY <2>4, ConfigureStays, StaysOK DEF PlayOK
  <2>. HIDE DEF conf
  <2>6. PlayOK(again.e) /\ again.e.play = 0
    BY <2>5, ProjectPlays
  <2>. HIDE DEF again
  <2>. QED BY <2>2, <2>6, SilentStep
<1>2. CASE Restart
  <2>1. heard' = Nothing /\ \E set \in Settings, stopped \in {eng, ResetRuntime(eng)}, trouble \in Troubles :
                            Start(stopped, set, trouble)
    BY <1>2 DEF Restart, Reload, Call
  <2>. QED BY <2>1, StartCue
<1>3. CASE Stop
  <2>1. heard' = Nothing /\ \/ eng' = eng /\ cue' = cue
                            \/ eng' = ResetRuntime(eng) /\ cue' = 0
    BY <1>3 DEF Stop, Reload, Call
  <2>2. PlayOK(ResetRuntime(eng)) /\ ResetRuntime(eng).play = 0
    BY <1>0, ResetRuntimePlays
  <2>. QED BY <1>0, <2>1, <2>2, SilentStep
<1>5. CASE Load
  <2>1. PICK doc \in Docs, trouble \in Troubles :
            heard' = Nothing /\ Handed(LoadProject(eng, doc, trouble.served, trouble.broken), 0)
    BY <1>5 DEF Load, Reload, Call
  <2>2. PlayOK(LoadProject(eng, doc, trouble.served, trouble.broken).e)
        /\ LoadProject(eng, doc, trouble.served, trouble.broken).e.play = 0
    BY <1>0, ProjectPlays
  <2>. QED BY <2>1, <2>2, SilentStep DEF Handed
<1>6. CASE Update
  <2>1. PICK doc \in Docs, trouble \in Troubles :
            heard' = Nothing /\ Handed(UpdateProject(eng, doc, trouble.served, trouble.broken), cue)
    BY <1>6 DEF Update, Reload, Call
  <2>2. PlayOK(UpdateProject(eng, doc, trouble.served, trouble.broken).e)
        /\ UpdateProject(eng, doc, trouble.served, trouble.broken).e.play = eng.play
    BY <1>0, ProjectPlays
  <2>. QED BY <1>0, <2>1, <2>2, SilentStep DEF Handed
<1>7. CASE PlayFile
  <2>1. PICK length \in Positions \ {0} :
            eng' = LoadAudioFile(eng, length) /\ heard' = Nothing /\ cue' = 0
    BY <1>7 DEF PlayFile, Reload, Call
  <2>. QED BY <1>0, <2>1, LoadAudioFilePlays, SilentStep
<1>8. ASSUME NEW e, Change(e), Stays(e, eng) PROVE CueInv'
  <2>1. eng' = e /\ cue' = cue /\ heard' = Nothing
    BY <1>8 DEF Change, ChangeCall, Call
  <2>. QED BY <1>8, <2>1, StayingStep
<1>9. CASE Live
  <2>1. CASE \E on \in BOOLEAN : Change(SetTestTone(eng, on))
    BY <1>0, <1>8, <2>1, ChangesStay
  <2>2. ASSUME NEW t \in Changeable, NEW i \in DOMAIN t.sends, NEW on \in BOOLEAN,
               Change(UpdateTrackSend(eng, t.name, i, on))
        PROVE  CueInv'
    BY <1>0, <1>8, <2>2, ChangesStay
  <2>3. ASSUME NEW t \in Changeable, NEW i \in DOMAIN t.inserts, NEW byp \in BOOLEAN,
               Change(UpdateTrackBypass(eng, t.name, i, byp))
        PROVE  CueInv'
    BY <1>0, <1>8, <2>3, ChangesStay
  <2>4. ASSUME NEW t \in Changeable, NEW i \in DOMAIN t.inserts, NEW value \in Values,
               Parameter(t, i, value)
        PROVE  CueInv'
    <3>1. eng' = UpdateTrackParameter(eng, t.name, i, value) /\ cue' = cue /\ heard' = Nothing
      BY <2>4 DEF Parameter, Call
    <3>. QED BY <1>0, <3>1, ChangesStay, StayingStep
  <2>5. ASSUME NEW t \in Changeable, NEW flip \in {"mute", "solo"},
               Change(UpdateTrackPlayback(eng, t.name, IF flip = "mute" THEN ~t.mute ELSE t.mute,
                                          IF flip = "solo" THEN ~t.solo ELSE t.solo))
        PROVE  CueInv'
    BY <1>0, <1>8, <2>5, ChangesStay
  <2>6. ASSUME NEW t \in Changeable, NEW pitch, NEW on \in BOOLEAN,
               Change(QueueLive(eng, t.name, [pitch |-> pitch, on |-> on]))
        PROVE  CueInv'
    BY <1>0, <1>8, <2>6, ChangesStay
  <2>7. CASE \E i \in DOMAIN eng.plan.master, byp \in BOOLEAN : Change(UpdateMasterBypass(eng, i, byp))
    BY <1>0, <1>8, <2>7, ChangesStay
  <2>8. CASE \E i \in DOMAIN eng.plan.master, value \in Values :
                 Change(UpdateMasterParameter(eng, i, value))
    BY <1>0, <1>8, <2>8, ChangesStay
  <2>9. CASE \E i \in DOMAIN eng.set.speaker, value \in Values :
                 Change(UpdateSpeakerParameter(eng, i, value))
    BY <1>0, <1>8, <2>9, ChangesStay
  <2>10. CASE \E path \in {"internal", "external"}, server \in BOOLEAN :
                 Change(SetMonitorPath(eng, path, server))
    BY <1>0, <1>8, <2>10, ChangesStay
  <2>. QED
    BY <1>9, <2>1, <2>2, <2>3, <2>4, <2>5, <2>6, <2>7, <2>8, <2>9, <2>10 DEF Live
<1>10. CASE SetModules
  <2>1. PICK on \in BOOLEAN, target \in BOOLEAN, trouble \in Troubles :
            /\ eng' = SetMonitorModules(eng, eng.set.speaker, on, target, trouble.broken)
            /\ cue' = cue /\ heard' = Nothing
    BY <1>10 DEF SetModules, Reload, Call
  <2>. QED BY <1>0, <2>1, ChangesStay, StayingStep
<1>11. CASE SetClick
  <2>1. eng' = SetMetronome(eng, ~eng.set.click) /\ cue' = cue /\ heard' = Nothing
    BY <1>11 DEF SetClick, ChangeCall, Call
  <2>. QED BY <1>0, <2>1, ChangesStay, StayingStep
<1>12. ASSUME NEW e, NEW d, Refreshing(e, d), Stays(e, eng) PROVE CueInv'
  <2>1. eng' = e /\ cue' = cue /\ heard' = Nothing
    BY <1>12 DEF Refreshing, ChangeCall, Call
  <2>. QED BY <1>12, <2>1, StayingStep
<1>13. CASE Station
  <2>1. PICK on \in BOOLEAN, route \in {"listen_room", "monitor_bus"} :
            Refreshing(SetTalkback(eng, on, route), [dev EXCEPT !.talk = on])
    BY <1>13 DEF Station
  <2>. QED BY <1>0, <1>12, <2>1, ChangesStay
<1>14. CASE Allow
  <2>1. Refreshing(eng, [dev EXCEPT !.allowed = ~dev.allowed])
    BY <1>14 DEF Allow
  <2>. QED BY <1>0, <1>12, <2>1 DEF Stays
<1>15. CASE Record
  BY <1>0, <1>12, <1>15, ChangesStay DEF Record
<1>16. CASE Arm
  <2>1. PICK t \in Changeable, flip \in {"arm", "mon"} :
            Refreshing(UpdateTrackRealtime(eng, t.name, IF flip = "arm" THEN ~t.arm ELSE t.arm,
                                           IF flip = "mon" THEN ~t.mon ELSE t.mon, t.mute, t.solo),
                       dev)
    BY <1>16 DEF Arm
  <2>. QED BY <1>0, <1>12, <2>1, ChangesStay
<1>17. CASE Run
  <2>1. eng' = SetRunning(eng, TRUE) /\ cue' = cue /\ heard' = Nothing
    BY <1>17 DEF Run
  <2>. QED BY <1>0, <2>1, ChangesStay, StayingStep
<1>18. CASE Halt
  BY <1>0, <1>8, <1>18, ChangesStay DEF Halt
<1>19. CASE GoTo
  <2>1. PICK at \in Positions : eng' = ArmSeekRamp(Seek(eng, at)) /\ cue' = at /\ heard' = Nothing
    BY <1>19 DEF GoTo, ChangeCall, Call
  <2>2. at \in Nat
    BY FramesAssumption
  <2>. QED BY <1>0, <2>1, <2>2, PlacesPlayhead, SilentStep
<1>20. CASE ToStart
  <2>1. eng' = Rewind(eng) /\ cue' = 0 /\ heard' = Nothing
    BY <1>20 DEF ToStart, ChangeCall, Call
  <2>. QED BY <1>0, <2>1, PlacesPlayhead, SilentStep
<1>21. CASE ReadInput
  <2>1. eng' = eng /\ cue' = cue /\ heard' = Nothing
    BY <1>21 DEF ReadInput
  <2>. QED BY <1>0, <2>1, SilentStep
<1>22. CASE AppendInput
  <2>1. eng' \in {eng, PushInput(eng, PushFrames, push = "talk")} /\ cue' = cue /\ heard' = Nothing
    BY <1>22 DEF AppendInput
  <2>2. Stays(PushInput(eng, PushFrames, push = "talk"), eng) /\ Stays(eng, eng)
    BY <1>0 DEF PushInput, Stays, Rolls
  <2>. QED BY <2>1, <2>2, StayingStep
<1>24. CASE RenderCallback
  BY <1>24, BlockCue, FramesAssumption DEF RenderCallback
<1>25. CASE Status
  BY <1>25, BlockCue DEF Status, IInv, DeviceOK
<1>26. CASE UNCHANGED vars
  BY <1>26 DEF vars, CueInv, PlayOK, Rolls, LoopOK, PlayheadFollows
<1>. QED
  BY <1>1, <1>2, <1>3, <1>5, <1>6, <1>7, <1>9, <1>10, <1>11, <1>13, <1>14, <1>15, <1>16, <1>17,
     <1>18, <1>19, <1>20, <1>21, <1>22, <1>24, <1>25, <1>26
  DEF Next

\* For all documents, loops, block sizes and lengths: the frames of the timeline a block is
\* made of are those due, one after the other and round the loop, from where the last block
\* ended or the program put the playhead, whatever was loaded, changed or restarted in between.
THEOREM PlayheadAlwaysFollows == Spec => []PlayheadFollows
PROOF
<1>1. CueInv => PlayheadFollows
  BY DEF CueInv
<1>. QED BY <1>1, InitIInv, NextIInv, InitCueInv, NextCueInv, PTL DEF Spec

-----------------------------------------------------------------------------
(* The order of the mixer.                                                  *)

\* Of a list: what is kept of it, place by place.
AreThose(those, list, S, len) ==
    those = [k \in 0 .. len |->
                IF k = 0 THEN <<>>
                ELSE IF list[k] \in S THEN Append(those[k - 1], list[k]) ELSE those[k - 1]]
TheThose(list, S, len) == CHOOSE those : AreThose(those, list, S, len)

\* Those takes the list place by place: what is kept of it is the last of the places' lists.
LEMMA ThoseUnfold ==
    ASSUME NEW list, NEW S
    PROVE  Those(list, S) = TheThose(list, S, Len(list))[Len(list)]
PROOF
BY DEF Those, TheThose, AreThose

\* There is such a function of the places of every list.
LEMMA ThoseExist ==
    ASSUME NEW list, NEW S, NEW len \in Nat
    PROVE  AreThose(TheThose(list, S, len), list, S, len)
PROOF
<1>. DEFINE Bad == {n \in Nat : ~ \E those : AreThose(those, list, S, n)}
<1>1. SUFFICES ASSUME Bad # {} PROVE FALSE
  BY DEF TheThose
<1>2. PICK n \in Bad : n = 0 \/ (n - 1 \in Nat /\ n - 1 \notin Bad)
  <2>1. Bad \in SUBSET Nat
    OBVIOUS
  <2>. HIDE DEF Bad
  <2>. QED BY <1>1, <2>1, SmallestNat
<1>3. CASE n = 0
  <2>1. AreThose([m \in 0 .. 0 |-> <<>>], list, S, 0)
    BY DEF AreThose
  <2>. QED BY <1>2, <1>3, <2>1
<1>4. CASE n # 0
  <2>1. PICK those : AreThose(those, list, S, n - 1)
    BY <1>2, <1>4
  <2>. DEFINE longer == [m \in 0 .. n |->
                  IF m = n THEN IF list[n] \in S THEN Append(those[n - 1], list[n])
                                ELSE those[n - 1]
                  ELSE those[m]]
  <2>2. ASSUME NEW m \in 0 .. n
        PROVE  longer[m] = IF m = 0 THEN <<>>
                           ELSE IF list[m] \in S THEN Append(longer[m - 1], list[m])
                           ELSE longer[m - 1]
    <3>1. CASE m = n
      <4>1. longer[m - 1] = those[n - 1]
        BY <1>2, <1>4, <3>1
      <4>. QED BY <1>4, <3>1, <4>1
    <3>2. CASE m # n /\ m # 0
      <4>1. m \in 0 .. n - 1 /\ m - 1 \in 0 .. n /\ m - 1 # n
        BY <1>2, <3>2
      <4>2. longer[m] = those[m] /\ longer[m - 1] = those[m - 1]
        BY <3>2, <4>1
      <4>3. those[m] = IF list[m] \in S THEN Append(those[m - 1], list[m]) ELSE those[m - 1]
        BY <2>1, <3>2, <4>1 DEF AreThose
      <4>. HIDE DEF longer
      <4>. QED BY <3>2, <4>2, <4>3
    <3>3. CASE m # n /\ m = 0
      <4>1. those[0] = <<>>
        BY <2>1, <1>2, <1>4 DEF AreThose
      <4>. QED BY <3>3, <4>1
    <3>. QED BY <3>1, <3>2, <3>3
  <2>3. AreThose(longer, list, S, n)
    <3>1. longer = [m \in 0 .. n |-> longer[m]]
      OBVIOUS
    <3>. HIDE DEF longer
    <3>. QED BY <2>2, <3>1 DEF AreThose
  <2>. QED BY <1>2, <2>3
<1>. QED BY <1>3, <1>4

\* A list with one more element
LEMMA OneMore ==
    ASSUME NEW X, NEW list \in Seq(X), NEW x \in X
    PROVE  /\ Append(list, x) \in Seq(X) /\ Len(Append(list, x)) = Len(list) + 1
           /\ Range(Append(list, x)) = Range(list) \cup {x}
           /\ \A i \in 1 .. Len(list) : Append(list, x)[i] = list[i]
           /\ Append(list, x)[Len(list) + 1] = x
           /\ IsInjective(list) /\ x \notin Range(list) => IsInjective(Append(list, x))
PROOF
<1>. DEFINE len == Len(list)
            more == Append(list, x)
<1>1. len \in Nat /\ DOMAIN list = 1 .. len
  OBVIOUS
<1>2. more \in Seq(X) /\ Len(more) = len + 1 /\ DOMAIN more = 1 .. len + 1
  OBVIOUS
<1>3. (\A i \in 1 .. len : more[i] = list[i]) /\ more[len + 1] = x
  OBVIOUS
<1>. HIDE DEF len, more
<1>4. Range(more) = Range(list) \cup {x}
  <2>1. ASSUME NEW y \in Range(more) PROVE y \in Range(list) \cup {x}
    <3>1. PICK i \in 1 .. len + 1 : y = more[i]
      BY <1>2 DEF Range
    <3>2. i \in 1 .. len \/ i = len + 1
      BY <1>1
    <3>. QED BY <1>1, <1>3, <3>1, <3>2 DEF Range
  <2>2. ASSUME NEW y \in Range(list) PROVE y \in Range(more)
    <3>1. PICK i \in 1 .. len : y = list[i]
      BY <1>1 DEF Range
    <3>2. i \in 1 .. len + 1
      BY <1>1
    <3>. QED BY <1>2, <1>3, <3>1, <3>2 DEF Range
  <2>3. x \in Range(more)
    <3>1. len + 1 \in 1 .. len + 1
      BY <1>1
    <3>. QED BY <1>2, <1>3, <3>1 DEF Range
  <2>. QED BY <2>1, <2>2, <2>3
<1>5. ASSUME IsInjective(list), x \notin Range(list) PROVE IsInjective(more)
  <2>1. \A i \in 1 .. len : list[i] # x
    BY <1>1, <1>5 DEF Range
  <2>2. \A i \in 1 .. len + 1 : i \in 1 .. len \/ i = len + 1
    BY <1>1
  <2>. QED BY <1>1, <1>2, <1>3, <1>5, <2>1, <2>2 DEF IsInjective
<1>. QED BY <1>2, <1>3, <1>4, <1>5 DEF len, more

\* The members of a set in a list are those of both, each as often as in the list.
LEMMA ThoseAre ==
    ASSUME NEW X, NEW list \in Seq(X), NEW S
    PROVE  /\ Those(list, S) \in Seq(X)
           /\ Range(Those(list, S)) = Range(list) \cap S
           /\ IsInjective(list) => IsInjective(Those(list, S))
PROOF
<1>. DEFINE len == Len(list)
            those == TheThose(list, S, len)
            Good(n) == /\ those[n] \in Seq(X)
                       /\ Range(those[n]) = {list[i] : i \in 1 .. n} \cap S
                       /\ IsInjective(list) => IsInjective(those[n])
            Bad == {n \in 0 .. len : ~ Good(n)}
<1>1. len \in Nat /\ DOMAIN list = 1 .. len
  OBVIOUS
<1>2. AreThose(those, list, S, len)
  <2>. HIDE DEF len
  <2>. QED BY <1>1, ThoseExist
<1>3. Those(list, S) = those[len]
  BY ThoseUnfold
<1>. HIDE DEF those
<1>4. ASSUME Bad # {} PROVE FALSE
  <2>1. PICK n \in Bad : n = 0 \/ (n - 1 \in Nat /\ n - 1 \notin Bad)
    <3>1. Bad \in SUBSET Nat
      BY <1>1
    <3>. HIDE DEF Bad
    <3>. QED BY <1>4, <3>1, SmallestNat
  <2>2. CASE n = 0
    <3>1. those[0] = <<>>
      BY <1>1, <1>2 DEF AreThose
    <3>2. <<>> \in Seq(X) /\ Range(<<>>) = {} /\ IsInjective(<<>>)
      BY DEF Range, IsInjective
    <3>3. {list[i] : i \in 1 .. 0} = {}
      OBVIOUS
    <3>. QED BY <2>1, <2>2, <3>1, <3>2, <3>3
  <2>3. CASE n # 0
    <3>1. n \in 1 .. len /\ n - 1 \in 0 .. len /\ Good(n - 1)
      BY <1>1, <2>1, <2>3
    <3>. DEFINE before == those[n - 1]
                seen == {list[i] : i \in 1 .. n - 1}
    <3>2. those[n] = IF list[n] \in S THEN Append(before, list[n]) ELSE before
      <4>1. n \in 0 .. len /\ n # 0
        BY <2>3, <3>1
      <4>. HIDE DEF len
      <4>. QED BY <1>2, <4>1 DEF AreThose
    <3>3. before \in Seq(X) /\ Range(before) = seen \cap S /\ (IsInjective(list) => IsInjective(before))
      BY <3>1
    <3>4. {list[i] : i \in 1 .. n} = seen \cup {list[n]}
      <4>1. \A i : i \in 1 .. n <=> i \in 1 .. n - 1 \/ i = n
        BY <1>1, <3>1
      <4>. QED BY <4>1
    <3>5. IsInjective(list) => list[n] \notin seen
      <4>1. \A i \in 1 .. n - 1 : i \in 1 .. len /\ i # n
        BY <1>1, <3>1
      <4>. QED BY <1>1, <3>1, <4>1 DEF IsInjective
    <3>6. list[n] \in X
      BY <1>1, <3>1
    <3>. HIDE DEF before, seen
    <3>7. CASE list[n] \in S
      <4>1. those[n] = Append(before, list[n])
        BY <3>2, <3>7
      <4>2. /\ those[n] \in Seq(X) /\ Range(those[n]) = Range(before) \cup {list[n]}
            /\ IsInjective(before) /\ list[n] \notin Range(before) => IsInjective(those[n])
        BY <3>3, <3>6, <4>1, OneMore
      <4>. QED BY <2>1, <3>3, <3>4, <3>5, <3>7, <4>2
    <3>8. CASE list[n] \notin S
      BY <2>1, <3>2, <3>3, <3>4, <3>8
    <3>. QED BY <3>7, <3>8
  <2>. QED BY <2>2, <2>3
<1>5. Good(len)
  <2>1. len \in 0 .. len
    BY <1>1
  <2>. HIDE DEF Good
  <2>. QED BY <1>4, <2>1
<1>6. {list[i] : i \in 1 .. len} = Range(list)
  BY <1>1 DEF Range
<1>. QED BY <1>3, <1>5, <1>6

\* A sequence is one over whatever its elements are in.
LEMMA ListOver ==
    ASSUME NEW X, NEW list \in Seq(X), NEW D, Range(list) \subseteq D
    PROVE  list \in Seq(D)
PROOF
<1>1. Len(list) \in Nat /\ DOMAIN list = 1 .. Len(list) /\ list = [i \in 1 .. Len(list) |-> list[i]]
  OBVIOUS
<1>2. \A i \in 1 .. Len(list) : list[i] \in D
  BY <1>1 DEF Range
<1>3. list \in [1 .. Len(list) -> D]
  BY <1>1, <1>2
<1>4. QED BY <1>1, <1>3, FunctionIsSeq

\* Two lists without a common element, one after the other
LEMMA Joined ==
    ASSUME NEW X, NEW a \in Seq(X), NEW b \in Seq(X)
    PROVE  /\ a \o b \in Seq(X) /\ Len(a \o b) = Len(a) + Len(b)
           /\ Range(a \o b) = Range(a) \cup Range(b)
           /\ \A i \in 1 .. Len(a) : (a \o b)[i] = a[i]
           /\ IsInjective(a) /\ IsInjective(b) /\ Range(a) \cap Range(b) = {} => IsInjective(a \o b)
PROOF
<1>. DEFINE c == a \o b
            m == Len(a)
            n == Len(b)
<1>1. m \in Nat /\ n \in Nat /\ DOMAIN a = 1 .. m /\ DOMAIN b = 1 .. n
  OBVIOUS
<1>2. c \in Seq(X) /\ Len(c) = m + n /\ DOMAIN c = 1 .. m + n
  OBVIOUS
<1>3. \A i \in 1 .. m : c[i] = a[i]
  OBVIOUS
<1>4. \A i \in 1 .. n : c[m + i] = b[i]
  OBVIOUS
<1>. HIDE DEF c, m, n
<1>5. \A i \in 1 .. m + n : i \in 1 .. m \/ (i - m \in 1 .. n /\ i = m + (i - m))
  BY <1>1
<1>6. (\A i \in 1 .. m : i \in 1 .. m + n) /\ (\A i \in 1 .. n : m + i \in 1 .. m + n)
  BY <1>1
<1>7. \A i \in 1 .. m + n : (i \in 1 .. m /\ c[i] = a[i]) \/ (i - m \in 1 .. n /\ c[i] = b[i - m])
  <2>1. ASSUME NEW i \in 1 .. m + n, i - m \in 1 .. n, i = m + (i - m) PROVE c[i] = b[i - m]
    BY <1>4, <2>1
  <2>. QED BY <1>3, <1>5, <2>1
<1>8. Range(c) = Range(a) \cup Range(b)
  <2>1. Range(c) \subseteq Range(a) \cup Range(b)
    BY <1>1, <1>2, <1>7 DEF Range
  <2>2. Range(a) \subseteq Range(c)
    BY <1>1, <1>2, <1>3, <1>6 DEF Range
  <2>3. Range(b) \subseteq Range(c)
    BY <1>1, <1>2, <1>4, <1>6 DEF Range
  <2>. QED BY <2>1, <2>2, <2>3
<1>9. ASSUME IsInjective(a), IsInjective(b), Range(a) \cap Range(b) = {} PROVE IsInjective(c)
  <2>. SUFFICES ASSUME NEW i \in 1 .. m + n, NEW k \in 1 .. m + n, c[i] = c[k] PROVE i = k
    BY <1>2 DEF IsInjective
  <2>1. \A p \in 1 .. m, q \in 1 .. n : a[p] # b[q]
    BY <1>1, <1>9 DEF Range
  <2>2. CASE i \in 1 .. m /\ c[i] = a[i] /\ k \in 1 .. m /\ c[k] = a[k]
    BY <1>1, <1>9, <2>2 DEF IsInjective
  <2>3. CASE i - m \in 1 .. n /\ c[i] = b[i - m] /\ k - m \in 1 .. n /\ c[k] = b[k - m]
    <3>1. i - m = k - m
      BY <1>1, <1>9, <2>3 DEF IsInjective
    <3>. QED BY <1>1, <3>1
  <2>. QED BY <1>7, <2>1, <2>2, <2>3
<1>. QED BY <1>2, <1>3, <1>8, <1>9 DEF c, m, n

\* A list that is not empty
LEMMA HeadAndRest ==
    ASSUME NEW X, NEW list \in Seq(X), list # <<>>, IsInjective(list)
    PROVE  /\ Head(list) \in X /\ Tail(list) \in Seq(X) /\ IsInjective(Tail(list))
           /\ Head(list) \in Range(list) /\ Range(Tail(list)) = Range(list) \ {Head(list)}
PROOF
<1>. DEFINE len == Len(list)
            rest == Tail(list)
<1>1. len \in Nat /\ len # 0 /\ DOMAIN list = 1 .. len /\ Head(list) = list[1]
  OBVIOUS
<1>2. rest \in Seq(X) /\ DOMAIN rest = 1 .. len - 1 /\ \A i \in 1 .. len - 1 : rest[i] = list[i + 1]
  BY <1>1
<1>. HIDE DEF len, rest
<1>3. 1 \in 1 .. len /\ list[1] \in X
  BY <1>1
<1>4. \A i \in 1 .. len - 1 : i + 1 \in 1 .. len /\ i + 1 # 1
  BY <1>1
<1>5. \A i \in 1 .. len : i = 1 \/ (i - 1 \in 1 .. len - 1 /\ i = (i - 1) + 1)
  BY <1>1
<1>6. IsInjective(rest)
  <2>1. ASSUME NEW i \in 1 .. len - 1, NEW k \in 1 .. len - 1, rest[i] = rest[k] PROVE i = k
    <3>1. i + 1 = k + 1
      BY <1>1, <1>2, <1>4, <2>1 DEF IsInjective
    <3>. QED BY <1>1, <3>1
  <2>. QED BY <1>2, <2>1 DEF IsInjective
<1>7. Range(rest) \subseteq Range(list) \ {list[1]}
  <2>1. ASSUME NEW y \in Range(rest) PROVE y \in Range(list) \ {list[1]}
    <3>1. PICK i \in 1 .. len - 1 : y = list[i + 1]
      BY <1>2, <2>1 DEF Range
    <3>. QED BY <1>1, <1>3, <1>4, <3>1 DEF Range, IsInjective
  <2>. QED BY <2>1
<1>8. Range(list) \ {list[1]} \subseteq Range(rest)
  <2>1. ASSUME NEW y \in Range(list) \ {list[1]} PROVE y \in Range(rest)
    <3>1. PICK i \in 1 .. len : y = list[i]
      BY <1>1, <2>1 DEF Range
    <3>2. i - 1 \in 1 .. len - 1 /\ list[(i - 1) + 1] = y
      <4>1. i # 1
        BY <2>1, <3>1
      <4>. QED BY <1>5, <3>1, <4>1
    <3>3. rest[i - 1] = y
      BY <1>2, <3>2
    <3>. QED BY <1>2, <3>2, <3>3 DEF Range
  <2>. QED BY <2>1
<1>. QED BY <1>1, <1>2, <1>3, <1>6, <1>7, <1>8 DEF rest, Range

\* The tracks have names, each its own; the edges join them.
Nameable(names) == names \in Seq(Range(Names) \ {NoName}) /\ IsInjective(names)
Joins(edges, N) == \A e \in edges : e.from \in N /\ e.to \in N \cup {NoName}

\* What has been visited was fed by what was visited before it; what is ready is what is fed
\* by what has been visited and by nothing else.
VisitOK(s, N, edges) ==
    /\ s.order \in Seq(N) /\ s.ready \in Seq(N)
    /\ IsInjective(s.order) /\ IsInjective(s.ready) /\ Range(s.order) \cap Range(s.ready) = {}
    /\ Range(s.order) \cup Range(s.ready) = {m \in N : Feeders(edges, m) \subseteq Range(s.order)}
    /\ \A i \in 1 .. Len(s.order) : Feeders(edges, s.order[i]) \subseteq {s.order[k] : k \in 1 .. i - 1}

\* One round of the loop of computeRenderOrder keeps what has been said of its two queues.
LEMMA VisitKeeps ==
    ASSUME NEW N \in SUBSET (Range(Names) \ {NoName}), NEW edges, Joins(edges, N),
           NEW s, VisitOK(s, N, edges), s.ready # <<>>
    PROVE  /\ VisitOK(Visit(edges, s), N, edges)
           /\ Len(Visit(edges, s).order) = Len(s.order) + 1
PROOF
<1>. DEFINE n == Head(s.ready)
            rest == Tail(s.ready)
            order == Append(s.order, n)
            F == {m \in Fed(edges, n) : Feeders(edges, m) \subseteq Range(order)}
            fresh == Those(Names, F)
            ready == rest \o fresh
<1>1. Visit(edges, s) = [order |-> order, ready |-> ready]
  BY DEF Visit
<1>2. /\ s.order \in Seq(N) /\ s.ready \in Seq(N)
      /\ IsInjective(s.order) /\ IsInjective(s.ready) /\ Range(s.order) \cap Range(s.ready) = {}
      /\ Range(s.order) \cup Range(s.ready) = {m \in N : Feeders(edges, m) \subseteq Range(s.order)}
      /\ \A i \in 1 .. Len(s.order) : Feeders(edges, s.order[i]) \subseteq {s.order[k] : k \in 1 .. i - 1}
  BY DEF VisitOK
<1>3. /\ n \in N /\ rest \in Seq(N) /\ IsInjective(rest)
      /\ n \in Range(s.ready) /\ Range(rest) = Range(s.ready) \ {n}
  BY <1>2, HeadAndRest
<1>4. n \notin Range(s.order) /\ Feeders(edges, n) \subseteq Range(s.order)
  BY <1>2, <1>3
<1>5. /\ order \in Seq(N) /\ Len(order) = Len(s.order) + 1 /\ Range(order) = Range(s.order) \cup {n}
      /\ \A i \in 1 .. Len(s.order) : order[i] = s.order[i]
      /\ order[Len(s.order) + 1] = n /\ IsInjective(order)
  <2>. HIDE DEF n
  <2>. QED BY <1>2, <1>3, <1>4, OneMore
<1>6. Fed(edges, n) \subseteq N /\ \A m \in N : m \in Fed(edges, n) <=> n \in Feeders(edges, m)
  <2>. HIDE DEF n
  <2>1. Fed(edges, n) \subseteq N
    BY DEF Fed, Joins
  <2>2. ASSUME NEW m \in N PROVE m \in Fed(edges, n) <=> n \in Feeders(edges, m)
    BY <2>2 DEF Fed, Feeders
  <2>. QED BY <2>1, <2>2
<1>. HIDE DEF n, rest, order, F
<1>7. fresh \in Seq(N) /\ Range(fresh) = F /\ IsInjective(fresh)
  <2>1. fresh \in Seq(STRING) /\ Range(fresh) = Range(Names) \cap F /\ IsInjective(fresh)
    BY NamesAssumption, ThoseAre DEF NamesAssumption
  <2>2. F \subseteq N
    BY <1>6 DEF F
  <2>3. Range(fresh) = F
    BY <2>1, <2>2
  <2>. HIDE DEF fresh
  <2>. QED BY <2>1, <2>2, <2>3, ListOver
<1>8. F \cap (Range(s.order) \cup Range(s.ready)) = {}
  <2>1. ASSUME NEW m \in F, m \in Range(s.order) \cup Range(s.ready) PROVE FALSE
    <3>1. m \in N /\ Feeders(edges, m) \subseteq Range(s.order)
      BY <1>2, <2>1
    <3>2. n \in Feeders(edges, m)
      BY <1>6, <2>1, <3>1 DEF F
    <3>. QED BY <1>4, <3>1, <3>2
  <2>. QED BY <2>1
<1>. HIDE DEF fresh
<1>9. ready \in Seq(N) /\ Range(ready) = Range(rest) \cup F /\ IsInjective(ready)
  <2>1. Range(rest) \cap Range(fresh) = {}
    BY <1>3, <1>7, <1>8
  <2>. QED BY <1>3, <1>7, <2>1, Joined
<1>. HIDE DEF ready
<1>10. Range(order) \cap Range(ready) = {}
  BY <1>2, <1>3, <1>5, <1>8, <1>9
<1>11. Range(order) \cup Range(ready) = {m \in N : Feeders(edges, m) \subseteq Range(order)}
  <2>1. Range(order) \cup Range(ready) = Range(s.order) \cup Range(s.ready) \cup F
    BY <1>3, <1>5, <1>9
  <2>2. ASSUME NEW m \in Range(s.order) \cup Range(s.ready) \cup F
        PROVE  m \in N /\ Feeders(edges, m) \subseteq Range(order)
    BY <1>2, <1>5, <1>6, <2>2 DEF F
  <2>3. ASSUME NEW m \in N, Feeders(edges, m) \subseteq Range(order)
        PROVE  m \in Range(s.order) \cup Range(s.ready) \cup F
    <3>1. CASE n \in Feeders(edges, m)
      BY <1>6, <2>3, <3>1 DEF F
    <3>2. CASE n \notin Feeders(edges, m)
      <4>1. Feeders(edges, m) \subseteq Range(s.order)
        BY <1>5, <2>3, <3>2
      <4>. QED BY <1>2, <4>1
    <3>. QED BY <3>1, <3>2
  <2>. QED BY <2>1, <2>2, <2>3
<1>12. ASSUME NEW i \in 1 .. Len(order)
       PROVE  Feeders(edges, order[i]) \subseteq {order[k] : k \in 1 .. i - 1}
  <2>1. Len(s.order) \in Nat /\ DOMAIN s.order = 1 .. Len(s.order)
    BY <1>2
  <2>2. CASE i \in 1 .. Len(s.order)
    <3>1. Feeders(edges, s.order[i]) \subseteq {s.order[k] : k \in 1 .. i - 1}
      BY <1>2, <2>2
    <3>2. \A k \in 1 .. i - 1 : s.order[k] = order[k]
      <4>1. \A k \in 1 .. i - 1 : k \in 1 .. Len(s.order)
        BY <2>1, <2>2
      <4>. QED BY <1>5, <4>1
    <3>3. {s.order[k] : k \in 1 .. i - 1} = {order[k] : k \in 1 .. i - 1}
      BY <3>2
    <3>4. order[i] = s.order[i]
      BY <1>5, <2>2
    <3>. QED BY <3>1, <3>3, <3>4
  <2>3. CASE i = Len(s.order) + 1
    <3>1. i - 1 = Len(s.order)
      BY <2>1, <2>3
    <3>2. Range(s.order) = {order[k] : k \in 1 .. Len(s.order)}
      BY <1>5, <2>1 DEF Range
    <3>. QED BY <1>4, <1>5, <2>3, <3>1, <3>2
  <2>4. i \in 1 .. Len(s.order) \/ i = Len(s.order) + 1
    BY <1>5, <2>1
  <2>. QED BY <2>2, <2>3, <2>4
<1>13. Visit(edges, s).order = order /\ Visit(edges, s).ready = ready
  BY <1>1
<1>. DEFINE v == Visit(edges, s)
<1>. HIDE DEF v
<1>14. v.order = order /\ v.ready = ready
  BY <1>13 DEF v
<1>15. /\ v.order \in Seq(N) /\ v.ready \in Seq(N) /\ Len(v.order) = Len(s.order) + 1
       /\ IsInjective(v.order) /\ IsInjective(v.ready) /\ Range(v.order) \cap Range(v.ready) = {}
  BY <1>5, <1>9, <1>10, <1>14
<1>16. Range(v.order) \cup Range(v.ready) = {m \in N : Feeders(edges, m) \subseteq Range(v.order)}
  BY <1>11, <1>14
<1>17. \A i \in 1 .. Len(v.order) : Feeders(edges, v.order[i]) \subseteq {v.order[k] : k \in 1 .. i - 1}
  BY <1>12, <1>14
<1>18. VisitOK(v, N, edges)
  BY <1>15, <1>16, <1>17, Zenon DEF VisitOK
<1>. QED BY <1>15, <1>18 DEF v

\* The visits, one after the other
Unvisited(names, edges) ==
    [order |-> <<>>, ready |-> Those(names, {n \in Range(names) : Feeders(edges, n) = {}})]
AreVisits(visits, names, edges, len) ==
    visits = [k \in 0 .. len |-> IF k = 0 THEN Unvisited(names, edges) ELSE Visit(edges, visits[k - 1])]

\* There is the function of the rounds of the loop.
LEMMA VisitsExist ==
    ASSUME NEW names, NEW edges, NEW len \in Nat
    PROVE  \E visits : AreVisits(visits, names, edges, len)
PROOF
<1>. DEFINE Bad == {n \in Nat : ~ \E visits : AreVisits(visits, names, edges, n)}
<1>1. SUFFICES ASSUME Bad # {} PROVE FALSE
  OBVIOUS
<1>2. PICK n \in Bad : n = 0 \/ (n - 1 \in Nat /\ n - 1 \notin Bad)
  <2>1. Bad \in SUBSET Nat
    OBVIOUS
  <2>. HIDE DEF Bad
  <2>. QED BY <1>1, <2>1, SmallestNat
<1>3. CASE n = 0
  <2>1. AreVisits([k \in 0 .. 0 |-> Unvisited(names, edges)], names, edges, 0)
    BY DEF AreVisits
  <2>. QED BY <1>2, <1>3, <2>1
<1>4. CASE n # 0
  <2>1. PICK visits : AreVisits(visits, names, edges, n - 1)
    BY <1>2, <1>4
  <2>. DEFINE longer == [k \in 0 .. n |-> IF k = n THEN Visit(edges, visits[n - 1]) ELSE visits[k]]
  <2>2. ASSUME NEW k \in 0 .. n
        PROVE  longer[k] = IF k = 0 THEN Unvisited(names, edges) ELSE Visit(edges, longer[k - 1])
    <3>1. CASE k = n
      <4>1. longer[k - 1] = visits[n - 1] /\ longer[k] = Visit(edges, visits[n - 1])
        BY <1>2, <1>4, <3>1
      <4>. HIDE DEF longer
      <4>. QED BY <1>4, <3>1, <4>1
    <3>2. CASE k # n /\ k # 0
      <4>1. k \in 0 .. n - 1 /\ k - 1 \in 0 .. n /\ k - 1 # n
        BY <1>2, <3>2
      <4>2. longer[k] = visits[k] /\ longer[k - 1] = visits[k - 1]
        BY <3>2, <4>1
      <4>3. visits[k] = Visit(edges, visits[k - 1])
        BY <2>1, <3>2, <4>1 DEF AreVisits
      <4>. HIDE DEF longer
      <4>. QED BY <3>2, <4>2, <4>3
    <3>3. CASE k # n /\ k = 0
      <4>1. visits[0] = Unvisited(names, edges)
        BY <2>1, <1>2, <1>4 DEF AreVisits
      <4>. QED BY <3>3, <4>1
    <3>. QED BY <3>1, <3>2, <3>3
  <2>3. AreVisits(longer, names, edges, n)
    <3>1. longer = [k \in 0 .. n |-> longer[k]]
      OBVIOUS
    <3>. HIDE DEF longer
    <3>. QED BY <2>2, <3>1 DEF AreVisits
  <2>. QED BY <1>2, <2>3
<1>. QED BY <1>3, <1>4

\* The queues before the first round
LEMMA BegunVisits ==
    ASSUME NEW names, Nameable(names), NEW edges
    PROVE  VisitOK(Unvisited(names, edges), Range(names), edges)
PROOF
<1>. DEFINE N == Range(names)
            first == {n \in N : Feeders(edges, n) = {}}
            s == Unvisited(names, edges)
<1>1. s.order = <<>> /\ s.ready = Those(names, first)
  BY DEF Unvisited
<1>2. names \in Seq(N) /\ IsInjective(names)
  <2>1. names \in Seq(Range(Names) \ {NoName}) /\ IsInjective(names)
    BY DEF Nameable
  <2>. QED BY <2>1, ListOver
<1>3. s.ready \in Seq(N) /\ Range(s.ready) = N \cap first /\ IsInjective(s.ready)
  <2>. HIDE DEF first, N
  <2>1. Those(names, first) \in Seq(N) /\ Range(Those(names, first)) = Range(names) \cap first
        /\ IsInjective(Those(names, first))
    BY <1>2, ThoseAre
  <2>. QED BY <1>1, <2>1 DEF N
<1>4. s.order \in Seq(N) /\ Range(s.order) = {} /\ IsInjective(s.order) /\ Len(s.order) = 0
  BY <1>1 DEF Range, IsInjective
<1>5. N \cap first = {m \in N : Feeders(edges, m) \subseteq {}}
  OBVIOUS
<1>. HIDE DEF N, first, s
<1>6. \A i \in 1 .. Len(s.order) : FALSE
  BY <1>4
<1>7. Range(s.order) \cup Range(s.ready) = {m \in N : Feeders(edges, m) \subseteq Range(s.order)}
  BY <1>3, <1>4, <1>5
<1>8. VisitOK(s, N, edges)
  BY <1>3, <1>4, <1>6, <1>7 DEF VisitOK
<1>. QED BY <1>8 DEF s, N

\* As many visits as there are tracks leave nothing ready.
LEMMA VisitedIs ==
    ASSUME NEW names, Nameable(names), NEW edges, Joins(edges, Range(names))
    PROVE  VisitOK(Visited(names, edges), Range(names), edges) /\ Visited(names, edges).ready = <<>>
PROOF
<1>. DEFINE N == Range(names)
            len == Len(names)
            visits == CHOOSE visits : AreVisits(visits, names, edges, len)
            OK(k) == /\ VisitOK(visits[k], N, edges)
                     /\ visits[k].ready = <<>> \/ Len(visits[k].order) = k
            Bad == {k \in 0 .. len : ~OK(k)}
<1>1. names \in Seq(N) /\ len \in Nat /\ DOMAIN names = 1 .. len /\ N \in SUBSET (Range(Names) \ {NoName})
  <2>1. names \in Seq(Range(Names) \ {NoName}) /\ IsInjective(names)
    BY DEF Nameable
  <2>2. Range(names) \subseteq Range(Names) \ {NoName}
    BY <2>1 DEF Range
  <2>. QED BY <2>1, <2>2, ListOver
<1>2. AreVisits(visits, names, edges, len)
  <2>. HIDE DEF len
  <2>. QED BY <1>1, VisitsExist
<1>3. Visited(names, edges) = visits[len]
  BY DEF Visited, AreVisits, Unvisited
<1>. HIDE DEF visits
<1>4. ASSUME Bad # {} PROVE FALSE
  <2>1. PICK k \in Bad : k = 0 \/ (k - 1 \in Nat /\ k - 1 \notin Bad)
    <3>1. Bad \in SUBSET Nat
      BY <1>1
    <3>. HIDE DEF Bad
    <3>. QED BY <1>4, <3>1, SmallestNat
  <2>2. k \in 0 .. len /\ ~OK(k)
    BY <2>1
  <2>3. visits[k] = IF k = 0 THEN Unvisited(names, edges) ELSE Visit(edges, visits[k - 1])
    <3>. HIDE DEF len
    <3>. QED BY <1>2, <2>2 DEF AreVisits
  <2>4. CASE k = 0
    <3>1. VisitOK(visits[k], N, edges)
      BY <2>3, <2>4, BegunVisits
    <3>2. visits[k].order = <<>>
      BY <2>3, <2>4 DEF Unvisited
    <3>. QED BY <2>2, <2>4, <3>1, <3>2
  <2>5. CASE k # 0
    <3>. DEFINE s == visits[k - 1]
    <3>1. k - 1 \in 0 .. len /\ k - 1 \in Nat /\ OK(k - 1)
      BY <1>1, <2>1, <2>2, <2>5
    <3>2. VisitOK(s, N, edges) /\ (s.ready = <<>> \/ Len(s.order) = k - 1)
      BY <3>1
    <3>3. visits[k] = Visit(edges, s)
      BY <2>3, <2>5
    <3>. HIDE DEF s, OK, N
    <3>4. CASE s.ready = <<>>
      <4>1. visits[k] = s
        BY <3>3, <3>4 DEF Visit
      <4>. QED BY <2>2, <3>2, <3>4, <4>1 DEF OK
    <3>5. CASE s.ready # <<>>
      <4>1. VisitOK(visits[k], N, edges) /\ Len(visits[k].order) = Len(s.order) + 1
        BY <1>1, <3>2, <3>3, <3>5, VisitKeeps DEF N
      <4>2. Len(visits[k].order) = k
        BY <3>1, <3>2, <3>5, <4>1
      <4>. QED BY <2>2, <4>1, <4>2 DEF OK
    <3>. QED BY <3>4, <3>5
  <2>. QED BY <2>4, <2>5
<1>5. OK(len)
  <2>1. len \in 0 .. len
    BY <1>1
  <2>. HIDE DEF OK
  <2>. QED BY <1>4, <2>1
<1>6. ASSUME visits[len].ready # <<>> PROVE FALSE
  <2>. DEFINE s == visits[len]
              n == Head(s.ready)
              longer == Append(s.order, n)
  <2>1. /\ s.order \in Seq(N) /\ s.ready \in Seq(N) /\ IsInjective(s.order) /\ IsInjective(s.ready)
        /\ Range(s.order) \cap Range(s.ready) = {} /\ Len(s.order) = len /\ s.ready # <<>>
    BY <1>5, <1>6 DEF VisitOK
  <2>. HIDE DEF s, N, len
  <2>2. n \in N /\ n \in Range(s.ready)
    BY <2>1, HeadAndRest
  <2>3. longer \in Seq(N) /\ Len(longer) = len + 1 /\ IsInjective(longer)
    <3>1. n \notin Range(s.order)
      BY <2>1, <2>2
    <3>. HIDE DEF n
    <3>. QED BY <2>1, <2>2, <3>1, OneMore
  <2>. HIDE DEF longer
  <2>4. longer \in [1 .. len + 1 -> N] /\ \A i, k \in 1 .. len + 1 : longer[i] = longer[k] => i = k
    <3>1. DOMAIN longer = 1 .. len + 1
      BY <2>3
    <3>. QED BY <2>3, <3>1 DEF IsInjective
  <2>5. names \in Surjection(1 .. len, N)
    <3>1. names \in [1 .. len -> N] /\ \A y \in N : \E i \in 1 .. len : names[i] = y
      BY <1>1 DEF N, Range
    <3>. QED BY <3>1 DEF Surjection
  <2>6. IsFiniteSet(1 .. len) /\ Cardinality(1 .. len) = len
    BY <1>1, FS_Interval
  <2>7. IsFiniteSet(1 .. len + 1) /\ Cardinality(1 .. len + 1) = len + 1
    BY <1>1, FS_Interval
  <2>8. IsFiniteSet(N) /\ Cardinality(N) <= len
    BY <2>5, <2>6, FS_Surjection
  <2>9. Cardinality(N) < Cardinality(1 .. len + 1)
    BY <1>1, <2>7, <2>8, FS_CardinalityType
  <2>10. \E x, y \in 1 .. len + 1 : x # y /\ longer[x] = longer[y]
    BY <2>4, <2>7, <2>8, <2>9, FS_PigeonHole, Zenon
  <2>. QED BY <2>4, <2>10
<1>. QED BY <1>3, <1>5, <1>6

\* An edge goes from a track to the one that hears the bus, if there is one.
Distinct(ts) == Nameable([i \in DOMAIN ts |-> ts[i].name])


\* The least number of a set is one of it.
LEMMA LeastPlace ==
    ASSUME NEW S \in SUBSET Nat, S # {}
    PROVE  Min(S) \in S
PROOF
<1>. DEFINE R == OpToRel(<, Nat)
<1>1. R = {p \in Nat \X Nat : p[1] < p[2]}
  BY Zenon DEF OpToRel
<1>2. IsWellFoundedOn(R, Nat)
  BY NatLessThanWellFounded, Zenon
<1>. HIDE DEF R
<1>3. PICK n \in S : \A m \in S : ~(<<m, n>> \in R)
  BY <1>2, WFMin
<1>4. \A m \in S : ~(m < n)
  <2>1. ASSUME NEW m \in S, m < n PROVE <<m, n>> \in R
    <3>1. <<m, n>> \in Nat \X Nat /\ <<m, n>>[1] < <<m, n>>[2]
      BY <2>1
    <3>. QED BY <1>1, <3>1, Zenon
  <2>. QED BY <1>3, <2>1
<1>5. \A m \in S : n <= m
  BY <1>4
<1>. QED BY <1>5 DEF Min

\* Every edge leaves a track and leads to a track or to the device.
LEMMA EdgesJoin ==
    ASSUME NEW T, NEW ts \in Seq(T)
    PROVE  Joins(Edges(ts), TrackNames(ts))
PROOF
<1>1. \A t \in Range(ts) : t.name \in TrackNames(ts)
  BY DEF Range, TrackNames
<1>2. ASSUME NEW bus PROVE Receiver(ts, bus) \in TrackNames(ts) \cup {NoName}
  <2>. DEFINE listening == {i \in DOMAIN ts : ts[i].in = bus}
  <2>1. listening # {} => Min(listening) \in DOMAIN ts
    <3>1. listening \in SUBSET Nat /\ listening \subseteq DOMAIN ts
      OBVIOUS
    <3>. HIDE DEF listening
    <3>. QED BY <3>1, LeastPlace
  <2>. QED BY <2>1 DEF Receiver, TrackNames
<1>3. ASSUME NEW e \in Edges(ts) PROVE \E t \in Range(ts) : \E bus, send : e = Edge(ts, t, bus, send)
  BY <1>3 DEF Edges
<1>4. ASSUME NEW t \in Range(ts), NEW bus, NEW send
      PROVE  Edge(ts, t, bus, send).from = t.name /\ Edge(ts, t, bus, send).to = Receiver(ts, bus)
  BY DEF Edge
<1>. QED BY <1>1, <1>2, <1>3, <1>4 DEF Joins

\* The tracks that are in a loop of outputs and sends, or hear something that is
InLoops(edges, N) == UNION {S \in SUBSET N : \A n \in S : Feeders(edges, n) \cap S # {}}

\* The order of the mixer has every track once, and every track that is not in a feedback
\* loop or behind one after all the tracks that feed it: a block is rendered in this order
\* (computeRenderOrder), and what has not been rendered when a bus is, is not in it.
THEOREM FeedersComeFirst ==
    ASSUME NEW T, NEW ts \in Seq(T), Distinct(ts)
    PROVE  /\ Graph(ts).order \in Seq(TrackNames(ts))
           /\ Range(Graph(ts).order) = TrackNames(ts)
           /\ IsInjective(Graph(ts).order)
           /\ \A i \in DOMAIN Graph(ts).order :
                Graph(ts).order[i] \notin InLoops(Graph(ts).edges, TrackNames(ts)) =>
                    Feeders(Graph(ts).edges, Graph(ts).order[i]) \subseteq {Graph(ts).order[k] : k \in 1 .. i - 1}
PROOF
<1>. DEFINE names == [i \in DOMAIN ts |-> ts[i].name]
            edges == Edges(ts)
            N == TrackNames(ts)
            sorted == Visited(names, edges).order
            left == N \ Range(sorted)
            rest == Those(names, left)
            order == sorted \o rest
<1>1. Range(names) = N
  BY DEF Range, TrackNames
<1>2. Graph(ts).edges = edges /\ Graph(ts).order = order
  <2>. HIDE DEF edges
  <2>. QED BY <1>1 DEF Graph, RenderOrder, edges
<1>3. Nameable(names)
  BY DEF Distinct
<1>4. Joins(edges, N)
  BY EdgesJoin
<1>5. names \in Seq(N) /\ IsInjective(names)
  <2>1. names \in Seq(Range(Names) \ {NoName}) /\ IsInjective(names)
    BY <1>3 DEF Nameable
  <2>. HIDE DEF names, N
  <2>. QED BY <1>1, <2>1, ListOver
<1>. HIDE DEF names, edges, N
<1>6. /\ sorted \in Seq(N) /\ IsInjective(sorted)
      /\ Range(sorted) = {m \in N : Feeders(edges, m) \subseteq Range(sorted)}
      /\ \A i \in 1 .. Len(sorted) : Feeders(edges, sorted[i]) \subseteq {sorted[k] : k \in 1 .. i - 1}
  <2>1. VisitOK(Visited(names, edges), N, edges) /\ Visited(names, edges).ready = <<>>
    BY <1>1, <1>3, <1>4, VisitedIs
  <2>2. Range(<<>>) = {}
    BY DEF Range
  <2>. QED BY <2>1, <2>2 DEF VisitOK
<1>. HIDE DEF sorted
<1>7. rest \in Seq(N) /\ Range(rest) = left /\ IsInjective(rest)
  <2>. HIDE DEF left
  <2>1. rest \in Seq(N) /\ Range(rest) = N \cap left /\ IsInjective(rest)
    BY <1>1, <1>5, ThoseAre
  <2>. QED BY <2>1 DEF left
<1>. HIDE DEF rest
<1>8. /\ order \in Seq(N) /\ Len(order) = Len(sorted) + Len(rest) /\ Range(order) = N /\ IsInjective(order)
      /\ \A i \in 1 .. Len(sorted) : order[i] = sorted[i]
  <2>1. Range(sorted) \cap Range(rest) = {} /\ Range(sorted) \cup Range(rest) = N
    BY <1>6, <1>7
  <2>. HIDE DEF left
  <2>2. /\ order \in Seq(N) /\ Len(order) = Len(sorted) + Len(rest)
        /\ Range(order) = Range(sorted) \cup Range(rest) /\ IsInjective(order)
        /\ \A i \in 1 .. Len(sorted) : order[i] = sorted[i]
    BY <1>6, <1>7, <2>1, Joined
  <2>. HIDE DEF order
  <2>. QED BY <2>1, <2>2
<1>9. left \subseteq InLoops(edges, N)
  <2>1. ASSUME NEW n \in left PROVE Feeders(edges, n) \cap left # {}
    <3>1. ~(Feeders(edges, n) \subseteq Range(sorted))
      BY <1>6, <2>1
    <3>2. Feeders(edges, n) \subseteq N
      BY <1>4 DEF Feeders, Joins
    <3>. QED BY <3>1, <3>2
  <2>2. left \in {S \in SUBSET N : \A n \in S : Feeders(edges, n) \cap S # {}}
    BY <2>1
  <2>. HIDE DEF left
  <2>. QED BY <2>2 DEF InLoops
<1>10. ASSUME NEW i \in DOMAIN order, order[i] \notin InLoops(edges, N)
       PROVE  Feeders(edges, order[i]) \subseteq {order[k] : k \in 1 .. i - 1}
  <2>1. Len(sorted) \in Nat /\ DOMAIN sorted = 1 .. Len(sorted) /\ i \in Nat
    BY <1>6, <1>8
  <2>2. order[i] \in Range(sorted)
    <3>1. order[i] \in N
      BY <1>8 DEF Range
    <3>. QED BY <1>9, <1>10, <3>1
  <2>3. PICK j \in 1 .. Len(sorted) : order[i] = sorted[j]
    BY <2>1, <2>2 DEF Range
  <2>4. i = j
    <3>1. j \in DOMAIN order /\ order[j] = sorted[j]
      <4>1. DOMAIN order = 1 .. Len(sorted) + Len(rest) /\ Len(rest) \in Nat
        BY <1>7, <1>8
      <4>. QED BY <1>8, <2>1, <4>1
    <3>. HIDE DEF order
    <3>. QED BY <1>8, <2>3, <3>1 DEF IsInjective
  <2>5. Feeders(edges, order[i]) \subseteq {sorted[k] : k \in 1 .. i - 1}
    BY <1>6, <2>3, <2>4
  <2>6. \A k \in 1 .. i - 1 : sorted[k] = order[k]
    <3>1. \A k \in 1 .. i - 1 : k \in 1 .. Len(sorted)
      BY <2>1, <2>4
    <3>. QED BY <1>8, <3>1
  <2>. HIDE DEF order
  <2>. QED BY <2>5, <2>6
<1>. HIDE DEF order
<1>. QED BY <1>2, <1>8, <1>10 DEF N

-----------------------------------------------------------------------------
(* The latency of the paths.                                                *)
ArePaths(paths, ts, edges, order, len) ==
    paths = [k \in 0 .. len |-> IF k = 0 THEN [n \in TrackNames(ts) |-> SelfLatency(TrackNamed(ts, n))]
                                ELSE Spread(ts, edges, paths[k - 1], order[k], Placed(order, k - 1))]

\* There is the function of the latencies after each track of an order.
LEMMA PathsExist ==
    ASSUME NEW ts, NEW edges, NEW order, NEW len \in Nat
    PROVE  \E paths : ArePaths(paths, ts, edges, order, len)
PROOF
<1>. DEFINE Alone == [n \in TrackNames(ts) |-> SelfLatency(TrackNamed(ts, n))]
            Bad == {n \in Nat : ~ \E paths : ArePaths(paths, ts, edges, order, n)}
<1>. HIDE DEF Alone
<1>1. SUFFICES ASSUME Bad # {} PROVE FALSE
  OBVIOUS
<1>2. PICK n \in Bad : n = 0 \/ (n - 1 \in Nat /\ n - 1 \notin Bad)
  <2>1. Bad \in SUBSET Nat
    OBVIOUS
  <2>. HIDE DEF Bad
  <2>. QED BY <1>1, <2>1, SmallestNat
<1>3. CASE n = 0
  <2>1. ArePaths([k \in 0 .. 0 |-> Alone], ts, edges, order, 0)
    BY DEF ArePaths, Alone
  <2>. QED BY <1>2, <1>3, <2>1
<1>4. CASE n # 0
  <2>1. PICK paths : ArePaths(paths, ts, edges, order, n - 1)
    BY <1>2, <1>4
  <2>. DEFINE longer == [k \in 0 .. n |-> IF k = n THEN Spread(ts, edges, paths[n - 1], order[n], Placed(order, n - 1)) ELSE paths[k]]
  <2>2. ASSUME NEW k \in 0 .. n
        PROVE  longer[k] = IF k = 0 THEN Alone ELSE Spread(ts, edges, longer[k - 1], order[k], Placed(order, k - 1))
    <3>1. CASE k = n
      <4>1. longer[k - 1] = paths[n - 1] /\ longer[k] = Spread(ts, edges, paths[n - 1], order[n], Placed(order, n - 1))
        BY <1>2, <1>4, <3>1
      <4>. HIDE DEF longer
      <4>. QED BY <1>4, <3>1, <4>1
    <3>2. CASE k # n /\ k # 0
      <4>1. k \in 0 .. n - 1 /\ k - 1 \in 0 .. n /\ k - 1 # n
        BY <1>2, <3>2
      <4>2. longer[k] = paths[k] /\ longer[k - 1] = paths[k - 1]
        BY <3>2, <4>1
      <4>3. paths[k] = Spread(ts, edges, paths[k - 1], order[k], Placed(order, k - 1))
        BY <2>1, <3>2, <4>1 DEF ArePaths
      <4>. HIDE DEF longer
      <4>. QED BY <3>2, <4>2, <4>3
    <3>3. CASE k # n /\ k = 0
      <4>1. paths[0] = Alone
        BY <2>1, <1>2, <1>4 DEF ArePaths, Alone
      <4>. QED BY <3>3, <4>1
    <3>. QED BY <3>1, <3>2, <3>3
  <2>3. ArePaths(longer, ts, edges, order, n)
    <3>1. longer = [k \in 0 .. n |-> longer[k]]
      OBVIOUS
    <3>. HIDE DEF longer
    <3>. QED BY <2>2, <3>1 DEF ArePaths, Alone
  <2>. QED BY <1>2, <2>3
<1>. QED BY <1>3, <1>4

\* The later of two
LEMMA MaxOfTwo ==
    ASSUME NEW a \in Nat, NEW b \in Nat
    PROVE  Max({a, b}) = IF a < b THEN b ELSE a
PROOF
<1>1. ASSUME NEW x \in {a, b}, \A y \in {a, b} : x >= y PROVE x = IF a < b THEN b ELSE a
  BY <1>1
<1>2. \E x \in {a, b} : \A y \in {a, b} : x >= y
  <2>1. CASE a < b
    BY <2>1
  <2>2. CASE ~(a < b)
    BY <2>2
  <2>. QED BY <2>1, <2>2
<1>3. Max({a, b}) \in {a, b} /\ \A y \in {a, b} : Max({a, b}) >= y
  BY <1>2 DEF Max
<1>. QED BY <1>1, <1>3

\* The latencies of inserts are natural numbers, and so are those of tracks.
Delays(ts) == \A n \in TrackNames(ts) : SelfLatency(TrackNamed(ts, n)) \in Nat
\* Each track of an order comes after those that feed it.
Sorted(order, edges, N) ==
    /\ order \in Seq(N) /\ Range(order) = N
    /\ \A i \in 1 .. Len(order) : Feeders(edges, order[i]) \subseteq {order[k] : k \in 1 .. i - 1}
    /\ IsInjective(order)

\* How late a path is: no less than any way there, and as late as one of them.
PathOK(path, ts, edges, done) ==
    LET N == TrackNames(ts)
        Lag(n) == SelfLatency(TrackNamed(ts, n))
    IN  /\ path \in [N -> Nat]
        /\ \A n \in done : \A m \in N : m \in Fed(edges, n) => path[m] >= path[n] + Lag(m)
        /\ \A n \in N : path[n] >= Lag(n)
        /\ \A n \in N : path[n] = Lag(n) \/ \E m \in Feeders(edges, n) \cap done : path[n] = path[m] + Lag(n)

\* One round of the loop of computeRouteLatencies: what the track at hand feeds is as late as it says, and
\* nothing that has been spread before changes.
LEMMA SpreadKeeps ==
    ASSUME NEW ts, Delays(ts), NEW edges, NEW path, NEW done \in SUBSET TrackNames(ts),
           PathOK(path, ts, edges, done),
           NEW n \in TrackNames(ts), \A m \in done \cup {n} : n \notin Feeders(edges, m)
    PROVE  PathOK(Spread(ts, edges, path, n, done), ts, edges, done \cup {n})
PROOF
<1>. DEFINE N == TrackNames(ts)
            Lag(m) == SelfLatency(TrackNamed(ts, m))
            next == Spread(ts, edges, path, n, done)
<1>1. /\ path \in [N -> Nat]
      /\ \A k \in done : \A m \in N : m \in Fed(edges, k) => path[m] >= path[k] + Lag(m)
      /\ \A k \in N : path[k] >= Lag(k)
      /\ \A k \in N : path[k] = Lag(k) \/ \E m \in Feeders(edges, k) \cap done : path[k] = path[m] + Lag(k)
  BY DEF PathOK
<1>2. \A m \in N : Lag(m) \in Nat
  BY DEF Delays
<1>4. \A m \in N : \A k : m \in Fed(edges, k) => k \in Feeders(edges, m)
  BY DEF Feeders, Fed
<1>5. next = [m \in N |-> IF m \in Fed(edges, n) \ done THEN Max({path[m], path[n] + Lag(m)}) ELSE path[m]]
  BY <1>1 DEF Spread
<1>. HIDE DEF N, Lag, next
<1>6. ASSUME NEW m \in N
      PROVE  next[m] = IF m \in Fed(edges, n) \ done /\ path[m] < path[n] + Lag(m) THEN path[n] + Lag(m) ELSE path[m]
  <2>1. path[m] \in Nat /\ path[n] + Lag(m) \in Nat
    BY <1>1, <1>2 DEF N
  <2>2. Max({path[m], path[n] + Lag(m)}) = IF path[m] < path[n] + Lag(m) THEN path[n] + Lag(m) ELSE path[m]
    BY <2>1, MaxOfTwo
  <2>. QED BY <1>5, <2>2
<1>7. next \in [N -> Nat] /\ \A m \in N : next[m] >= path[m]
  <2>1. ASSUME NEW m \in N PROVE next[m] \in Nat /\ next[m] >= path[m]
    <3>1. path[m] \in Nat /\ path[n] \in Nat /\ Lag(m) \in Nat
      BY <1>1, <1>2 DEF N
    <3>. QED BY <1>6, <3>1
  <2>2. next = [m \in N |-> next[m]]
    BY <1>5
  <2>. QED BY <2>1, <2>2
<1>8. ASSUME NEW k \in done \cup {n} PROVE k \in N /\ next[k] = path[k]
  <2>1. k \in N
    BY DEF N
  <2>2. k \notin Fed(edges, n)
    BY <1>4, <2>1
  <2>. QED BY <1>6, <2>1, <2>2
<1>9. ASSUME NEW k \in done \cup {n}, NEW m \in N, m \in Fed(edges, k)
      PROVE  next[m] >= next[k] + Lag(m)
  <2>1. k \in N /\ next[k] = path[k]
    BY <1>8
  <2>2. path[m] \in Nat /\ path[k] \in Nat /\ Lag(m) \in Nat /\ next[m] \in Nat /\ next[m] >= path[m]
    BY <1>1, <1>2, <1>7, <2>1
  <2>3. CASE k = n
    <3>1. m \in Fed(edges, n) \ done
      BY <1>4, <1>9, <2>3
    <3>. QED BY <1>6, <2>1, <2>2, <2>3, <3>1
  <2>4. CASE k \in done
    <3>1. path[m] >= path[k] + Lag(m)
      BY <1>1, <1>9, <2>4
    <3>. QED BY <2>1, <2>2, <3>1
  <2>. QED BY <2>3, <2>4
<1>10. ASSUME NEW m \in N PROVE next[m] >= Lag(m)
  <2>1. path[m] \in Nat /\ Lag(m) \in Nat /\ next[m] \in Nat /\ next[m] >= path[m] /\ path[m] >= Lag(m)
    BY <1>1, <1>2, <1>7
  <2>. QED BY <2>1
<1>11. ASSUME NEW m \in N
       PROVE  next[m] = Lag(m) \/ \E k \in Feeders(edges, m) \cap (done \cup {n}) : next[m] = next[k] + Lag(m)
  <2>1. CASE m \in Fed(edges, n) \ done /\ path[m] < path[n] + Lag(m)
    <3>1. next[m] = path[n] + Lag(m) /\ next[n] = path[n] /\ n \in Feeders(edges, m)
      BY <1>4, <1>6, <1>8, <2>1
    <3>. QED BY <3>1
  <2>2. CASE ~(m \in Fed(edges, n) \ done /\ path[m] < path[n] + Lag(m))
    <3>1. next[m] = path[m]
      BY <1>6, <2>2
    <3>2. CASE path[m] = Lag(m)
      BY <3>1, <3>2
    <3>3. CASE \E k \in Feeders(edges, m) \cap done : path[m] = path[k] + Lag(m)
      <4>1. PICK k \in Feeders(edges, m) \cap done : path[m] = path[k] + Lag(m)
        BY <3>3
      <4>2. next[k] = path[k]
        BY <1>8, <4>1
      <4>. QED BY <3>1, <4>1, <4>2
    <3>. QED BY <1>1, <3>2, <3>3
  <2>. QED BY <2>1, <2>2
<1>12. PathOK(next, ts, edges, done \cup {n})
  BY <1>7, <1>9, <1>10, <1>11 DEF PathOK, N, Lag
<1>. QED BY <1>12 DEF next

\* After each track of the order its paths are as late as what has been spread so far says.
LEMMA PathsAre ==
    ASSUME NEW ts, Delays(ts), NEW edges, NEW order, Sorted(order, edges, TrackNames(ts)),
           NEW paths, ArePaths(paths, ts, edges, order, Len(order)),
           NEW k \in 0 .. Len(order)
    PROVE  PathOK(paths[k], ts, edges, Placed(order, k))
PROOF
<1>. DEFINE N == TrackNames(ts)
            Bad == {j \in 0 .. Len(order) : ~PathOK(paths[j], ts, edges, Placed(order, j))}
<1>0. /\ Len(order) \in Nat /\ DOMAIN order = 1 .. Len(order)
      /\ \A i \in 1 .. Len(order) : order[i] \in N
  BY DEF Sorted
<1>1. SUFFICES ASSUME Bad # {} PROVE FALSE
  OBVIOUS
<1>2. PICK j \in Bad : j = 0 \/ (j - 1 \in Nat /\ j - 1 \notin Bad)
  <2>1. Bad \in SUBSET Nat
    BY <1>0
  <2>. HIDE DEF Bad
  <2>. QED BY <1>1, <2>1, SmallestNat
<1>3. j \in 0 .. Len(order) /\ ~PathOK(paths[j], ts, edges, Placed(order, j))
  BY <1>2
<1>4. CASE j = 0
  <2>1. paths[0] = [n \in N |-> SelfLatency(TrackNamed(ts, n))]
    BY <1>0 DEF ArePaths
  <2>2. \A n \in N : SelfLatency(TrackNamed(ts, n)) \in Nat
    BY DEF Delays
  <2>3. Placed(order, 0) = {}
    BY DEF Placed
  <2>4. PathOK(paths[0], ts, edges, {})
    BY <2>1, <2>2 DEF PathOK
  <2>. QED BY <1>3, <1>4, <2>3, <2>4
<1>5. CASE j # 0
  <2>1. j \in 1 .. Len(order) /\ j - 1 \in 0 .. Len(order) /\ order[j] \in N
    BY <1>0, <1>3, <1>5
  <2>2. PathOK(paths[j - 1], ts, edges, Placed(order, j - 1))
    BY <1>2, <1>5, <2>1
  <2>3. paths[j] = Spread(ts, edges, paths[j - 1], order[j], Placed(order, j - 1))
    BY <1>5, <2>1 DEF ArePaths
  <2>4. Placed(order, j) = Placed(order, j - 1) \cup {order[j]}
    <3>1. 1 .. j = 1 .. j - 1 \cup {j}
      BY <2>1
    <3>. QED BY <3>1 DEF Placed
  <2>5. Placed(order, j - 1) \subseteq N
    <3>1. \A i \in 1 .. j - 1 : i \in 1 .. Len(order)
      BY <1>0, <2>1
    <3>. QED BY <1>0, <3>1 DEF Placed
  <2>6. ASSUME NEW m \in Placed(order, j) PROVE order[j] \notin Feeders(edges, m)
    <3>1. PICK i \in 1 .. j : m = order[i]
      BY <2>6 DEF Placed
    <3>2. i \in 1 .. Len(order)
      BY <1>0, <2>1
    <3>3. Feeders(edges, order[i]) \subseteq {order[l] : l \in 1 .. i - 1}
      BY <3>2 DEF Sorted
    <3>4. SUFFICES ASSUME NEW l \in 1 .. i - 1, order[j] = order[l] PROVE FALSE
      BY <3>1, <3>3
    <3>5. l \in DOMAIN order /\ j \in DOMAIN order /\ l # j
      BY <1>0, <2>1, <3>2
    <3>. QED BY <3>4, <3>5 DEF Sorted, IsInjective
  <2>. HIDE DEF N
  <2>7. Placed(order, j - 1) \in SUBSET TrackNames(ts) /\ order[j] \in TrackNames(ts)
    BY <2>1, <2>5 DEF N
  <2>8. \A m \in Placed(order, j - 1) \cup {order[j]} : order[j] \notin Feeders(edges, m)
    BY <2>4, <2>6
  <2>9. PathOK(Spread(ts, edges, paths[j - 1], order[j], Placed(order, j - 1)), ts, edges, Placed(order, j - 1) \cup {order[j]})
    BY <2>2, <2>7, <2>8, SpreadKeeps
  <2>. QED BY <1>3, <2>3, <2>4, <2>9
<1>. QED BY <1>4, <1>5

\* The longest of the paths is a number, and none is longer.
LEMMA LongestIs ==
    ASSUME NEW N, NEW list \in Seq(N), Range(list) = N, NEW path \in [N -> Nat]
    PROVE  Longest(path) \in Nat /\ \A n \in N : path[n] <= Longest(path)
PROOF
<1>. DEFINE S == {0} \cup Range(path)
<1>1. S = {0} \cup {path[n] : n \in N} /\ S \subseteq Nat
  BY DEF Range
<1>2. Len(list) \in Nat /\ N = {list[i] : i \in 1 .. Len(list)}
  BY DEF Range
<1>3. PICK bound \in Nat : \A x \in S : x <= bound
  <2>. DEFINE Upper(k) == \E top \in Nat : \A i \in 1 .. k : path[list[i]] <= top
              Bad == {k \in 0 .. Len(list) : ~Upper(k)}
  <2>1. Bad = {}
    <3>1. SUFFICES ASSUME Bad # {} PROVE FALSE
      OBVIOUS
    <3>2. PICK k \in Bad : k = 0 \/ (k - 1 \in Nat /\ k - 1 \notin Bad)
      <4>1. Bad \in SUBSET Nat
        BY <1>2
      <4>. HIDE DEF Bad
      <4>. QED BY <3>1, <4>1, SmallestNat
    <3>3. k \in 0 .. Len(list) /\ ~Upper(k)
      BY <3>2
    <3>4. k # 0
      <4>1. Upper(0)
        <5>1. 0 \in Nat /\ \A i \in 1 .. 0 : path[list[i]] <= 0
          OBVIOUS
        <5>. QED BY <5>1
      <4>. HIDE DEF Upper
      <4>. QED BY <3>3, <4>1
    <3>5. k \in 1 .. Len(list) /\ k - 1 \in 0 .. Len(list)
      BY <1>2, <3>3, <3>4
    <3>6. list[k] \in N
      BY <1>2, <3>5
    <3>7. Upper(k - 1)
      <4>. HIDE DEF Upper
      <4>. QED BY <3>2, <3>4, <3>5
    <3>8. PICK top \in Nat : \A i \in 1 .. k - 1 : path[list[i]] <= top
      BY <3>7
    <3>9. path[list[k]] \in Nat
      BY <3>6
    <3>. DEFINE higher == IF top < path[list[k]] THEN path[list[k]] ELSE top
    <3>10. higher \in Nat /\ top <= higher /\ path[list[k]] <= higher
      <4>. HIDE DEF Upper, Bad, S
      <4>. QED BY <3>8, <3>9
    <3>11. ASSUME NEW i \in 1 .. k PROVE path[list[i]] <= higher
      <4>1. i \in 1 .. Len(list)
        BY <1>2, <3>5
      <4>2. path[list[i]] \in Nat
        BY <1>2, <4>1
      <4>. HIDE DEF higher, Upper, Bad, S
      <4>3. CASE i = k
        BY <3>10, <4>3
      <4>4. CASE i # k
        <5>1. i \in 1 .. k - 1
          BY <1>2, <3>5, <4>4
        <5>2. path[list[i]] <= top
          BY <3>8, <5>1
        <5>. QED BY <3>8, <3>10, <4>2, <5>2
      <4>. QED BY <4>3, <4>4
    <3>12. Upper(k)
      <4>. HIDE DEF higher
      <4>. QED BY <3>10, <3>11
    <3>. QED BY <3>3, <3>12
  <2>2. Upper(Len(list))
    <3>1. Len(list) \in 0 .. Len(list)
      BY <1>2
    <3>. HIDE DEF Upper
    <3>. QED BY <2>1, <3>1
  <2>3. PICK top \in Nat : \A i \in 1 .. Len(list) : path[list[i]] <= top
    BY <2>2
  <2>4. ASSUME NEW x \in S PROVE x <= top
    <3>1. CASE x = 0
      BY <3>1
    <3>2. CASE \E n \in N : x = path[n]
      BY <1>2, <2>3, <3>2
    <3>. HIDE DEF S
    <3>. QED BY <1>1, <2>4, <3>1, <3>2
  <2>. HIDE DEF S
  <2>. QED BY <2>4
<1>. HIDE DEF S
<1>4. \E x \in S : \A y \in S : x >= y
  <2>. DEFINE Above == {b \in Nat : \A x \in S : x <= b}
  <2>1. PICK b \in Above : b = 0 \/ (b - 1 \in Nat /\ b - 1 \notin Above)
    <3>1. Above \in SUBSET Nat /\ Above # {}
      BY <1>3
    <3>. HIDE DEF Above
    <3>. QED BY <3>1, SmallestNat
  <2>2. CASE b = 0
    BY <1>1, <2>1, <2>2
  <2>3. CASE b # 0
    <3>1. PICK x \in S : ~(x <= b - 1)
      BY <2>1, <2>3
    <3>2. x = b
      BY <1>1, <2>1, <3>1
    <3>. QED BY <1>1, <2>1, <3>2
  <2>. QED BY <2>2, <2>3
<1>5. Max(S) \in S /\ \A y \in S : Max(S) >= y
  BY <1>4 DEF Max
<1>6. Longest(path) = Max(S)
  BY DEF Longest, S
<1>. QED BY <1>1, <1>5, <1>6

\* A delay is correct: with no feedback among the tracks, the sound that reaches a track over any
\* route comes no later than the track's path says, no path is later than one of the routes to it,
\* and what a track waits (computeRouteLatencies, prepareDelayCompensation) makes its path as late
\* as the longest of all.
THEOREM WaitsAlign ==
    ASSUME NEW T, NEW ts \in Seq(T), Distinct(ts), Delays(ts),
           InLoops(Edges(ts), TrackNames(ts)) = {}
    PROVE  LET N == TrackNames(ts)
               edges == Edges(ts)
               path == PathLatency(ts, edges, Graph(ts).order)
               Lag(n) == SelfLatency(TrackNamed(ts, n))
               wait == Compensation(ts, Graph(ts))
           IN  /\ path \in [N -> Nat]
               /\ \A n \in N : \A m \in Feeders(edges, n) : path[n] >= path[m] + Lag(n)
               /\ \A n \in N : path[n] = Lag(n) \/ \E m \in Feeders(edges, n) : path[n] = path[m] + Lag(n)
               /\ wait \in [N -> Nat]
               /\ \A n \in N : CarriesAudio(TrackNamed(ts, n)) => path[n] + wait[n] = Longest(path)
PROOF
<1>. DEFINE N == TrackNames(ts)
            edges == Edges(ts)
            order == Graph(ts).order
            path == PathLatency(ts, edges, order)
            Lag(n) == SelfLatency(TrackNamed(ts, n))
            wait == Compensation(ts, Graph(ts))
<1>1. Graph(ts).edges = edges
  BY DEF Graph
<1>2. Joins(edges, N)
  BY EdgesJoin
<1>3. /\ order \in Seq(N) /\ Range(order) = N /\ IsInjective(order)
      /\ \A i \in DOMAIN order : order[i] \notin InLoops(edges, N) =>
            Feeders(edges, order[i]) \subseteq {order[k] : k \in 1 .. i - 1}
  <2>. HIDE DEF edges
  <2>. QED BY <1>1, FeedersComeFirst
<1>. HIDE DEF edges, order
<1>4. Sorted(order, edges, N)
  <2>1. InLoops(edges, N) = {}
    BY DEF edges
  <2>. HIDE DEF N
  <2>. QED BY <1>3, <2>1 DEF Sorted
<1>5. PathOK(path, ts, edges, N)
  <2>1. Len(order) \in Nat /\ Len(order) \in 0 .. Len(order) /\ DOMAIN order = 1 .. Len(order)
    BY <1>3
  <2>. DEFINE paths == CHOOSE paths : ArePaths(paths, ts, edges, order, Len(order))
  <2>2. ArePaths(paths, ts, edges, order, Len(order))
    <3>1. \E p : ArePaths(p, ts, edges, order, Len(order))
      BY <2>1, PathsExist
    <3>. QED BY <3>1
  <2>3. path = paths[Len(order)]
    BY DEF PathLatency, ArePaths
  <2>. HIDE DEF paths
  <2>4. Placed(order, Len(order)) = N
    BY <1>3, <2>1 DEF Range, Placed
  <2>5. PathOK(paths[Len(order)], ts, edges, Placed(order, Len(order)))
    <3>1. Sorted(order, edges, TrackNames(ts))
      BY <1>4
    <3>. HIDE DEF N, path, Lag, wait
    <3>2. ASSUME NEW k \in 0 .. Len(order) PROVE PathOK(paths[k], ts, edges, Placed(order, k))
      BY <2>2, <3>1, PathsAre
    <3>. QED BY <2>1, <3>2
  <2>. QED BY <2>3, <2>4, <2>5
<1>. HIDE DEF path
<1>6. path \in [N -> Nat]
  BY <1>5 DEF PathOK
<1>7. ASSUME NEW n \in N, NEW m \in Feeders(edges, n) PROVE path[n] >= path[m] + Lag(n)
  <2>1. m \in N /\ n # NoName => n \in Fed(edges, m)
    BY <1>2, <1>7 DEF Feeders, Fed
  <2>2. n # NoName
    BY DEF Distinct, Nameable, TrackNames, Range
  <2>3. m \in N
    BY <1>2, <1>7 DEF Feeders, Joins
  <2>. QED BY <1>5, <2>1, <2>2, <2>3 DEF PathOK
<1>8. ASSUME NEW n \in N PROVE path[n] = Lag(n) \/ \E m \in Feeders(edges, n) : path[n] = path[m] + Lag(n)
  BY <1>5 DEF PathOK
<1>9. Longest(path) \in Nat /\ \A n \in N : path[n] <= Longest(path)
  <2>. HIDE DEF N
  <2>. QED BY <1>3, <1>6, LongestIs
<1>10. wait = [n \in N |-> IF CarriesAudio(TrackNamed(ts, n)) THEN Longest(path) - path[n] ELSE 0]
  BY <1>1 DEF Compensation, path, order
<1>. HIDE DEF wait, N
<1>11. wait \in [N -> Nat] /\ \A n \in N : CarriesAudio(TrackNamed(ts, n)) => path[n] + wait[n] = Longest(path)
  <2>1. ASSUME NEW n \in N PROVE Longest(path) - path[n] \in Nat
    BY <1>6, <1>9, <2>1
  <2>2. ASSUME NEW n \in N, CarriesAudio(TrackNamed(ts, n)) PROVE path[n] + wait[n] = Longest(path)
    BY <1>6, <1>9, <1>10, <2>2
  <2>. QED BY <1>10, <2>1, <2>2
<1>. QED BY <1>6, <1>7, <1>8, <1>11 DEF N, edges, order, path, wait
=============================================================================
