------------------------ MODULE ListenRoomSenderProofs ------------------------
(***************************************************************************)
(* Theorems about ListenRoomSender, for all settings, block, packet and    *)
(* frame sizes, queue limits and numbers of rooms and blocks.              *)
(***************************************************************************)
EXTENDS ListenRoomSender, SequenceTheorems, NaturalsInduction,
        WellFoundedInduction, TLAPS

\* The units of room r from the one after a to b.
UnitsOf(r, a, b) == [room : {r}, n : (a + 1)..b]
Made == UnitsOf(room, 0, made)
PacketsOf(r, S) == [number : Nat, room : {r}, units : Seq(S)]

\* The part of TypeOK that is about single values.
Scalars ==
    /\ settings \in Settings \cup {Off} /\ wish \in Settings \cup {Off}
    /\ {stopRequested, configured, encoder, native} \subseteq BOOLEAN
    /\ sequence \in Nat /\ number \in Nat /\ sendsFor \in Nat
    /\ room \in Nat /\ made \in Nat /\ asked \in Nat
    /\ packetsDropped \in Nat /\ sendFailures \in Nat
    /\ control \in {"idle", "configuring", "stopping"}
    /\ worker \in {"none", "looking", "asleep", "begin", "pcm", "buffering",
                   "opus", "encoded", "ended"}

\* All sound there is was made in this room, and is sent for it.
Sound ==
    /\ queue \in Seq(Seq(Made))
    /\ block \in Seq(Made) /\ frame \in Seq(Made) /\ pending \in Seq(Made)
    /\ handedOver \in Seq(Made)
    /\ relayed \in Seq(PacketsOf(room, Made))
    /\ worker \in {"pcm", "buffering", "opus", "encoded"} => sendsFor = room

\* What is where, while the worker is where it is.
Places ==
    /\ Len(queue) <= MaxQueuedBlocks
    /\ block # <<>> => worker \in {"begin", "pcm", "buffering"}
    /\ (frame # <<>>) = (worker = "encoded")
    /\ sendFailures = 0 /\ worker \notin {"opus", "encoded"} =>
          Len(pending) < OpusUnits

\* A worker that left had nothing in the queue; what is there came later.
Late ==
    /\ asked <= made
    /\ stopRequested => control # "idle"
    /\ worker = "ended" => stopRequested
    /\ worker = "ended" => queue \in Seq(Seq(UnitsOf(room, asked, made)))

\* The number of the next packet.
Upcoming == IF worker \in {"pcm", "encoded"} THEN number ELSE sequence

Numbered ==
    /\ worker = "encoded" => sequence = number + 1
    /\ \A i \in 1..Len(relayed) : relayed[i].number < Upcoming
    /\ \A i, j \in 1..Len(relayed) :
          i < j => relayed[i].number < relayed[j].number
    /\ sendFailures = 0 =>
          /\ Len(relayed) = Upcoming
          /\ \A i \in 1..Len(relayed) : relayed[i].number = i - 1

SenderInv == Scalars /\ Sound /\ Places /\ Late /\ Numbered
-----------------------------------------------------------------------------
(***************************************************************************)
(* Sequences                                                               *)
(***************************************************************************)

\* The rest of a sequence, as PcmSend and TakeFrame cut it.
LEMMA Cut ==
    ASSUME NEW S, NEW s \in Seq(S), NEW k \in Nat, k <= Len(s)
    PROVE  /\ SubSeq(s, 1, k) \in Seq(S) /\ Len(SubSeq(s, 1, k)) = k
           /\ SubSeq(s, k + 1, Len(s)) \in Seq(S)
           /\ Len(SubSeq(s, k + 1, Len(s))) = Len(s) - k
<1>1. SubSeq(s, 1, k) \in Seq(S) /\ Len(SubSeq(s, 1, k)) = k
  OBVIOUS
<1>2. /\ SubSeq(s, k + 1, Len(s)) \in Seq(S)
      /\ Len(SubSeq(s, k + 1, Len(s))) = Len(s) - k
  OBVIOUS
<1>. QED BY <1>1, <1>2

\* An empty sequence is one of length 0.
LEMMA Empty ==
    ASSUME NEW S, NEW s \in Seq(S)
    PROVE  Len(s) \in Nat /\ (s = <<>> <=> Len(s) = 0)
BY EmptySeq

\* A set of units grows with the range of their numbers.
LEMMA MoreUnits ==
    ASSUME NEW r \in Nat, NEW a \in Nat, NEW b \in Nat, NEW c \in Nat, NEW d \in Nat,
           c <= a, b <= d
    PROVE  /\ UnitsOf(r, a, b) \subseteq UnitsOf(r, c, d)
           /\ Seq(UnitsOf(r, a, b)) \subseteq Seq(UnitsOf(r, c, d))
           /\ Seq(Seq(UnitsOf(r, a, b))) \subseteq Seq(Seq(UnitsOf(r, c, d)))
           /\ Seq(PacketsOf(r, UnitsOf(r, a, b))) \subseteq Seq(PacketsOf(r, UnitsOf(r, c, d)))
<1>1. (a + 1)..b \subseteq (c + 1)..d
  OBVIOUS
<1>2. UnitsOf(r, a, b) \subseteq UnitsOf(r, c, d)
  BY <1>1 DEF UnitsOf
<1>3. Seq(UnitsOf(r, a, b)) \subseteq Seq(UnitsOf(r, c, d))
  BY <1>2, SeqMonotonic, Zenon
<1>4. Seq(Seq(UnitsOf(r, a, b))) \subseteq Seq(Seq(UnitsOf(r, c, d)))
  BY <1>3, SeqMonotonic, Zenon
<1>5. PacketsOf(r, UnitsOf(r, a, b)) \subseteq PacketsOf(r, UnitsOf(r, c, d))
  BY <1>3 DEF PacketsOf
<1>6. Seq(PacketsOf(r, UnitsOf(r, a, b))) \subseteq Seq(PacketsOf(r, UnitsOf(r, c, d)))
  BY <1>5, SeqMonotonic, Zenon
<1>. QED BY <1>2, <1>3, <1>4, <1>6
-----------------------------------------------------------------------------
(***************************************************************************)
(* The invariant                                                           *)
(***************************************************************************)

\* What the assumption on the sizes says of each.
LEMMA Sizes ==
    /\ BlockUnits \in Nat /\ BlockUnits > 0 /\ PacketUnits \in Nat /\ PacketUnits > 0
    /\ OpusUnits \in Nat /\ OpusUnits > 0
    /\ MaxQueuedBlocks \in Nat /\ MaxQueuedBlocks > 0
BY SizeAssumption

\* A room is on or off.
LEMMA Enabled == \A s \in Settings \cup {Off} : s.enabled \in BOOLEAN
<1>1. \A s \in Settings :
         s \in [enabled : BOOLEAN, opus : BOOLEAN,
               transport : {"relay", "native_webrtc", "direct_fallback"}]
  BY SettingsAssumption, Zenon
<1>2. \A s \in Settings : s.enabled \in BOOLEAN
  BY <1>1
<1>3. Off.enabled \in BOOLEAN
  BY DEF Off
<1>. QED BY <1>2, <1>3, Zenon

\* The invariant holds before the first configuration.
LEMMA InitInv == Init => SenderInv
<1>. SUFFICES ASSUME Init PROVE SenderInv
  OBVIOUS
<1>. \A S : <<>> \in Seq(S) /\ Len(<<>>) = 0
  BY EmptySeq
<1>1. Scalars BY DEF Init, Scalars
<1>2. Sound BY DEF Init, Sound
<1>3. Places BY Sizes DEF Init, Places
<1>4. Late BY DEF Init, Late
<1>5. Numbered BY DEF Init, Numbered, Upcoming
<1>. QED BY <1>1, <1>2, <1>3, <1>4, <1>5 DEF SenderInv

\* A pushed block is a sequence of the units it is made of.
LEMMA PushedIn ==
    ASSUME NEW T,
           \A u \in 1..BlockUnits : [room |-> room, n |-> made + u] \in T
    PROVE  Pushed \in Seq(T)
<1>1. Pushed \in [1..BlockUnits -> T]
  BY Zenon DEF Pushed
<1>. QED BY <1>1, Sizes, SeqDef, Zenon

\* Single values keep their types.
LEMMA ScalarsNext ==
    ASSUME Scalars, [Next]_vars
    PROVE  Scalars'
<1>. USE Sizes DEF Scalars, sender, outside, controls
<1>1. CASE Push
  BY <1>1 DEF Push, Notified
<1>2. ASSUME NEW s \in Settings \cup {Off}, Apply(s) PROVE Scalars'
  <2>1. s.enabled \in BOOLEAN
    BY Enabled
  <2>2. configured' \in BOOLEAN /\ native' \in BOOLEAN /\ encoder' \in BOOLEAN
    <3>1. configured' = s.enabled /\ native' = (s.enabled /\ ToNative(s))
      BY <1>2, Zenon DEF Apply, Rebuild
    <3>2. encoder' \in BOOLEAN
      BY <1>2 DEF Apply, Rebuild
    <3>. QED BY <2>1, <3>1, <3>2, Zenon
  <2>3. /\ settings' = s /\ wish' = Off /\ stopRequested' = FALSE
        /\ control' = "idle" /\ worker' \in {"looking", "none"}
        /\ sequence' = 0 /\ room' = room + 1 /\ made' = 0 /\ asked' = 0
        /\ packetsDropped' = packetsDropped /\ sendFailures' = sendFailures
        /\ number' = number /\ sendsFor' = sendsFor
    BY <1>2, Zenon DEF Apply, Rebuild
  <2>4. /\ settings' \in Settings \cup {Off} /\ wish' \in Settings \cup {Off}
        /\ {stopRequested', configured', encoder', native'} \subseteq BOOLEAN
    BY <2>2, <2>3, Zenon
  <2>. QED BY <2>3, <2>4
<1>3. ASSUME NEW s \in Settings \cup {Off}, NEW what \in {"configuring", "stopping"},
             AskToStop(what, s)
      PROVE  Scalars'
  BY <1>3 DEF AskToStop, Notified
<1>4. CASE Clear
  BY <1>4 DEF Clear
<1>5. CASE Leave
  BY <1>5 DEF Leave, members
<1>6. CASE Sleep
  BY <1>6 DEF Sleep, members
<1>7. CASE Take
  BY <1>7 DEF Take
<1>8. CASE BeginSend
  BY <1>8 DEF BeginSend
<1>9. CASE SendPcm
  BY <1>9 DEF SendPcm, members
<1>10. CASE PcmFails
  BY <1>10 DEF PcmFails
<1>11. CASE PcmEnds
  BY <1>11 DEF PcmEnds, SequenceAfter
<1>12. CASE OpusBuffers
  BY <1>12 DEF OpusBuffers
<1>13. CASE TakeFrame
  BY <1>13 DEF TakeFrame
<1>14. CASE SendFrame
  BY <1>14 DEF SendFrame, members
<1>15. CASE FrameFails
  BY <1>15 DEF FrameFails
<1>16. CASE UNCHANGED vars
  BY <1>16 DEF vars, members
<1>17. ASSUME NEW s \in Settings, Configure(s) PROVE Scalars'
  BY <1>17, <1>2, <1>3 DEF Configure
<1>18. CASE FinishConfigure
  BY <1>18, <1>2 DEF FinishConfigure
<1>19. CASE Stop \/ FinishStop
  BY <1>19, <1>3, <1>4 DEF Stop, FinishStop
<1>. QED
  BY <1>1, <1>5, <1>6, <1>7, <1>8, <1>9, <1>10, <1>11, <1>12, <1>13, <1>14,
     <1>15, <1>16, <1>17, <1>18, <1>19
  DEF Next, WorkerStep

\* The sound of a room stays in it.
LEMMA SoundNext ==
    ASSUME Scalars, Sound, Places, [Next]_vars
    PROVE  Sound'
<1>. USE Sizes DEF Sound, sender, outside, controls
<1>e. \A S : <<>> \in Seq(S)
  BY EmptySeq
<1>s. made' = made /\ room' = room => Made' = Made
  BY DEF Made
<1>r. room \in Nat /\ made \in Nat
  BY DEF Scalars
<1>1. CASE Push
  <2>1. made + BlockUnits \in Nat /\ made <= made + BlockUnits
    BY <1>r
  <2>2. Made' = UnitsOf(room, 0, made + BlockUnits)
    BY <1>1, Zenon DEF Push, Made
  <2>3. /\ Seq(Made) \subseteq Seq(Made') /\ Seq(Seq(Made)) \subseteq Seq(Seq(Made'))
        /\ Seq(PacketsOf(room, Made)) \subseteq Seq(PacketsOf(room, Made'))
    <3>1. 0 \in Nat /\ 0 <= 0
      OBVIOUS
    <3>2. Made = UnitsOf(room, 0, made)
      BY DEF Made
    <3>3. /\ Seq(UnitsOf(room, 0, made)) \subseteq Seq(UnitsOf(room, 0, made + BlockUnits))
          /\ Seq(Seq(UnitsOf(room, 0, made)))
                \subseteq Seq(Seq(UnitsOf(room, 0, made + BlockUnits)))
          /\ Seq(PacketsOf(room, UnitsOf(room, 0, made)))
                \subseteq Seq(PacketsOf(room, UnitsOf(room, 0, made + BlockUnits)))
      BY <1>r, <2>1, <3>1, MoreUnits, Zenon
    <3>. QED BY <2>2, <3>2, <3>3, Zenon
  <2>4. Pushed \in Seq(Made')
    <3>1. \A u \in 1..BlockUnits : made + u \in (0 + 1)..(made + BlockUnits)
      BY <1>r
    <3>2. \A u \in 1..BlockUnits : [room |-> room, n |-> made + u] \in Made'
      BY <2>2, <3>1 DEF UnitsOf
    <3>. QED BY <3>2, PushedIn, Zenon
  <2>5. queue' \in Seq(Seq(Made'))
    <3>1. (IF Full THEN Tail(queue) ELSE queue) \in Seq(Seq(Made))
      <4>1. Full => queue # <<>>
        BY EmptySeq DEF Full
      <4>2. CASE Full
        BY <4>1, <4>2, HeadTailProperties
      <4>. QED BY <4>2
    <3>. QED BY <1>1, <2>3, <2>4, <3>1 DEF Push
  <2>6. room' = room /\ sendsFor' = sendsFor
        /\ (worker' \in {"pcm", "buffering", "opus", "encoded"} => worker' = worker)
    BY <1>1 DEF Push, Notified
  <2>7. block' = block /\ frame' = frame /\ pending' = pending
        /\ handedOver' = handedOver /\ relayed' = relayed
    BY <1>1 DEF Push
  <2>. QED BY <2>3, <2>5, <2>6, <2>7
<1>2. ASSUME NEW s \in Settings \cup {Off}, Apply(s), worker \in {"none", "ended"}
      PROVE  Sound'
  <2>1. block' = <<>> /\ frame' = <<>> /\ queue' = <<>> /\ pending' = <<>>
        /\ relayed' = <<>> /\ handedOver' = <<>>
    BY <1>2 DEF Apply, Rebuild, Places
  <2>2. worker' \in {"looking", "none"}
    BY <1>2, Zenon DEF Apply, Rebuild
  <2>. QED BY <1>e, <2>1, <2>2
<1>3. ASSUME NEW s \in Settings \cup {Off}, NEW what \in {"configuring", "stopping"},
             AskToStop(what, s)
      PROVE  Sound'
  BY <1>3, <1>s DEF AskToStop, Notified
<1>4. CASE Clear
  BY <1>4, <1>e, <1>s DEF Clear
<1>5. CASE Leave
  BY <1>5, <1>s DEF Leave, members
<1>6. CASE Sleep
  BY <1>6, <1>s DEF Sleep, members
<1>7. CASE Take
  <2>1. Head(queue) \in Seq(Made) /\ Tail(queue) \in Seq(Seq(Made))
    BY <1>7, HeadTailProperties DEF Take
  <2>. QED BY <1>7, <1>s, <2>1 DEF Take
<1>8. CASE BeginSend
  <2>1. handedOver \o block \in Seq(Made)
    OBVIOUS
  <2>2. handedOver' \in Seq(Made) /\ block' \in Seq(Made)
    BY <1>8, <1>e, <2>1 DEF BeginSend
  <2>. QED BY <1>8, <1>s, <2>2 DEF BeginSend
<1>9. CASE SendPcm
  <2>1. Len(Chunk) \in Nat /\ Chunk \in Seq(Made)
        /\ SubSeq(block, Len(Chunk) + 1, Len(block)) \in Seq(Made)
    <3>. DEFINE k == IF Len(block) < PacketUnits THEN Len(block) ELSE PacketUnits
    <3>1. k \in Nat /\ k <= Len(block) /\ Chunk = SubSeq(block, 1, k)
      BY Empty DEF Chunk
    <3>2. /\ SubSeq(block, 1, k) \in Seq(Made) /\ Len(SubSeq(block, 1, k)) = k
          /\ SubSeq(block, k + 1, Len(block)) \in Seq(Made)
      BY <3>1, Cut, Zenon
    <3>. HIDE DEF k
    <3>. QED BY <3>1, <3>2
  <2>2. Packet(Chunk) \in PacketsOf(room, Made)
    BY <1>9, <2>1 DEF SendPcm, Packet, PacketsOf, Scalars
  <2>. QED BY <1>9, <1>s, <2>1, <2>2 DEF SendPcm, members
<1>10. CASE PcmFails
  BY <1>10, <1>e, <1>s DEF PcmFails
<1>11. CASE PcmEnds
  BY <1>11, <1>s DEF PcmEnds
<1>12. CASE OpusBuffers
  <2>1. pending \o block \in Seq(Made)
    OBVIOUS
  <2>. QED BY <1>12, <1>e, <1>s, <2>1 DEF OpusBuffers
<1>13. CASE TakeFrame
  <2>1. CASE Len(pending) < OpusUnits
    BY <1>13, <2>1, <1>s DEF TakeFrame
  <2>2. CASE ~(Len(pending) < OpusUnits)
    <3>1. OpusUnits <= Len(pending)
      BY <2>2, Empty
    <3>2. SubSeq(pending, 1, OpusUnits) \in Seq(Made) /\ Remainder \in Seq(Made)
      BY <3>1, Cut DEF Remainder
    <3>. QED BY <1>13, <1>s, <2>2, <3>2 DEF TakeFrame
  <2>. QED BY <2>1, <2>2
<1>14. CASE SendFrame
  <2>1. Packet(frame) \in PacketsOf(room, Made)
    BY <1>14 DEF SendFrame, Packet, PacketsOf, Scalars
  <2>. QED BY <1>14, <1>e, <1>s, <2>1 DEF SendFrame, members
<1>15. CASE FrameFails
  BY <1>15, <1>e, <1>s DEF FrameFails
<1>16. CASE UNCHANGED vars
  BY <1>16, <1>s DEF vars, members
<1>17. ASSUME NEW s \in Settings, Configure(s) PROVE Sound'
  BY <1>17, <1>2, <1>3 DEF Configure
<1>18. CASE FinishConfigure
  BY <1>18, <1>2 DEF FinishConfigure, Scalars
<1>19. CASE Stop \/ FinishStop
  BY <1>19, <1>3, <1>4 DEF Stop, FinishStop
<1>. QED
  BY <1>1, <1>5, <1>6, <1>7, <1>8, <1>9, <1>10, <1>11, <1>12, <1>13, <1>14,
     <1>15, <1>16, <1>17, <1>18, <1>19
  DEF Next, WorkerStep

\* The queue keeps to its limit, and everything else has its place.
LEMMA PlacesNext ==
    ASSUME Scalars, Sound, Places, [Next]_vars
    PROVE  Places'
<1>. USE Sizes DEF Places, sender, outside, controls
<1>e. \A S : \A s \in Seq(S) : Len(s) \in Nat /\ (s = <<>> <=> Len(s) = 0)
  BY Empty
<1>z. Len(<<>>) = 0
  OBVIOUS
<1>f. sendFailures \in Nat
  BY DEF Scalars
<1>1. CASE Push
  <2>1. Len(queue') <= MaxQueuedBlocks
    <3>1. CASE Full
      <4>1. queue # <<>>
        BY <3>1 DEF Full
      <4>2. Tail(queue) \in Seq(Seq(Made)) /\ Len(Tail(queue)) = Len(queue) - 1
        BY <4>1, HeadTailProperties DEF Sound
      <4>3. Len(Append(Tail(queue), Pushed)) = Len(Tail(queue)) + 1
        BY <4>2
      <4>. QED BY <1>1, <3>1, <4>2, <4>3 DEF Push, Sound
    <3>2. CASE ~Full
      <4>1. Len(Append(queue, Pushed)) = Len(queue) + 1
        BY DEF Sound
      <4>. QED BY <1>1, <3>2, <4>1 DEF Push, Full, Sound
    <3>. QED BY <3>1, <3>2
  <2>. QED BY <1>1, <2>1 DEF Push, Notified
<1>2. ASSUME NEW s \in Settings \cup {Off}, Apply(s), worker \in {"none", "ended"}
      PROVE  Places'
  <2>1. block' = <<>> /\ frame' = <<>> /\ queue' = <<>> /\ pending' = <<>>
    BY <1>2 DEF Apply, Rebuild
  <2>2. worker' \in {"looking", "none"}
    BY <1>2, Zenon DEF Apply, Rebuild
  <2>. QED BY <1>z, <2>1, <2>2
<1>3. ASSUME NEW s \in Settings \cup {Off}, NEW what \in {"configuring", "stopping"},
             AskToStop(what, s)
      PROVE  Places'
  BY <1>3 DEF AskToStop, Notified
<1>4. ASSUME Clear, worker \in {"none", "ended"} PROVE Places'
  BY <1>4, <1>z DEF Clear
<1>5. CASE Leave
  BY <1>5 DEF Leave, members
<1>6. CASE Sleep
  BY <1>6 DEF Sleep, members
<1>7. CASE Take
  <2>1. Len(Tail(queue)) = Len(queue) - 1 /\ Len(queue) \in Nat
    BY <1>7, HeadTailProperties DEF Take, Sound
  <2>. QED BY <1>7, <2>1 DEF Take
<1>8. CASE BeginSend
  BY <1>8, <1>f DEF BeginSend
<1>9. CASE SendPcm
  BY <1>9 DEF SendPcm, members
<1>10. CASE PcmFails
  BY <1>10, <1>f DEF PcmFails
<1>11. CASE PcmEnds
  BY <1>11 DEF PcmEnds
<1>12. CASE OpusBuffers
  BY <1>12 DEF OpusBuffers
<1>13. CASE TakeFrame
  <2>1. CASE Len(pending) < OpusUnits
    BY <1>13, <2>1 DEF TakeFrame
  <2>2. CASE ~(Len(pending) < OpusUnits)
    <3>1. OpusUnits <= Len(pending)
      BY <2>2, <1>e DEF Sound
    <3>2. Len(SubSeq(pending, 1, OpusUnits)) = OpusUnits
      BY <3>1, Cut DEF Sound
    <3>3. SubSeq(pending, 1, OpusUnits) # <<>>
      <4>1. SubSeq(pending, 1, OpusUnits) \in Seq(Made)
        BY <3>1, Cut DEF Sound
      <4>2. OpusUnits # 0
        OBVIOUS
      <4>. QED BY <1>z, <3>2, <4>1, <4>2, Zenon
    <3>. QED BY <1>13, <2>2, <3>3 DEF TakeFrame
  <2>. QED BY <2>1, <2>2
<1>14. CASE SendFrame
  BY <1>14 DEF SendFrame, members
<1>15. CASE FrameFails
  BY <1>15, <1>f DEF FrameFails
<1>16. CASE UNCHANGED vars
  BY <1>16 DEF vars, members
<1>17. ASSUME NEW s \in Settings, Configure(s) PROVE Places'
  BY <1>17, <1>2, <1>3 DEF Configure
<1>18. CASE FinishConfigure
  BY <1>18, <1>2 DEF FinishConfigure, Scalars
<1>19. CASE Stop \/ FinishStop
  BY <1>19, <1>3, <1>4 DEF Stop, FinishStop
<1>. QED
  BY <1>1, <1>5, <1>6, <1>7, <1>8, <1>9, <1>10, <1>11, <1>12, <1>13, <1>14,
     <1>15, <1>16, <1>17, <1>18, <1>19
  DEF Next, WorkerStep

\* What comes into the queue of a worker that has left came after the request.
LEMMA LateNext ==
    ASSUME Scalars, Sound, Places, Late, [Next]_vars
    PROVE  Late'
<1>. USE Sizes DEF Late, sender, outside, controls
<1>e. \A S : <<>> \in Seq(S)
  BY EmptySeq
<1>r. room \in Nat /\ made \in Nat /\ asked \in Nat
  BY DEF Scalars
<1>1. CASE Push
  <2>1. made + BlockUnits \in Nat /\ made <= made + BlockUnits
        /\ asked <= asked /\ asked <= made + BlockUnits
    BY <1>r
  <2>2. /\ room' = room /\ asked' = asked /\ made' = made + BlockUnits
        /\ stopRequested' = stopRequested /\ control' = control
        /\ (worker' = "ended") = (worker = "ended")
    BY <1>1 DEF Push, Notified
  <2>3. ASSUME worker = "ended"
        PROVE  queue' \in Seq(Seq(UnitsOf(room, asked, made + BlockUnits)))
    <3>1. Seq(Seq(UnitsOf(room, asked, made)))
             \subseteq Seq(Seq(UnitsOf(room, asked, made + BlockUnits)))
      BY <1>r, <2>1, MoreUnits, Zenon
    <3>2. Pushed \in Seq(UnitsOf(room, asked, made + BlockUnits))
      <4>1. \A u \in 1..BlockUnits : made + u \in (asked + 1)..(made + BlockUnits)
        BY <1>r
      <4>2. \A u \in 1..BlockUnits :
               [room |-> room, n |-> made + u] \in UnitsOf(room, asked, made + BlockUnits)
        BY <4>1 DEF UnitsOf
      <4>. QED BY <4>2, PushedIn, Zenon
    <3>3. (IF Full THEN Tail(queue) ELSE queue) \in Seq(Seq(UnitsOf(room, asked, made)))
      <4>1. Full => queue # <<>>
        BY EmptySeq DEF Full
      <4>2. CASE Full
        BY <2>3, <4>1, <4>2, HeadTailProperties
      <4>. QED BY <2>3, <4>2
    <3>. DEFINE rest == IF Full THEN Tail(queue) ELSE queue
    <3>4. queue' = Append(rest, Pushed)
      BY <1>1 DEF Push
    <3>5. rest \in Seq(Seq(UnitsOf(room, asked, made + BlockUnits)))
      BY <3>1, <3>3
    <3>. HIDE DEF rest
    <3>. QED BY <3>2, <3>4, <3>5
  <2>. QED BY <2>1, <2>2, <2>3
<1>2. ASSUME NEW s \in Settings \cup {Off}, Apply(s) PROVE Late'
  <2>1. worker' \in {"looking", "none"} /\ stopRequested' = FALSE
        /\ asked' = 0 /\ made' = 0
    BY <1>2, Zenon DEF Apply, Rebuild
  <2>. QED BY <2>1
<1>3. ASSUME NEW s \in Settings \cup {Off}, NEW what \in {"configuring", "stopping"},
             AskToStop(what, s), control = "idle"
      PROVE  Late'
  BY <1>3, <1>r DEF AskToStop, Notified
<1>4. CASE Clear
  BY <1>4 DEF Clear
<1>5. CASE Leave
  BY <1>5, <1>e DEF Leave, members, MayLeave
<1>6. CASE Sleep
  BY <1>6 DEF Sleep, members
<1>7. CASE Take
  BY <1>7 DEF Take
<1>8. CASE BeginSend
  BY <1>8 DEF BeginSend
<1>9. CASE SendPcm
  BY <1>9 DEF SendPcm, members
<1>10. CASE PcmFails
  BY <1>10 DEF PcmFails
<1>11. CASE PcmEnds
  BY <1>11 DEF PcmEnds
<1>12. CASE OpusBuffers
  BY <1>12 DEF OpusBuffers
<1>13. CASE TakeFrame
  BY <1>13 DEF TakeFrame
<1>14. CASE SendFrame
  BY <1>14 DEF SendFrame, members
<1>15. CASE FrameFails
  BY <1>15 DEF FrameFails
<1>16. CASE UNCHANGED vars
  BY <1>16 DEF vars, members
<1>17. ASSUME NEW s \in Settings, Configure(s) PROVE Late'
  BY <1>17, <1>2, <1>3 DEF Configure
<1>18. CASE FinishConfigure
  BY <1>18, <1>2 DEF FinishConfigure, Scalars
<1>19. CASE Stop \/ FinishStop
  BY <1>19, <1>3, <1>4 DEF Stop, FinishStop
<1>. QED
  BY <1>1, <1>5, <1>6, <1>7, <1>8, <1>9, <1>10, <1>11, <1>12, <1>13, <1>14,
     <1>15, <1>16, <1>17, <1>18, <1>19
  DEF Next, WorkerStep

\* Packets are numbered upwards, and the next number is above all of them.
LEMMA NumberedNext ==
    ASSUME Scalars, Sound, Places, Numbered, [Next]_vars
    PROVE  Numbered'
<1>. USE Sizes DEF Numbered, Upcoming, sender, outside, controls
<1>r. /\ sequence \in Nat /\ number \in Nat /\ sendFailures \in Nat
      /\ relayed \in Seq(PacketsOf(room, Made))
      /\ Len(relayed) \in Nat
  BY DEF Scalars, Sound
<1>n. \A i \in 1..Len(relayed) : relayed[i].number \in Nat
  <2>1. \A i \in 1..Len(relayed) : relayed[i] \in PacketsOf(room, Made)
    BY <1>r
  <2>2. \A p \in PacketsOf(room, Made) : p.number \in Nat
    BY DEF PacketsOf
  <2>. QED BY <2>1, <2>2, Zenon
<1>1. CASE Push
  BY <1>1 DEF Push, Notified
<1>2. ASSUME NEW s \in Settings \cup {Off}, Apply(s) PROVE Numbered'
  <2>1. /\ worker' \in {"looking", "none"} /\ sequence' = 0 /\ relayed' = <<>>
    BY <1>2, Zenon DEF Apply, Rebuild
  <2>. QED BY <2>1
<1>3. ASSUME NEW s \in Settings \cup {Off}, NEW what \in {"configuring", "stopping"},
             AskToStop(what, s)
      PROVE  Numbered'
  BY <1>3 DEF AskToStop, Notified
<1>4. ASSUME Clear, worker \in {"none", "ended"} PROVE Numbered'
  BY <1>4 DEF Clear
<1>5. CASE Leave
  BY <1>5 DEF Leave, members
<1>6. CASE Sleep
  BY <1>6 DEF Sleep, members
<1>7. CASE Take
  BY <1>7 DEF Take
<1>8. CASE BeginSend
  BY <1>8, <1>r DEF BeginSend
\* One packet more, with the upcoming number, and the next number is its successor.
<1>p. ASSUME NEW p, p.number = Upcoming, relayed' = Append(relayed, p),
             Upcoming' = Upcoming + 1, sendFailures' = sendFailures,
             worker' # "encoded"
      PROVE  Numbered'
  <2>. HIDE DEF Upcoming
  <2>1. Upcoming \in Nat
    BY <1>r DEF Upcoming
  <2>2. /\ Len(relayed') = Len(relayed) + 1
        /\ \A i \in 1..Len(relayed) : relayed'[i] = relayed[i]
        /\ relayed'[Len(relayed) + 1] = p
    BY <1>p, <1>r
  <2>3. \A i \in 1..Len(relayed') : i \in 1..Len(relayed) \/ i = Len(relayed) + 1
    BY <1>r, <2>2
  <2>4. \A i \in 1..Len(relayed) : relayed[i].number < Upcoming
    OBVIOUS
  <2>5. \A i \in 1..Len(relayed') : relayed'[i].number < Upcoming'
    BY <1>n, <1>p, <2>1, <2>2, <2>3, <2>4
  <2>6. \A i, j \in 1..Len(relayed') :
           i < j => relayed'[i].number < relayed'[j].number
    BY <1>r, <1>n, <1>p, <2>1, <2>2, <2>3, <2>4
  <2>7. sendFailures' = 0 =>
           /\ Len(relayed') = Upcoming'
           /\ \A i \in 1..Len(relayed') : relayed'[i].number = i - 1
    BY <1>r, <1>n, <1>p, <2>1, <2>2, <2>3
  <2>. QED BY <1>p, <2>5, <2>6, <2>7
<1>9. CASE SendPcm
  <2>1. Packet(Chunk).number = number
    BY DEF Packet
  <2>. QED BY <1>9, <1>p, <2>1 DEF SendPcm, members
\* A number more is used up, by a packet that failed.
<1>f. ASSUME Upcoming' = Upcoming + 1, relayed' = relayed,
             sendFailures' = sendFailures + 1, worker' # "encoded"
      PROVE  Numbered'
  <2>1. Upcoming \in Nat /\ sendFailures' # 0
    BY <1>f, <1>r DEF Upcoming
  <2>. HIDE DEF Upcoming
  <2>2. \A i \in 1..Len(relayed) : relayed[i].number < Upcoming + 1
    BY <1>n, <2>1
  <2>. QED BY <1>f, <2>1, <2>2
<1>10. CASE PcmFails
  BY <1>10, <1>f DEF PcmFails
<1>11. CASE PcmEnds
  BY <1>11 DEF PcmEnds, SequenceAfter
<1>12. CASE OpusBuffers
  BY <1>12 DEF OpusBuffers
<1>13. CASE TakeFrame
  BY <1>13 DEF TakeFrame
<1>14. CASE SendFrame
  <2>1. Packet(frame).number = number
    BY DEF Packet
  <2>. QED BY <1>14, <1>p, <2>1 DEF SendFrame, members
<1>15. CASE FrameFails
  BY <1>15, <1>f DEF FrameFails
<1>16. CASE UNCHANGED vars
  BY <1>16 DEF vars, members
<1>17. ASSUME NEW s \in Settings, Configure(s) PROVE Numbered'
  BY <1>17, <1>2, <1>3 DEF Configure
<1>18. CASE FinishConfigure
  BY <1>18, <1>2 DEF FinishConfigure, Scalars
<1>19. CASE Stop \/ FinishStop
  BY <1>19, <1>3, <1>4 DEF Stop, FinishStop
<1>. QED
  BY <1>1, <1>5, <1>6, <1>7, <1>8, <1>9, <1>10, <1>11, <1>12, <1>13, <1>14,
     <1>15, <1>16, <1>17, <1>18, <1>19
  DEF Next, WorkerStep

\* The invariant, for every instance of the sender.
THEOREM SenderInvariance == Spec => []SenderInv
<1>1. SenderInv /\ [Next]_vars => SenderInv'
  BY ScalarsNext, SoundNext, PlacesNext, LateNext, NumberedNext DEF SenderInv
<1>. QED BY InitInv, <1>1, PTL DEF Spec
-----------------------------------------------------------------------------
(***************************************************************************)
(* What follows                                                            *)
(***************************************************************************)

\* The queue keeps to its limit, and frame and block are where they belong, for
\* every size of blocks, packets, frames and queue (TypeOK).
THEOREM TypeCorrect == Spec => []TypeOK
<1>1. SenderInv => TypeOK
  <2>. SUFFICES ASSUME SenderInv PROVE TypeOK
    OBVIOUS
  <2>r. room \in Nat
    BY DEF SenderInv, Scalars
  <2>1. Made \subseteq Unit
    <3>1. (0 + 1)..made \subseteq Nat
      BY DEF SenderInv, Scalars
    <3>. QED BY <2>r, <3>1 DEF Made, UnitsOf, Unit
  <2>2. Seq(Made) \subseteq Seq(Unit)
    BY <2>1, SeqMonotonic, Zenon
  <2>3. Seq(Seq(Made)) \subseteq Seq(Seq(Unit))
    BY <2>2, SeqMonotonic, Zenon
  <2>4. PacketsOf(room, Made) \subseteq [number : Nat, room : Nat, units : Seq(Unit)]
    BY <2>r, <2>2 DEF PacketsOf
  <2>5. Seq(PacketsOf(room, Made))
           \subseteq Seq([number : Nat, room : Nat, units : Seq(Unit)])
    BY <2>4, SeqMonotonic, Zenon
  <2>. QED BY <2>2, <2>3, <2>5 DEF SenderInv, Scalars, Sound, Places, TypeOK
<1>. QED BY <1>1, SenderInvariance, PTL

\* No listener of a room hears the sound of another one, however pushes,
\* configure() and the worker interleave (RoomsApart).
THEOREM RoomsStayApart == Spec => []RoomsApart
<1>1. SenderInv => RoomsApart
  <2>. SUFFICES ASSUME SenderInv PROVE RoomsApart
    OBVIOUS
  <2>1. \A s \in Seq(Made) : OfRoom(s, room)
    <3>1. \A u \in Made : u.room = room
      BY DEF Made, UnitsOf
    <3>2. \A s \in Seq(Made) : \A i \in DOMAIN s : s[i] \in Made
      OBVIOUS
    <3>. QED BY <3>1, <3>2, Zenon DEF OfRoom
  <2>2. \A i \in DOMAIN relayed : relayed[i] \in PacketsOf(room, Made)
    BY DEF SenderInv, Sound
  <2>3. \A p \in PacketsOf(room, Made) : p.room = room /\ p.units \in Seq(Made)
    BY DEF PacketsOf
  <2>4. handedOver \in Seq(Made)
    BY DEF SenderInv, Sound
  <2>5. \A i \in DOMAIN relayed : OfRoom(relayed[i].units, relayed[i].room)
    <3>. SUFFICES ASSUME NEW i \in DOMAIN relayed
                  PROVE  OfRoom(relayed[i].units, relayed[i].room)
      OBVIOUS
    <3>1. relayed[i].room = room /\ relayed[i].units \in Seq(Made)
      BY <2>2, <2>3
    <3>2. OfRoom(relayed[i].units, room)
      BY <2>1, <3>1, Zenon
    <3>. QED BY <3>1, <3>2, Zenon
  <2>. QED BY <2>1, <2>4, <2>5, Zenon DEF RoomsApart
<1>. QED BY <1>1, SenderInvariance, PTL

\* A hole in the packet numbers means a failed send, over both encodings and the
\* change from one to the other (NumbersTellLosses).
THEOREM HolesAreLosses == Spec => []NumbersTellLosses
<1>1. SenderInv => NumbersTellLosses
  <2>. SUFFICES ASSUME SenderInv PROVE NumbersTellLosses
    OBVIOUS
  <2>1. DOMAIN relayed = 1..Len(relayed)
    BY DEF SenderInv, Sound
  <2>. QED BY <2>1, Zenon DEF SenderInv, Numbered, NumbersTellLosses
<1>. QED BY <1>1, SenderInvariance, PTL

\* What stop() and configure() throw away came after they were called
\* (StopLosesLatecomersOnly).
THEOREM OnlyLatecomersAreLost == Spec => StopLosesLatecomersOnly
<1>. DEFINE Loss ==
        control # "idle" /\ control' = "idle" =>
           /\ \A b \in DOMAIN queue : \A u \in DOMAIN queue[b] :
                 queue[b][u].n > asked
           /\ block = <<>> /\ frame = <<>>
           /\ sendFailures = 0 => Len(pending) < OpusUnits
<1>1. SenderInv /\ [Next]_vars => [Loss]_vars
  <2>. SUFFICES ASSUME SenderInv, Next, control # "idle", control' = "idle"
                PROVE  Loss
    BY DEF vars, controls
  <2>1. FinishConfigure \/ FinishStop
    BY DEF Next, WorkerStep, Push, Configure, Stop, Leave, Sleep, Take, BeginSend,
           SendPcm, PcmFails, PcmEnds, OpusBuffers, TakeFrame, SendFrame,
           FrameFails, controls
  <2>2. worker = "ended"
    BY <2>1, Zenon DEF FinishConfigure, FinishStop
  <2>3. block = <<>> /\ frame = <<>> /\ (sendFailures = 0 => Len(pending) < OpusUnits)
    BY <2>2 DEF SenderInv, Places
  <2>4. queue \in Seq(Seq(UnitsOf(room, asked, made)))
    BY <2>2, Zenon DEF SenderInv, Late
  <2>5. \A v \in UnitsOf(room, asked, made) : v.n > asked
    BY DEF UnitsOf, SenderInv, Scalars
  <2>6. \A s \in Seq(UnitsOf(room, asked, made)) :
           \A u \in DOMAIN s : s[u] \in UnitsOf(room, asked, made)
    OBVIOUS
  <2>7. \A b \in DOMAIN queue : queue[b] \in Seq(UnitsOf(room, asked, made))
    BY <2>4
  <2>. QED BY <2>3, <2>5, <2>6, <2>7, Zenon
<1>. QED BY <1>1, SenderInvariance, PTL DEF Spec, StopLosesLatecomersOnly
-----------------------------------------------------------------------------
(***************************************************************************)
(* Sequences of sequences: FlattenSeq by smallest counterexamples          *)
(***************************************************************************)

\* The smallest number with a property.
LEMMA SmallestNat ==
    ASSUME NEW Bad \in SUBSET Nat, Bad # {}
    PROVE  \E n \in Bad : n = 0 \/ (n - 1 \in Nat /\ n - 1 \notin Bad)
<1>. DEFINE R == OpToRel(<, Nat)
<1>1. R = {p \in Nat \X Nat : p[1] < p[2]}
  BY Zenon DEF OpToRel
<1>2. IsWellFoundedOn(R, Nat)
  BY NatLessThanWellFounded, Zenon
<1>. HIDE DEF R
<1>3. PICK n \in Bad : \A m \in Bad : ~(<<m, n>> \in R)
  BY <1>2, WFMin
<1>4. \A m \in Bad : ~(m < n)
  <2>1. ASSUME NEW m \in Bad, m < n PROVE <<m, n>> \in R
    <3>1. <<m, n>> \in Nat \X Nat /\ <<m, n>>[1] < <<m, n>>[2]
      BY <2>1
    <3>. QED BY <1>1, <3>1, Zenon
  <2>. QED BY <1>3, <2>1
<1>. QED BY <1>4

\* The function FlattenSeq is defined by: f[i] is the first i sequences of s in
\* a row.  Joined keeps the provers from looking into concatenations.
Joined(a, b) == a \o b

IsFlat(f, s, len) ==
    f = [i \in 1..len |-> IF i = 1 THEN s[i] ELSE Joined(f[i - 1], s[i])]

FlatOf(s, len) == CHOOSE f : IsFlat(f, s, len)

\* A row that is not empty is the function's last value.
LEMMA FlatUnfold ==
    ASSUME NEW s, Len(s) # 0
    PROVE  FlattenSeq(s) = FlatOf(s, Len(s))[Len(s)]
BY DEF FlattenSeq, FlatOf, IsFlat, Joined

\* Each value adds a sequence to the one before.
LEMMA FlatAt ==
    ASSUME NEW f, NEW s, NEW n, IsFlat(f, s, n), NEW i \in 1..n
    PROVE  /\ i = 1 => f[i] = s[i]
           /\ i # 1 => f[i] = Joined(f[i - 1], s[i])
BY DEF IsFlat

\* What is in a row depends on nothing behind it.
LEMMA FlatAgree ==
    ASSUME NEW f, NEW g, NEW s, NEW t, NEW m \in Nat, NEW n \in Nat,
           IsFlat(f, s, m), IsFlat(g, t, n), m <= n,
           \A i \in 1..m : s[i] = t[i]
    PROVE  \A i \in 1..m : f[i] = g[i]
<1>. DEFINE Bad == {i \in 1..m : f[i] # g[i]}
<1>1. SUFFICES ASSUME Bad # {} PROVE FALSE
  OBVIOUS
<1>2. PICK i \in Bad : i = 0 \/ (i - 1 \in Nat /\ i - 1 \notin Bad)
  <2>1. Bad \in SUBSET Nat
    OBVIOUS
  <2>. HIDE DEF Bad
  <2>. QED BY <1>1, <2>1, SmallestNat
<1>3. i \in 1..m /\ i \in 1..n /\ f[i] # g[i]
  BY <1>2
<1>4. /\ f[i] = IF i = 1 THEN s[i] ELSE Joined(f[i - 1], s[i])
      /\ g[i] = IF i = 1 THEN t[i] ELSE Joined(g[i - 1], t[i])
  BY <1>3 DEF IsFlat
<1>5. i # 1 => f[i - 1] = g[i - 1]
  <2>1. i # 1 => i - 1 \in 1..m
    BY <1>3
  <2>. QED BY <1>2, <1>3, <2>1
<1>. QED BY <1>3, <1>4, <1>5

\* There is such a function, however long the sequence.
LEMMA FlatExists ==
    ASSUME NEW s, NEW len \in Nat
    PROVE  IsFlat(FlatOf(s, len), s, len)
<1>. DEFINE Bad == {n \in Nat : ~ \E f : IsFlat(f, s, n)}
<1>1. SUFFICES ASSUME Bad # {} PROVE FALSE
  BY DEF FlatOf
<1>2. PICK n \in Bad : n = 0 \/ (n - 1 \in Nat /\ n - 1 \notin Bad)
  <2>1. Bad \in SUBSET Nat
    OBVIOUS
  <2>. HIDE DEF Bad
  <2>. QED BY <1>1, <2>1, SmallestNat
<1>3. CASE n = 0
  <2>1. IsFlat([i \in 1..0 |-> <<>>], s, 0)
    BY DEF IsFlat
  <2>. QED BY <1>2, <1>3, <2>1
<1>4. CASE n # 0
  <2>1. PICK f : IsFlat(f, s, n - 1)
    BY <1>2, <1>4
  <2>. DEFINE g == [i \in 1..n |-> IF i = 1 THEN s[i] ELSE Joined(f[i - 1], s[i])]
  <2>2. \A i \in 1..(n - 1) : g[i] = f[i]
    <3>1. \A i \in 1..(n - 1) : i \in 1..n
      BY <1>2
    <3>2. \A i \in 1..(n - 1) : f[i] = IF i = 1 THEN s[i] ELSE Joined(f[i - 1], s[i])
      BY <2>1 DEF IsFlat
    <3>. QED BY <3>1, <3>2
  <2>3. g = [i \in 1..n |-> IF i = 1 THEN s[i] ELSE Joined(g[i - 1], s[i])]
    <3>1. \A i \in 1..n : i # 1 => g[i - 1] = f[i - 1]
      <4>1. \A i \in 1..n : i # 1 => i - 1 \in 1..(n - 1)
        BY <1>2
      <4>. HIDE DEF g
      <4>. QED BY <2>2, <4>1
    <3>2. g = [i \in 1..n |-> IF i = 1 THEN s[i] ELSE Joined(f[i - 1], s[i])]
      OBVIOUS
    <3>. HIDE DEF g
    <3>. QED BY <3>1, <3>2
  <2>4. IsFlat(g, s, n)
    <3>. HIDE DEF g
    <3>. QED BY <2>3 DEF IsFlat
  <2>. QED BY <1>2, <2>4
<1>. QED BY <1>3, <1>4

\* One sequence more.
LEMMA FlatAppend ==
    ASSUME NEW S, NEW s \in Seq(Seq(S)), NEW x \in Seq(S)
    PROVE  FlattenSeq(Append(s, x)) = FlattenSeq(s) \o x
<1>. DEFINE t == Append(s, x)  len == Len(s)  last == Len(t)
            f == FlatOf(s, len)  g == FlatOf(t, last)
<1>1. /\ len \in Nat /\ last = len + 1
      /\ \A i \in 1..len : t[i] = s[i]
      /\ t[last] = x
  BY AppendProperties, LenProperties
<1>2. last \in Nat /\ last # 0 /\ last \in 1..last /\ last - 1 = len /\ len <= last
  <2>. HIDE DEF len, last
  <2>. QED BY <1>1
<1>3. IsFlat(f, s, len) /\ IsFlat(g, t, last)
  BY <1>1, <1>2, FlatExists, Zenon
<1>4. FlattenSeq(t) = g[last]
  BY <1>2, FlatUnfold, Zenon
<1>. HIDE DEF t, len, last, f, g
<1>5. (last = 1 => g[last] = t[last]) /\ (last # 1 => g[last] = Joined(g[last - 1], t[last]))
  BY <1>2, <1>3, FlatAt
<1>6. CASE len = 0
  <2>1. s = <<>>
    BY <1>6, EmptySeq DEF len
  <2>2. FlattenSeq(s) = <<>>
    BY <2>1, EmptySeq DEF FlattenSeq
  <2>3. <<>> \o x = x
    BY ConcatEmptySeq
  <2>4. last = 1
    BY <1>1, <1>6
  <2>. QED BY <1>1, <1>4, <1>5, <2>2, <2>3, <2>4 DEF t
<1>7. CASE len # 0
  <2>1. FlattenSeq(s) = f[len]
    BY <1>7, FlatUnfold, Zenon DEF len, f
  <2>2. f[len] = g[len]
    <3>1. len \in 1..len
      BY <1>1, <1>7
    <3>2. \A i \in 1..len : f[i] = g[i]
      BY <1>1, <1>2, <1>3, FlatAgree
    <3>. QED BY <3>1, <3>2
  <2>3. last # 1
    BY <1>1, <1>7
  <2>4. FlattenSeq(t) = Joined(FlattenSeq(s), x)
    BY <1>1, <1>2, <1>4, <1>5, <2>1, <2>2, <2>3, Zenon
  <2>. QED BY <2>4, Zenon DEF t, Joined
<1>. QED BY <1>6, <1>7

\* The elements of all sequences are elements of the row.
LEMMA FlatType ==
    ASSUME NEW S, NEW s \in Seq(Seq(S))
    PROVE  FlattenSeq(s) \in Seq(S)
<1>. DEFINE Bad == {n \in Nat : \E t \in Seq(Seq(S)) : Len(t) = n /\ FlattenSeq(t) \notin Seq(S)}
<1>1. SUFFICES ASSUME Bad # {} PROVE FALSE
  BY LenProperties
<1>2. PICK n \in Bad : n = 0 \/ (n - 1 \in Nat /\ n - 1 \notin Bad)
  <2>1. Bad \in SUBSET Nat
    OBVIOUS
  <2>. HIDE DEF Bad
  <2>. QED BY <1>1, <2>1, SmallestNat
<1>3. PICK t \in Seq(Seq(S)) : Len(t) = n /\ FlattenSeq(t) \notin Seq(S)
  BY <1>2
<1>4. t # <<>>
  BY <1>3, EmptySeq DEF FlattenSeq
<1>5. PICK r \in Seq(Seq(S)), x \in Seq(S) : t = Append(r, x)
  BY <1>4, SequenceEmptyOrAppend
<1>6. Len(t) = Len(r) + 1 /\ Len(r) \in Nat
  BY <1>5, AppendProperties, LenProperties
<1>7. FlattenSeq(r) \in Seq(S)
  <2>1. Len(r) = n - 1 /\ n # 0
    BY <1>3, <1>6
  <2>. QED BY <1>2, <2>1
<1>8. FlattenSeq(t) = FlattenSeq(r) \o x
  BY <1>5, FlatAppend
<1>. QED BY <1>3, <1>7, <1>8, ConcatProperties

\* Concatenation is associative.
Regroups(a, b, c) == (a \o b) \o c = a \o (b \o c)
LEMMA Regrouped ==
    ASSUME NEW S, NEW a \in Seq(S), NEW b \in Seq(S), NEW c \in Seq(S)
    PROVE  Regroups(a, b, c)
BY ConcatAssociative, SMTT(60) DEF Regroups

\* One sequence less.
LEMMA FlatTail ==
    ASSUME NEW S, NEW s \in Seq(Seq(S)), s # <<>>
    PROVE  FlattenSeq(s) = Head(s) \o FlattenSeq(Tail(s))
<1>. DEFINE Wrong(t) == FlattenSeq(t) # Head(t) \o FlattenSeq(Tail(t))
            Bad == {n \in Nat : \E t \in Seq(Seq(S)) : t # <<>> /\ Len(t) = n /\ Wrong(t)}
<1>1. SUFFICES ASSUME Bad # {} PROVE FALSE
  BY LenProperties
<1>2. PICK n \in Bad : n = 0 \/ (n - 1 \in Nat /\ n - 1 \notin Bad)
  <2>1. Bad \in SUBSET Nat
    OBVIOUS
  <2>. HIDE DEF Bad
  <2>. QED BY <1>1, <2>1, SmallestNat
<1>3. PICK t \in Seq(Seq(S)) : t # <<>> /\ Len(t) = n /\ Wrong(t)
  BY <1>2
<1>5. PICK r \in Seq(Seq(S)), x \in Seq(S) : t = Append(r, x)
  BY <1>3, SequenceEmptyOrAppend
<1>6. Len(t) = Len(r) + 1 /\ Len(r) \in Nat
  BY <1>5, AppendProperties, LenProperties
<1>7. FlattenSeq(t) = FlattenSeq(r) \o x
  BY <1>5, FlatAppend
<1>8. CASE r = <<>>
  <2>1. Head(t) = x /\ Tail(t) = <<>>
    BY <1>5, <1>8, HeadTailAppend
  <2>2. FlattenSeq(<<>>) = <<>>
    BY EmptySeq DEF FlattenSeq
  <2>3. x \o <<>> = x /\ <<>> \o x = x
    BY ConcatEmptySeq
  <2>. QED BY <1>3, <1>7, <1>8, <2>1, <2>2, <2>3
<1>9. CASE r # <<>>
  <2>1. Head(t) = Head(r) /\ Tail(t) = Append(Tail(r), x)
    BY <1>5, <1>9, HeadTailAppend
  <2>2. Head(r) \in Seq(S) /\ Tail(r) \in Seq(Seq(S))
    BY <1>9, HeadTailProperties
  <2>3. FlattenSeq(r) = Head(r) \o FlattenSeq(Tail(r))
    <3>1. Len(r) = n - 1 /\ n # 0
      BY <1>3, <1>6
    <3>. QED BY <1>2, <1>9, <3>1
  <2>4. FlattenSeq(Tail(t)) = FlattenSeq(Tail(r)) \o x
    BY <2>1, <2>2, FlatAppend
  <2>5. (Head(r) \o FlattenSeq(Tail(r))) \o x = Head(r) \o (FlattenSeq(Tail(r)) \o x)
    <3>1. FlattenSeq(Tail(r)) \in Seq(S)
      BY <2>2, FlatType
    <3>2. Regroups(Head(r), FlattenSeq(Tail(r)), x)
      BY <2>2, <3>1, Regrouped, Zenon
    <3>. QED BY <3>2, Zenon DEF Regroups
  <2>. QED BY <1>3, <1>7, <2>1, <2>3, <2>4, <2>5
<1>. QED BY <1>8, <1>9

\* A function on 1..n is a sequence.
LEMMA FunctionIsSeq ==
    ASSUME NEW S, NEW n \in Nat, NEW f \in [1..n -> S]
    PROVE  f \in Seq(S)
BY SeqDef, Zenon

\* A sequence is its beginning and its rest.
LEMMA Whole ==
    ASSUME NEW S, NEW s \in Seq(S), NEW k \in Nat, k <= Len(s)
    PROVE  SubSeq(s, 1, k) \o SubSeq(s, k + 1, Len(s)) = s
<1>1. Len(s) \in Nat
  BY LenProperties
<1>2. 1 \in 1..(Len(s) + 1) /\ k \in (1 - 1)..Len(s) /\ Len(s) \in k..Len(s)
  BY <1>1
<1>3. SubSeq(s, 1, k) \o SubSeq(s, k + 1, Len(s)) = SubSeq(s, 1, Len(s))
  BY <1>2, ConcatAdjacentSubSeq
<1>. QED BY <1>3, SubSeqFull

\* What was made in the room is sound.
LEMMA MadeUnits ==
    ASSUME Scalars
    PROVE  Made \subseteq Unit /\ Seq(Made) \subseteq Seq(Unit)
<1>1. room \in Nat /\ (0 + 1)..made \subseteq Nat
  BY DEF Scalars
<1>2. Made \subseteq Unit
  BY <1>1 DEF Made, UnitsOf, Unit
<1>. QED BY <1>2, SeqMonotonic, Zenon
-----------------------------------------------------------------------------
(***************************************************************************)
(* Everything arrives                                                      *)
(***************************************************************************)

\* What is on its way, by the relay and by the WebRTC sender.
Row == Heard \o frame \o pending \o block \o Waiting
Direct == handedOver \o (IF worker = "begin" THEN block ELSE <<>>) \o Waiting

\* CountersTellLosses, with what makes it inductive: the WebRTC sender is
\* configured only in a room that uses it, and only an encoder leaves a rest, so
\* that a block sent as PCM does not overtake one.
Carried ==
    /\ native => ToNative(settings)
    /\ encoder => settings.opus
    /\ pending # <<>> => encoder
    /\ worker = "pcm" => ~encoder
    /\ configured /\ packetsDropped = 0 =>
          /\ ToRelay(settings) /\ sendFailures = 0 => Row = AllMade
          /\ native => Direct = AllMade

\* How sound moves from one place to the next one in the row, at each step of the
\* worker.
TakeMoves(h, x, w) == (h \o <<>>) \o (x \o w) = (h \o x) \o w
PcmMoves(h, x, b, w) ==
    h \o <<>> \o <<>> \o (x \o b) \o w = (h \o x) \o <<>> \o <<>> \o b \o w
OpusMoves(h, p, b, w) ==
    h \o <<>> \o p \o b \o w = h \o <<>> \o (p \o b) \o <<>> \o w
FrameMoves(h, f, p, b, w) ==
    h \o <<>> \o (f \o p) \o b \o w = h \o f \o p \o b \o w
SendMoves(h, f, p, b, w) ==
    (h \o f) \o <<>> \o p \o b \o w = h \o f \o p \o b \o w

\* The moves leave the row as it is.
LEMMA Moves ==
    ASSUME NEW S, NEW h \in Seq(S), NEW f \in Seq(S), NEW p \in Seq(S),
           NEW b \in Seq(S), NEW w \in Seq(S), NEW x \in Seq(S)
    PROVE  /\ TakeMoves(h, x, w) /\ PcmMoves(h, x, b, w) /\ OpusMoves(h, p, b, w)
           /\ FrameMoves(h, f, p, b, w) /\ SendMoves(h, f, p, b, w)
<1>1. \A s \in Seq(S) : s \o <<>> = s /\ <<>> \o s = s
  BY ConcatEmptySeq
<1>2. \A s, t \in Seq(S) : s \o t \in Seq(S)
  BY ConcatProperties
<1>3. h \o <<>> = h
  BY <1>1
<1>4. TakeMoves(h, x, w)
  <2>1. Regroups(h, x, w)
    BY Regrouped
  <2>. QED BY <1>3, <2>1, Zenon DEF Regroups, TakeMoves
<1>5. PcmMoves(h, x, b, w)
  <2>1. h \o x \in Seq(S)
    BY <1>2
  <2>2. (h \o x) \o <<>> = h \o x
    BY <1>1, <2>1
  <2>3. Regroups(h, x, b)
    BY Regrouped
  <2>. QED BY <1>3, <2>2, <2>3, Zenon DEF Regroups, PcmMoves
<1>6. OpusMoves(h, p, b, w)
  <2>1. h \o (p \o b) \in Seq(S)
    BY <1>2
  <2>2. (h \o (p \o b)) \o <<>> = h \o (p \o b)
    BY <1>1, <2>1
  <2>3. Regroups(h, p, b)
    BY Regrouped
  <2>. QED BY <1>3, <2>2, <2>3, Zenon DEF Regroups, OpusMoves
<1>7. FrameMoves(h, f, p, b, w)
  <2>1. Regroups(h, f, p)
    BY Regrouped
  <2>. QED BY <1>3, <2>1, Zenon DEF Regroups, FrameMoves
<1>8. SendMoves(h, f, p, b, w)
  <2>1. h \o f \in Seq(S)
    BY <1>2
  <2>2. (h \o f) \o <<>> = h \o f
    BY <1>1, <2>1
  <2>. QED BY <2>2, Zenon DEF SendMoves
<1>. QED BY <1>4, <1>5, <1>6, <1>7, <1>8

\* All sound, as a sequence of units.
LEMMA InHand ==
    ASSUME Scalars, Sound
    PROVE  /\ queue \in Seq(Seq(Made)) /\ Waiting \in Seq(Made)
           /\ frame \in Seq(Made) /\ pending \in Seq(Made) /\ block \in Seq(Made)
           /\ handedOver \in Seq(Made)
           /\ Heard \in Seq(Made)
           /\ [i \in DOMAIN relayed |-> relayed[i].units] \in Seq(Seq(Made))
<1>1. queue \in Seq(Seq(Made))
  BY DEF Sound
<1>2. Waiting \in Seq(Made)
  BY <1>1, FlatType DEF Waiting
<1>3. [i \in DOMAIN relayed |-> relayed[i].units] \in Seq(Seq(Made))
  <2>1. relayed \in Seq(PacketsOf(room, Made))
    BY DEF Sound
  <2>2. DOMAIN relayed = 1..Len(relayed) /\ Len(relayed) \in Nat
    BY <2>1, LenProperties
  <2>3. \A i \in 1..Len(relayed) : relayed[i].units \in Seq(Made)
    <3>1. \A i \in 1..Len(relayed) : relayed[i] \in PacketsOf(room, Made)
      BY <2>1, ElementOfSeq
    <3>2. \A p \in PacketsOf(room, Made) : p.units \in Seq(Made)
      BY DEF PacketsOf
    <3>. QED BY <3>1, <3>2, Zenon
  <2>. DEFINE units == [i \in DOMAIN relayed |-> relayed[i].units]
  <2>4. units \in [1..Len(relayed) -> Seq(Made)]
    BY <2>2, <2>3, Zenon
  <2>. HIDE DEF units
  <2>5. units \in Seq(Seq(Made))
    BY <2>2, <2>4, FunctionIsSeq, Zenon
  <2>. QED BY <2>5 DEF units
<1>4. Heard \in Seq(Made)
  BY <1>3, FlatType DEF Heard
<1>. QED BY <1>1, <1>2, <1>3, <1>4, Zenon DEF Sound

\* One packet more.
LEMMA HeardMore ==
    ASSUME Scalars, Sound, NEW p, p.units \in Seq(Made), relayed' = Append(relayed, p)
    PROVE  Heard' = Heard \o p.units
<1>. DEFINE units == [i \in DOMAIN relayed |-> relayed[i].units]
            more == [i \in DOMAIN relayed' |-> relayed'[i].units]
<1>1. units \in Seq(Seq(Made))
  BY InHand
<1>2. /\ DOMAIN relayed = 1..Len(relayed) /\ Len(relayed) \in Nat
      /\ DOMAIN relayed' = 1..(Len(relayed) + 1)
      /\ \A i \in 1..Len(relayed) : relayed'[i] = relayed[i]
      /\ relayed'[Len(relayed) + 1] = p
  <2>1. relayed \in Seq(PacketsOf(room, Made))
    BY DEF Sound
  <2>2. relayed \in Seq(PacketsOf(room, Made) \cup {p})
    BY <2>1, SeqMonotonic
  <2>3. /\ Append(relayed, p) \in Seq(PacketsOf(room, Made) \cup {p})
        /\ Len(Append(relayed, p)) = Len(relayed) + 1
        /\ \A i \in 1..Len(relayed) : Append(relayed, p)[i] = relayed[i]
        /\ Append(relayed, p)[Len(relayed) + 1] = p
    BY <2>2, AppendProperties
  <2>4. DOMAIN relayed = 1..Len(relayed) /\ Len(relayed) \in Nat
    BY <2>1, LenProperties
  <2>5. DOMAIN Append(relayed, p) = 1..(Len(relayed) + 1)
    BY <2>3, LenProperties
  <2>. QED BY <2>3, <2>4, <2>5, Zenon
<1>3. Len(units) = Len(relayed) /\ \A i \in 1..Len(relayed) : units[i] = relayed[i].units
  BY <1>1, <1>2, LenProperties
<1>4. more \in Seq(Seq(Made)) /\ Len(more) = Len(relayed) + 1
  <2>1. \A i \in 1..(Len(relayed) + 1) : relayed'[i].units \in Seq(Made)
    <3>1. \A i \in 1..Len(relayed) : units[i] \in Seq(Made)
      BY <1>1, <1>3, ElementOfSeq
    <3>2. \A i \in 1..(Len(relayed) + 1) : i \in 1..Len(relayed) \/ i = Len(relayed) + 1
      BY <1>2
    <3>. HIDE DEF units
    <3>. QED BY <1>2, <1>3, <3>1, <3>2, Zenon
  <2>2. more \in [1..(Len(relayed) + 1) -> Seq(Made)]
    BY <1>2, <2>1, Zenon
  <2>3. Len(relayed) + 1 \in Nat
    BY <1>2
  <2>4. more \in Seq(Seq(Made))
    <3>. HIDE DEF more
    <3>. QED BY <2>2, <2>3, FunctionIsSeq, Zenon
  <2>5. DOMAIN more = 1..(Len(relayed) + 1) /\ DOMAIN more = 1..Len(more)
    BY <2>2, <2>4, LenProperties, Zenon
  <2>. HIDE DEF more
  <2>. QED BY <2>3, <2>4, <2>5, LenProperties
<1>5. more = Append(units, p.units)
  <2>1. /\ Append(units, p.units) \in Seq(Seq(Made))
        /\ Len(Append(units, p.units)) = Len(units) + 1
        /\ \A i \in 1..Len(units) : Append(units, p.units)[i] = units[i]
        /\ Append(units, p.units)[Len(units) + 1] = p.units
    BY <1>1, AppendProperties
  <2>2. \A i \in 1..(Len(relayed) + 1) : more[i] = relayed'[i].units
    BY <1>2, Zenon
  <2>3. \A i \in 1..(Len(relayed) + 1) : i \in 1..Len(relayed) \/ i = Len(relayed) + 1
    BY <1>2
  <2>. HIDE DEF units, more
  <2>4. \A i \in 1..(Len(relayed) + 1) : more[i] = Append(units, p.units)[i]
    <3>1. ASSUME NEW i \in 1..Len(relayed)
          PROVE  more[i] = Append(units, p.units)[i]
      <4>1. i \in 1..(Len(relayed) + 1)
        BY <1>2
      <4>2. more[i] = relayed[i].units
        BY <1>2, <2>2, <4>1, Zenon
      <4>. QED BY <1>3, <2>1, <4>2, Zenon
    <3>2. more[Len(relayed) + 1] = Append(units, p.units)[Len(relayed) + 1]
      <4>1. Len(relayed) + 1 \in 1..(Len(relayed) + 1)
        BY <1>2
      <4>. QED BY <1>2, <1>3, <2>1, <2>2, <4>1, Zenon
    <3>. QED BY <2>3, <3>1, <3>2, Zenon
  <2>. QED BY <1>3, <1>4, <2>1, <2>4, SeqEqual
<1>6. FlattenSeq(more) = FlattenSeq(units) \o p.units
  <2>. HIDE DEF units, more
  <2>. QED BY <1>1, <1>5, FlatAppend, Zenon
<1>. QED BY <1>6, Zenon DEF Heard

\* A block more.
LEMMA MadeMore ==
    ASSUME Scalars, room' = room, made' = made + BlockUnits
    PROVE  /\ AllMade' = AllMade \o Pushed
           /\ AllMade \in Seq(Unit) /\ Pushed \in Seq(Unit)
<1>1. room \in Nat /\ made \in Nat
  BY DEF Scalars
<1>2. AllMade \in Seq(Unit) /\ Len(AllMade) = made
      /\ \A i \in 1..made : AllMade[i] = [room |-> room, n |-> i]
  <2>1. AllMade \in [1..made -> Unit]
    BY <1>1 DEF AllMade, Unit
  <2>2. AllMade \in Seq(Unit)
    BY <1>1, <2>1, SeqDef, Zenon
  <2>3. DOMAIN AllMade = 1..made
    BY DEF AllMade
  <2>4. Len(AllMade) = made
    BY <1>1, <2>2, <2>3, LenProperties
  <2>. QED BY <2>2, <2>4 DEF AllMade
<1>3. Pushed \in Seq(Unit) /\ Len(Pushed) = BlockUnits
      /\ \A i \in 1..BlockUnits : Pushed[i] = [room |-> room, n |-> made + i]
  <2>1. Pushed \in [1..BlockUnits -> Unit]
    BY <1>1, Sizes DEF Pushed, Unit
  <2>2. Pushed \in Seq(Unit)
    BY <2>1, Sizes, SeqDef, Zenon
  <2>3. DOMAIN Pushed = 1..BlockUnits
    BY DEF Pushed
  <2>4. Len(Pushed) = BlockUnits
    BY <2>2, <2>3, Sizes, LenProperties
  <2>. QED BY <2>2, <2>4 DEF Pushed
<1>4. AllMade' \in Seq(Unit) /\ Len(AllMade') = made + BlockUnits
      /\ \A i \in 1..(made + BlockUnits) : AllMade'[i] = [room |-> room, n |-> i]
  <2>. DEFINE more == [u \in 1..(made + BlockUnits) |-> [room |-> room, n |-> u]]
  <2>0. made + BlockUnits \in Nat
    BY <1>1, Sizes
  <2>1. more \in [1..(made + BlockUnits) -> Unit]
    BY <1>1, Sizes DEF Unit
  <2>2. more \in Seq(Unit)
    BY <2>0, <2>1, SeqDef, Zenon
  <2>3. DOMAIN more = 1..(made + BlockUnits)
    OBVIOUS
  <2>4. Len(more) = made + BlockUnits
    <3>. HIDE DEF more
    <3>. QED BY <2>0, <2>2, <2>3, LenProperties
  <2>5. \A i \in 1..(made + BlockUnits) : more[i] = [room |-> room, n |-> i]
    OBVIOUS
  <2>6. AllMade' = more
    BY Zenon DEF AllMade
  <2>. HIDE DEF more
  <2>. QED BY <2>2, <2>4, <2>5, <2>6, Zenon
<1>5. \A i \in 1..(made + BlockUnits) : AllMade'[i] = (AllMade \o Pushed)[i]
  <2>. SUFFICES ASSUME NEW i \in 1..(made + BlockUnits)
                PROVE  AllMade'[i] = (AllMade \o Pushed)[i]
    OBVIOUS
  <2>1. (AllMade \o Pushed)[i] = IF i <= made THEN AllMade[i] ELSE Pushed[i - made]
    BY <1>2, <1>3, ConcatProperties
  <2>2. CASE i <= made
    <3>1. i \in 1..made
      BY <1>1, <2>2
    <3>. QED BY <1>2, <1>4, <2>1, <2>2, <3>1
  <2>3. CASE ~(i <= made)
    <3>1. i - made \in 1..BlockUnits /\ made + (i - made) = i
      BY <1>1, <2>3, Sizes
    <3>. QED BY <1>3, <1>4, <2>1, <2>3, <3>1
  <2>. QED BY <2>2, <2>3
<1>6. AllMade \o Pushed \in Seq(Unit) /\ Len(AllMade \o Pushed) = made + BlockUnits
  BY <1>2, <1>3, ConcatProperties
<1>7. AllMade' = AllMade \o Pushed
  BY <1>4, <1>5, <1>6, SeqEqual
<1>. QED BY <1>2, <1>3, <1>7

\* A step that moves no sound.
LEMMA CarriedFrame ==
    ASSUME Carried,
           UNCHANGED <<settings, queue, configured, encoder, pending, native,
                       packetsDropped, block, frame, room, made, relayed,
                       handedOver>>,
           sendFailures' = 0 => sendFailures = 0,
           (worker' = "begin") = (worker = "begin"),
           worker' = "pcm" => worker = "pcm"
    PROVE  Carried'
<1>1. Heard' = Heard /\ Waiting' = Waiting /\ AllMade' = AllMade
  BY Zenon DEF Heard, Waiting, AllMade
<1>2. Row' = Row /\ Direct' = Direct
  BY <1>1, Zenon DEF Row, Direct
<1>3. (ToNative(settings))' = ToNative(settings) /\ (ToRelay(settings))' = ToRelay(settings)
  BY Zenon DEF ToNative, ToRelay
<1>. QED BY <1>1, <1>2, <1>3, Zenon DEF Carried

\* An empty room.
LEMMA CarriedApply ==
    ASSUME Places, NEW s \in Settings \cup {Off}, Apply(s), worker \in {"none", "ended"}
    PROVE  Carried'
<1>1. /\ settings' = s /\ native' = (s.enabled /\ ToNative(s)) /\ pending' = <<>>
      /\ encoder' \in (IF s.enabled /\ s.opus THEN BOOLEAN ELSE {FALSE})
      /\ worker' # "pcm" /\ worker' # "begin" /\ queue' = <<>>
      /\ relayed' = <<>> /\ handedOver' = <<>> /\ made' = 0
      /\ block' = <<>> /\ frame' = <<>>
  <2>1. block = <<>> /\ frame = <<>>
    BY DEF Places
  <2>2. worker' \in {"looking", "none"}
    BY Zenon DEF Apply, Rebuild
  <2>3. worker' # "pcm" /\ worker' # "begin"
    BY <2>2
  <2>. QED BY <2>1, <2>3, Zenon DEF Apply, Rebuild
<1>2. FlattenSeq(<<>>) = <<>>
  BY EmptySeq DEF FlattenSeq
<1>3. Heard' = <<>>
  <2>1. [i \in DOMAIN <<>> |-> <<>>[i].units] = <<>>
    OBVIOUS
  <2>. QED BY <1>1, <1>2, <2>1, Zenon DEF Heard
<1>4. Waiting' = <<>> /\ AllMade' = <<>>
  <2>1. Waiting' = <<>>
    BY <1>1, <1>2, Zenon DEF Waiting
  <2>2. AllMade' = <<>>
    BY <1>1 DEF AllMade
  <2>. QED BY <2>1, <2>2
<1>5. <<>> \o <<>> = <<>>
  OBVIOUS
<1>6. Row' = AllMade' /\ Direct' = AllMade'
  <2>1. Row' = <<>>
    BY <1>1, <1>3, <1>4, <1>5, Zenon DEF Row
  <2>2. Direct' = <<>>
    BY <1>1, <1>3, <1>4, <1>5, Zenon DEF Direct
  <2>. QED BY <1>4, <2>1, <2>2
<1>7. encoder' => s.opus
  BY <1>1
<1>8. native' => ToNative(s)
  BY <1>1, Zenon
<1>. QED BY <1>1, <1>6, <1>7, <1>8, Zenon DEF Carried

\* Every step carries the sound on.
LEMMA CarriedNext ==
    ASSUME Scalars, Sound, Places, Carried, [Next]_vars
    PROVE  Carried'
<1>h. /\ queue \in Seq(Seq(Made)) /\ Waiting \in Seq(Made)
      /\ frame \in Seq(Made) /\ pending \in Seq(Made) /\ block \in Seq(Made)
      /\ handedOver \in Seq(Made) /\ Heard \in Seq(Made)
  BY InHand
<1>p. block # <<>> => worker \in {"begin", "pcm", "buffering"}
  BY DEF Places
<1>f. (frame # <<>>) = (worker = "encoded")
  BY DEF Places
<1>z. packetsDropped \in Nat /\ sendFailures \in Nat
  BY DEF Scalars
<1>e. \A s \in Seq(Made) : s \o <<>> = s /\ <<>> \o s = s
  BY ConcatEmptySeq
<1>1. CASE Push
  <2>1. /\ queue' = Append(IF Full THEN Tail(queue) ELSE queue, Pushed)
        /\ packetsDropped' = packetsDropped + (IF Full THEN 1 ELSE 0)
        /\ made' = made + BlockUnits /\ room' = room
        /\ UNCHANGED <<settings, configured, encoder, pending, native,
                       sendFailures, block, frame, relayed, handedOver>>
    BY <1>1, Zenon DEF Push
  <2>2. (worker' = "begin") = (worker = "begin") /\ (worker' = "pcm" => worker = "pcm")
    BY <1>1 DEF Push, Notified
  <2>3. /\ Heard' = Heard
        /\ (ToNative(settings))' = ToNative(settings)
        /\ (ToRelay(settings))' = ToRelay(settings)
    BY <2>1, Zenon DEF Heard, ToNative, ToRelay
  <2>4. packetsDropped' = 0 => ~Full /\ packetsDropped = 0
    BY <1>z, <2>1
  <2>5. ASSUME ~Full
        PROVE  (Row = AllMade => Row' = AllMade') /\ (Direct = AllMade => Direct' = AllMade')
    <3>1. AllMade' = AllMade \o Pushed /\ Pushed \in Seq(Unit)
      BY <2>1, MadeMore
    <3>u. Seq(Made) \subseteq Seq(Unit)
      BY MadeUnits
    <3>2. Waiting' = Waiting \o Pushed
      <4>1. queue \in Seq(Seq(Unit))
        BY <1>h, <3>u, SeqMonotonic
      <4>2. FlattenSeq(Append(queue, Pushed)) = FlattenSeq(queue) \o Pushed
        BY <3>1, <4>1, FlatAppend
      <4>. QED BY <2>1, <2>5, <4>2, Zenon DEF Waiting
    <3>3. ASSUME NEW s \in Seq(Unit) PROVE Regroups(s, Waiting, Pushed)
      BY <1>h, <3>u, <3>1, Regrouped
    <3>4. ASSUME Row = AllMade PROVE Row' = AllMade'
      <4>. DEFINE s == Heard \o frame \o pending \o block
      <4>1. s \in Seq(Unit)
        BY <1>h, <3>u, ConcatProperties
      <4>2. Row = s \o Waiting /\ Row' = s \o (Waiting \o Pushed)
        BY <2>1, <2>3, <3>2, Zenon DEF Row
      <4>. HIDE DEF s
      <4>. QED BY <3>1, <3>3, <3>4, <4>1, <4>2, Zenon DEF Regroups
    <3>5. ASSUME Direct = AllMade PROVE Direct' = AllMade'
      <4>. DEFINE s == handedOver \o (IF worker = "begin" THEN block ELSE <<>>)
      <4>1. s \in Seq(Unit)
        <5>1. handedOver \in Seq(Unit) /\ block \in Seq(Unit)
              /\ <<>> \in Seq(Unit)
          BY <1>h, <3>u, EmptySeq
        <5>. QED BY <5>1, ConcatProperties
      <4>2. Direct = s \o Waiting /\ Direct' = s \o (Waiting \o Pushed)
        BY <2>1, <2>2, <2>3, <3>2, Zenon DEF Direct
      <4>. HIDE DEF s
      <4>. QED BY <3>1, <3>3, <3>5, <4>1, <4>2, Zenon DEF Regroups
    <3>. QED BY <3>4, <3>5, Zenon
  <2>. HIDE DEF Full
  <2>. QED BY <2>1, <2>2, <2>3, <2>4, <2>5, Zenon DEF Carried
<1>2. ASSUME NEW s \in Settings \cup {Off}, Apply(s), worker \in {"none", "ended"}
      PROVE  Carried'
  BY <1>2, CarriedApply
<1>3. ASSUME NEW s \in Settings \cup {Off}, NEW what \in {"configuring", "stopping"},
             AskToStop(what, s)
      PROVE  Carried'
  <2>1. (worker' = "begin") = (worker = "begin") /\ (worker' = "pcm" => worker = "pcm")
    BY <1>3 DEF AskToStop, Notified
  <2>2. UNCHANGED <<settings, queue, configured, encoder, pending, native,
                    packetsDropped, block, frame, room, made, relayed,
                    handedOver, sendFailures>>
    BY <1>3, Zenon DEF AskToStop
  <2>. QED BY <2>1, <2>2, CarriedFrame
<1>4. ASSUME Clear, worker \in {"none", "ended"} PROVE Carried'
  <2>1. configured' = FALSE /\ native' = FALSE /\ pending' = <<>> /\ worker' = "none"
        /\ settings' = settings /\ encoder' = encoder
    BY <1>4, Zenon DEF Clear
  <2>. QED BY <2>1 DEF Carried
<1>5. CASE Leave
  <2>1. worker = "looking" /\ worker' = "ended"
        /\ UNCHANGED <<settings, queue, configured, encoder, pending, native,
                       packetsDropped, block, frame, room, made, relayed,
                       handedOver, sendFailures>>
    BY <1>5, Zenon DEF Leave, members, outside
  <2>. QED BY <2>1, CarriedFrame
<1>6. CASE Sleep
  <2>1. worker = "looking" /\ worker' = "asleep"
        /\ UNCHANGED <<settings, queue, configured, encoder, pending, native,
                       packetsDropped, block, frame, room, made, relayed,
                       handedOver, sendFailures>>
    BY <1>6, Zenon DEF Sleep, members, outside
  <2>. QED BY <2>1, CarriedFrame
<1>7. CASE Take
  <2>1. /\ worker = "looking" /\ worker' = "begin" /\ queue # <<>>
        /\ block' = Head(queue) /\ queue' = Tail(queue)
        /\ UNCHANGED <<settings, configured, encoder, pending, native,
                       packetsDropped, frame, room, made, relayed,
                       handedOver, sendFailures>>
    BY <1>7, Zenon DEF Take, outside
  <2>2. /\ Heard' = Heard /\ AllMade' = AllMade
        /\ (ToNative(settings))' = ToNative(settings)
        /\ (ToRelay(settings))' = ToRelay(settings)
    BY <2>1, Zenon DEF Heard, AllMade, ToNative, ToRelay
  <2>3. block = <<>> /\ worker # "begin"
    BY <1>p, <2>1
  <2>4. Waiting = block' \o Waiting' /\ block' \in Seq(Made) /\ Waiting' \in Seq(Made)
    <3>1. Head(queue) \in Seq(Made) /\ Tail(queue) \in Seq(Seq(Made))
      BY <1>h, <2>1, HeadTailProperties
    <3>2. FlattenSeq(queue) = Head(queue) \o FlattenSeq(Tail(queue))
          /\ FlattenSeq(Tail(queue)) \in Seq(Made)
      BY <1>h, <2>1, <3>1, FlatTail, FlatType
    <3>. QED BY <2>1, <3>1, <3>2, Zenon DEF Waiting
  <2>5. Row' = Row
    <3>. DEFINE h == Heard \o frame \o pending  x == block'  w == Waiting'
    <3>1. h \in Seq(Made)
      BY <1>h, ConcatProperties
    <3>2. Row = (h \o <<>>) \o (x \o w) /\ Row' = (h \o x) \o w
      BY <2>1, <2>2, <2>3, <2>4, Zenon DEF Row
    <3>3. x \in Seq(Made) /\ w \in Seq(Made)
      BY <2>4
    <3>. HIDE DEF h, x, w
    <3>4. TakeMoves(h, x, w)
      BY <3>1, <3>3, Moves, Zenon
    <3>. QED BY <3>2, <3>4, Zenon DEF TakeMoves
  <2>6. Direct' = Direct
    <3>. DEFINE h == handedOver  x == block'  w == Waiting'
    <3>2. Direct = (h \o <<>>) \o (x \o w) /\ Direct' = (h \o x) \o w
      BY <2>1, <2>2, <2>3, <2>4, Zenon DEF Direct
    <3>3. h \in Seq(Made) /\ x \in Seq(Made) /\ w \in Seq(Made)
      BY <1>h, <2>4
    <3>. HIDE DEF h, x, w
    <3>4. TakeMoves(h, x, w)
      BY <3>3, Moves, Zenon
    <3>. QED BY <3>2, <3>4, Zenon DEF TakeMoves
  <2>7. worker' # "pcm"
    BY <2>1
  <2>. QED BY <2>1, <2>2, <2>5, <2>6, <2>7, Zenon DEF Carried
<1>8. CASE BeginSend
  <2>1. /\ worker = "begin"
        /\ handedOver' = IF ToNative(settings) /\ native
                         THEN handedOver \o block ELSE handedOver
        /\ UNCHANGED <<settings, queue, configured, encoder, pending, native,
                       packetsDropped, frame, room, made, relayed>>
    BY <1>8, Zenon DEF BeginSend
  <2>2. /\ Heard' = Heard /\ AllMade' = AllMade /\ Waiting' = Waiting
        /\ (ToNative(settings))' = ToNative(settings)
        /\ (ToRelay(settings))' = ToRelay(settings)
    BY <2>1, Zenon DEF Heard, AllMade, Waiting, ToNative, ToRelay
  <2>3. ToRelay(settings) => block' = block /\ sendFailures' = sendFailures
    BY <1>8, Zenon DEF BeginSend
  <2>4. /\ worker' \in {"buffering", "pcm", "looking"}
        /\ worker' = "pcm" => ~settings.opus
    BY <1>8, Zenon DEF BeginSend
  <2>5. worker' # "begin" /\ (worker' = "pcm" => ~encoder)
    BY <2>4, Zenon DEF Carried
  <2>6. ToRelay(settings) => Row' = Row
    BY <2>1, <2>2, <2>3, Zenon DEF Row
  <2>7. native => Direct' = Direct
    <3>1. SUFFICES ASSUME native PROVE Direct' = Direct
      OBVIOUS
    <3>2. handedOver' = handedOver \o block
      BY <2>1, <3>1, Zenon DEF Carried
    <3>. DEFINE h == handedOver \o block
    <3>3. h \in Seq(Made)
      BY <1>h, ConcatProperties
    <3>4. Direct = h \o Waiting /\ Direct' = (h \o <<>>) \o Waiting
      BY <2>1, <2>2, <2>5, <3>2, Zenon DEF Direct
    <3>. HIDE DEF h
    <3>. QED BY <1>e, <3>3, <3>4, Zenon
  <2>. QED BY <2>1, <2>2, <2>3, <2>5, <2>6, <2>7, Zenon DEF Carried
<1>9. CASE SendPcm
  <2>1. /\ worker = "pcm" /\ worker' = "pcm"
        /\ relayed' = Append(relayed, Packet(Chunk))
        /\ block' = SubSeq(block, Len(Chunk) + 1, Len(block))
        /\ UNCHANGED <<settings, queue, configured, encoder, pending, native,
                       packetsDropped, frame, room, made, sendFailures, handedOver>>
    BY <1>9, Zenon DEF SendPcm, members
  <2>2. /\ AllMade' = AllMade /\ Waiting' = Waiting
        /\ (ToNative(settings))' = ToNative(settings)
        /\ (ToRelay(settings))' = ToRelay(settings)
    BY <2>1, Zenon DEF AllMade, Waiting, ToNative, ToRelay
  <2>3. frame = <<>> /\ pending = <<>>
    <3>1. frame = <<>>
      BY <1>f, <2>1
    <3>2. pending = <<>>
      BY <2>1, Zenon DEF Carried
    <3>. QED BY <3>1, <3>2
  <2>4. Chunk \in Seq(Made) /\ block' \in Seq(Made) /\ block = Chunk \o block'
    <3>. DEFINE k == IF Len(block) < PacketUnits THEN Len(block) ELSE PacketUnits
    <3>1. k \in Nat /\ k <= Len(block) /\ Len(block) \in Nat
      BY <1>h, Sizes, Empty
    <3>2. Chunk = SubSeq(block, 1, k)
      BY Zenon DEF Chunk
    <3>. HIDE DEF k
    <3>3. /\ SubSeq(block, 1, k) \in Seq(Made) /\ Len(SubSeq(block, 1, k)) = k
          /\ SubSeq(block, k + 1, Len(block)) \in Seq(Made)
      BY <1>h, <3>1, Cut, Zenon
    <3>4. SubSeq(block, 1, k) \o SubSeq(block, k + 1, Len(block)) = block
      BY <1>h, <3>1, Whole, Zenon
    <3>. QED BY <2>1, <3>2, <3>3, <3>4, Zenon
  <2>5. Heard' = Heard \o Chunk
    <3>1. Packet(Chunk).units = Chunk
      BY DEF Packet
    <3>. QED BY <2>1, <2>4, <3>1, HeardMore, Zenon
  <2>6. Row' = Row
    <3>. DEFINE h == Heard  x == Chunk  b == block'  w == Waiting
    <3>1. Row = h \o <<>> \o <<>> \o (x \o b) \o w
          /\ Row' = (h \o x) \o <<>> \o <<>> \o b \o w
      BY <2>1, <2>2, <2>3, <2>4, <2>5, Zenon DEF Row
    <3>2. h \in Seq(Made) /\ x \in Seq(Made) /\ b \in Seq(Made) /\ w \in Seq(Made)
      BY <1>h, <2>4
    <3>. HIDE DEF h, x, b, w
    <3>3. PcmMoves(h, x, b, w)
      BY <3>2, Moves, Zenon
    <3>. QED BY <3>1, <3>3, Zenon DEF PcmMoves
  <2>7. Direct' = Direct
    <3>1. worker # "begin" /\ worker' # "begin"
      BY <2>1
    <3>. QED BY <2>1, <2>2, <3>1, Zenon DEF Direct
  <2>. QED BY <2>1, <2>2, <2>6, <2>7, Zenon DEF Carried
<1>10. CASE PcmFails
  <2>1. /\ worker = "pcm" /\ worker' = "pcm" /\ sendFailures' = sendFailures + 1
        /\ UNCHANGED <<settings, queue, configured, encoder, pending, native,
                       packetsDropped, frame, room, made, relayed, handedOver>>
    BY <1>10, Zenon DEF PcmFails, outside
  <2>2. /\ AllMade' = AllMade /\ Waiting' = Waiting
        /\ (ToNative(settings))' = ToNative(settings)
    BY <2>1, Zenon DEF AllMade, Waiting, ToNative
  <2>3. Direct' = Direct
    <3>1. worker # "begin" /\ worker' # "begin"
      BY <2>1
    <3>. QED BY <2>1, <2>2, <3>1, Zenon DEF Direct
  <2>4. sendFailures' # 0
    BY <1>z, <2>1
  <2>. QED BY <2>1, <2>2, <2>3, <2>4, Zenon DEF Carried
<1>11. CASE PcmEnds
  <2>1. worker = "pcm" /\ worker' = "looking"
        /\ UNCHANGED <<settings, queue, configured, encoder, pending, native,
                       packetsDropped, block, frame, room, made, relayed,
                       handedOver, sendFailures>>
    BY <1>11, Zenon DEF PcmEnds, outside
  <2>. QED BY <2>1, CarriedFrame
<1>12. CASE OpusBuffers
  <2>1. /\ worker = "buffering"
        /\ UNCHANGED <<settings, queue, configured, encoder, native,
                       packetsDropped, frame, room, made, relayed, handedOver,
                       sendFailures>>
    BY <1>12, Zenon DEF OpusBuffers, outside
  <2>2. CASE ~encoder
    <3>1. worker' = "pcm" /\ UNCHANGED <<pending, block>>
      BY <1>12, <2>2, Zenon DEF OpusBuffers
    <3>2. /\ AllMade' = AllMade /\ Waiting' = Waiting /\ Heard' = Heard
          /\ (ToNative(settings))' = ToNative(settings)
          /\ (ToRelay(settings))' = ToRelay(settings)
      BY <2>1, Zenon DEF AllMade, Waiting, Heard, ToNative, ToRelay
    <3>3. worker # "begin" /\ worker' # "begin"
      BY <2>1, <3>1
    <3>4. Row' = Row /\ Direct' = Direct
      BY <2>1, <3>1, <3>2, <3>3, Zenon DEF Row, Direct
    <3>. QED BY <2>1, <2>2, <3>1, <3>2, <3>4, Zenon DEF Carried
  <2>3. CASE encoder
    <3>1. /\ pending' = pending \o block /\ block' = <<>>
          /\ worker' = IF Len(pending') < OpusUnits THEN "looking" ELSE "opus"
      BY <1>12, <2>3, Zenon DEF OpusBuffers
    <3>2. /\ AllMade' = AllMade /\ Waiting' = Waiting /\ Heard' = Heard
          /\ (ToNative(settings))' = ToNative(settings)
          /\ (ToRelay(settings))' = ToRelay(settings)
      BY <2>1, Zenon DEF AllMade, Waiting, Heard, ToNative, ToRelay
    <3>3. worker # "begin" /\ worker' # "begin" /\ worker' # "pcm"
      <4>1. worker' \in {"looking", "opus"}
        BY <3>1, Zenon
      <4>. QED BY <2>1, <4>1
    <3>4. Direct' = Direct
      BY <2>1, <3>2, <3>3, Zenon DEF Direct
    <3>5. Row' = Row
      <4>1. frame = <<>>
        BY <1>f, <2>1
      <4>. DEFINE h == Heard  p == pending  b == block  w == Waiting
      <4>2. Row = h \o <<>> \o p \o b \o w /\ Row' = h \o <<>> \o (p \o b) \o <<>> \o w
        BY <2>1, <3>1, <3>2, <4>1, Zenon DEF Row
      <4>3. h \in Seq(Made) /\ p \in Seq(Made) /\ b \in Seq(Made) /\ w \in Seq(Made)
        BY <1>h
      <4>. HIDE DEF h, p, b, w
      <4>4. OpusMoves(h, p, b, w)
        BY <4>3, Moves, Zenon
      <4>. QED BY <4>2, <4>4, Zenon DEF OpusMoves
    <3>. QED BY <2>1, <2>3, <3>2, <3>3, <3>4, <3>5, Zenon DEF Carried
  <2>. QED BY <2>2, <2>3, Zenon
<1>13. CASE TakeFrame
  <2>1. /\ worker = "opus"
        /\ UNCHANGED <<settings, queue, configured, encoder, native, block,
                       packetsDropped, room, made, relayed, handedOver,
                       sendFailures>>
    BY <1>13, Zenon DEF TakeFrame, outside
  <2>2. CASE Len(pending) < OpusUnits
    <3>1. worker' = "looking" /\ UNCHANGED <<pending, frame>>
      BY <1>13, <2>2, Zenon DEF TakeFrame
    <3>. QED BY <2>1, <3>1, CarriedFrame
  <2>3. CASE ~(Len(pending) < OpusUnits)
    <3>1. /\ frame' = SubSeq(pending, 1, OpusUnits) /\ worker' = "encoded"
          /\ pending' = SubSeq(pending, OpusUnits + 1, Len(pending))
      BY <1>13, <2>3, Zenon DEF TakeFrame, Remainder
    <3>2. /\ AllMade' = AllMade /\ Waiting' = Waiting /\ Heard' = Heard
          /\ (ToNative(settings))' = ToNative(settings)
          /\ (ToRelay(settings))' = ToRelay(settings)
      BY <2>1, Zenon DEF AllMade, Waiting, Heard, ToNative, ToRelay
    <3>3. worker # "begin" /\ worker' # "begin" /\ worker' # "pcm"
      BY <2>1, <3>1
    <3>4. Direct' = Direct
      BY <2>1, <3>2, <3>3, Zenon DEF Direct
    <3>5. OpusUnits \in Nat /\ OpusUnits <= Len(pending)
      BY <1>h, <2>3, Sizes, Empty
    <3>6. pending = frame' \o pending' /\ frame' \in Seq(Made) /\ pending' \in Seq(Made)
      BY <1>h, <3>1, <3>5, Cut, Whole, Zenon
    <3>7. Row' = Row
      <4>1. frame = <<>>
        BY <1>f, <2>1
      <4>. DEFINE h == Heard  f == frame'  p == pending'  b == block  w == Waiting
      <4>2. Row = h \o <<>> \o (f \o p) \o b \o w /\ Row' = h \o f \o p \o b \o w
        BY <2>1, <3>2, <3>6, <4>1, Zenon DEF Row
      <4>3. h \in Seq(Made) /\ f \in Seq(Made) /\ p \in Seq(Made)
            /\ b \in Seq(Made) /\ w \in Seq(Made)
        BY <1>h, <3>6
      <4>. HIDE DEF h, f, p, b, w
      <4>4. FrameMoves(h, f, p, b, w)
        BY <4>3, Moves, Zenon
      <4>. QED BY <4>2, <4>4, Zenon DEF FrameMoves
    <3>8. pending' # <<>> => encoder
      <4>1. pending # <<>>
        BY <1>h, <3>5, Sizes, Empty
      <4>. QED BY <4>1, Zenon DEF Carried
    <3>. QED BY <2>1, <3>2, <3>3, <3>4, <3>7, <3>8, Zenon DEF Carried
  <2>. QED BY <2>2, <2>3
<1>14. CASE SendFrame
  <2>1. /\ worker = "encoded" /\ worker' = "opus"
        /\ relayed' = Append(relayed, Packet(frame)) /\ frame' = <<>>
        /\ UNCHANGED <<settings, queue, configured, encoder, pending, native,
                       packetsDropped, block, room, made, handedOver, sendFailures>>
    BY <1>14, Zenon DEF SendFrame, members
  <2>2. /\ AllMade' = AllMade /\ Waiting' = Waiting
        /\ (ToNative(settings))' = ToNative(settings)
        /\ (ToRelay(settings))' = ToRelay(settings)
    BY <2>1, Zenon DEF AllMade, Waiting, ToNative, ToRelay
  <2>3. Heard' = Heard \o frame
    <3>1. Packet(frame).units = frame
      BY DEF Packet
    <3>. QED BY <1>h, <2>1, <3>1, HeardMore, Zenon
  <2>4. Row' = Row
    <3>. DEFINE h == Heard  f == frame  p == pending  b == block  w == Waiting
    <3>1. Row = h \o f \o p \o b \o w /\ Row' = (h \o f) \o <<>> \o p \o b \o w
      BY <2>1, <2>2, <2>3, Zenon DEF Row
    <3>2. h \in Seq(Made) /\ f \in Seq(Made) /\ p \in Seq(Made)
          /\ b \in Seq(Made) /\ w \in Seq(Made)
      BY <1>h
    <3>. HIDE DEF h, f, p, b, w
    <3>3. SendMoves(h, f, p, b, w)
      BY <3>2, Moves, Zenon
    <3>. QED BY <3>1, <3>3, Zenon DEF SendMoves
  <2>5. worker # "begin" /\ worker' # "begin" /\ worker' # "pcm"
    BY <2>1
  <2>6. Direct' = Direct
    BY <2>1, <2>2, <2>5, Zenon DEF Direct
  <2>. QED BY <2>1, <2>2, <2>4, <2>5, <2>6, Zenon DEF Carried
<1>15. CASE FrameFails
  <2>1. /\ worker = "encoded" /\ worker' = "looking" /\ sendFailures' = sendFailures + 1
        /\ UNCHANGED <<settings, queue, configured, encoder, pending, native,
                       packetsDropped, block, room, made, relayed, handedOver>>
    BY <1>15, Zenon DEF FrameFails, outside
  <2>2. /\ AllMade' = AllMade /\ Waiting' = Waiting
        /\ (ToNative(settings))' = ToNative(settings)
    BY <2>1, Zenon DEF AllMade, Waiting, ToNative
  <2>3. worker # "begin" /\ worker' # "begin" /\ worker' # "pcm"
    BY <2>1
  <2>4. Direct' = Direct
    BY <2>1, <2>2, <2>3, Zenon DEF Direct
  <2>5. sendFailures' # 0
    BY <1>z, <2>1
  <2>. QED BY <2>1, <2>2, <2>3, <2>4, <2>5, Zenon DEF Carried
<1>16. CASE UNCHANGED vars
  <2>1. UNCHANGED <<settings, queue, configured, encoder, pending, native,
                    packetsDropped, block, frame, room, made, relayed,
                    handedOver, sendFailures, worker>>
    BY <1>16, Zenon DEF vars, members, sender, outside
  <2>. QED BY <2>1, CarriedFrame
<1>17. ASSUME NEW s \in Settings, Configure(s) PROVE Carried'
  BY <1>17, <1>2, <1>3 DEF Configure
<1>18. CASE FinishConfigure
  BY <1>18, <1>2 DEF FinishConfigure, Scalars
<1>19. CASE Stop \/ FinishStop
  BY <1>19, <1>3, <1>4 DEF Stop, FinishStop
<1>. QED
  BY <1>1, <1>5, <1>6, <1>7, <1>8, <1>9, <1>10, <1>11, <1>12, <1>13, <1>14,
     <1>15, <1>16, <1>17, <1>18, <1>19
  DEF Next, WorkerStep

\* While the counters show neither a drop nor a failure, all sound of the room
\* is on its way or has arrived, once and in order, for every size of blocks,
\* packets, frames and queue (CountersTellLosses).
THEOREM CountersAreHonest == Spec => []CountersTellLosses
<1>1. Init => Carried
  <2>. SUFFICES ASSUME Init PROVE Carried
    OBVIOUS
  <2>1. native = FALSE /\ encoder = FALSE /\ configured = FALSE
        /\ pending = <<>> /\ worker = "none"
    BY Zenon DEF Init
  <2>. QED BY <2>1 DEF Carried
<1>2. SenderInv /\ Carried /\ [Next]_vars => Carried'
  BY CarriedNext, Zenon DEF SenderInv
<1>3. Carried => CountersTellLosses
  BY Zenon DEF Carried, CountersTellLosses, Row, Direct
<1>. QED BY SenderInvariance, <1>1, <1>2, <1>3, PTL DEF Spec
=============================================================================
