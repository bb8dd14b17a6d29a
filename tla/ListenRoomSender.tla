--------------------------- MODULE ListenRoomSender ---------------------------
(***************************************************************************)
(* What listeners hear: the class ListenRoomSender                         *)
(* (src/audio/ListenRoom.cpp).  The audio thread pushes a block per call,  *)
(* a worker thread sends the blocks, as PCM or through an Opus encoder, to *)
(* a relay, and hands them to the WebRTC sender; one control thread        *)
(* configures and stops.                                                   *)
(*                                                                         *)
(* A room is one configuration: its settings and session.  Sound is made   *)
(* of units, the n-th one pushed in its room; a block, a PCM packet and an *)
(* Opus frame hold some units each.  What the code does in one critical    *)
(* section of mutex_ is one step.  NeuracoustDspEngine keeps pushes away   *)
(* from configure() and stop() with its own mutex; the Windows engine does *)
(* not, so here a push may come at any time.  Rates are not converted, and *)
(* counters and messages that are only shown are left out.                 *)
(***************************************************************************)
EXTENDS Naturals, Sequences, SequencesExt

CONSTANTS
    Settings,        \* records: enabled, opus, transport
    BlockUnits,      \* frames of a pushed block
    PacketUnits,     \* listenRoomPacketFrames()
    OpusUnits,       \* kOpusFrameSamples
    MaxQueuedBlocks, \* listenRoomMaxQueuedBlocks()
    NativeAvailable, \* was the program built with WebRTC?
    MaxRooms,        \* bound: configurations
    MaxBlocks        \* bound: blocks pushed in a room

ASSUME SettingsAssumption ==
    Settings \subseteq
        [enabled : BOOLEAN, opus : BOOLEAN,
         transport : {"relay", "native_webrtc", "direct_fallback"}]
ASSUME SizeAssumption ==
    {BlockUnits, PacketUnits, OpusUnits, MaxQueuedBlocks} \subseteq Nat \ {0}
ASSUME BuildAssumption == NativeAvailable \in BOOLEAN
ASSUME BoundAssumption == MaxRooms \in Nat /\ MaxBlocks \in Nat

Off == [enabled |-> FALSE, opus |-> FALSE, transport |-> "relay"]

VARIABLES
    \* members of the class
    settings, queue, stopRequested, configured, sequence,
    encoder,         \* opusEncoder_ # nullptr
    pending,         \* pendingOpusSamples_
    native,          \* is the WebRTC sender configured?
    packetsDropped, sendFailures,
    \* the control thread: "idle", or what it joins the worker for, and with
    \* which settings
    control, wish,
    \* the worker: where it is, the rest of its block, the frame it encodes,
    \* the number of the next packet and the room it sends for
    worker, block, frame, number, sendsFor,
    \* the outside: units pushed, packets the relay got and units the WebRTC
    \* sender got in this room
    room, made, relayed, handedOver,
    asked            \* made, when the worker was asked to stop

members == <<settings, queue, stopRequested, configured, sequence, encoder,
             pending, native, packetsDropped, sendFailures>>
sender == <<worker, block, frame, number, sendsFor>>
outside == <<room, made, relayed, handedOver, asked>>
controls == <<control, wish>>
vars == <<members, controls, sender, outside>>

ToRelay(s) == s.transport # "native_webrtc"
ToNative(s) == s.transport # "relay"

Init ==
    /\ settings = Off /\ queue = <<>> /\ stopRequested = FALSE
    /\ configured = FALSE /\ sequence = 0
    /\ encoder = FALSE /\ pending = <<>> /\ native = FALSE
    /\ packetsDropped = 0 /\ sendFailures = 0
    /\ control = "idle" /\ wish = Off
    /\ worker = "none" /\ block = <<>> /\ frame = <<>>
    /\ number = 0 /\ sendsFor = 0
    /\ room = 0 /\ made = 0 /\ relayed = <<>> /\ handedOver = <<>>
    /\ asked = 0

\* condition_.notify_...(): the worker is the only one that waits.
Notified == IF worker = "asleep" THEN "looking" ELSE worker
-----------------------------------------------------------------------------
(***************************************************************************)
(* The audio thread.                                                       *)
(***************************************************************************)

Full == Len(queue) >= MaxQueuedBlocks

Pushed == [u \in 1..BlockUnits |-> [room |-> room, n |-> made + u]]

Push ==
    /\ configured
    /\ made < MaxBlocks * BlockUnits
    /\ queue' = Append(IF Full THEN Tail(queue) ELSE queue, Pushed)
    /\ packetsDropped' = packetsDropped + (IF Full THEN 1 ELSE 0)
    /\ made' = made + BlockUnits
    /\ worker' = Notified
    /\ UNCHANGED <<settings, stopRequested, configured, sequence, encoder,
                   pending, native, sendFailures, controls, block, frame,
                   number, sendsFor, room, relayed, handedOver, asked>>
-----------------------------------------------------------------------------
(***************************************************************************)
(* The control thread.  configure() and stop() release the mutex while     *)
(* they join the worker; blocks are accepted meanwhile.                    *)
(***************************************************************************)

\* Mutant of AskToStop: the sleeping worker is not woken.
AskSilently(what, s) ==
    /\ stopRequested' = TRUE /\ asked' = made
    /\ control' = what /\ wish' = s
    /\ UNCHANGED <<settings, queue, configured, sequence, encoder, pending,
                   native, packetsDropped, sendFailures, sender, room, made,
                   relayed, handedOver>>

AskToStop(what, s) ==
    /\ stopRequested' = TRUE /\ asked' = made
    /\ worker' = Notified
    /\ control' = what /\ wish' = s
    /\ UNCHANGED <<settings, queue, configured, sequence, encoder, pending,
                   native, packetsDropped, sendFailures, block, frame, number,
                   sendsFor, room, made, relayed, handedOver>>

\* What configure(s) does once there is no worker, but for the queue.  The
\* encoder may fail to be created.
Rebuild(s) ==
    /\ settings' = s /\ configured' = s.enabled
    /\ stopRequested' = FALSE /\ sequence' = 0 /\ pending' = <<>>
    /\ encoder' \in (IF s.enabled /\ s.opus THEN BOOLEAN ELSE {FALSE})
    /\ native' = (s.enabled /\ ToNative(s))
    /\ worker' = IF s.enabled THEN "looking" ELSE "none"
    /\ control' = "idle" /\ wish' = Off
    /\ room' = room + 1 /\ made' = 0 /\ asked' = 0
    /\ relayed' = <<>> /\ handedOver' = <<>>
    /\ UNCHANGED <<packetsDropped, sendFailures, block, frame, number, sendsFor>>

\* Mutant of Apply: late blocks of the old room stay in the queue.
ApplyKeepingQueue(s) == Rebuild(s) /\ queue' = queue

Apply(s) == Rebuild(s) /\ queue' = <<>>

Configure(s) ==
    /\ control = "idle" /\ room < MaxRooms
    /\ IF worker = "none" THEN Apply(s) ELSE AskToStop("configuring", s)

FinishConfigure ==
    /\ control = "configuring" /\ worker = "ended"
    /\ Apply(wish)

\* What stop() does once there is no worker.  The encoder stays.
Clear ==
    /\ queue' = <<>> /\ pending' = <<>>
    /\ native' = FALSE /\ configured' = FALSE /\ stopRequested' = FALSE
    /\ worker' = "none" /\ control' = "idle" /\ wish' = Off
    /\ UNCHANGED <<settings, sequence, encoder, packetsDropped, sendFailures,
                   block, frame, number, sendsFor, outside>>

Stop ==
    /\ control = "idle"
    /\ IF worker = "none" THEN Clear ELSE AskToStop("stopping", Off)

FinishStop ==
    /\ control = "stopping" /\ worker = "ended"
    /\ Clear
-----------------------------------------------------------------------------
(***************************************************************************)
(* The worker.  It leaves only with the queue empty.                       *)
(***************************************************************************)

\* Mutant of MayLeave: asked to stop is reason enough.
MayLeaveAtOnce == stopRequested

MayLeave == stopRequested /\ queue = <<>>

Leave ==
    /\ worker = "looking" /\ MayLeave
    /\ worker' = "ended"
    /\ UNCHANGED <<members, controls, block, frame, number, sendsFor, outside>>

Sleep ==
    /\ worker = "looking" /\ ~stopRequested /\ queue = <<>>
    /\ worker' = "asleep"
    /\ UNCHANGED <<members, controls, block, frame, number, sendsFor, outside>>

Take ==
    /\ worker = "looking" /\ queue # <<>>
    /\ block' = Head(queue) /\ queue' = Tail(queue)
    /\ worker' = "begin"
    /\ UNCHANGED <<settings, stopRequested, configured, sequence, encoder,
                   pending, native, packetsDropped, sendFailures, controls,
                   frame, number, sendsFor, outside>>

\* sendBlock(): what it reads of the members, the WebRTC sender's share, and
\* where it goes.  Without the relay it is done: the answer is whether the
\* program has a WebRTC sender.
BeginSend ==
    /\ worker = "begin"
    /\ number' = sequence /\ sendsFor' = room
    /\ handedOver' = IF ToNative(settings) /\ native
                     THEN handedOver \o block ELSE handedOver
    /\ IF ToRelay(settings)
       THEN /\ worker' = IF settings.opus THEN "buffering" ELSE "pcm"
            /\ UNCHANGED <<block, sendFailures>>
       ELSE /\ worker' = "looking" /\ block' = <<>>
            /\ sendFailures' = sendFailures + (IF NativeAvailable THEN 0 ELSE 1)
    /\ UNCHANGED <<settings, queue, stopRequested, configured, sequence,
                   encoder, pending, native, packetsDropped, controls, frame,
                   room, made, relayed, asked>>

Packet(units) == [number |-> number, room |-> sendsFor, units |-> units]

Chunk == SubSeq(block, 1, IF Len(block) < PacketUnits THEN Len(block) ELSE PacketUnits)

SendPcm ==
    /\ worker = "pcm" /\ block # <<>>
    /\ relayed' = Append(relayed, Packet(Chunk))
    /\ block' = SubSeq(block, Len(Chunk) + 1, Len(block))
    /\ number' = number + 1
    /\ UNCHANGED <<members, controls, worker, frame, sendsFor, room, made,
                   handedOver, asked>>

\* The relay cannot be reached, or leaves in the middle: the rest of the block
\* is given up, and the packet's number with it.
PcmFails ==
    /\ worker = "pcm" /\ block # <<>>
    /\ block' = <<>> /\ number' = number + 1
    /\ sendFailures' = sendFailures + 1
    /\ UNCHANGED <<settings, queue, stopRequested, configured, sequence,
                   encoder, pending, native, packetsDropped, controls, worker,
                   frame, sendsFor, outside>>

\* Mutant of SequenceAfter: the numbers used are not written back.
SequenceKept == sequence

SequenceAfter == number

PcmEnds ==
    /\ worker = "pcm" /\ block = <<>>
    /\ sequence' = SequenceAfter
    /\ worker' = "looking"
    /\ UNCHANGED <<settings, queue, stopRequested, configured, encoder,
                   pending, native, packetsDropped, sendFailures, controls,
                   block, frame, number, sendsFor, outside>>

\* Without an encoder the block goes out as PCM after all.
OpusBuffers ==
    /\ worker = "buffering"
    /\ IF encoder
       THEN /\ pending' = pending \o block /\ block' = <<>>
            /\ worker' = IF Len(pending') < OpusUnits THEN "looking" ELSE "opus"
            /\ UNCHANGED number
       ELSE /\ number' = sequence
            /\ worker' = "pcm"
            /\ UNCHANGED <<pending, block>>
    /\ UNCHANGED <<settings, queue, stopRequested, configured, sequence,
                   encoder, native, packetsDropped, sendFailures, controls,
                   frame, sendsFor, outside>>

\* Mutant of Remainder: what does not fill a frame is thrown away.
NoRemainder == <<>>

Remainder == SubSeq(pending, OpusUnits + 1, Len(pending))

TakeFrame ==
    /\ worker = "opus"
    /\ IF Len(pending) < OpusUnits
       THEN /\ worker' = "looking"
            /\ UNCHANGED <<pending, frame, sequence, number>>
       ELSE /\ frame' = SubSeq(pending, 1, OpusUnits) /\ pending' = Remainder
            /\ number' = sequence /\ sequence' = sequence + 1
            /\ worker' = "encoded"
    /\ UNCHANGED <<settings, queue, stopRequested, configured, encoder, native,
                   packetsDropped, sendFailures, controls, block, sendsFor,
                   outside>>

SendFrame ==
    /\ worker = "encoded"
    /\ relayed' = Append(relayed, Packet(frame))
    /\ frame' = <<>> /\ worker' = "opus"
    /\ UNCHANGED <<members, controls, block, number, sendsFor, room, made,
                   handedOver, asked>>

\* Encoding or sending fails: the frame is lost, the rest waits for the next
\* block.
FrameFails ==
    /\ worker = "encoded"
    /\ frame' = <<>> /\ worker' = "looking"
    /\ sendFailures' = sendFailures + 1
    /\ UNCHANGED <<settings, queue, stopRequested, configured, sequence,
                   encoder, pending, native, packetsDropped, controls, block,
                   number, sendsFor, outside>>

WorkerStep ==
    \/ Leave \/ Sleep \/ Take \/ BeginSend
    \/ SendPcm \/ PcmFails \/ PcmEnds
    \/ OpusBuffers \/ TakeFrame \/ SendFrame \/ FrameFails

Next ==
    \/ Push
    \/ \E s \in Settings : Configure(s)
    \/ FinishConfigure \/ Stop \/ FinishStop
    \/ WorkerStep

\* Both threads run.  That a step which sends is taken at all is an assumption
\* about the relay: connect() and send() have no timeout.
Spec == Init /\ [][Next]_vars /\ WF_vars(WorkerStep)
             /\ WF_vars(FinishConfigure) /\ WF_vars(FinishStop)
-----------------------------------------------------------------------------
Unit == [room : Nat, n : Nat]

\* Types; the queue keeps to its limit, a block is in hand while it is being
\* sent, and nobody but a live worker leaves a frame half done
\* (ListenRoomSender).
TypeOK ==
    /\ settings \in Settings \cup {Off}
    /\ queue \in Seq(Seq(Unit)) /\ Len(queue) <= MaxQueuedBlocks
    /\ {stopRequested, configured, encoder, native} \subseteq BOOLEAN
    /\ {sequence, number, sendsFor, room, made, asked} \subseteq Nat
    /\ {packetsDropped, sendFailures} \subseteq Nat
    /\ pending \in Seq(Unit) /\ block \in Seq(Unit) /\ frame \in Seq(Unit)
    /\ control \in {"idle", "configuring", "stopping"}
    /\ wish \in Settings \cup {Off}
    /\ worker \in {"none", "looking", "asleep", "begin", "pcm", "buffering",
                   "opus", "encoded", "ended"}
    /\ relayed \in Seq([number : Nat, room : Nat, units : Seq(Unit)])
    /\ handedOver \in Seq(Unit)
    /\ block # <<>> => worker \in {"begin", "pcm", "buffering"}
    /\ (frame # <<>>) = (worker = "encoded")

OfRoom(s, r) == \A i \in DOMAIN s : s[i].room = r

\* The sound of a room never reaches the listeners of another one: not from
\* the queue, the worker's hands or the encoder's rest, although configure()
\* lets go of the mutex while blocks keep coming (ListenRoom.cpp:320-330).
RoomsApart ==
    /\ \A i \in DOMAIN relayed : OfRoom(relayed[i].units, relayed[i].room)
    /\ OfRoom(handedOver, room)

\* The relay sees the packets of a room numbered upwards, and without a hole as
\* long as no send failed: a hole in the numbers means a lost packet and
\* nothing else (sequence_, ListenRoom.cpp:488, 569 and 609).
NumbersTellLosses ==
    /\ \A i \in DOMAIN relayed, j \in DOMAIN relayed :
          i < j => relayed[i].number < relayed[j].number
    /\ sendFailures = 0 =>
          \A i \in DOMAIN relayed : relayed[i].number = i - 1

AllMade == [u \in 1..made |-> [room |-> room, n |-> u]]
Waiting == FlattenSeq(queue)
Heard == FlattenSeq([i \in DOMAIN relayed |-> relayed[i].units])

\* While the counters show no drop and no failure, everything that was pushed in
\* the room is on its way or has arrived, once and in order, whether it goes to
\* the relay as PCM or through the encoder; the WebRTC sender misses nothing
\* that was not dropped (packetsDropped_ and sendFailures_ in the status).
CountersTellLosses ==
    configured /\ packetsDropped = 0 =>
        /\ ToRelay(settings) /\ sendFailures = 0 =>
              Heard \o frame \o pending \o block \o Waiting = AllMade
        /\ native =>
              handedOver \o (IF worker = "begin" THEN block ELSE <<>>) \o Waiting
                  = AllMade

\* When stop() or configure() throws away the queue, it holds only blocks pushed
\* after the call began; unless a send failed, what the encoder still has is
\* less than a frame (ListenRoom.cpp:327 and 368).
StopLosesLatecomersOnly ==
    [][control # "idle" /\ control' = "idle" =>
          /\ \A b \in DOMAIN queue : \A u \in DOMAIN queue[b] :
                queue[b][u].n > asked
          /\ block = <<>> /\ frame = <<>>
          /\ sendFailures = 0 => Len(pending) < OpusUnits]_vars

\* stop() and configure() come back once the audio thread pauses, wherever the
\* worker is when they are called (ListenRoom.cpp:321 and 365).
ConfigureEnds == control # "idle" ~> control = "idle"
=============================================================================
