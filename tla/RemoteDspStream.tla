---------------------------- MODULE RemoteDspStream ----------------------------
(***************************************************************************)
(* Audio through the remote DSP server: the class RemoteDspAsyncStream     *)
(* (src/audio/RemoteDspAsyncStream.cpp).  The renderer hands over a block  *)
(* per call and gets back a processed one, an older one as a rule; a       *)
(* worker thread exchanges queued blocks with the server.  The first block *)
(* of a configuration is exchanged by the renderer itself ("prime").       *)
(*                                                                         *)
(* A block is the number of the call that brought it.  An exchange with    *)
(* the server (RemoteDspProcessSession::process) gives the block back or   *)
(* fails; it checks the sequence number of the answer, so an answer of     *)
(* another exchange is a failure.                                          *)
(***************************************************************************)
EXTENDS Naturals, Sequences, SequencesExt

CONSTANTS
    Setting,    \* what settingsMatchLocked() compares: endpoint, frame count...
    Target,     \* targetBufferedBlocks_ of a setting
    MaxInput,   \* kMaxInputQueueBlocks
    MaxOutput,  \* kMaxOutputQueueBlocks
    None,       \* no setting, no block
    MaxCalls    \* bound: calls of process()

ASSUME TargetAssumption == Target \in [Setting -> Nat \ {0}]
ASSUME QueueAssumption == MaxInput \in Nat \ {0} /\ MaxOutput \in Nat \ {0}
ASSUME NoneAssumption == None \notin Setting
ASSUME BoundAssumption == MaxCalls \in Nat

VARIABLES
    caller,         \* where process() or reset() is; "idle" between calls
    calls,          \* calls of process() so far; the last one's block
    wish,           \* the setting of the current call, None for reset()
    setting,        \* settings_ and frameCount_; None when not configured_
    stopRequested,
    worker,         \* where the worker thread is
    inFlight,       \* the block the worker took
    inputQueue, outputQueue,
    processed,      \* processedBlocks # 0
    timely,         \* does an exchange end before a cold-start wait does?
    \* What the properties talk about, no state of the code:
    epoch,          \* the first call of this configuration
    popped,         \* the last block taken from the output queue
    played          \* the last block given back, and in this call or before

vars == <<caller, calls, wish, setting, stopRequested, worker, inFlight,
          inputQueue, outputQueue, processed, timely, epoch, popped, played>>

queues == <<inputQueue, outputQueue>>
history == <<epoch, popped, played>>

\* timely holds where four times the timeout, at most 50 ms, is more than an
\* exchange can take: the monitor path's 8 and 12 ms do that, unless resolving
\* the server's name takes longer.
Init ==
    /\ caller = "idle" /\ calls = 0 /\ wish = None
    /\ setting = None /\ stopRequested = FALSE
    /\ worker = "none" /\ inFlight = 0
    /\ inputQueue = <<>> /\ outputQueue = <<>>
    /\ processed = FALSE
    /\ timely \in BOOLEAN
    /\ epoch = 0 /\ popped = 0 /\ played = 0

Ready == setting # None /\ Len(outputQueue) >= Target[setting]
-----------------------------------------------------------------------------
(***************************************************************************)
(* The renderer.  It is the only caller: the engine's mutex is held.       *)
(***************************************************************************)

\* Mutant of Primes: any time the queues are empty is a time to prime.
PrimesWheneverEmpty == inputQueue = <<>> /\ outputQueue = <<>>

Primes == ~processed /\ inputQueue = <<>> /\ outputQueue = <<>>

\* process() with the settings it is configured for already.
Call(s) ==
    /\ caller = "idle" /\ calls < MaxCalls
    /\ setting = s
    /\ calls' = calls + 1 /\ wish' = s
    /\ caller' = IF Primes THEN "priming" ELSE "pushing"
    /\ UNCHANGED <<setting, stopRequested, worker, inFlight, queues, processed,
                   timely, history>>

\* Mutant of Stopped: a sleeping worker is not told.
StoppedSilently == worker

\* notify_all() in stopLocked()
Stopped == IF worker = "asleep" THEN "checking" ELSE worker

\* process() with other settings, or reset() (s = None): stop the worker and,
\* with the mutex released, join it.
Restart(s) ==
    /\ caller = "idle"
    /\ s # setting
    /\ IF s = None THEN UNCHANGED calls ELSE calls < MaxCalls /\ calls' = calls + 1
    /\ wish' = s
    /\ caller' = "joining"
    /\ stopRequested' = (worker # "none")
    /\ worker' = Stopped
    /\ UNCHANGED <<setting, inFlight, queues, processed, timely, history>>

\* Mutant of Discarded: blocks of the old configuration stay in the output queue.
DiscardedInput == inputQueue' = <<>> /\ UNCHANGED outputQueue

Discarded == inputQueue' = <<>> /\ outputQueue' = <<>>

\* The rest of reset().
Joined ==
    /\ caller = "joining" /\ worker \in {"none", "returned"}
    /\ stopRequested' = FALSE
    /\ Discarded
    /\ processed' = FALSE
    /\ setting' = wish

JoinedReset ==
    /\ wish = None /\ Joined
    /\ caller' = "idle" /\ worker' = "none"
    /\ UNCHANGED <<calls, wish, inFlight, timely, history>>

\* The rest of configureLocked(): a new worker, and the block primes it.
JoinedConfigure ==
    /\ wish # None /\ Joined
    /\ caller' = "priming" /\ worker' = "checking"
    /\ epoch' = calls /\ popped' = 0
    /\ UNCHANGED <<calls, wish, inFlight, timely, played>>

\* The renderer's own exchange, without the mutex, is answered in time...
PrimeAnswered ==
    /\ caller = "priming"
    /\ processed' = TRUE
    /\ played' = calls
    /\ caller' = "idle"
    /\ UNCHANGED <<calls, wish, setting, stopRequested, worker, inFlight, queues,
                   timely, epoch, popped>>

\* ...or not, and the same block goes to the queue.
PrimeFails ==
    /\ caller = "priming"
    /\ caller' = "pushing"
    /\ UNCHANGED <<calls, wish, setting, stopRequested, worker, inFlight, queues,
                   processed, timely, history>>

\* A full input queue loses its oldest block.
Pushed ==
    IF Len(inputQueue) >= MaxInput THEN Append(Tail(inputQueue), calls)
                                   ELSE Append(inputQueue, calls)

\* Queue the block and wake the worker, then wait for the output queue to fill.
Push ==
    /\ caller = "pushing"
    /\ inputQueue' = Pushed
    /\ worker' = IF worker = "asleep" THEN "checking" ELSE worker
    /\ caller' = "waiting"
    /\ UNCHANGED <<calls, wish, setting, stopRequested, inFlight, outputQueue,
                   processed, timely, history>>

\* Mutant of Popped: the newest output is played.
PoppedNewest == Last(outputQueue)

Popped == Head(outputQueue)

Play ==
    /\ caller = "waiting" /\ Ready
    /\ played' = Popped /\ popped' = Popped
    /\ outputQueue' = Tail(outputQueue)
    /\ caller' = "idle"
    /\ UNCHANGED <<calls, wish, setting, stopRequested, worker, inFlight, inputQueue,
                   processed, timely, epoch>>

\* The wait is over: an underrun, the block stays as it is.
Underrun ==
    /\ caller = "waiting" /\ ~Ready
    /\ timely /\ ~processed => worker = "asleep"
    /\ caller' = "idle"
    /\ UNCHANGED <<calls, wish, setting, stopRequested, worker, inFlight, queues,
                   processed, timely, history>>
-----------------------------------------------------------------------------
(***************************************************************************)
(* The worker thread                                                       *)
(***************************************************************************)

Return ==
    /\ worker = "checking" /\ stopRequested
    /\ worker' = "returned"
    /\ UNCHANGED <<caller, calls, wish, setting, stopRequested, inFlight, queues,
                   processed, timely, history>>

Sleep ==
    /\ worker = "checking" /\ ~stopRequested /\ inputQueue = <<>>
    /\ worker' = "asleep"
    /\ UNCHANGED <<caller, calls, wish, setting, stopRequested, inFlight, queues,
                   processed, timely, history>>

Take ==
    /\ worker = "checking" /\ ~stopRequested /\ inputQueue # <<>>
    /\ inFlight' = Head(inputQueue)
    /\ inputQueue' = Tail(inputQueue)
    /\ worker' = "exchanging"
    /\ UNCHANGED <<caller, calls, wish, setting, stopRequested, outputQueue,
                   processed, timely, history>>

\* An exchange that ends after the stop is dropped, its answer too.
ExchangeStopped ==
    /\ worker = "exchanging" /\ stopRequested
    /\ worker' = "returned"
    /\ UNCHANGED <<caller, calls, wish, setting, stopRequested, inFlight, queues,
                   processed, timely, history>>

\* No answer in time, or not this block's: the block is lost.
ExchangeFails ==
    /\ worker = "exchanging" /\ ~stopRequested
    /\ worker' = "checking"
    /\ UNCHANGED <<caller, calls, wish, setting, stopRequested, inFlight, queues,
                   processed, timely, history>>

ExchangeAnswered ==
    /\ worker = "exchanging" /\ ~stopRequested
    /\ outputQueue' = IF Len(outputQueue) >= MaxOutput
                      THEN Append(Tail(outputQueue), inFlight)
                      ELSE Append(outputQueue, inFlight)
    /\ processed' = TRUE
    /\ worker' = "checking"
    /\ UNCHANGED <<caller, calls, wish, setting, stopRequested, inFlight, inputQueue,
                   timely, history>>
-----------------------------------------------------------------------------
CallerStep ==
    \/ JoinedReset \/ JoinedConfigure
    \/ PrimeAnswered \/ PrimeFails
    \/ Push \/ Play \/ Underrun

WorkerStep ==
    \/ Return \/ Sleep \/ Take
    \/ ExchangeStopped \/ ExchangeFails \/ ExchangeAnswered

Next ==
    \/ \E s \in Setting : Call(s)
    \/ \E s \in Setting \cup {None} : Restart(s)
    \/ CallerStep
    \/ WorkerStep

\* Both threads run; an exchange ends because select() has a timeout.
Spec == Init /\ [][Next]_vars /\ WF_vars(CallerStep) /\ WF_vars(WorkerStep)
-----------------------------------------------------------------------------
\* Part of the type is that no queue outgrows its limit.
TypeOK ==
    /\ caller \in {"idle", "joining", "priming", "pushing", "waiting"}
    /\ worker \in {"none", "checking", "asleep", "exchanging", "returned"}
    /\ calls \in 0..MaxCalls /\ inFlight \in 0..MaxCalls
    /\ setting \in Setting \cup {None} /\ wish \in Setting \cup {None}
    /\ stopRequested \in BOOLEAN /\ processed \in BOOLEAN /\ timely \in BOOLEAN
    /\ inputQueue \in Seq(1..MaxCalls) /\ Len(inputQueue) <= MaxInput
    /\ outputQueue \in Seq(1..MaxCalls) /\ Len(outputQueue) <= MaxOutput
    /\ epoch \in 0..MaxCalls /\ popped \in 0..MaxCalls /\ played \in 0..MaxCalls

\* All the blocks on their way, in the order they will come back.
Line ==
    <<popped>> \o outputQueue
    \o (IF worker = "exchanging" THEN <<inFlight>> ELSE <<>>) \o inputQueue

\* The output queue gives blocks back in the order they came and none of them
\* twice, whatever is dropped at the ends of the queues or lost on the network.
InOrder == \A i, j \in 1..Len(Line) : i < j => Line[i] < Line[j]

\* No block of an earlier configuration, which may have another size or come from
\* another server, is given back after a restart.
OfThisConfiguration ==
    setting # None => \A i \in 1..Len(outputQueue) : outputQueue[i] >= epoch

\* The renderer and the worker share one socket without a lock.  Priming does not
\* meet the worker's exchange, as long as an exchange is timely.
SessionExclusive == timely => ~(caller = "priming" /\ worker = "exchanging")

\* What the renderer plays goes forward, the primed block included, under the
\* same condition.
PlaysForward == [][timely /\ played' # played => played' > played]_vars

\* process() and reset() return: the join ends.
CallReturns == caller # "idle" ~> caller = "idle"
=============================================================================
