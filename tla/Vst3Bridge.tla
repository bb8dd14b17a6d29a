------------------------------ MODULE Vst3Bridge ------------------------------
(***************************************************************************)
(* A VST3 insert hosted in a worker process: RealtimeMasterInsertChain     *)
(* (src/audio/MasterInsertProcessor.cpp), the client in the renderer       *)
(* (src/plugins/Vst3RealtimeBridge.cpp) and the worker behind a shared     *)
(* memory segment (src/plugins/Vst3RealtimeBridgeProtocol.h).              *)
(*                                                                         *)
(* The renderer publishes the block it is about to play, takes whatever    *)
(* the worker last answered, and never waits: it tries the segment's mutex *)
(* and goes on with the dry signal when the worker holds it.  The worker's *)
(* critical sections are therefore two steps, lock and copy-and-unlock;    *)
(* the client's are one step, because nobody but the worker could see the  *)
(* inside of them and the worker waits.                                    *)
(*                                                                         *)
(* A sample is represented by the request it belongs to.  The plug-in has  *)
(* one parameter, whose values are numbered in the order they were set; 0  *)
(* is "no value", the plug-in's own default.                               *)
(***************************************************************************)
EXTENDS Naturals, Sequences

CONSTANTS
    MaxFrames,    \* maxBlockSize, the frames the segment has room for
    MaxStall,     \* maxStallBlocks
    Resend,       \* insertNeedsPersistentParameterQueue(insert): true of Waves plug-ins only
    MaxRequests,  \* bounds: blocks published in one segment,
    MaxEdits,     \*         parameter values set,
    MaxPrepares   \*         segments created

ASSUME SizeAssumption == MaxFrames \in Nat \ {0} /\ MaxStall \in Nat
ASSUME ResendAssumption == Resend \in BOOLEAN
ASSUME BoundAssumption ==
    MaxRequests \in Nat /\ MaxEdits \in Nat /\ MaxPrepares \in Nat

VARIABLES
    wanted,        \* the chain's vst3ParameterStates_
    pending,       \* the chain's vst3PendingParameterChanges_
    client,        \* how far the client is between prepare() and teardown()
    lastResponse,  \* lastResponseSeq
    stallBlocks,   \* stallBlocks, not counted beyond MaxStall + 1
    request,       \* segment: requestSeq, command, frameCount, in params, input
    response,      \* segment: responseSeq, processedOk, output; and, for the
                   \* properties, the value the plug-in processed it with
    announced,     \* segment: workerReady and workerFailed
    mutex,         \* segment: who holds the mutex between two steps
    worker,        \* where the worker is in its loop
    handled,       \* the worker's handledSeq_
    scratch,       \* the worker's copy of a request, and what processing gave
    applied,       \* the parameter value the plug-in has
    prepares,      \* segments created so far
    \* What the properties talk about, no state of the code:
    sent,          \* for every request, its frames and the value then wanted
    heard          \* the last block the client gave back, and how often

segment == <<request, response, announced>>
chain == <<wanted, pending>>
session == <<lastResponse, stallBlocks>>
hosted == <<handled, scratch, applied>>
vars == <<wanted, pending, client, lastResponse, stallBlocks, request, response,
          announced, mutex, worker, handled, scratch, applied, prepares, sent, heard>>

Frame == 1..MaxFrames
Value == 0..MaxEdits
Silence == [i \in Frame |-> 0]
NoRequest == [seq |-> 0, command |-> "process", frames |-> 0, param |-> 0,
              input |-> Silence]
NoResponse == [seq |-> 0, ok |-> FALSE, output |-> Silence, param |-> 0]
NoScratch == [frames |-> 0, param |-> 0, input |-> Silence, ok |-> FALSE]
\* wet is the response that was played, 0 for a dry block; played and times say
\* which response was last played at all, and how many blocks in a row.
NothingHeard == [wet |-> 0, samples |-> <<>>, at |-> 0, played |-> 0, times |-> 0]

Gone == {"exited", "dead"}
Alive == {"loading", "announcing", "checking", "asleep", "taking", "processing",
          "processed", "posting", "hung"}
Holding == {"announcing", "taking", "posting"}

\* Bytes beyond the first n frames of a region are left as they were.
Overwrite(region, n, source) == [i \in Frame |-> IF i <= n THEN source[i] ELSE region[i]]
Stalled(n) == IF n > MaxStall THEN n ELSE n + 1

Init ==
    /\ wanted = 0 /\ pending = 0
    /\ client = "off"
    /\ lastResponse = 0 /\ stallBlocks = 0
    /\ request = NoRequest /\ response = NoResponse /\ announced = "no"
    /\ mutex = "free"
    /\ worker = "none" /\ handled = 0 /\ scratch = NoScratch /\ applied = 0
    /\ prepares = 0
    /\ sent = <<>> /\ heard = NothingHeard
-----------------------------------------------------------------------------
(***************************************************************************)
(* The chain and the client                                                *)
(***************************************************************************)

\* updateParameter(), under the engine's mutex; before prepare() the value only
\* goes to the project, where prepare() finds it.
SetParameter ==
    /\ client \in {"off", "ready"}
    /\ wanted < MaxEdits
    /\ wanted' = wanted + 1
    /\ pending' = IF client = "ready" THEN wanted + 1 ELSE pending
    /\ UNCHANGED <<client, session, segment, mutex, worker, hosted, prepares, sent, heard>>

\* prepare() up to the fork: a fresh segment, zeroed, and a worker process.
Prepare ==
    /\ client = "off"
    /\ prepares < MaxPrepares
    /\ prepares' = prepares + 1
    /\ client' = "preparing"
    /\ request' = NoRequest /\ response' = NoResponse /\ announced' = "no"
    /\ mutex' = "free"
    /\ worker' = "loading" /\ handled' = 0 /\ scratch' = NoScratch /\ applied' = 0
    /\ sent' = <<>> /\ heard' = NothingHeard
    /\ UNCHANGED <<chain, session>>

\* prepare() gives a worker that is still loading 8 ms and then succeeds all the
\* same; the chain queues every stored parameter value for the first block.
PrepareSucceeds ==
    /\ client = "preparing" /\ mutex = "free"
    /\ announced = "ready" \/ (announced = "no" /\ worker \notin Gone)
    /\ client' = "ready"
    /\ lastResponse' = 0 /\ stallBlocks' = 0
    /\ pending' = wanted
    /\ UNCHANGED <<wanted, segment, mutex, worker, hosted, prepares, sent, heard>>

\* prepare() saw the worker fail, or reaped it; in the second case the teardown
\* has no process left to talk to.
PrepareFails ==
    /\ client = "preparing" /\ mutex = "free"
    /\ \/ announced = "failed" /\ client' = "terminating" /\ UNCHANGED worker
       \/ announced = "no" /\ worker \in Gone /\ client' = "off" /\ worker' = "none"
    /\ UNCHANGED <<chain, session, segment, mutex, hosted, prepares, sent, heard>>

\* Mutant of Parameters: a plug-in that wants all of its state every block only
\* gets what changed.
ChangedParameters == pending

\* What the chain hands to process() and then no longer has.
Parameters == IF Resend THEN wanted ELSE pending

\* process(): the worker has the mutex, the block stays dry.
ProcessContended ==
    /\ client = "ready" /\ mutex # "free"
    /\ stallBlocks' = Stalled(stallBlocks)
    /\ pending' = 0
    /\ heard' = [heard EXCEPT !.wet = 0, !.samples = <<>>]
    /\ UNCHANGED <<wanted, client, lastResponse, segment, mutex, worker, hosted,
                   prepares, sent>>

\* Mutant of Signalled: nobody is woken.
NotSignalled == worker

\* The signal on requestCond wakes the worker if it sleeps.
Signalled == IF worker = "asleep" THEN "checking" ELSE worker

\* process(): publish the block of n frames over the last request, whether or not
\* the worker took that one.
Publish(n) ==
    LET seq == request.seq + 1
    IN  /\ request' = [seq |-> seq, command |-> "process", frames |-> n,
                       param |-> Parameters,
                       input |-> Overwrite(request.input, n, [i \in Frame |-> seq])]
        /\ worker' = Signalled
        /\ sent' = Append(sent, [frames |-> n, wanted |-> wanted])

\* Mutant of IsFresh: any response is taken for a new one.
IsThere == response.seq # 0

IsFresh == response.seq # lastResponse

\* Mutant of Output: the input region is read, where the block has just been put.
Input(n) == [i \in 1..n |-> request.seq + 1]

Output(n) == [i \in 1..n |-> response.output[i]]

\* process(): play the last response unless there is none, the plug-in failed, or
\* it has been played for too long.
Play(n) ==
    LET stalls == IF IsFresh THEN 0 ELSE Stalled(stallBlocks)
        wet == response.seq # 0 /\ response.ok /\ stalls <= MaxStall
    IN  /\ lastResponse' = response.seq
        /\ stallBlocks' = stalls
        /\ heard' = IF wet
                    THEN [wet |-> response.seq, samples |-> Output(n), at |-> request.seq + 1,
                          played |-> response.seq,
                          times |-> IF heard.played = response.seq THEN heard.times + 1 ELSE 1]
                    ELSE [heard EXCEPT !.wet = 0, !.samples = <<>>]

ProcessPublished(n) ==
    /\ client = "ready" /\ mutex = "free"
    /\ request.seq < MaxRequests
    /\ Publish(n)
    /\ Play(n)
    /\ pending' = 0
    /\ UNCHANGED <<wanted, client, response, announced, mutex, hosted, prepares>>

\* teardown(), in three steps: ask the worker to leave, which takes the mutex;
\* wait for it, 200 ms; kill it if that was not enough.
Reset ==
    /\ client = "ready"
    /\ client' = "terminating"
    /\ UNCHANGED <<chain, session, segment, mutex, worker, hosted, prepares, sent, heard>>

AskToTerminate ==
    /\ client = "terminating" /\ mutex = "free"
    /\ client' = "reaping"
    /\ request' = [request EXCEPT !.seq = @ + 1, !.command = "terminate"]
    /\ worker' = Signalled
    /\ UNCHANGED <<chain, session, response, announced, mutex, hosted, prepares, sent, heard>>

\* Mutant of Killable: a signal that a hung plug-in never gets to handle.
Polite == Alive \ {"hung"}

\* SIGKILL ends any process.
Killable == Alive

Kill ==
    /\ client = "reaping" /\ worker \in Killable
    /\ worker' = "dead"
    /\ UNCHANGED <<chain, client, session, segment, mutex, hosted, prepares, sent, heard>>

Reap ==
    /\ client = "reaping" /\ worker \in Gone
    /\ client' = "off" /\ worker' = "none"
    /\ pending' = 0
    /\ UNCHANGED <<wanted, session, segment, mutex, hosted, prepares, sent, heard>>
-----------------------------------------------------------------------------
(***************************************************************************)
(* The worker: runVst3RealtimeBridgeWorker() over Vst3BridgeServer         *)
(***************************************************************************)

Lock == mutex = "free" /\ mutex' = "worker"
Unlock == mutex' = "free"

AttachFails ==
    /\ worker = "loading"
    /\ worker' = "exited"
    /\ UNCHANGED <<chain, client, session, segment, mutex, hosted, prepares, sent, heard>>

\* announceReady(), after the plug-in has loaded or failed to.
Announce ==
    /\ worker = "loading"
    /\ Lock
    /\ worker' = "announcing"
    /\ UNCHANGED <<chain, client, session, segment, hosted, prepares, sent, heard>>

AnnounceDone(loaded) ==
    /\ worker = "announcing"
    /\ Unlock
    /\ announced' = IF loaded THEN "ready" ELSE "failed"
    /\ worker' = IF loaded THEN "checking" ELSE "exited"
    /\ UNCHANGED <<chain, client, session, request, response, hosted, prepares, sent, heard>>

\* waitRequest(): nothing new, sleep on the condition variable.
Sleep ==
    /\ worker = "checking" /\ mutex = "free"
    /\ request.seq = handled
    /\ worker' = "asleep"
    /\ UNCHANGED <<chain, client, session, segment, mutex, hosted, prepares, sent, heard>>

\* A condition variable may wake without a signal.
WakeSpuriously ==
    /\ worker = "asleep"
    /\ worker' = "checking"
    /\ UNCHANGED <<chain, client, session, segment, mutex, hosted, prepares, sent, heard>>

\* waitRequest(): a new request, copy it out of the segment.
Take ==
    /\ worker = "checking"
    /\ request.seq # handled
    /\ Lock
    /\ worker' = "taking"
    /\ UNCHANGED <<chain, client, session, segment, hosted, prepares, sent, heard>>

\* Mutant of TakenSeq: the worker counts one further than it got.
TakenSeqAhead == request.seq + 1

TakenSeq == request.seq

TakeDone ==
    /\ worker = "taking"
    /\ Unlock
    /\ handled' = TakenSeq
    /\ \/ /\ request.command = "terminate"
          /\ worker' = "exited"
          /\ UNCHANGED scratch
       \/ /\ request.command = "process"
          /\ worker' = "processing"
          /\ scratch' = [frames |-> request.frames, param |-> request.param,
                         input |-> Overwrite(scratch.input, request.frames, request.input),
                         ok |-> FALSE]
    /\ UNCHANGED <<chain, client, session, segment, applied, prepares, sent, heard>>

\* Mutant of PluginInput: the worker processes what is in the segment by now.
SharedInput == request.input

PluginInput == scratch.input

\* The plug-in's own processing, of the worker's copy: no lock is held.
ProcessBlock(ok) ==
    /\ worker = "processing"
    /\ worker' = "processed"
    /\ applied' = IF scratch.param = 0 THEN applied ELSE scratch.param
    /\ scratch' = [scratch EXCEPT !.ok = ok, !.input = PluginInput]
    /\ UNCHANGED <<chain, client, session, segment, mutex, handled, prepares, sent, heard>>

\* postResponse()
Post ==
    /\ worker = "processed"
    /\ Lock
    /\ worker' = "posting"
    /\ UNCHANGED <<chain, client, session, segment, hosted, prepares, sent, heard>>

PostDone ==
    /\ worker = "posting"
    /\ Unlock
    /\ response' = [seq |-> handled, ok |-> scratch.ok,
                    output |-> IF scratch.ok
                               THEN Overwrite(response.output, scratch.frames, scratch.input)
                               ELSE response.output,
                    param |-> applied]
    /\ worker' = "checking"
    /\ UNCHANGED <<chain, client, session, request, announced, hosted, prepares, sent, heard>>

\* What the sandbox is for: the plug-in hangs, or takes its process down.  A
\* mutex the process held stays locked, it is not a robust one.
Hang ==
    /\ worker = "processing"
    /\ worker' = "hung"
    /\ UNCHANGED <<chain, client, session, segment, mutex, hosted, prepares, sent, heard>>

Crash ==
    /\ worker \in Alive
    /\ worker' = "dead"
    /\ UNCHANGED <<chain, client, session, segment, mutex, hosted, prepares, sent, heard>>
-----------------------------------------------------------------------------
Process ==
    \/ ProcessContended
    \/ \E n \in Frame : ProcessPublished(n)

Teardown == AskToTerminate \/ Kill \/ Reap
PrepareReturns == PrepareSucceeds \/ PrepareFails

WorkerStep ==
    \/ Announce
    \/ \E loaded \in BOOLEAN : AnnounceDone(loaded)
    \/ Sleep \/ Take \/ TakeDone
    \/ \E ok \in BOOLEAN : ProcessBlock(ok)
    \/ Post \/ PostDone

Next ==
    \/ SetParameter
    \/ Prepare \/ PrepareReturns
    \/ Process
    \/ Reset \/ Teardown
    \/ WorkerStep
    \/ AttachFails \/ WakeSpuriously \/ Hang \/ Crash

\* The worker is scheduled, and teardown() and prepare() run to their end.
\* Nothing makes the renderer call process(), the user turn a knob, a plug-in
\* hang or a process die.
Fairness == WF_vars(WorkerStep) /\ WF_vars(Teardown) /\ WF_vars(PrepareReturns)

Spec == Init /\ [][Next]_vars /\ Fairness
-----------------------------------------------------------------------------
\* A response holds the whole of one request and nothing of another, although
\* the renderer may overwrite the segment's input and length at any moment
\* between the worker's taking a request and answering it.
ResponseIsWhole ==
    response.ok => \A i \in 1..sent[response.seq].frames :
                       response.output[i] = response.seq

\* "the output it produced for a PREVIOUS block": what is played in place of a
\* block was all sent before that block, never the block itself.
OneBlockLate ==
    heard.wet # 0 => /\ heard.wet < heard.at
                     /\ \A i \in DOMAIN heard.samples : heard.samples[i] < heard.at

\* A worker that stops answering is heard frozen for at most maxStallBlocks
\* blocks beyond the one it answered, then the insert goes dry.
FrozenBounded == heard.times <= MaxStall + 1

\* A wet block was processed with the parameter values the chain held when that
\* block was sent: no change is lost on the way.
WetHasTheParameters ==
    response.ok => response.param = sent[response.seq].wanted

\* "instead of a frozen/garbage buffer": every sample of a wet block is of the
\* one request that was answered.
WetIsOneBlock ==
    heard.wet # 0 => \A i \in DOMAIN heard.samples : heard.samples[i] = heard.wet

\* No wakeup is lost: a worker that is not stuck in the plug-in answers the last
\* request, even when the renderer stops calling after it.
LastRequestAnswered ==
    client = "ready" /\ response.seq # request.seq
        ~> \/ response.seq = request.seq
           \/ client # "ready"
           \/ worker \in Gone \cup {"hung"}

\* The mutex of a process that died with it, which nobody can take again.
Orphaned == worker = "dead" /\ mutex = "worker"

\* teardown() ends whatever the worker is doing, with that one exception.
TeardownEnds == client = "terminating" ~> client = "off" \/ Orphaned
=============================================================================
