--------------------------- MODULE Vst3BridgeProofs ---------------------------
(***************************************************************************)
(* What holds of a VST3 insert in a worker process for all block lengths,  *)
(* stall limits and numbers of requests: an answer is one whole request    *)
(* and is played later than it was sent, a worker that stops is heard      *)
(* frozen for a bounded time, and where the parameters are sent with every *)
(* block a wet block has those of its request.                             *)
(*                                                                         *)
(* The inductive invariant follows a request from the segment through the  *)
(* worker's copy to the answer, while the client overwrites the segment.   *)
(***************************************************************************)
EXTENDS Vst3Bridge, TLAPS

\* The types of the state.
Samples == UNION {[1..n -> Nat] : n \in 0..MaxFrames}
ClientTypes ==
    /\ wanted \in Nat /\ pending \in Nat /\ lastResponse \in Nat /\ stallBlocks \in Nat
    /\ client \in {"off", "preparing", "ready", "terminating", "reaping"}
    /\ sent \in Seq([frames : Frame, wanted : Nat])
    /\ heard \in [wet : Nat, samples : Samples, at : Nat, played : Nat, times : Nat]
SegmentTypes ==
    /\ request \in [seq : Nat, command : {"process", "terminate"}, frames : 0..MaxFrames,
                    param : Nat, input : [Frame -> Nat]]
    /\ response \in [seq : Nat, ok : BOOLEAN, output : [Frame -> Nat], param : Nat]
    /\ mutex \in {"free", "worker"}
WorkerTypes ==
    /\ worker \in Alive \cup Gone \cup {"none"}
    /\ handled \in Nat /\ applied \in Nat
    /\ scratch \in [frames : 0..MaxFrames, param : Nat, input : [Frame -> Nat], ok : BOOLEAN]
Types == ClientTypes /\ SegmentTypes /\ WorkerTypes

\* The worker has a request in its own memory.
Busy == {"processing", "processed", "posting"}

\* Blocks are numbered in the order they are sent, and a request to leave is one more.  The
\* answer is behind the request the worker took last, which is behind the last one sent.
Numbered ==
    /\ request.seq = IF request.command = "process" THEN Len(sent) ELSE Len(sent) + 1
    /\ client \in {"preparing", "ready", "terminating"} => request.command = "process"
    /\ client = "preparing" => Len(sent) = 0
    /\ response.seq <= handled /\ handled <= request.seq /\ response.seq <= Len(sent)
    /\ response.ok => response.seq # 0
    /\ worker \in Holding => mutex = "worker"
    /\ worker \in {"loading", "announcing"} => handled = 0 /\ applied = 0
    /\ worker = "taking" => request.seq # handled
    /\ worker \in Busy => handled \in 1..Len(sent)

\* The segment, the worker's copy and the answer each hold the whole of their request.
Whole ==
    /\ request.command = "process" /\ request.seq # 0 =>
         /\ request.frames = sent[request.seq].frames
         /\ \A i \in 1..request.frames : request.input[i] = request.seq
    /\ worker \in Busy =>
         /\ scratch.frames = sent[handled].frames
         /\ \A i \in 1..scratch.frames : scratch.input[i] = handled
    /\ ResponseIsWhole

\* No sample anywhere is of a block that has not been sent.
Late ==
    /\ \A i \in Frame : /\ request.input[i] <= Len(sent)
                        /\ scratch.input[i] <= Len(sent)
                        /\ response.output[i] <= Len(sent)
    /\ OneBlockLate

\* What is heard is no newer than the answer seen last, which has not been seen for longer
\* than the stalled blocks were counted.
Frozen ==
    /\ client = "preparing" => heard.played = 0 /\ heard.times = 0
    /\ client = "ready" =>
         /\ heard.played <= lastResponse /\ lastResponse <= response.seq
         /\ heard.played = lastResponse => heard.times <= stallBlocks + 1
    /\ FrozenBounded

\* Values only grow, and each block carries the one wanted when it was sent; the plug-in is
\* not ahead of the request the worker took last.
Resent ==
    /\ \A j, k \in 1..Len(sent) : j <= k => sent[j].wanted <= sent[k].wanted
    /\ \A k \in 1..Len(sent) : sent[k].wanted <= wanted
    /\ request.command = "process" /\ request.seq # 0 => request.param = sent[request.seq].wanted
    /\ worker \in Busy => scratch.param = sent[handled].wanted
    /\ worker \in {"checking", "asleep", "taking", "processing"} =>
         IF handled = 0 THEN applied = 0 ELSE handled \in 1..Len(sent) /\ applied <= sent[handled].wanted
    /\ worker \in {"processed", "posting"} => applied = sent[handled].wanted
    /\ WetHasTheParameters

BridgeInv == Types /\ Numbered /\ Whole /\ Late /\ Frozen
-----------------------------------------------------------------------------
\* Overwriting a region gives a region, of which the first n samples are new.
LEMMA Overwritten ==
    ASSUME NEW region \in [Frame -> Nat], NEW source \in [Frame -> Nat], NEW n \in 0..MaxFrames
    PROVE  /\ Overwrite(region, n, source) \in [Frame -> Nat]
           /\ \A i \in Frame : Overwrite(region, n, source)[i] = IF i <= n THEN source[i] ELSE region[i]
           /\ \A i \in 1..n : i \in Frame /\ Overwrite(region, n, source)[i] = source[i]
<1>1. \A i \in 1..n : i \in Frame
  BY SizeAssumption DEF Frame
<1>. QED BY <1>1 DEF Overwrite

\* The empty block and what is played are blocks of samples.
LEMMA Sampled ==
    ASSUME SegmentTypes PROVE <<>> \in Samples /\ \A n \in Frame : Output(n) \in Samples
<1>1. <<>> \in [1..0 -> Nat] /\ 0 \in 0..MaxFrames
  BY SizeAssumption
<1>2. ASSUME NEW n \in Frame PROVE Output(n) \in [1..n -> Nat] /\ n \in 0..MaxFrames
  BY SizeAssumption DEF SegmentTypes, Output, Frame
<1>. QED BY <1>1, <1>2 DEF Samples

\* The request to leave has the next number and leaves the last block where it is.
LEMMA Leaving ==
    ASSUME SegmentTypes, AskToTerminate
    PROVE  /\ request' \in [seq : Nat, command : {"process", "terminate"}, frames : 0..MaxFrames,
                            param : Nat, input : [Frame -> Nat]]
           /\ request'.seq = request.seq + 1 /\ request'.command = "terminate"
           /\ request'.input = request.input
<1>. DEFINE Requests == [seq : Nat, command : {"process", "terminate"}, frames : 0..MaxFrames,
                        param : Nat, input : [Frame -> Nat]]
            counted == [request EXCEPT !.seq = @ + 1]
            leave == [counted EXCEPT !.command = "terminate"]
<1>1. counted \in Requests /\ counted.seq = request.seq + 1 /\ counted.input = request.input
  BY DEF SegmentTypes
<1>2. leave \in Requests /\ leave.seq = counted.seq /\ leave.command = "terminate" /\ leave.input = counted.input
  <2>. HIDE DEF counted
  <2>. QED BY <1>1
<1>3. request' = leave
  BY DEF AskToTerminate
<1>. QED BY <1>1, <1>2, <1>3

\* Every step keeps the types of the client,
LEMMA ClientTypesStep ==
    ASSUME Types, [Next]_vars PROVE ClientTypes'
<1>. USE DEF Types, chain, session
<1>0. <<>> \in Samples
  BY Sampled
<1>1. ASSUME UNCHANGED <<wanted, pending, client, lastResponse, stallBlocks, sent, heard>>
      PROVE  ClientTypes'
  BY <1>1 DEF ClientTypes
<1>2. CASE SetParameter
  BY <1>2 DEF SetParameter, ClientTypes
<1>3. CASE Prepare
  BY <1>0, <1>3 DEF Prepare, NothingHeard, ClientTypes
<1>4. CASE PrepareSucceeds
  BY <1>4 DEF PrepareSucceeds, ClientTypes
<1>5. CASE PrepareFails
  BY <1>5 DEF PrepareFails, ClientTypes
<1>6. CASE ProcessContended
  <2>1. stallBlocks' \in Nat
    BY <1>6 DEF ProcessContended, Stalled, ClientTypes
  <2>2. heard' \in [wet : Nat, samples : Samples, at : Nat, played : Nat, times : Nat]
    BY <1>0, <1>6 DEF ProcessContended, ClientTypes
  <2>. QED BY <1>6, <2>1, <2>2 DEF ProcessContended, ClientTypes
<1>7. ASSUME NEW n \in Frame, ProcessPublished(n) PROVE ClientTypes'
  <2>1. sent' \in Seq([frames : Frame, wanted : Nat])
    BY <1>7 DEF ProcessPublished, Publish, ClientTypes
  <2>2. /\ response.seq \in Nat /\ request.seq + 1 \in Nat
    BY DEF SegmentTypes
  <2>3. stallBlocks' \in Nat /\ lastResponse' \in Nat
    BY <1>7, <2>2, SizeAssumption DEF ProcessPublished, Play, Stalled, ClientTypes
  <2>4. heard' \in [wet : Nat, samples : Samples, at : Nat, played : Nat, times : Nat]
    <3>1. Output(n) \in Samples
      BY Sampled
    <3>2. (IF heard.played = response.seq THEN heard.times + 1 ELSE 1) \in Nat
      BY DEF ClientTypes
    <3>. QED BY <1>0, <1>7, <2>2, <3>1, <3>2 DEF ProcessPublished, Play, ClientTypes
  <2>. QED BY <1>7, <2>1, <2>3, <2>4 DEF ProcessPublished, ClientTypes
<1>8. CASE Reset
  BY <1>8 DEF Reset, ClientTypes
<1>9. CASE Teardown
  BY <1>9 DEF Teardown, AskToTerminate, Kill, Reap, ClientTypes
<1>10. CASE WorkerStep
  BY <1>1, <1>10 DEF WorkerStep, Announce, AnnounceDone, Sleep, Take, TakeDone, ProcessBlock, Post, PostDone
<1>11. CASE AttachFails \/ WakeSpuriously \/ Hang \/ Crash
  BY <1>1, <1>11 DEF AttachFails, WakeSpuriously, Hang, Crash
<1>12. CASE UNCHANGED vars
  BY <1>1, <1>12 DEF vars
<1>. QED BY <1>2, <1>3, <1>4, <1>5, <1>6, <1>7, <1>8, <1>9, <1>10, <1>11, <1>12 DEF Next, Process, PrepareReturns

\* of the segment,
LEMMA SegmentTypesStep ==
    ASSUME Types, [Next]_vars PROVE SegmentTypes'
<1>. USE DEF Types, segment
<1>0. Silence \in [Frame -> Nat] /\ 0 \in 0..MaxFrames
  BY SizeAssumption DEF Silence
<1>1. ASSUME UNCHANGED <<request, response>>, mutex' \in {mutex, "free", "worker"} PROVE SegmentTypes'
  BY <1>1 DEF SegmentTypes
<1>2. CASE SetParameter \/ PrepareReturns \/ ProcessContended \/ Reset \/ Kill \/ Reap
  BY <1>1, <1>2 DEF SetParameter, PrepareReturns, PrepareSucceeds, PrepareFails, ProcessContended, Reset, Kill, Reap
<1>3. CASE Prepare
  BY <1>0, <1>3 DEF Prepare, NoRequest, NoResponse, SegmentTypes
<1>4. ASSUME NEW n \in Frame, ProcessPublished(n) PROVE SegmentTypes'
  <2>1. n \in 0..MaxFrames /\ request.seq + 1 \in Nat /\ request.input \in [Frame -> Nat]
    BY SizeAssumption DEF SegmentTypes, Frame
  <2>2. [i \in Frame |-> request.seq + 1] \in [Frame -> Nat]
    BY <2>1
  <2>3. Overwrite(request.input, n, [i \in Frame |-> request.seq + 1]) \in [Frame -> Nat]
    BY <2>1, <2>2, Overwritten
  <2>4. Parameters \in Nat
    BY DEF ClientTypes, Parameters
  <2>. QED BY <1>4, <2>1, <2>3, <2>4 DEF ProcessPublished, Publish, SegmentTypes
<1>5. CASE AskToTerminate
  <2>1. AskToTerminate /\ SegmentTypes
    BY <1>5
  <2>2. request' \in [seq : Nat, command : {"process", "terminate"}, frames : 0..MaxFrames,
                      param : Nat, input : [Frame -> Nat]]
    BY <2>1, Leaving
  <2>. QED BY <2>1, <2>2 DEF AskToTerminate, SegmentTypes
<1>6. CASE PostDone
  <2>1. /\ scratch.frames \in 0..MaxFrames /\ scratch.input \in [Frame -> Nat] /\ scratch.ok \in BOOLEAN
        /\ handled \in Nat /\ applied \in Nat
    BY DEF WorkerTypes
  <2>2. response.output \in [Frame -> Nat]
    BY DEF SegmentTypes
  <2>3. Overwrite(response.output, scratch.frames, scratch.input) \in [Frame -> Nat]
    BY <2>1, <2>2, Overwritten
  <2>. QED BY <1>6, <2>1, <2>2, <2>3 DEF PostDone, Unlock, SegmentTypes
<1>7. CASE Announce \/ Sleep \/ Take \/ TakeDone \/ Post \/ \E ok \in BOOLEAN : ProcessBlock(ok)
  BY <1>1, <1>7 DEF Announce, Sleep, Take, TakeDone, Post, ProcessBlock, Lock, Unlock
<1>8. CASE \E loaded \in BOOLEAN : AnnounceDone(loaded)
  BY <1>1, <1>8 DEF AnnounceDone, Unlock
<1>9. CASE AttachFails \/ WakeSpuriously \/ Hang \/ Crash
  BY <1>1, <1>9 DEF AttachFails, WakeSpuriously, Hang, Crash
<1>10. CASE UNCHANGED vars
  BY <1>1, <1>10 DEF vars
<1>. QED BY <1>2, <1>3, <1>4, <1>5, <1>6, <1>7, <1>8, <1>9, <1>10 DEF Next, Process, WorkerStep, Teardown

\* and of the worker.
LEMMA WorkerTypesStep ==
    ASSUME Types, [Next]_vars PROVE WorkerTypes'
<1>. USE DEF Types, hosted, Alive, Gone
<1>1. ASSUME UNCHANGED hosted, worker' \in {worker} \cup Alive \cup Gone \cup {"none"} PROVE WorkerTypes'
  BY <1>1 DEF WorkerTypes
<1>2. CASE SetParameter \/ PrepareReturns \/ ProcessContended \/ Reset
  BY <1>1, <1>2 DEF SetParameter, PrepareReturns, PrepareSucceeds, PrepareFails, ProcessContended, Reset
<1>3. CASE Prepare
  <2>1. Silence \in [Frame -> Nat] /\ 0 \in 0..MaxFrames
    BY SizeAssumption DEF Silence
  <2>. QED BY <1>3, <2>1 DEF Prepare, NoScratch, WorkerTypes
<1>4. ASSUME NEW n \in Frame, ProcessPublished(n) PROVE WorkerTypes'
  BY <1>1, <1>4 DEF ProcessPublished, Publish, Signalled
<1>5. CASE Teardown
  BY <1>1, <1>5 DEF Teardown, AskToTerminate, Kill, Reap, Signalled
<1>6. CASE Announce \/ Sleep \/ Take \/ Post \/ PostDone
  BY <1>1, <1>6 DEF Announce, Sleep, Take, Post, PostDone
<1>7. CASE \E loaded \in BOOLEAN : AnnounceDone(loaded)
  BY <1>1, <1>7 DEF AnnounceDone
<1>8. CASE TakeDone
  <2>1. /\ request.seq \in Nat /\ request.frames \in 0..MaxFrames /\ request.param \in Nat
        /\ request.input \in [Frame -> Nat]
    BY DEF SegmentTypes
  <2>2. Overwrite(scratch.input, request.frames, request.input) \in [Frame -> Nat]
    BY <2>1, Overwritten DEF WorkerTypes
  <2>3. handled' \in Nat /\ UNCHANGED applied /\ worker' \in {"exited", "processing"}
    BY <1>8, <2>1 DEF TakeDone, TakenSeq
  <2>4. scratch' \in [frames : 0..MaxFrames, param : Nat, input : [Frame -> Nat], ok : BOOLEAN]
    <3>. DEFINE input == Overwrite(scratch.input, request.frames, request.input)
    <3>1. \/ UNCHANGED scratch
          \/ scratch' = [frames |-> request.frames, param |-> request.param, input |-> input, ok |-> FALSE]
      BY <1>8 DEF TakeDone
    <3>2. input \in [Frame -> Nat]
      BY <2>2
    <3>. HIDE DEF input
    <3>3. CASE UNCHANGED scratch
      BY <3>3 DEF WorkerTypes
    <3>4. CASE scratch' = [frames |-> request.frames, param |-> request.param, input |-> input, ok |-> FALSE]
      BY <2>1, <3>2, <3>4
    <3>. QED BY <3>1, <3>3, <3>4
  <2>. QED BY <2>3, <2>4 DEF WorkerTypes
<1>9. ASSUME NEW ok \in BOOLEAN, ProcessBlock(ok) PROVE WorkerTypes'
  <2>1. scratch' = [scratch EXCEPT !.ok = ok, !.input = scratch.input] /\ UNCHANGED handled /\ worker' = "processed"
    BY <1>9 DEF ProcessBlock, PluginInput
  <2>2. scratch' \in [frames : 0..MaxFrames, param : Nat, input : [Frame -> Nat], ok : BOOLEAN]
    BY <2>1 DEF WorkerTypes
  <2>3. applied' \in Nat
    BY <1>9 DEF ProcessBlock, WorkerTypes
  <2>. QED BY <2>1, <2>2, <2>3 DEF WorkerTypes
<1>10. CASE AttachFails \/ WakeSpuriously \/ Hang \/ Crash
  BY <1>1, <1>10 DEF AttachFails, WakeSpuriously, Hang, Crash
<1>11. CASE UNCHANGED vars
  BY <1>1, <1>11 DEF vars
<1>. QED BY <1>2, <1>3, <1>4, <1>5, <1>6, <1>7, <1>8, <1>9, <1>10, <1>11 DEF Next, Process, WorkerStep

LEMMA TypesStep ==
    ASSUME Types, [Next]_vars PROVE Types'
BY ClientTypesStep, SegmentTypesStep, WorkerTypesStep DEF Types
-----------------------------------------------------------------------------
\* Every block that was sent has a length and the value wanted then.
LEMMA SentBlocks ==
    ASSUME Types
    PROVE  \A k \in 1..Len(sent) : sent[k] \in [frames : Frame, wanted : Nat]
<1>. DEFINE Blocks == [frames : Frame, wanted : Nat]
<1>1. sent \in Seq(Blocks)
  BY DEF Types, ClientTypes
<1>. HIDE DEF Blocks
<1>2. \A k \in 1..Len(sent) : sent[k] \in Blocks
  BY <1>1
<1>. QED BY <1>2 DEF Blocks

\* Publishing a block: it gets the next number, and its samples are over the old input.
LEMMA Publishing ==
    ASSUME Types, Numbered, NEW n \in Frame, ProcessPublished(n)
    PROVE  /\ client = "ready" /\ mutex = "free" /\ request.command = "process" /\ request.seq = Len(sent)
           /\ Len(sent') = Len(sent) + 1 /\ Len(sent) \in Nat
           /\ \A k \in 1..Len(sent) : sent'[k] = sent[k]
           /\ sent'[Len(sent) + 1].frames = n /\ sent'[Len(sent) + 1].wanted = wanted
           /\ request'.seq = Len(sent) + 1 /\ request'.command = "process"
           /\ request'.frames = n /\ request'.param = Parameters
           /\ \A i \in Frame : request'.input[i] = IF i <= n THEN Len(sent) + 1 ELSE request.input[i]
           /\ UNCHANGED <<wanted, client, response, mutex, handled, scratch, applied>>
           /\ worker' = worker \/ (worker = "asleep" /\ worker' = "checking")
<1>1. client = "ready" /\ mutex = "free" /\ request.command = "process" /\ request.seq = Len(sent)
  BY DEF ProcessPublished, Numbered
<1>2. sent' = Append(sent, [frames |-> n, wanted |-> wanted]) /\ sent \in Seq([frames : Frame, wanted : Nat])
      /\ [frames |-> n, wanted |-> wanted] \in [frames : Frame, wanted : Nat]
  BY DEF ProcessPublished, Publish, Types, ClientTypes
<1>3. /\ Len(sent') = Len(sent) + 1 /\ Len(sent) \in Nat
      /\ \A k \in 1..Len(sent) : sent'[k] = sent[k]
      /\ sent'[Len(sent) + 1] = [frames |-> n, wanted |-> wanted]
  BY <1>2
<1>4. /\ n \in 0..MaxFrames /\ request.input \in [Frame -> Nat]
      /\ [i \in Frame |-> Len(sent) + 1] \in [Frame -> Nat]
  BY <1>3, SizeAssumption DEF Frame, Types, SegmentTypes
<1>5. request' = [seq |-> Len(sent) + 1, command |-> "process", frames |-> n, param |-> Parameters,
                  input |-> Overwrite(request.input, n, [i \in Frame |-> Len(sent) + 1])]
  BY <1>1 DEF ProcessPublished, Publish
<1>6. \A i \in Frame : request'.input[i] = IF i <= n THEN Len(sent) + 1 ELSE request.input[i]
  <2>1. request'.input = Overwrite(request.input, n, [i \in Frame |-> Len(sent) + 1])
    BY <1>5
  <2>. QED BY <2>1 DEF Overwrite
<1>7. UNCHANGED <<wanted, client, response, mutex, handled, scratch, applied>>
  BY DEF ProcessPublished, hosted
<1>8. worker' = worker \/ (worker = "asleep" /\ worker' = "checking")
  <2>1. worker' = Signalled
    BY DEF ProcessPublished, Publish
  <2>. QED BY <2>1 DEF Signalled
<1>. QED BY <1>1, <1>3, <1>5, <1>6, <1>7, <1>8

\* Taking a block: the worker copies it over what it had.
LEMMA Taking ==
    ASSUME Types, Numbered, TakeDone, request.command = "process"
    PROVE  /\ handled' = Len(sent) /\ request.seq = Len(sent) /\ Len(sent) \in Nat \ {0}
           /\ worker' = "processing"
           /\ scratch'.frames = request.frames /\ scratch'.param = request.param
           /\ \A i \in Frame : scratch'.input[i] = IF i <= request.frames THEN request.input[i] ELSE scratch.input[i]
<1>1. /\ request.frames \in 0..MaxFrames /\ request.input \in [Frame -> Nat] /\ scratch.input \in [Frame -> Nat]
      /\ Len(sent) \in Nat /\ handled \in Nat
  BY DEF Types, ClientTypes, SegmentTypes, WorkerTypes
<1>2. request.seq = Len(sent) /\ Len(sent) # 0 /\ handled' = Len(sent)
  BY <1>1 DEF TakeDone, TakenSeq, Numbered
<1>3. worker' = "processing" /\ scratch' = [frames |-> request.frames, param |-> request.param,
        input |-> Overwrite(scratch.input, request.frames, request.input), ok |-> FALSE]
  BY DEF TakeDone
<1>4. \A i \in Frame : scratch'.input[i] = IF i <= request.frames THEN request.input[i] ELSE scratch.input[i]
  <2>1. scratch'.input = Overwrite(scratch.input, request.frames, request.input)
    BY <1>3
  <2>. QED BY <2>1 DEF Overwrite
<1>. QED BY <1>1, <1>2, <1>3, <1>4

\* Answering: the worker's copy goes over the last output, unless the plug-in failed.
LEMMA Posting ==
    ASSUME Types, Numbered, PostDone
    PROVE  /\ response'.seq = handled /\ response'.ok = scratch.ok /\ response'.param = applied
           /\ handled \in 1..Len(sent)
           /\ \A i \in Frame : response'.output[i] = IF scratch.ok /\ i <= scratch.frames
                                                     THEN scratch.input[i] ELSE response.output[i]
           /\ UNCHANGED <<client, request, handled, scratch, applied, sent, heard, wanted, lastResponse, stallBlocks>>
           /\ worker = "posting" /\ worker' = "checking" /\ mutex' = "free"
<1>1. scratch.frames \in 0..MaxFrames /\ scratch.input \in [Frame -> Nat] /\ response.output \in [Frame -> Nat]
  BY DEF Types, SegmentTypes, WorkerTypes
<1>2. handled \in 1..Len(sent)
  BY DEF PostDone, Numbered, Busy
<1>3. response' = [seq |-> handled, ok |-> scratch.ok,
                   output |-> IF scratch.ok THEN Overwrite(response.output, scratch.frames, scratch.input)
                              ELSE response.output,
                   param |-> applied]
  BY DEF PostDone
<1>4. \A i \in Frame : response'.output[i] = IF scratch.ok /\ i <= scratch.frames
                                             THEN scratch.input[i] ELSE response.output[i]
  <2>1. response'.output = IF scratch.ok THEN Overwrite(response.output, scratch.frames, scratch.input)
                           ELSE response.output
    BY <1>3
  <2>. QED BY <2>1 DEF Overwrite
<1>. QED BY <1>2, <1>3, <1>4 DEF PostDone, Unlock, chain, session, hosted
-----------------------------------------------------------------------------
\* The numbers keep their order: the client counts on only under the mutex, and the worker
\* answers what it took.
LEMMA NumberedStep ==
    ASSUME Types, Numbered, [Next]_vars PROVE Numbered'
<1>. USE DEF chain, session, segment, hosted
<1>0. Len(sent) \in Nat /\ request.seq \in Nat /\ response.seq \in Nat /\ handled \in Nat
  BY DEF Types, ClientTypes, SegmentTypes, WorkerTypes
<1>1. ASSUME UNCHANGED <<request, response, sent, handled, applied, mutex>>,
             \/ client' \in {client, "off"}
             \/ client \in {"preparing", "ready"} /\ client' \in {"ready", "terminating"},
             worker' \in {worker, "none", "dead", "exited", "asleep", "checking", "hung"}
      PROVE  Numbered'
  BY <1>1 DEF Numbered, Holding, Busy
<1>2. CASE SetParameter \/ PrepareReturns \/ ProcessContended \/ Reset
  BY <1>1, <1>2 DEF SetParameter, PrepareReturns, PrepareSucceeds, PrepareFails, ProcessContended, Reset
<1>3. CASE Kill \/ Reap \/ Sleep \/ AttachFails \/ WakeSpuriously \/ Hang \/ Crash
  BY <1>1, <1>3 DEF Kill, Reap, Sleep, AttachFails, WakeSpuriously, Hang, Crash
<1>4. CASE Prepare
  BY <1>4 DEF Prepare, NoRequest, NoResponse, Numbered, Holding, Busy
<1>5. ASSUME NEW n \in Frame, ProcessPublished(n) PROVE Numbered'
  BY <1>0, <1>5, Publishing DEF Numbered, Holding, Busy
<1>6. CASE AskToTerminate
  <2>1. request'.seq = request.seq + 1 /\ request'.command = "terminate"
    BY <1>6, Leaving DEF Types
  <2>2. /\ request.command = "process" /\ client' = "reaping"
        /\ UNCHANGED <<response, sent, handled, applied, mutex>> /\ mutex = "free"
        /\ worker' = worker \/ (worker = "asleep" /\ worker' = "checking")
    BY <1>6 DEF AskToTerminate, Signalled, Numbered
  <2>. QED BY <1>0, <2>1, <2>2 DEF Numbered, Holding, Busy
<1>7. CASE Announce \/ \E loaded \in BOOLEAN : AnnounceDone(loaded)
  BY <1>7 DEF Announce, AnnounceDone, Lock, Unlock, Numbered, Holding, Busy
<1>8. CASE Take
  BY <1>8 DEF Take, Lock, Numbered, Holding, Busy
<1>9. CASE TakeDone
  <2>1. UNCHANGED <<request, response, sent, client, applied>> /\ handled' = request.seq /\ mutex' = "free"
    BY <1>9 DEF TakeDone, TakenSeq, Unlock
  <2>2. CASE request.command = "process"
    BY <1>0, <1>9, <2>1, <2>2, Taking DEF Numbered, Holding, Busy
  <2>3. CASE request.command = "terminate"
    <3>1. worker' = "exited"
      BY <1>9, <2>3 DEF TakeDone
    <3>. QED BY <1>0, <2>1, <2>3, <3>1 DEF Numbered, Holding, Busy
  <2>. QED BY <2>2, <2>3 DEF Types, SegmentTypes
<1>10. ASSUME NEW ok \in BOOLEAN, ProcessBlock(ok) PROVE Numbered'
  BY <1>10 DEF ProcessBlock, Numbered, Holding, Busy
<1>11. CASE Post
  BY <1>11 DEF Post, Lock, Numbered, Holding, Busy
<1>12. CASE PostDone
  BY <1>0, <1>12, Posting DEF Numbered, Holding, Busy
<1>13. CASE UNCHANGED vars
  BY <1>1, <1>13 DEF vars
<1>. QED BY <1>2, <1>3, <1>4, <1>5, <1>6, <1>7, <1>8, <1>9, <1>10, <1>11, <1>12, <1>13 DEF Next, Process, WorkerStep, Teardown

\* A request that is being copied cannot be overwritten, and an answered one no longer
\* matters.
LEMMA WholeStep ==
    ASSUME Types, Numbered, Whole, [Next]_vars PROVE Whole'
<1>. USE DEF chain, session, segment, hosted
<1>0. /\ Len(sent) \in Nat /\ request.seq \in Nat /\ response.seq \in Nat /\ handled \in Nat
      /\ \A k \in 1..Len(sent) : sent[k].frames \in Frame
      /\ \A n \in Frame : n \in Nat /\ \A i \in 1..n : i \in Frame
  <2>1. Len(sent) \in Nat /\ request.seq \in Nat /\ response.seq \in Nat /\ handled \in Nat
    BY DEF Types, ClientTypes, SegmentTypes, WorkerTypes
  <2>2. \A k \in 1..Len(sent) : sent[k].frames \in Frame
    <3>1. \A k \in 1..Len(sent) : sent[k] \in [frames : Frame, wanted : Nat]
      BY SentBlocks
    <3>. QED BY <3>1
  <2>3. \A n \in Frame : n \in Nat /\ \A i \in 1..n : i \in Frame
    BY SizeAssumption DEF Frame
  <2>. QED BY <2>1, <2>2, <2>3
<1>1. ASSUME UNCHANGED <<request, response, sent, handled, scratch>>, worker' \in Busy => worker \in Busy
      PROVE  Whole'
  BY <1>1 DEF Whole, ResponseIsWhole
<1>2. CASE SetParameter \/ PrepareReturns \/ ProcessContended \/ Reset
  BY <1>1, <1>2 DEF SetParameter, PrepareReturns, PrepareSucceeds, PrepareFails, ProcessContended, Reset, Busy, Gone
<1>3. CASE Kill \/ Reap \/ Sleep \/ AttachFails \/ WakeSpuriously \/ Hang \/ Crash
  BY <1>1, <1>3 DEF Kill, Reap, Sleep, AttachFails, WakeSpuriously, Hang, Crash, Busy
<1>4. CASE Announce \/ Take \/ Post \/ \E loaded \in BOOLEAN : AnnounceDone(loaded)
  BY <1>1, <1>4 DEF Announce, Take, Post, AnnounceDone, Busy
<1>5. CASE Prepare
  BY <1>5 DEF Prepare, NoRequest, NoResponse, Whole, ResponseIsWhole, Busy
<1>6. ASSUME NEW n \in Frame, ProcessPublished(n) PROVE Whole'
  <2>1. request'.frames = sent'[request'.seq].frames /\ \A i \in 1..request'.frames : request'.input[i] = request'.seq
    <3>1. request'.seq = Len(sent) + 1 /\ request'.frames = n /\ sent'[Len(sent) + 1].frames = n
      BY <1>6, Publishing
    <3>2. \A i \in 1..n : request'.input[i] = Len(sent) + 1
      BY <1>0, <1>6, Publishing
    <3>. QED BY <3>1, <3>2
  <2>2. worker' \in Busy =>
           scratch'.frames = sent'[handled'].frames /\ \A i \in 1..scratch'.frames : scratch'.input[i] = handled'
    <3>1. worker' \in Busy => worker \in Busy
      BY <1>6, Publishing DEF Busy
    <3>2. UNCHANGED <<scratch, handled>> /\ \A k \in 1..Len(sent) : sent'[k] = sent[k]
      BY <1>6, Publishing
    <3>. QED BY <3>1, <3>2 DEF Whole, Numbered
  <2>3. ResponseIsWhole'
    <3>1. response' = response /\ \A k \in 1..Len(sent) : sent'[k] = sent[k]
      BY <1>6, Publishing
    <3>2. response.ok => response.seq \in 1..Len(sent)
      BY <1>0 DEF Numbered
    <3>. QED BY <3>1, <3>2 DEF Whole, ResponseIsWhole
  <2>. QED BY <2>1, <2>2, <2>3 DEF Whole
<1>7. CASE AskToTerminate
  <2>1. /\ request'.command = "terminate" /\ UNCHANGED <<response, sent, handled, scratch>>
        /\ worker' = worker \/ (worker = "asleep" /\ worker' = "checking")
    BY <1>7, Leaving DEF AskToTerminate, Signalled, Types
  <2>. QED BY <2>1 DEF Whole, ResponseIsWhole, Busy
<1>8. CASE TakeDone
  <2>1. UNCHANGED <<request, response, sent>>
    BY <1>8 DEF TakeDone
  <2>2. CASE request.command = "process"
    <3>1. handled' = Len(sent) /\ request.seq = Len(sent) /\ Len(sent) # 0 /\ scratch'.frames = request.frames
      BY <1>8, <2>2, Taking
    <3>2. /\ request.frames = sent[Len(sent)].frames /\ request.frames \in Frame
          /\ \A i \in 1..request.frames : request.input[i] = Len(sent)
      BY <1>0, <2>2, <3>1 DEF Whole
    <3>3. \A i \in 1..request.frames : scratch'.input[i] = Len(sent)
      BY <1>0, <1>8, <2>2, <3>2, Taking
    <3>. QED BY <2>1, <3>1, <3>2, <3>3 DEF Whole, ResponseIsWhole
  <2>3. CASE request.command = "terminate"
    BY <1>8, <2>1, <2>3 DEF TakeDone, Whole, ResponseIsWhole, Busy
  <2>. QED BY <2>2, <2>3 DEF Types, SegmentTypes
<1>9. ASSUME NEW ok \in BOOLEAN, ProcessBlock(ok) PROVE Whole'
  <2>1. /\ scratch'.frames = scratch.frames /\ scratch'.input = scratch.input
        /\ UNCHANGED <<request, response, sent, handled>> /\ worker \in Busy
    BY <1>9 DEF ProcessBlock, PluginInput, Busy, Types, WorkerTypes
  <2>. QED BY <2>1 DEF Whole, ResponseIsWhole
<1>10. CASE PostDone
  <2>1. /\ UNCHANGED <<request, sent, handled, scratch>> /\ worker' \notin Busy /\ worker \in Busy
        /\ response'.seq = handled /\ response'.ok = scratch.ok /\ handled \in 1..Len(sent)
    BY <1>10, Posting DEF Busy
  <2>2. scratch.frames = sent[handled].frames /\ \A i \in 1..scratch.frames : scratch.input[i] = handled
    BY <2>1 DEF Whole
  <2>3. scratch.ok => \A i \in 1..scratch.frames : response'.output[i] = scratch.input[i]
    BY <1>0, <1>10, <2>1, <2>2, Posting
  <2>4. ResponseIsWhole'
    BY <2>1, <2>2, <2>3 DEF ResponseIsWhole
  <2>. QED BY <2>1, <2>4 DEF Whole
<1>11. CASE UNCHANGED vars
  BY <1>1, <1>11 DEF vars
<1>. QED BY <1>2, <1>3, <1>4, <1>5, <1>6, <1>7, <1>8, <1>9, <1>10, <1>11 DEF Next, Process, WorkerStep, Teardown

\* What is played is taken from the segment before the block in its place could be answered.
LEMMA LateStep ==
    ASSUME Types, Numbered, Late, [Next]_vars PROVE Late'
<1>. USE DEF chain, session, segment, hosted
<1>0. /\ Len(sent) \in Nat /\ request.seq \in Nat /\ response.seq \in Nat /\ handled \in Nat
      /\ \A i \in Frame : request.input[i] \in Nat /\ scratch.input[i] \in Nat /\ response.output[i] \in Nat
  BY DEF Types, ClientTypes, SegmentTypes, WorkerTypes
<1>1. ASSUME UNCHANGED <<request, response, sent, scratch, heard>> PROVE Late'
  BY <1>1 DEF Late, OneBlockLate
<1>2. CASE SetParameter \/ PrepareReturns \/ Reset \/ Kill \/ Reap
  BY <1>1, <1>2 DEF SetParameter, PrepareReturns, PrepareSucceeds, PrepareFails, Reset, Kill, Reap
<1>3. CASE Sleep \/ AttachFails \/ WakeSpuriously \/ Hang \/ Crash
  BY <1>1, <1>3 DEF Sleep, AttachFails, WakeSpuriously, Hang, Crash
<1>4. CASE Announce \/ Take \/ Post \/ \E loaded \in BOOLEAN : AnnounceDone(loaded)
  BY <1>1, <1>4 DEF Announce, Take, Post, AnnounceDone
<1>5. CASE ProcessContended
  <2>1. heard'.wet = 0 /\ UNCHANGED <<request, response, sent, scratch>>
    BY <1>5 DEF ProcessContended, Types, ClientTypes
  <2>. QED BY <2>1 DEF Late, OneBlockLate
<1>6. CASE Prepare
  <2>1. /\ request' = NoRequest /\ response' = NoResponse /\ scratch' = NoScratch
        /\ sent' = <<>> /\ heard' = NothingHeard
    BY <1>6 DEF Prepare
  <2>2. Len(sent') = 0 /\ heard'.wet = 0
    BY <2>1 DEF NothingHeard
  <2>3. \A i \in Frame : request'.input[i] = 0 /\ scratch'.input[i] = 0 /\ response'.output[i] = 0
    BY <2>1 DEF NoRequest, NoResponse, NoScratch, Silence
  <2>. QED BY <2>2, <2>3 DEF Late, OneBlockLate
<1>7. ASSUME NEW n \in Frame, ProcessPublished(n) PROVE Late'
  <2>1. /\ Len(sent') = Len(sent) + 1 /\ request.seq = Len(sent) /\ UNCHANGED <<response, scratch>>
        /\ \A i \in Frame : request'.input[i] = IF i <= n THEN Len(sent) + 1 ELSE request.input[i]
    BY <1>7, Publishing
  <2>2. \A i \in Frame : /\ request'.input[i] <= Len(sent')
                         /\ scratch'.input[i] <= Len(sent')
                         /\ response'.output[i] <= Len(sent')
    BY <1>0, <2>1 DEF Late
  <2>3. OneBlockLate'
    <3>1. CASE heard' = [heard EXCEPT !.wet = 0, !.samples = <<>>]
      <4>1. heard'.wet = 0
        BY <3>1 DEF Types, ClientTypes
      <4>. QED BY <4>1 DEF OneBlockLate
    <3>2. CASE heard' = [wet |-> response.seq, samples |-> Output(n), at |-> request.seq + 1,
                         played |-> response.seq,
                         times |-> IF heard.played = response.seq THEN heard.times + 1 ELSE 1]
      <4>1. heard'.wet = response.seq /\ heard'.samples = Output(n) /\ heard'.at = Len(sent) + 1
        BY <2>1, <3>2
      <4>2. response.seq <= Len(sent)
        BY DEF Numbered
      <4>3. \A i \in 1..n : i \in Frame
        BY SizeAssumption DEF Frame
      <4>4. \A i \in DOMAIN Output(n) : Output(n)[i] <= Len(sent) /\ Output(n)[i] \in Nat
        BY <1>0, <4>3 DEF Output, Late
      <4>. QED BY <1>0, <4>1, <4>2, <4>4 DEF OneBlockLate
    <3>. QED BY <1>7, <3>1, <3>2 DEF ProcessPublished, Play
  <2>. QED BY <2>2, <2>3 DEF Late
<1>8. CASE AskToTerminate
  <2>1. request'.input = request.input /\ UNCHANGED <<response, sent, scratch, heard>>
    BY <1>8, Leaving DEF AskToTerminate, Types
  <2>. QED BY <2>1 DEF Late, OneBlockLate
<1>9. CASE TakeDone
  <2>1. UNCHANGED <<request, response, sent, heard>>
    BY <1>9 DEF TakeDone
  <2>2. CASE request.command = "process"
    <3>1. \A i \in Frame : scratch'.input[i] <= Len(sent)
      BY <1>9, <2>2, Taking DEF Late
    <3>. QED BY <2>1, <3>1 DEF Late, OneBlockLate
  <2>3. CASE request.command = "terminate"
    BY <1>1, <1>9, <2>1, <2>3 DEF TakeDone
  <2>. QED BY <2>2, <2>3 DEF Types, SegmentTypes
<1>10. ASSUME NEW ok \in BOOLEAN, ProcessBlock(ok) PROVE Late'
  <2>1. scratch'.input = scratch.input /\ UNCHANGED <<request, response, sent, heard>>
    BY <1>10 DEF ProcessBlock, PluginInput, Types, WorkerTypes
  <2>. QED BY <2>1 DEF Late, OneBlockLate
<1>11. CASE PostDone
  <2>1. UNCHANGED <<request, sent, scratch, heard>>
    BY <1>11, Posting
  <2>2. \A i \in Frame : response'.output[i] <= Len(sent)
    BY <1>11, Posting DEF Late
  <2>. QED BY <2>1, <2>2 DEF Late, OneBlockLate
<1>12. CASE UNCHANGED vars
  BY <1>1, <1>12 DEF vars
<1>. QED BY <1>2, <1>3, <1>4, <1>5, <1>6, <1>7, <1>8, <1>9, <1>10, <1>11, <1>12 DEF Next, Process, WorkerStep, Teardown

\* The answer heard last is counted as stalled at least as often as it is played again, and
\* an answer is taken for a new one only when it is.
LEMMA FrozenStep ==
    ASSUME Types, Numbered, Frozen, [Next]_vars PROVE Frozen'
<1>. USE DEF chain, session, segment, hosted
<1>0. /\ response.seq \in Nat /\ handled \in Nat /\ lastResponse \in Nat /\ stallBlocks \in Nat
      /\ heard.played \in Nat /\ heard.times \in Nat /\ MaxStall \in Nat
  BY SizeAssumption DEF Types, ClientTypes, SegmentTypes, WorkerTypes
<1>1. ASSUME UNCHANGED <<response, client, lastResponse, stallBlocks, heard>> PROVE Frozen'
  BY <1>1 DEF Frozen, FrozenBounded
<1>2. ASSUME heard' = heard, client' \in {"off", "terminating", "reaping"} PROVE Frozen'
  BY <1>2 DEF Frozen, FrozenBounded
<1>3. CASE SetParameter \/ Kill
  BY <1>1, <1>3 DEF SetParameter, Kill
<1>4. CASE PrepareFails \/ Reset \/ AskToTerminate \/ Reap
  BY <1>2, <1>4 DEF PrepareFails, Reset, AskToTerminate, Reap
<1>5. CASE Prepare
  <2>1. heard'.played = 0 /\ heard'.times = 0 /\ client' = "preparing"
    BY <1>5 DEF Prepare, NothingHeard
  <2>. QED BY <1>0, <2>1 DEF Frozen, FrozenBounded
<1>6. CASE PrepareSucceeds
  BY <1>0, <1>6 DEF PrepareSucceeds, Frozen, FrozenBounded
<1>7. CASE ProcessContended
  <2>1. /\ heard'.played = heard.played /\ heard'.times = heard.times
        /\ stallBlocks' \in Nat /\ stallBlocks' >= stallBlocks
        /\ UNCHANGED <<client, lastResponse, response>> /\ client = "ready"
    BY <1>0, <1>7 DEF ProcessContended, Stalled, Types, ClientTypes
  <2>. QED BY <1>0, <2>1 DEF Frozen, FrozenBounded
<1>8. ASSUME NEW n \in Frame, ProcessPublished(n) PROVE Frozen'
  <2>. DEFINE stalls == IF IsFresh THEN 0 ELSE Stalled(stallBlocks)
              wet == response.seq # 0 /\ response.ok /\ stalls <= MaxStall
  <2>1. /\ client = "ready" /\ client' = "ready" /\ response' = response
        /\ lastResponse' = response.seq /\ stallBlocks' = stalls
    BY <1>8 DEF ProcessPublished, Play
  <2>2. stalls \in Nat /\ (~IsFresh => stalls >= stallBlocks /\ (stalls <= MaxStall => stalls = stallBlocks + 1))
    BY <1>0 DEF Stalled
  <2>3. /\ heard.played <= lastResponse /\ lastResponse <= response.seq /\ heard.times <= MaxStall + 1
        /\ heard.played = lastResponse => heard.times <= stallBlocks + 1
    BY <2>1 DEF Frozen, FrozenBounded
  <2>4. CASE wet
    <3>1. /\ heard'.played = response.seq
          /\ heard'.times = IF heard.played = response.seq THEN heard.times + 1 ELSE 1
      BY <1>8, <2>4 DEF ProcessPublished, Play
    <3>2. heard.played = response.seq => ~IsFresh /\ heard.times <= stallBlocks + 1
      BY <1>0, <2>3 DEF IsFresh
    <3>3. heard'.times <= stalls + 1 /\ stalls <= MaxStall /\ heard'.times \in Nat
      <4>. HIDE DEF stalls
      <4>. QED BY <1>0, <2>2, <2>4, <3>1, <3>2
    <3>. HIDE DEF stalls, wet
    <3>. QED BY <1>0, <2>1, <2>2, <3>1, <3>3 DEF Frozen, FrozenBounded
  <2>5. CASE ~wet
    <3>1. heard' = [heard EXCEPT !.wet = 0, !.samples = <<>>]
      BY <1>8, <2>5 DEF ProcessPublished, Play
    <3>2. heard'.played = heard.played /\ heard'.times = heard.times
      BY <3>1 DEF Types, ClientTypes
    <3>3. heard.played = response.seq => ~IsFresh /\ heard.times <= stallBlocks + 1
      BY <1>0, <2>3 DEF IsFresh
    <3>. HIDE DEF stalls, wet
    <3>. QED BY <1>0, <2>1, <2>2, <2>3, <3>2, <3>3 DEF Frozen, FrozenBounded
  <2>. QED BY <2>4, <2>5
<1>9. CASE PostDone
  <2>1. /\ UNCHANGED <<client, lastResponse, stallBlocks, heard>>
        /\ response'.seq = handled /\ response.seq <= handled
    BY <1>9, Posting DEF Numbered
  <2>. QED BY <1>0, <2>1 DEF Frozen, FrozenBounded
<1>10. CASE Announce \/ Sleep \/ Take \/ TakeDone \/ Post
  BY <1>1, <1>10 DEF Announce, Sleep, Take, TakeDone, Post
<1>11. CASE (\E loaded \in BOOLEAN : AnnounceDone(loaded)) \/ \E ok \in BOOLEAN : ProcessBlock(ok)
  BY <1>1, <1>11 DEF AnnounceDone, ProcessBlock
<1>12. CASE AttachFails \/ WakeSpuriously \/ Hang \/ Crash
  BY <1>1, <1>12 DEF AttachFails, WakeSpuriously, Hang, Crash
<1>13. CASE UNCHANGED vars
  BY <1>1, <1>13 DEF vars
<1>. QED BY <1>3, <1>4, <1>5, <1>6, <1>7, <1>8, <1>9, <1>10, <1>11, <1>12, <1>13 DEF Next, Process, PrepareReturns, WorkerStep, Teardown

\* A block that repeats all values carries every change before it, also those whose own
\* block was overwritten or stayed dry.
LEMMA ResentStep ==
    ASSUME Resend, Types, Numbered, Resent, [Next]_vars PROVE Resent'
<1>. USE DEF chain, session, segment, hosted
<1>0. /\ Len(sent) \in Nat /\ request.seq \in Nat /\ response.seq \in Nat /\ handled \in Nat
      /\ applied \in Nat /\ wanted \in Nat
  BY DEF Types, ClientTypes, SegmentTypes, WorkerTypes
<1>1. \A k \in 1..Len(sent) : sent[k].wanted \in Nat
  <2>1. \A k \in 1..Len(sent) : sent[k] \in [frames : Frame, wanted : Nat]
    BY SentBlocks
  <2>. QED BY <2>1
<1>2. ASSUME UNCHANGED <<request, response, sent, handled, scratch, applied>>, wanted' \in {wanted, wanted + 1},
             \/ worker' \in {worker, "none", "dead", "exited", "hung", "announcing"}
             \/ worker' \in {"checking", "asleep", "taking"} /\ worker \in {"checking", "asleep"}
             \/ worker' = "posting" /\ worker = "processed"
      PROVE  Resent'
  BY <1>0, <1>1, <1>2 DEF Resent, WetHasTheParameters, Busy
<1>3. CASE SetParameter \/ PrepareReturns \/ ProcessContended \/ Reset
  BY <1>2, <1>3 DEF SetParameter, PrepareReturns, PrepareSucceeds, PrepareFails, ProcessContended, Reset
<1>4. CASE Kill \/ Reap \/ Sleep \/ AttachFails \/ WakeSpuriously \/ Hang \/ Crash
  BY <1>2, <1>4 DEF Kill, Reap, Sleep, AttachFails, WakeSpuriously, Hang, Crash
<1>5. CASE Announce \/ Take \/ Post
  BY <1>2, <1>5 DEF Announce, Take, Post
<1>6. CASE \E loaded \in BOOLEAN : AnnounceDone(loaded)
  BY <1>6 DEF AnnounceDone, Numbered, Resent, WetHasTheParameters, Busy
<1>7. CASE Prepare
  BY <1>7 DEF Prepare, NoRequest, NoResponse, Resent, WetHasTheParameters, Busy
<1>8. ASSUME NEW n \in Frame, ProcessPublished(n) PROVE Resent'
  <2>1. /\ Len(sent') = Len(sent) + 1 /\ sent'[Len(sent) + 1].wanted = wanted
        /\ \A k \in 1..Len(sent) : sent'[k] = sent[k]
        /\ request'.seq = Len(sent) + 1 /\ request'.param = wanted
        /\ UNCHANGED <<wanted, response, handled, scratch, applied>>
        /\ worker' = worker \/ (worker = "asleep" /\ worker' = "checking")
    <3>1. Parameters = wanted
      BY DEF Parameters
    <3>2. UNCHANGED <<wanted, response, handled, scratch, applied>>
      BY <1>8, Publishing
    <3>. QED BY <1>8, <3>1, <3>2, Publishing
  <2>2. \A k \in 1..Len(sent') : k \in 1..Len(sent) \/ k = Len(sent) + 1
    BY <1>0, <2>1
  <2>3. \A k \in 1..Len(sent') : sent'[k].wanted <= wanted'
    BY <1>0, <1>1, <2>1, <2>2 DEF Resent
  <2>4. \A j, k \in 1..Len(sent') : j <= k => sent'[j].wanted <= sent'[k].wanted
    <3>. SUFFICES ASSUME NEW j \in 1..Len(sent'), NEW k \in 1..Len(sent'), j <= k
                  PROVE  sent'[j].wanted <= sent'[k].wanted
      OBVIOUS
    <3>1. CASE k = Len(sent) + 1
      BY <2>1, <2>3, <3>1
    <3>2. CASE k \in 1..Len(sent)
      <4>1. j \in 1..Len(sent)
        BY <1>0, <3>2
      <4>. QED BY <2>1, <3>2, <4>1 DEF Resent
    <3>. QED BY <2>2, <3>1, <3>2
  <2>5. request'.param = sent'[request'.seq].wanted
    BY <2>1
  <2>6. /\ worker' \in Busy => scratch'.param = sent'[handled'].wanted
        /\ worker' \in {"processed", "posting"} => applied' = sent'[handled'].wanted
    BY <2>1 DEF Resent, Numbered, Busy
  <2>7. worker' \in {"checking", "asleep", "taking", "processing"} =>
          IF handled' = 0 THEN applied' = 0 ELSE handled' \in 1..Len(sent') /\ applied' <= sent'[handled'].wanted
    BY <1>0, <2>1 DEF Resent
  <2>8. WetHasTheParameters'
    <3>1. response.ok => response.seq \in 1..Len(sent)
      BY <1>0 DEF Numbered
    <3>. QED BY <2>1, <3>1 DEF Resent, WetHasTheParameters
  <2>. QED BY <2>3, <2>4, <2>5, <2>6, <2>7, <2>8 DEF Resent
<1>9. CASE AskToTerminate
  <2>1. /\ request'.command = "terminate" /\ UNCHANGED <<wanted, response, sent, handled, scratch, applied>>
        /\ worker' = worker \/ (worker = "asleep" /\ worker' = "checking")
    BY <1>9, Leaving DEF AskToTerminate, Signalled, Types
  <2>. QED BY <2>1 DEF Resent, WetHasTheParameters, Busy
<1>10. CASE TakeDone
  <2>1. UNCHANGED <<wanted, request, response, sent, applied>> /\ worker = "taking"
    BY <1>10 DEF TakeDone
  <2>2. CASE request.command = "process"
    <3>1. /\ handled' = Len(sent) /\ request.seq = Len(sent) /\ Len(sent) \in Nat \ {0}
          /\ worker' = "processing" /\ scratch'.param = request.param
      BY <1>10, <2>2, Taking
    <3>2. scratch'.param = sent[Len(sent)].wanted
      BY <2>2, <3>1 DEF Resent
    <3>3. applied <= sent[Len(sent)].wanted
      BY <1>0, <1>1, <2>1, <3>1 DEF Resent
    <3>. QED BY <2>1, <3>1, <3>2, <3>3 DEF Resent, WetHasTheParameters, Busy
  <2>3. CASE request.command = "terminate"
    <3>1. worker' = "exited"
      BY <1>10, <2>3 DEF TakeDone
    <3>. QED BY <2>1, <2>3, <3>1 DEF Resent, WetHasTheParameters, Busy
  <2>. QED BY <2>2, <2>3 DEF Types, SegmentTypes
<1>11. ASSUME NEW ok \in BOOLEAN, ProcessBlock(ok) PROVE Resent'
  <2>1. /\ scratch'.param = scratch.param /\ UNCHANGED <<wanted, request, response, sent, handled>>
        /\ worker = "processing" /\ worker' = "processed"
        /\ applied' = IF scratch.param = 0 THEN applied ELSE scratch.param
    BY <1>11 DEF ProcessBlock, PluginInput, Types, WorkerTypes
  <2>2. handled \in 1..Len(sent) /\ scratch.param = sent[handled].wanted /\ applied <= sent[handled].wanted
    BY <1>0, <2>1 DEF Resent, Numbered, Busy
  <2>3. applied' = sent[handled].wanted
    BY <1>0, <1>1, <2>1, <2>2
  <2>. QED BY <2>1, <2>2, <2>3 DEF Resent, WetHasTheParameters, Busy
<1>12. CASE PostDone
  <2>1. /\ UNCHANGED <<wanted, request, sent, handled, scratch, applied>> /\ worker = "posting" /\ worker' = "checking"
        /\ response'.seq = handled /\ response'.param = applied /\ handled \in 1..Len(sent)
    BY <1>12, Posting
  <2>2. applied = sent[handled].wanted
    BY <2>1 DEF Resent
  <2>. QED BY <1>0, <1>1, <2>1, <2>2 DEF Resent, WetHasTheParameters, Busy
<1>13. CASE UNCHANGED vars
  BY <1>2, <1>13 DEF vars
<1>. QED BY <1>3, <1>4, <1>5, <1>6, <1>7, <1>8, <1>9, <1>10, <1>11, <1>12, <1>13 DEF Next, Process, WorkerStep, Teardown
-----------------------------------------------------------------------------
\* Before the first prepare() there is no segment and nothing was sent.
LEMMA BridgeInit ==
    ASSUME Init PROVE BridgeInv /\ Resent
<1>1. Silence \in [Frame -> Nat] /\ 0 \in 0..MaxFrames /\ \A i \in Frame : Silence[i] = 0
  BY SizeAssumption DEF Silence
<1>2. SegmentTypes
  BY <1>1 DEF Init, SegmentTypes, NoRequest, NoResponse
<1>3. ClientTypes
  BY <1>2, Sampled DEF Init, ClientTypes, NothingHeard
<1>4. WorkerTypes
  BY <1>1 DEF Init, WorkerTypes, NoScratch
<1>5. Numbered /\ Whole /\ Frozen
  BY SizeAssumption DEF Init, NoRequest, NoResponse, NothingHeard, Numbered, Whole, ResponseIsWhole, Frozen, FrozenBounded,
     Holding, Busy
<1>6. Late
  BY <1>1 DEF Init, NoRequest, NoResponse, NoScratch, NothingHeard, Late, OneBlockLate
<1>7. Resent
  BY DEF Init, NoRequest, NoResponse, Resent, WetHasTheParameters, Busy
<1>. QED BY <1>2, <1>3, <1>4, <1>5, <1>6, <1>7 DEF BridgeInv, Types

\* The parts of the invariant hold together in every reachable state.
THEOREM BridgeInvariant == Spec => []BridgeInv
<1>1. Init => BridgeInv
  BY BridgeInit
<1>2. BridgeInv /\ [Next]_vars => BridgeInv'
  BY TypesStep, NumberedStep, WholeStep, LateStep, FrozenStep DEF BridgeInv
<1>. QED BY <1>1, <1>2, PTL DEF Spec

\* An answer is one whole request, although the worker copies it under the mutex and the
\* client goes on overwriting the segment (waitRequest() and postResponse() of the worker).
THEOREM AnswersAreWhole == Spec => []ResponseIsWhole
<1>1. BridgeInv => ResponseIsWhole
  BY DEF BridgeInv, Whole
<1>. QED BY <1>1, BridgeInvariant, PTL

\* A wet block was sent before the block it is played in place of (process() of the client).
THEOREM PlayedLate == Spec => []OneBlockLate
<1>1. BridgeInv => OneBlockLate
  BY DEF BridgeInv, Late
<1>. QED BY <1>1, BridgeInvariant, PTL

\* One answer is heard for at most maxStallBlocks blocks after its first (stallBlocks of the
\* client), through contended blocks and answers that come late.
THEOREM FreezeEnds == Spec => []FrozenBounded
<1>1. BridgeInv => FrozenBounded
  BY DEF BridgeInv, Frozen
<1>. QED BY <1>1, BridgeInvariant, PTL

\* Where every block repeats all parameter values, as for Waves plug-ins
\* (insertNeedsPersistentParameterQueue()), a block was processed with those the chain held when it was sent.
THEOREM ParametersArrive == Resend /\ Spec => []WetHasTheParameters
<1>1. SUFFICES ASSUME Resend PROVE Spec => []WetHasTheParameters
  OBVIOUS
<1>2. Init => BridgeInv /\ Resent
  BY BridgeInit
<1>3. BridgeInv /\ Resent /\ [Next]_vars => BridgeInv' /\ Resent'
  BY <1>1, TypesStep, NumberedStep, WholeStep, LateStep, FrozenStep, ResentStep DEF BridgeInv
<1>4. Resent => WetHasTheParameters
  BY DEF Resent
<1>. QED BY <1>2, <1>3, <1>4, PTL DEF Spec
=============================================================================
