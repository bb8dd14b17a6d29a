------------------------ MODULE RemoteDspStreamProofs ------------------------
(***************************************************************************)
(* Theorems about RemoteDspStream, for all settings, buffer targets, queue *)
(* limits and numbers of calls.                                            *)
(***************************************************************************)
EXTENDS RemoteDspStream, SequenceTheorems, TLAPS

Block == 1..MaxCalls

\* The blocks of a queue are in the order they came.
Rising(q) == \A i, j \in 1..Len(q) : i < j => q[i] < q[j]
-----------------------------------------------------------------------------
(***************************************************************************)
(* Queues of blocks                                                        *)
(***************************************************************************)

\* A queue that is not empty has a front and a rest.
LEMMA NonEmpty ==
    ASSUME NEW q \in Seq(Block), q # <<>>
    PROVE  \E n \in Nat : Len(q) = n + 1
<1>1. Len(q) \in Nat \ {0}
  BY EmptySeq
<1>2. \A m \in Nat \ {0} : m - 1 \in Nat /\ m = (m - 1) + 1
  OBVIOUS
<1>. QED BY <1>1, <1>2, Zenon

\* An empty queue has no blocks.
LEMMA EmptyQueue ==
    /\ <<>> \in Seq(Block) /\ Len(<<>>) = 0
    /\ Rising(<<>>) /\ ToSet(<<>>) = {}
BY EmptySeq DEF Rising, ToSet

\* The blocks of a queue are blocks.
LEMMA Members ==
    ASSUME NEW q \in Seq(Block)
    PROVE  ToSet(q) \subseteq Block
BY DEF ToSet

\* The front of a queue was there, and taking it keeps the order of the rest.
LEMMA Shortened ==
    ASSUME NEW q \in Seq(Block), q # <<>>
    PROVE  /\ Head(q) \in ToSet(q)
           /\ Tail(q) \in Seq(Block)
           /\ Len(Tail(q)) = Len(q) - 1
           /\ ToSet(Tail(q)) \subseteq ToSet(q)
           /\ Rising(q) => Rising(Tail(q)) /\ \A b \in ToSet(Tail(q)) : Head(q) < b
<1>1. PICK n \in Nat : Len(q) = n + 1
  BY NonEmpty
<1>2. /\ Tail(q) \in Seq(Block) /\ Len(Tail(q)) = n
      /\ Head(q) = q[1]
      /\ \A i \in 1..n : Tail(q)[i] = q[i + 1]
  BY <1>1
<1>3. /\ 1 \in 1..n + 1
      /\ \A i \in 1..n : i + 1 \in 1..n + 1 /\ 1 < i + 1
      /\ \A i, j \in 1..n : i < j => i + 1 < j + 1
  OBVIOUS
<1>4. ToSet(q) = {q[i] : i \in 1..n + 1} /\ ToSet(Tail(q)) = {Tail(q)[i] : i \in 1..n}
  <2>1. DOMAIN q = 1..n + 1 /\ DOMAIN Tail(q) = 1..n
    BY <1>1, <1>2
  <2>. QED BY <2>1, Zenon DEF ToSet
<1>5. Head(q) \in ToSet(q) /\ ToSet(Tail(q)) \subseteq ToSet(q)
  BY <1>2, <1>3, <1>4
<1>6. ASSUME Rising(q) PROVE Rising(Tail(q)) /\ \A b \in ToSet(Tail(q)) : Head(q) < b
  BY <1>1, <1>2, <1>3, <1>4, <1>6 DEF Rising
<1>7. n = (n + 1) - 1
  OBVIOUS
<1>. QED BY <1>1, <1>2, <1>5, <1>6, <1>7

\* A new block at the end of a queue.
LEMMA Extended ==
    ASSUME NEW q \in Seq(Block), NEW b \in Block
    PROVE  /\ Append(q, b) \in Seq(Block)
           /\ Len(Append(q, b)) = Len(q) + 1
           /\ ToSet(Append(q, b)) = ToSet(q) \cup {b}
           /\ Rising(q) /\ (\A a \in ToSet(q) : a < b) => Rising(Append(q, b))
<1>. DEFINE n == Len(q)
<1>1. n \in Nat
  OBVIOUS
<1>2. /\ Append(q, b) \in Seq(Block) /\ Len(Append(q, b)) = n + 1
      /\ \A i \in 1..n : Append(q, b)[i] = q[i]
      /\ Append(q, b)[n + 1] = b
  OBVIOUS
<1>3. ToSet(q) = {q[i] : i \in 1..n} /\ ToSet(Append(q, b)) = {Append(q, b)[i] : i \in 1..n + 1}
  <2>1. DOMAIN q = 1..n /\ DOMAIN Append(q, b) = 1..n + 1
    BY <1>2
  <2>. QED BY <2>1, Zenon DEF ToSet
<1>4. 1..n + 1 = (1..n) \cup {n + 1}
  BY <1>1
<1>. HIDE DEF n
<1>5. ToSet(Append(q, b)) = ToSet(q) \cup {b}
  <2>. DEFINE new == Append(q, b)
  <2>1. /\ \A i \in 1..n : new[i] = q[i]
        /\ new[n + 1] = b
    BY <1>2
  <2>. HIDE DEF new
  <2>2. {new[i] : i \in 1..n + 1} = {new[i] : i \in 1..n} \cup {new[n + 1]}
    BY <1>4
  <2>. QED BY <1>3, <2>1, <2>2 DEF new
<1>6. ASSUME Rising(q), \A a \in ToSet(q) : a < b
      PROVE  Rising(Append(q, b))
  <2>1. \A i, j \in 1..n : i < j => q[i] < q[j]
    BY <1>6 DEF Rising, n
  <2>2. \A i \in 1..n : q[i] < b
    BY <1>3, <1>6
  <2>3. SUFFICES ASSUME NEW i \in 1..n + 1, NEW j \in 1..n + 1, i < j
                 PROVE  Append(q, b)[i] < Append(q, b)[j]
    BY <1>2 DEF Rising
  <2>4. i \in 1..n
    BY <1>1, <2>3
  <2>5. CASE j \in 1..n
    BY <1>2, <2>1, <2>3, <2>4, <2>5
  <2>6. CASE j = n + 1
    BY <1>2, <2>2, <2>4, <2>6
  <2>. QED BY <1>4, <2>3, <2>5, <2>6, Zenon
<1>. QED BY <1>2, <1>5, <1>6 DEF n

\* r is q with b at its end and, if that was too long, some of the front gone.
Takes(r, q, b, max) ==
    /\ r \in Seq(Block) /\ Len(r) <= max
    /\ ToSet(r) \subseteq ToSet(q) \cup {b}
    /\ Rising(q) /\ (\A a \in ToSet(q) : a < b) => Rising(r)

\* The bounded push of both queues.
LEMMA Bounded ==
    ASSUME NEW q \in Seq(Block), NEW b \in Block, NEW max \in Nat \ {0},
           Len(q) <= max,
           NEW r, r = IF Len(q) >= max THEN Append(Tail(q), b) ELSE Append(q, b)
    PROVE  Takes(r, q, b, max)
<1>1. Len(q) \in Nat
  OBVIOUS
<1>2. CASE Len(q) >= max
  <2>1. q # <<>>
    BY <1>1, <1>2, EmptySeq
  <2>2. /\ Tail(q) \in Seq(Block) /\ Len(Tail(q)) = Len(q) - 1
        /\ ToSet(Tail(q)) \subseteq ToSet(q)
        /\ Rising(q) => Rising(Tail(q))
    BY <2>1, Shortened
  <2>3. /\ r \in Seq(Block) /\ Len(r) = Len(Tail(q)) + 1
        /\ ToSet(r) = ToSet(Tail(q)) \cup {b}
        /\ Rising(Tail(q)) /\ (\A a \in ToSet(Tail(q)) : a < b) => Rising(r)
    BY <1>2, <2>2, Extended
  <2>4. \A n \in Nat : n - 1 + 1 = n
    OBVIOUS
  <2>5. Len(r) = Len(q)
    BY <1>1, <2>2, <2>3, <2>4, Zenon
  <2>6. Len(r) <= max
    BY <2>5
  <2>. QED BY <2>2, <2>3, <2>6 DEF Takes
<1>3. CASE ~(Len(q) >= max)
  <2>1. /\ r \in Seq(Block) /\ Len(r) = Len(q) + 1
        /\ ToSet(r) = ToSet(q) \cup {b}
        /\ Rising(q) /\ (\A a \in ToSet(q) : a < b) => Rising(r)
    BY <1>3, Extended
  <2>2. Len(r) <= max
    BY <1>1, <1>3, <2>1
  <2>. QED BY <2>1, <2>2 DEF Takes
<1>. QED BY <1>2, <1>3
-----------------------------------------------------------------------------
(***************************************************************************)
(* The inductive invariant.  What the runs check says nothing of a block   *)
(* that is in the renderer's hands, of the queues while it primes, or of   *)
(* the worker while no call is in progress; all of it decides the next     *)
(* step.                                                                   *)
(***************************************************************************)

\* A call that hands over a block has a number, and so has a block on its way.
Numbered ==
    /\ caller \in {"priming", "pushing"} => calls # 0
    /\ caller = "joining" /\ wish # None => calls # 0
    /\ worker = "exchanging" => inFlight # 0

\* Who may use the socket.  The renderer primes with an empty input queue, so
\* the worker cannot start an exchange meanwhile; and when a timely call returned
\* with nothing processed, the worker has nothing left to do.
Exclusive ==
    /\ outputQueue # <<>> => processed
    /\ caller = "priming" => inputQueue = <<>>
    /\ timely /\ caller = "priming" => worker # "exchanging" /\ outputQueue = <<>>
    /\ timely /\ caller = "idle" /\ ~processed => worker \in {"none", "asleep"}

\* A block handed over before now: before the current call while that call still
\* holds its own.
Earlier(b) == b <= calls /\ (caller \in {"priming", "pushing"} => b < calls)

\* A block on its way is of this configuration and will be played after popped.
OnItsWay(b) == popped < b /\ epoch <= b /\ Earlier(b)

\* The output queue, the block in flight, the input queue: in this order.
Ordered ==
    /\ epoch <= calls /\ Earlier(popped)
    /\ Rising(inputQueue) /\ Rising(outputQueue)
    /\ \A b \in ToSet(inputQueue) : OnItsWay(b)
    /\ \A b \in ToSet(outputQueue) : OnItsWay(b)
    /\ \A a \in ToSet(outputQueue), b \in ToSet(inputQueue) : a < b
    /\ worker = "exchanging" =>
           /\ OnItsWay(inFlight)
           /\ \A b \in ToSet(outputQueue) : b < inFlight
           /\ \A b \in ToSet(inputQueue) : inFlight < b

\* What was played last, primed blocks included, is older than what is coming.
Forward ==
    /\ Earlier(played)
    /\ caller = "joining" /\ wish # None => played < calls
    /\ timely =>
           /\ \A b \in ToSet(inputQueue) : played < b
           /\ \A b \in ToSet(outputQueue) : played < b
           /\ worker = "exchanging" => played < inFlight

StreamInv == TypeOK /\ Numbered /\ Exclusive /\ Ordered /\ Forward

\* A new stream is not configured and has no worker.
LEMMA InitStreamInv == Init => StreamInv
<1>. SUFFICES ASSUME Init PROVE StreamInv
  OBVIOUS
<1>1. TypeOK
  <2>1. <<>> \in Seq(1..MaxCalls) /\ Len(<<>>) <= MaxInput /\ Len(<<>>) <= MaxOutput
    BY EmptyQueue, QueueAssumption DEF Block
  <2>2. 0 \in 0..MaxCalls
    BY BoundAssumption
  <2>. QED BY <2>1, <2>2, Zenon DEF Init, TypeOK
<1>2. Numbered /\ Exclusive
  BY DEF Init, Numbered, Exclusive
<1>3. Ordered /\ Forward
  BY EmptyQueue DEF Init, Ordered, Forward, Earlier
<1>. QED BY <1>1, <1>2, <1>3 DEF StreamInv

\* A call starts: its block has the highest number.
LEMMA CallInv ==
    ASSUME StreamInv, NEW s \in Setting, Call(s)
    PROVE  StreamInv'
<1>. USE DEF StreamInv, Call, queues, history
<1>1. calls \in Nat /\ calls' = calls + 1 /\ calls' \in 0..MaxCalls
  BY BoundAssumption DEF TypeOK
<1>2. TypeOK'
  BY <1>1 DEF TypeOK
<1>3. Numbered'
  BY <1>1 DEF Numbered
<1>4. Exclusive'
  BY DEF Exclusive, Primes
<1>5. /\ epoch \in Nat /\ popped \in Nat /\ played \in Nat /\ inFlight \in Nat
      /\ ToSet(inputQueue) \subseteq Nat /\ ToSet(outputQueue) \subseteq Nat
  BY Members DEF TypeOK, Block
<1>6. \A b \in Nat : Earlier(b) => Earlier(b)'
  BY <1>1 DEF Earlier
<1>7. Ordered'
  BY <1>1, <1>5, <1>6 DEF Ordered, OnItsWay
<1>8. Forward'
  BY <1>5, <1>6 DEF Forward
<1>. QED BY <1>2, <1>3, <1>4, <1>7, <1>8

\* Other settings, or reset(): the queues stay until the worker is joined.
LEMMA RestartInv ==
    ASSUME StreamInv, NEW s \in Setting \cup {None}, Restart(s)
    PROVE  StreamInv'
<1>. USE DEF StreamInv, Restart, Stopped, queues, history
<1>1. /\ calls \in Nat /\ calls' \in 0..MaxCalls
      /\ calls' = calls + 1 \/ (s = None /\ calls' = calls)
  BY BoundAssumption DEF TypeOK
<1>2. TypeOK'
  BY <1>1 DEF TypeOK
<1>3. Numbered'
  BY <1>1 DEF Numbered
<1>4. Exclusive'
  BY DEF Exclusive
<1>5. /\ epoch \in Nat /\ popped \in Nat /\ played \in Nat /\ inFlight \in Nat
      /\ ToSet(inputQueue) \subseteq Nat /\ ToSet(outputQueue) \subseteq Nat
  BY Members DEF TypeOK, Block
<1>6. \A b \in Nat : Earlier(b) => Earlier(b)'
  BY <1>1 DEF Earlier
<1>7. worker' = "exchanging" => worker = "exchanging"
  OBVIOUS
<1>8. Ordered'
  BY <1>1, <1>5, <1>6, <1>7 DEF Ordered, OnItsWay
<1>9. caller' = "joining" /\ wish' # None => played < calls'
  BY <1>1, <1>5 DEF Forward, Earlier
<1>10. Forward'
  BY <1>5, <1>6, <1>7, <1>9 DEF Forward
<1>. QED BY <1>2, <1>3, <1>4, <1>8, <1>10

\* The worker is joined: nothing of the old configuration is left.
LEMMA JoinedInv ==
    ASSUME StreamInv, JoinedReset \/ JoinedConfigure
    PROVE  StreamInv'
<1>. USE DEF StreamInv, JoinedReset, JoinedConfigure, Joined, Discarded, history
<1>1. /\ inputQueue' = <<>> /\ outputQueue' = <<>> /\ processed' = FALSE
      /\ caller = "joining" /\ worker' \in {"none", "checking"}
  OBVIOUS
<1>2. TypeOK'
  <2>1. <<>> \in Seq(1..MaxCalls) /\ Len(<<>>) <= MaxInput /\ Len(<<>>) <= MaxOutput
    BY EmptyQueue, QueueAssumption DEF Block
  <2>2. 0 \in 0..MaxCalls
    BY BoundAssumption
  <2>. QED BY <1>1, <2>1, <2>2 DEF TypeOK
<1>3. Numbered'
  BY DEF Numbered
<1>4. Exclusive'
  BY DEF Exclusive
<1>5. calls' = calls /\ played' = played
  OBVIOUS
<1>6. /\ calls \in Nat /\ epoch \in Nat /\ popped \in Nat /\ played \in Nat
  BY DEF TypeOK
<1>7. Earlier(popped)' /\ epoch' <= calls'
  BY <1>6 DEF Earlier, Ordered, Numbered
<1>8. Ordered'
  BY <1>1, <1>7, EmptyQueue DEF Ordered
<1>9. Earlier(played)'
  BY <1>6 DEF Earlier, Forward
<1>10. Forward'
  BY <1>1, <1>9, EmptyQueue DEF Forward
<1>. QED BY <1>2, <1>3, <1>4, <1>8, <1>10

\* What the numbers of blocks are, as the steps below compare them.
LEMMA Numbers ==
    ASSUME StreamInv
    PROVE  /\ calls \in Nat /\ epoch \in Nat /\ popped \in Nat
           /\ played \in Nat /\ inFlight \in Nat
           /\ inputQueue \in Seq(Block) /\ outputQueue \in Seq(Block)
           /\ ToSet(inputQueue) \subseteq Block /\ ToSet(outputQueue) \subseteq Block
           /\ Block \subseteq Nat
<1>1. inputQueue \in Seq(Block) /\ outputQueue \in Seq(Block)
  BY DEF StreamInv, TypeOK, Block
<1>2. Block \subseteq Nat
  BY DEF Block
<1>3. ToSet(inputQueue) \subseteq Block /\ ToSet(outputQueue) \subseteq Block
  BY <1>1, Members
<1>. QED BY <1>1, <1>2, <1>3 DEF StreamInv, TypeOK

\* The block goes to the end of the input queue: it is the newest of all.
LEMMA PushInv ==
    ASSUME StreamInv, Push
    PROVE  StreamInv'
<1>. USE DEF StreamInv, Push, queues, history
<1>1. calls \in Block /\ \A a \in ToSet(inputQueue) : a < calls
  BY DEF TypeOK, Numbered, Block, Ordered, OnItsWay, Earlier
<1>2. inputQueue' = IF Len(inputQueue) >= MaxInput
                    THEN Append(Tail(inputQueue), calls) ELSE Append(inputQueue, calls)
  BY DEF Pushed
<1>3. inputQueue \in Seq(Block) /\ Len(inputQueue) <= MaxInput /\ MaxInput \in Nat \ {0}
  BY QueueAssumption DEF TypeOK, Block
<1>4. /\ inputQueue' \in Seq(Block) /\ Len(inputQueue') <= MaxInput
      /\ ToSet(inputQueue') \subseteq ToSet(inputQueue) \cup {calls}
      /\ Rising(inputQueue')
  <2>1. Takes(inputQueue', inputQueue, calls, MaxInput)
    BY ONLY <1>1, <1>2, <1>3, Bounded
  <2>. QED BY <1>1, <2>1 DEF Takes, Ordered
<1>5. worker' = "exchanging" <=> worker = "exchanging"
  OBVIOUS
<1>6. TypeOK'
  BY <1>4 DEF TypeOK, Block
<1>7. Numbered'
  BY <1>5 DEF Numbered
<1>8. Exclusive'
  BY DEF Exclusive
<1>9. \A b \in Nat : Earlier(b) => Earlier(b)' /\ b < calls
  BY DEF Earlier
<1>10. Earlier(calls)' /\ popped < calls /\ epoch <= calls /\ played < calls
  BY Numbers DEF Earlier, Ordered, Forward
<1>11. \A b \in ToSet(inputQueue') : OnItsWay(b)'
  BY <1>4, <1>9, <1>10, Numbers DEF Ordered, OnItsWay
<1>12. \A b \in ToSet(outputQueue) : OnItsWay(b)' /\ b < calls
  BY <1>9, Numbers DEF Ordered, OnItsWay
<1>13. worker = "exchanging" => OnItsWay(inFlight)' /\ inFlight < calls
  BY <1>9, Numbers DEF Ordered, OnItsWay
<1>14. Ordered'
  <2>1. epoch' <= calls' /\ Earlier(popped)' /\ Rising(inputQueue') /\ Rising(outputQueue')
    BY <1>1, <1>4, <1>9, <1>10, Numbers DEF Ordered
  <2>2. \A a \in ToSet(outputQueue), b \in ToSet(inputQueue') : a < b
    BY <1>4, <1>12 DEF Ordered
  <2>3. worker = "exchanging" => \A b \in ToSet(inputQueue') : inFlight < b
    BY <1>4, <1>13 DEF Ordered
  <2>. QED BY <1>5, <1>11, <1>12, <1>13, <2>1, <2>2, <2>3 DEF Ordered
<1>15. Forward'
  BY <1>4, <1>5, <1>9, <1>10, Numbers DEF Forward
<1>. QED BY <1>6, <1>7, <1>8, <1>14, <1>15

\* The renderer plays the front of the output queue.
LEMMA PlayInv ==
    ASSUME StreamInv, Play
    PROVE  StreamInv' /\ (timely => played' > played)
<1>. USE DEF StreamInv, Play, Popped
<1>1. outputQueue # <<>>
  BY EmptyQueue, TargetAssumption DEF Ready, TypeOK
<1>2. /\ Head(outputQueue) \in ToSet(outputQueue)
      /\ outputQueue' \in Seq(Block)
      /\ Len(outputQueue') = Len(outputQueue) - 1
      /\ ToSet(outputQueue') \subseteq ToSet(outputQueue)
      /\ Rising(outputQueue')
      /\ \A b \in ToSet(outputQueue') : Head(outputQueue) < b
  BY <1>1, Shortened, Numbers DEF Ordered
<1>3. Head(outputQueue) \in Block /\ Block \subseteq Nat
  BY <1>2, Numbers
<1>4. Len(outputQueue') <= MaxOutput
  <2>1. Len(outputQueue) \in Nat /\ Len(outputQueue) <= MaxOutput
    BY Numbers DEF TypeOK
  <2>2. \A n, m \in Nat : n <= m => n - 1 <= m
    OBVIOUS
  <2>. QED BY <1>2, <2>1, <2>2, QueueAssumption
<1>5. TypeOK'
  BY <1>2, <1>3, <1>4 DEF TypeOK, Block
<1>6. Numbered'
  BY DEF Numbered
<1>7. Exclusive'
  BY <1>1 DEF Exclusive
<1>8. \A b \in Nat : Earlier(b) <=> Earlier(b)'
  BY DEF Earlier
<1>9. /\ popped < Head(outputQueue) /\ Earlier(Head(outputQueue))
      /\ timely => played < Head(outputQueue)
  BY <1>2 DEF Ordered, OnItsWay, Forward
<1>10. /\ \A b \in ToSet(inputQueue) : Head(outputQueue) < b
       /\ worker = "exchanging" => Head(outputQueue) < inFlight
  BY <1>2 DEF Ordered
<1>11. Ordered'
  BY <1>2, <1>3, <1>8, <1>9, <1>10, Numbers DEF Ordered, OnItsWay
<1>12. Forward'
  BY <1>2, <1>3, <1>8, <1>9, <1>10, Numbers DEF Forward
<1>. QED BY <1>3, <1>5, <1>6, <1>7, <1>9, <1>11, <1>12, Numbers

\* The worker takes the front of the input queue: its place in the order stays.
LEMMA TakeInv ==
    ASSUME StreamInv, Take
    PROVE  StreamInv'
<1>. USE DEF StreamInv, Take, history
<1>1. /\ Head(inputQueue) \in ToSet(inputQueue)
      /\ inputQueue' \in Seq(Block)
      /\ Len(inputQueue') = Len(inputQueue) - 1
      /\ ToSet(inputQueue') \subseteq ToSet(inputQueue)
      /\ Rising(inputQueue')
      /\ \A b \in ToSet(inputQueue') : Head(inputQueue) < b
  BY Shortened, Numbers DEF Ordered
<1>2. inFlight' = Head(inputQueue) /\ inFlight' \in Block /\ Block \subseteq Nat
  BY <1>1, Numbers
<1>3. Len(inputQueue') <= MaxInput
  <2>1. Len(inputQueue) \in Nat /\ Len(inputQueue) <= MaxInput
    BY Numbers DEF TypeOK
  <2>2. \A n, m \in Nat : n <= m => n - 1 <= m
    OBVIOUS
  <2>. QED BY <1>1, <2>1, <2>2, QueueAssumption
<1>4. TypeOK'
  BY <1>1, <1>2, <1>3 DEF TypeOK, Block
<1>5. Numbered'
  BY <1>2 DEF Numbered, Block
<1>6. Exclusive'
  BY DEF Exclusive
<1>7. \A b \in Nat : Earlier(b) <=> Earlier(b)'
  BY DEF Earlier
<1>8. Ordered'
  BY <1>1, <1>2, <1>7, Numbers DEF Ordered, OnItsWay
<1>9. Forward'
  BY <1>1, <1>2, <1>7, Numbers DEF Forward
<1>. QED BY <1>4, <1>5, <1>6, <1>8, <1>9

\* An answered block goes to the end of the output queue.
LEMMA ExchangeAnsweredInv ==
    ASSUME StreamInv, ExchangeAnswered
    PROVE  StreamInv'
<1>. USE DEF StreamInv, ExchangeAnswered, history
<1>1. inFlight \in Block /\ \A a \in ToSet(outputQueue) : a < inFlight
  BY DEF TypeOK, Numbered, Block, Ordered
<1>2. outputQueue \in Seq(Block) /\ Len(outputQueue) <= MaxOutput /\ MaxOutput \in Nat \ {0}
  BY QueueAssumption DEF TypeOK, Block
<1>3. /\ outputQueue' \in Seq(Block) /\ Len(outputQueue') <= MaxOutput
      /\ ToSet(outputQueue') \subseteq ToSet(outputQueue) \cup {inFlight}
      /\ Rising(outputQueue')
  <2>1. outputQueue' = IF Len(outputQueue) >= MaxOutput
                       THEN Append(Tail(outputQueue), inFlight)
                       ELSE Append(outputQueue, inFlight)
    OBVIOUS
  <2>2. Takes(outputQueue', outputQueue, inFlight, MaxOutput)
    BY ONLY <1>1, <1>2, <2>1, Bounded
  <2>. QED BY <1>1, <2>2 DEF Takes, Ordered
<1>4. TypeOK'
  BY <1>3 DEF TypeOK, Block
<1>5. Numbered'
  BY DEF Numbered
<1>6. Exclusive'
  BY DEF Exclusive
<1>7. \A b \in Nat : Earlier(b) <=> Earlier(b)'
  BY DEF Earlier
<1>8. /\ OnItsWay(inFlight)
      /\ \A b \in ToSet(inputQueue) : inFlight < b
      /\ timely => played < inFlight
  BY DEF Ordered, Forward
<1>9. Ordered'
  BY <1>1, <1>3, <1>7, <1>8, Numbers DEF Ordered, OnItsWay
<1>10. Forward'
  BY <1>3, <1>7, <1>8, Numbers DEF Forward
<1>. QED BY <1>4, <1>5, <1>6, <1>9, <1>10

\* The renderer's own exchange is answered: nothing older is on its way, as long
\* as exchanges are timely.
LEMMA PrimeAnsweredInv ==
    ASSUME StreamInv, PrimeAnswered
    PROVE  StreamInv' /\ (timely => played' > played)
<1>. USE DEF StreamInv, PrimeAnswered, queues
<1>1. TypeOK'
  BY DEF TypeOK
<1>2. Numbered'
  BY DEF Numbered
<1>3. Exclusive'
  BY DEF Exclusive
<1>4. \A b \in Nat : Earlier(b) => Earlier(b)'
  BY Numbers DEF Earlier
<1>5. Ordered'
  BY <1>4, Numbers DEF Ordered, OnItsWay
<1>6. Earlier(played)'
  BY Numbers DEF Earlier
<1>7. timely => inputQueue = <<>> /\ outputQueue = <<>> /\ worker # "exchanging"
  BY DEF Exclusive
<1>8. Forward'
  BY <1>6, <1>7, EmptyQueue DEF Forward
<1>9. played < calls
  BY DEF Forward, Earlier
<1>. QED BY <1>1, <1>2, <1>3, <1>5, <1>8, <1>9, Numbers

\* The steps that move no block.
LEMMA QuietInv ==
    ASSUME StreamInv,
           \/ PrimeFails \/ Underrun
           \/ Return \/ Sleep \/ ExchangeStopped \/ ExchangeFails
    PROVE  StreamInv'
<1>. USE DEF StreamInv, PrimeFails, Underrun, Return, Sleep, ExchangeStopped,
             ExchangeFails, queues, history
<1>1. /\ UNCHANGED <<calls, wish, setting, stopRequested, inFlight, inputQueue,
                     outputQueue, processed, timely, epoch, popped, played>>
      /\ worker' = "exchanging" => worker = "exchanging"
      /\ \/ caller' = caller
         \/ caller = "priming" /\ caller' = "pushing"
         \/ caller = "waiting" /\ caller' = "idle"
  OBVIOUS
<1>2. TypeOK'
  BY DEF TypeOK
<1>3. Numbered'
  BY DEF Numbered
<1>4. Exclusive'
  BY DEF Exclusive
<1>5. \A b \in Nat : Earlier(b) => Earlier(b)'
  BY <1>1 DEF Earlier
<1>6. Ordered'
  BY <1>1, <1>5, Numbers DEF Ordered, OnItsWay
<1>7. Forward'
  BY <1>1, <1>5, Numbers DEF Forward
<1>. QED BY <1>2, <1>3, <1>4, <1>6, <1>7

\* Every step of either thread keeps the invariant.
LEMMA NextStreamInv == StreamInv /\ [Next]_vars => StreamInv'
<1>. SUFFICES ASSUME StreamInv, [Next]_vars PROVE StreamInv'
  OBVIOUS
<1>1. CASE \E s \in Setting : Call(s)
  BY <1>1, CallInv
<1>2. CASE \E s \in Setting \cup {None} : Restart(s)
  BY <1>2, RestartInv
<1>3. CASE CallerStep
  BY <1>3, JoinedInv, PrimeAnsweredInv, QuietInv, PushInv, PlayInv DEF CallerStep
<1>4. CASE WorkerStep
  BY <1>4, QuietInv, TakeInv, ExchangeAnsweredInv DEF WorkerStep
<1>5. CASE UNCHANGED vars
  BY <1>5 DEF vars, StreamInv, TypeOK, Numbered, Exclusive, Ordered, OnItsWay, Earlier,
              Forward
<1>. QED BY <1>1, <1>2, <1>3, <1>4, <1>5 DEF Next
-----------------------------------------------------------------------------
(***************************************************************************)
(* What the invariant gives                                                *)
(***************************************************************************)

\* Two queues in order, the second newer than the first, are one queue in order.
LEMMA Joining ==
    ASSUME NEW p \in Seq(Nat), NEW q \in Seq(Nat), Rising(p), Rising(q),
           \A a \in ToSet(p), b \in ToSet(q) : a < b
    PROVE  /\ p \o q \in Seq(Nat)
           /\ Rising(p \o q)
           /\ ToSet(p \o q) \subseteq ToSet(p) \cup ToSet(q)
<1>. DEFINE m == Len(p)
            n == Len(q)
            r == p \o q
<1>1. m \in Nat /\ n \in Nat
  OBVIOUS
<1>2. /\ r \in Seq(Nat) /\ Len(r) = m + n
      /\ \A i \in 1..m : r[i] = p[i]
      /\ \A i \in m + 1..m + n : r[i] = q[i - m] /\ i - m \in 1..n
  OBVIOUS
<1>3. DOMAIN p = 1..m /\ DOMAIN q = 1..n /\ DOMAIN r = 1..m + n
  BY <1>2
<1>4. \A i \in 1..m + n : i \in 1..m \/ i \in m + 1..m + n
  BY <1>1
<1>5. /\ \A i, j \in 1..m : i < j => p[i] < p[j]
      /\ \A i, j \in 1..n : i < j => q[i] < q[j]
  BY DEF Rising
<1>. HIDE DEF m, n, r
<1>6. (\A i \in 1..m : p[i] \in ToSet(p)) /\ (\A i \in 1..n : q[i] \in ToSet(q))
  BY <1>3 DEF ToSet
<1>7. \A i \in 1..m + n : r[i] \in ToSet(p) \cup ToSet(q)
  BY <1>2, <1>4, <1>6
<1>8. ToSet(r) \subseteq ToSet(p) \cup ToSet(q)
  BY <1>3, <1>7 DEF ToSet
<1>9. ASSUME NEW i \in 1..m + n, NEW j \in 1..m + n, i < j
      PROVE  r[i] < r[j]
  <2>1. CASE i \in 1..m /\ j \in 1..m
    BY <1>2, <1>5, <1>9, <2>1
  <2>2. CASE i \in 1..m /\ j \in m + 1..m + n
    BY <1>2, <1>6, <2>2
  <2>3. CASE i \in m + 1..m + n
    <3>1. j \in m + 1..m + n /\ i - m < j - m
      BY <1>1, <1>9, <2>3
    <3>. QED BY <1>2, <1>5, <2>3, <3>1
  <2>. QED BY <1>4, <2>1, <2>2, <2>3
<1>10. Rising(r)
  BY <1>2, <1>9 DEF Rising
<1>. QED BY <1>2, <1>8, <1>10 DEF r

\* A queue of one block.
LEMMA Single ==
    ASSUME NEW b \in Nat
    PROVE  <<b>> \in Seq(Nat) /\ Rising(<<b>>) /\ ToSet(<<b>>) = {b}
BY DEF Rising, ToSet

\* The line of blocks is in order because its four parts are.
LEMMA LineInOrder == StreamInv => InOrder
<1>. SUFFICES ASSUME StreamInv PROVE InOrder
  OBVIOUS
<1>. DEFINE flying == IF worker = "exchanging" THEN <<inFlight>> ELSE <<>>
            front == <<popped>> \o outputQueue
            middle == front \o flying
<1>1. /\ inputQueue \in Seq(Nat) /\ outputQueue \in Seq(Nat)
      /\ Rising(inputQueue) /\ Rising(outputQueue)
      /\ popped \in Nat /\ inFlight \in Nat
  <2>1. inputQueue \in Seq(Nat) /\ outputQueue \in Seq(Nat)
    BY Numbers, SeqMonotonic
  <2>. QED BY <2>1, Numbers, Zenon DEF StreamInv, Ordered
<1>2. <<popped>> \in Seq(Nat) /\ Rising(<<popped>>) /\ ToSet(<<popped>>) = {popped}
  BY <1>1, Single
<1>3. /\ flying \in Seq(Nat) /\ Rising(flying)
      /\ ToSet(flying) = IF worker = "exchanging" THEN {inFlight} ELSE {}
  <2>1. CASE worker = "exchanging"
    BY <1>1, <2>1, Single
  <2>2. CASE worker # "exchanging"
    BY <2>2, EmptyQueue, EmptySeq
  <2>. QED BY <2>1, <2>2
<1>4. /\ front \in Seq(Nat) /\ Rising(front)
      /\ ToSet(front) \subseteq {popped} \cup ToSet(outputQueue)
  <2>1. \A a \in ToSet(<<popped>>), b \in ToSet(outputQueue) : a < b
    BY <1>2 DEF StreamInv, Ordered, OnItsWay
  <2>. QED BY <1>1, <1>2, <2>1, Joining
<1>. HIDE DEF flying, front
<1>5. /\ middle \in Seq(Nat) /\ Rising(middle)
      /\ ToSet(middle) \subseteq {popped} \cup ToSet(outputQueue) \cup ToSet(flying)
  <2>1. \A a \in ToSet(front), b \in ToSet(flying) : a < b
    BY <1>3, <1>4 DEF StreamInv, Ordered, OnItsWay
  <2>. QED BY <1>3, <1>4, <2>1, Joining
<1>. HIDE DEF middle
<1>6. Rising(middle \o inputQueue)
  <2>1. \A a \in ToSet(middle), b \in ToSet(inputQueue) : a < b
    BY <1>3, <1>5 DEF StreamInv, Ordered, OnItsWay
  <2>. QED BY <1>1, <1>5, <2>1, Joining
<1>7. Line = middle \o inputQueue
  BY Zenon DEF Line, middle, front, flying
<1>. QED BY <1>6, <1>7 DEF InOrder, Rising

\* Both threads, every interleaving.
THEOREM StreamInvariance == Spec => []StreamInv
BY InitStreamInv, NextStreamInv, PTL DEF Spec

\* The queues hold numbered blocks and never more of them than their limits.
THEOREM TypeCorrect == Spec => []TypeOK
<1>1. StreamInv => TypeOK
  BY DEF StreamInv
<1>. QED BY <1>1, StreamInvariance, PTL

\* Blocks come back in the order they came and none comes back twice, whatever
\* the queues drop and the network loses.
THEOREM BlocksInOrder == Spec => []InOrder
BY LineInOrder, StreamInvariance, PTL

\* What waits to be played belongs to the configuration in force.
THEOREM NothingFromBefore == Spec => []OfThisConfiguration
<1>1. StreamInv => OfThisConfiguration
  <2>. SUFFICES ASSUME StreamInv, NEW i \in 1..Len(outputQueue)
                PROVE  outputQueue[i] >= epoch
    BY DEF OfThisConfiguration
  <2>1. outputQueue[i] \in ToSet(outputQueue)
    <3>1. DOMAIN outputQueue = 1..Len(outputQueue)
      BY Numbers
    <3>. QED BY <3>1, Zenon DEF ToSet
  <2>2. outputQueue[i] \in Nat /\ epoch \in Nat
    BY <2>1, Numbers
  <2>3. epoch <= outputQueue[i]
    BY <2>1 DEF StreamInv, Ordered, OnItsWay
  <2>. QED BY <2>2, <2>3
<1>. QED BY <1>1, StreamInvariance, PTL

\* The socket has one user at a time as long as exchanges are timely.
THEOREM OneUserOfTheSession == Spec => []SessionExclusive
<1>1. StreamInv => SessionExclusive
  BY DEF StreamInv, Exclusive, SessionExclusive
<1>. QED BY <1>1, StreamInvariance, PTL

\* What is played goes forward, over restarts and primed blocks too.
THEOREM PlayingGoesForward == Spec => PlaysForward
<1>1. StreamInv /\ [Next]_vars => [timely /\ played' # played => played' > played]_vars
  <2>. SUFFICES ASSUME StreamInv, Next, timely, played' # played
                PROVE  played' > played
    OBVIOUS
  <2>1. Play \/ PrimeAnswered
    BY DEF Next, CallerStep, WorkerStep, Call, Restart, JoinedReset, JoinedConfigure,
           PrimeFails, Push, Underrun, Return, Sleep, Take, ExchangeStopped,
           ExchangeFails, ExchangeAnswered, history
  <2>. QED BY <2>1, PlayInv, PrimeAnsweredInv
<1>. QED BY <1>1, StreamInvariance, PTL DEF Spec, PlaysForward
=============================================================================
