------------------------- MODULE ProjectHistoryProofs -------------------------
(***************************************************************************)
(* Theorems about ProjectHistory, for every set of documents, every set of *)
(* names and every depth.                                                  *)
(***************************************************************************)
EXTENDS ProjectHistory, SequenceTheorems, TLAPS

\* A stack that is not empty has a top and a rest.
LEMMA NonEmpty ==
    ASSUME NEW S, NEW s \in Seq(S), s # <<>>
    PROVE  \E n \in Nat : Len(s) = n + 1
<1>1. Len(s) \in Nat \ {0}
  BY EmptySeq
<1>2. \A m \in Nat \ {0} : m - 1 \in Nat /\ m = (m - 1) + 1
  OBVIOUS
<1>. QED BY <1>1, <1>2, Zenon

\* The two ends of a stack, as undo() and redo() take them apart.
LEMMA PopParts ==
    ASSUME NEW S, NEW s \in Seq(S), NEW n \in Nat, Len(s) = n + 1
    PROVE  /\ Front(s) \in Seq(S)
           /\ Len(Front(s)) = n
           /\ \A i \in 1..n : Front(s)[i] = s[i]
           /\ Last(s) = s[n + 1]
           /\ Last(s) \in S
BY DEF Front, Last

\* KeepLast() keeps the type of a sequence and bounds its length.
LEMMA KeepLastParts ==
    ASSUME NEW S, NEW s \in Seq(S), NEW n \in Nat
    PROVE  /\ KeepLast(s, n) \in Seq(S)
           /\ Len(KeepLast(s, n)) = IF Len(s) > n THEN n ELSE Len(s)
<1>1. Len(s) \in Nat /\ \A i \in 1..Len(s) : s[i] \in S
  BY LenProperties
<1>2. CASE Len(s) > n
  <2>1. Len(s) - n + 1 \in Int /\ \A i \in Len(s) - n + 1..Len(s) : s[i] \in S
    BY <1>1, <1>2
  <2>2. /\ SubSeq(s, Len(s) - n + 1, Len(s)) \in Seq(S)
        /\ Len(SubSeq(s, Len(s) - n + 1, Len(s))) =
               IF Len(s) - n + 1 <= Len(s) THEN Len(s) - (Len(s) - n + 1) + 1 ELSE 0
    BY <1>1, <2>1, SubSeqProperties
  <2>. QED BY <1>1, <1>2, <2>2 DEF KeepLast
<1>3. CASE ~(Len(s) > n)
  BY <1>3 DEF KeepLast
<1>. QED BY <1>2, <1>3

\* reset() with a depth of 0 leaves room for one step.
LEMMA DepthPositive == Depth \in Nat \ {0}
BY DepthAssumption DEF Depth

\* Normalizing gives snapshots, and none of them is the empty string.
LEMMA SnapshotParts ==
    /\ \A d \in Document : SnapshotOf(d) \in Snapshot
    /\ NoSnapshot \notin Snapshot
BY DocumentAssumption DEF Snapshot, SnapshotOf

\* A step is recorded with a name, the default one if it was given none.
LEMMA NameParts ==
    \A name \in StepName \cup {Unnamed} : NameOf(name) \in RecordedName
BY DEF NameOf, RecordedName
-----------------------------------------------------------------------------
(***************************************************************************)
(* Types and the depth.  Neither is inductive alone with the other: that   *)
(* redo() cannot outgrow the depth follows from the bound on both stacks   *)
(* together, and that a step has a name from the equal lengths in TypeOK.  *)
(***************************************************************************)

\* The inductive invariant.
HistoryInv == TypeOK /\ DepthBounded

\* A new history is empty.
LEMMA InitHistoryInv == Init => HistoryInv
<1>. SUFFICES ASSUME Init PROVE HistoryInv
  OBVIOUS
<1>1. <<>> \in Seq(Snapshot) /\ <<>> \in Seq(RecordedName) /\ Len(<<>>) = 0
  BY EmptySeq
<1>2. TypeOK
  BY <1>1 DEF Init, TypeOK
<1>3. DepthBounded
  BY <1>1, DepthPositive DEF Init, DepthBounded
<1>. QED BY <1>2, <1>3 DEF HistoryInv

\* recordEdit() drops the oldest step together with its name, and every redo.
LEMMA PushStepInv ==
    ASSUME HistoryInv, NEW d \in Document, NEW name \in StepName \cup {Unnamed},
           PushStep(d, name)
    PROVE  HistoryInv'
<1>1. currentSnapshot \in Snapshot
  BY DEF HistoryInv, TypeOK, PushStep, Records
<1>2. /\ Append(undoSnapshots, currentSnapshot) \in Seq(Snapshot)
      /\ Len(Append(undoSnapshots, currentSnapshot)) = Len(undoSnapshots) + 1
  BY <1>1 DEF HistoryInv, TypeOK
<1>3. /\ Append(undoStepNames, NameOf(name)) \in Seq(RecordedName)
      /\ Len(Append(undoStepNames, NameOf(name))) = Len(undoSnapshots) + 1
  BY NameParts DEF HistoryInv, TypeOK
<1>4. Depth \in Nat \ {0}
  BY DepthPositive
<1>5. /\ undoSnapshots' \in Seq(Snapshot)
      /\ Len(undoSnapshots') = IF Len(undoSnapshots) + 1 > Depth
                               THEN Depth ELSE Len(undoSnapshots) + 1
  BY <1>2, <1>4, KeepLastParts DEF PushStep
<1>6. /\ undoStepNames' \in Seq(RecordedName)
      /\ Len(undoStepNames') = IF Len(undoSnapshots) + 1 > Depth
                               THEN Depth ELSE Len(undoSnapshots) + 1
  BY <1>3, <1>4, KeepLastParts DEF PushStep
<1>7. /\ redoSnapshots' \in Seq(Snapshot) /\ Len(redoSnapshots') = 0
      /\ redoStepNames' \in Seq(RecordedName) /\ Len(redoStepNames') = 0
  BY EmptySeq DEF PushStep
<1>8. /\ currentSnapshot' \in Snapshot /\ currentSnapshot' # NoSnapshot
      /\ savedSnapshot' = savedSnapshot
  BY SnapshotParts DEF PushStep
<1>9. TypeOK'
  BY <1>5, <1>6, <1>7, <1>8 DEF HistoryInv, TypeOK
<1>10. DepthBounded'
  BY <1>4, <1>5, <1>7 DEF HistoryInv, TypeOK, DepthBounded
<1>. QED BY <1>9, <1>10 DEF HistoryInv

\* undo() moves a step and its name to the redo stacks.
LEMMA UndoInv == HistoryInv /\ Undo => HistoryInv'
<1>. SUFFICES ASSUME HistoryInv, Undo PROVE HistoryInv'
  OBVIOUS
<1>1. PICK n \in Nat : Len(undoSnapshots) = n + 1
  BY NonEmpty DEF HistoryInv, TypeOK, Undo, CanUndo
<1>2. /\ undoSnapshots' \in Seq(Snapshot) /\ Len(undoSnapshots') = n
      /\ currentSnapshot' \in Snapshot
  BY <1>1, PopParts DEF HistoryInv, TypeOK, Undo
<1>3. /\ undoStepNames' \in Seq(RecordedName) /\ Len(undoStepNames') = n
      /\ Last(undoStepNames) \in RecordedName
  BY <1>1, PopParts DEF HistoryInv, TypeOK, Undo
<1>4. currentSnapshot \in Snapshot
  BY DEF HistoryInv, TypeOK, Undo, CanUndo
<1>5. /\ redoSnapshots' \in Seq(Snapshot)
      /\ Len(redoSnapshots') = Len(redoSnapshots) + 1
  BY <1>4 DEF HistoryInv, TypeOK, Undo
<1>6. /\ redoStepNames' \in Seq(RecordedName)
      /\ Len(redoStepNames') = Len(redoSnapshots) + 1
  BY <1>3 DEF HistoryInv, TypeOK, Undo
<1>7. TypeOK'
  BY <1>2, <1>3, <1>5, <1>6, SnapshotParts DEF HistoryInv, TypeOK, Undo
<1>8. DepthBounded'
  BY <1>1, <1>2, <1>5, DepthPositive DEF HistoryInv, TypeOK, DepthBounded
<1>. QED BY <1>7, <1>8 DEF HistoryInv

\* redo() moves a step and its name back.
LEMMA RedoInv == HistoryInv /\ Redo => HistoryInv'
<1>. SUFFICES ASSUME HistoryInv, Redo PROVE HistoryInv'
  OBVIOUS
<1>1. PICK n \in Nat : Len(redoSnapshots) = n + 1
  BY NonEmpty DEF HistoryInv, TypeOK, Redo, CanRedo
<1>2. /\ redoSnapshots' \in Seq(Snapshot) /\ Len(redoSnapshots') = n
      /\ currentSnapshot' \in Snapshot
  BY <1>1, PopParts DEF HistoryInv, TypeOK, Redo
<1>3. /\ redoStepNames' \in Seq(RecordedName) /\ Len(redoStepNames') = n
      /\ Last(redoStepNames) \in RecordedName
  BY <1>1, PopParts DEF HistoryInv, TypeOK, Redo
<1>4. currentSnapshot \in Snapshot
  BY DEF HistoryInv, TypeOK, Redo, CanRedo
<1>5. /\ undoSnapshots' \in Seq(Snapshot)
      /\ Len(undoSnapshots') = Len(undoSnapshots) + 1
  BY <1>4 DEF HistoryInv, TypeOK, Redo
<1>6. /\ undoStepNames' \in Seq(RecordedName)
      /\ Len(undoStepNames') = Len(undoSnapshots) + 1
  BY <1>3 DEF HistoryInv, TypeOK, Redo
<1>7. TypeOK'
  BY <1>2, <1>3, <1>5, <1>6, SnapshotParts DEF HistoryInv, TypeOK, Redo
<1>8. DepthBounded'
  BY <1>1, <1>2, <1>5, DepthPositive DEF HistoryInv, TypeOK, DepthBounded
<1>. QED BY <1>7, <1>8 DEF HistoryInv

\* reset() empties the stacks.
LEMMA ResetInv ==
    ASSUME HistoryInv, NEW d \in Document, Reset(d)
    PROVE  HistoryInv'
<1>1. <<>> \in Seq(Snapshot) /\ <<>> \in Seq(RecordedName) /\ Len(<<>>) = 0
  BY EmptySeq
<1>2. TypeOK'
  BY <1>1, SnapshotParts DEF Reset, TypeOK
<1>3. DepthBounded'
  BY <1>1, DepthPositive DEF Reset, DepthBounded
<1>. QED BY <1>2, <1>3 DEF HistoryInv

\* markSaved(), and an edit adopted without a step, leave the stacks alone.
LEMMA AmendInv ==
    ASSUME HistoryInv, NEW d \in Document, MarkSaved(d) \/ AdoptFirst(d)
    PROVE  HistoryInv'
<1>1. currentSnapshot' \in Snapshot /\ currentSnapshot' # NoSnapshot
  BY SnapshotParts DEF MarkSaved, AdoptFirst
<1>2. savedSnapshot' \in Snapshot \cup {NoSnapshot}
  BY SnapshotParts DEF HistoryInv, TypeOK, MarkSaved, AdoptFirst
<1>3. UNCHANGED <<undoSnapshots, undoStepNames, redoSnapshots, redoStepNames>>
  BY DEF MarkSaved, AdoptFirst
<1>. QED BY <1>1, <1>2, <1>3 DEF HistoryInv, TypeOK, DepthBounded

\* Every operation keeps the types and the depth.
LEMMA NextHistoryInv == HistoryInv /\ [Next]_history => HistoryInv'
<1>. SUFFICES ASSUME HistoryInv, [Next]_history PROVE HistoryInv'
  OBVIOUS
<1>1. CASE UNCHANGED history
  BY <1>1 DEF HistoryInv, TypeOK, DepthBounded, history
<1>2. ASSUME NEW d \in Document, Reset(d) PROVE HistoryInv'
  BY <1>2, ResetInv
<1>3. ASSUME NEW d \in Document, MarkSaved(d) PROVE HistoryInv'
  BY <1>3, AmendInv
<1>4. ASSUME NEW d \in Document, NEW name \in StepName \cup {Unnamed},
             RecordEdit(d, name)
      PROVE  HistoryInv'
  <2>1. CASE AdoptFirst(d)
    BY <2>1, AmendInv
  <2>2. CASE PushStep(d, name)
    BY <2>2, PushStepInv
  <2>3. CASE UNCHANGED <<currentSnapshot, savedSnapshot, undoSnapshots, undoStepNames,
                         redoSnapshots, redoStepNames>>
    BY <2>3 DEF HistoryInv, TypeOK, DepthBounded
  <2>. QED BY <1>4, <2>1, <2>2, <2>3 DEF RecordEdit
<1>5. CASE Undo
  BY <1>5, UndoInv
<1>6. CASE Redo
  BY <1>6, RedoInv
<1>. QED BY <1>1, <1>2, <1>3, <1>4, <1>5, <1>6 DEF Next

\* Every history reached by any calls of the class has the inductive invariant.
THEOREM HistoryInvariance == Spec => []HistoryInv
<1>. QED BY InitHistoryInv, NextHistoryInv, PTL DEF Spec

\* undo() and redo() always find a name for the step they move, and a document
\* to come back to.
THEOREM TypeCorrect == Spec => []TypeOK
<1>1. HistoryInv => TypeOK
  BY DEF HistoryInv
<1>. QED BY <1>1, HistoryInvariance, PTL

\* Undo and redo together never hold more than maxDepth steps, for every depth.
THEOREM DepthIsBounded == Spec => []DepthBounded
<1>1. HistoryInv => DepthBounded
  BY DEF HistoryInv
<1>. QED BY <1>1, HistoryInvariance, PTL
-----------------------------------------------------------------------------
(***************************************************************************)
(* The stacks implement the line of states.  Undo and redo do not change   *)
(* what the two stacks and the current snapshot are end to end, and that   *)
(* is algebra of concatenation and reversal.                               *)
(***************************************************************************)

\* Concatenation is associative.
LEMMA Assoc ==
    ASSUME NEW S, NEW p \in Seq(S), NEW q \in Seq(S), NEW r \in Seq(S)
    PROVE  (p \o q) \o r = p \o (q \o r)
OBVIOUS

\* A stack is its rest with its top.
LEMMA FrontLast ==
    ASSUME NEW S, NEW s \in Seq(S), NEW n \in Nat, Len(s) = n + 1
    PROVE  Front(s) \o <<Last(s)>> = s
<1>1. /\ Front(s) \in Seq(S) /\ Len(Front(s)) = n
      /\ \A i \in 1..n : Front(s)[i] = s[i]
      /\ Last(s) = s[n + 1] /\ Last(s) \in S
  BY DEF Front, Last
<1>. DEFINE t == Front(s) \o <<Last(s)>>
<1>2. /\ t \in Seq(S) /\ Len(t) = n + 1
      /\ \A i \in 1..n : t[i] = Front(s)[i]
      /\ t[n + 1] = Last(s)
  BY ONLY <1>1, n \in Nat
<1>. HIDE DEF t
<1>3. \A i \in 1..n + 1 : t[i] = s[i]
  BY <1>1, <1>2
<1>4. t = s
  BY <1>2, <1>3, SeqEqual
<1>. QED BY <1>4 DEF t

\* The redo stack, laid out from its top.
LEMMA ReverseParts ==
    ASSUME NEW S, NEW r \in Seq(S)
    PROVE  /\ Reverse(r) \in Seq(S)
           /\ Len(Reverse(r)) = Len(r)
           /\ \A i \in 1..Len(r) : Reverse(r)[i] = r[Len(r) - i + 1]
<1>1. Len(r) \in Nat
  BY LenProperties
<1>2. \A i \in 1..Len(r) : Len(r) - i + 1 \in 1..Len(r)
  BY <1>1
<1>3. \A i \in 1..Len(r) : r[Len(r) - i + 1] \in S
  BY <1>2, LenProperties
<1>. QED BY <1>1, <1>3 DEF Reverse

\* What is pushed on the redo stack comes next on the line.
LEMMA ReverseAppend ==
    ASSUME NEW S, NEW r \in Seq(S), NEW c \in S
    PROVE  Reverse(Append(r, c)) = <<c>> \o Reverse(r)
<1>. DEFINE m == Len(r)
            a == Append(r, c)
            x == Reverse(r)
            y == Reverse(a)
            z == <<c>> \o x
<1>1. /\ m \in Nat /\ a \in Seq(S) /\ Len(a) = m + 1
      /\ \A i \in 1..m : a[i] = r[i]
      /\ a[m + 1] = c
  OBVIOUS
<1>. HIDE DEF a
<1>2. /\ x \in Seq(S) /\ Len(x) = m
      /\ \A i \in 1..m : x[i] = r[m - i + 1]
  BY ReverseParts
<1>3. /\ y \in Seq(S) /\ Len(y) = m + 1
      /\ \A i \in 1..m + 1 : y[i] = a[(m + 1) - i + 1]
  <2>1. /\ y \in Seq(S) /\ Len(y) = Len(a)
        /\ \A i \in 1..Len(a) : y[i] = a[Len(a) - i + 1]
    BY <1>1, ReverseParts
  <2>. QED BY <1>1, <2>1
<1>. HIDE DEF x, y, m
<1>4. /\ z \in Seq(S) /\ Len(z) = m + 1
      /\ z[1] = c
      /\ \A i \in 2..m + 1 : z[i] = x[i - 1]
  BY <1>1, <1>2
<1>. HIDE DEF z
<1>5. ASSUME NEW i \in 1..m + 1 PROVE y[i] = z[i]
  <2>1. CASE i = 1
    <3>1. (m + 1) - 1 + 1 = m + 1 /\ 1 \in 1..m + 1
      BY <1>1
    <3>. QED BY <1>1, <1>3, <1>4, <2>1, <3>1
  <2>2. CASE i # 1
    <3>1. i \in 2..m + 1 /\ i - 1 \in 1..m /\ (m + 1) - i + 1 \in 1..m
          /\ (m + 1) - i + 1 = m - (i - 1) + 1
      BY <1>1, <2>2
    <3>. QED BY <1>1, <1>2, <1>3, <1>4, <3>1
  <2>. QED BY <2>1, <2>2
<1>6. y = z
  BY <1>3, <1>4, <1>5, SeqEqual
<1>. QED BY <1>6 DEF a, x, y, z

\* The line that two stacks and what is between them make.
EndToEnd(u, c, r) == u \o <<c>> \o Reverse(r)

\* Undo takes a state from one side of the cursor to the other.
LEMMA UndoMoves ==
    ASSUME NEW S, NEW u \in Seq(S), NEW c \in S, NEW r \in Seq(S), u # <<>>
    PROVE  EndToEnd(Front(u), Last(u), Append(r, c)) = EndToEnd(u, c, r)
<1>. PICK n \in Nat : Len(u) = n + 1
  BY NonEmpty
<1>1. Reverse(Append(r, c)) = <<c>> \o Reverse(r)
  BY ReverseAppend
<1>2. Front(u) \o <<Last(u)>> = u
  BY FrontLast
<1>3. <<c>> \in Seq(S) /\ Reverse(r) \in Seq(S)
  BY ReverseParts
<1>4. (u \o <<c>>) \o Reverse(r) = u \o (<<c>> \o Reverse(r))
  BY <1>3, Assoc
<1>. QED BY <1>1, <1>2, <1>4, Zenon DEF EndToEnd

\* The name of an undone step stays where it is.
LEMMA UndoKeepsNames ==
    ASSUME NEW S, NEW u \in Seq(S), NEW r \in Seq(S), NEW n \in Nat, Len(u) = n + 1
    PROVE  Front(u) \o Reverse(Append(r, Last(u))) = u \o Reverse(r)
<1>1. Front(u) \in Seq(S) /\ Last(u) \in S
  BY PopParts
<1>2. Reverse(Append(r, Last(u))) = <<Last(u)>> \o Reverse(r)
  BY <1>1, ReverseAppend
<1>3. Front(u) \o <<Last(u)>> = u
  BY FrontLast
<1>4. <<Last(u)>> \in Seq(S) /\ Reverse(r) \in Seq(S)
  BY <1>1, ReverseParts
<1>5. (Front(u) \o <<Last(u)>>) \o Reverse(r) = Front(u) \o (<<Last(u)>> \o Reverse(r))
  BY <1>1, <1>4, Assoc
<1>. QED BY <1>2, <1>3, <1>5, Zenon

\* The redo stack on the line: its top first.
LEMMA ReverseTop ==
    ASSUME NEW S, NEW r \in Seq(S), NEW n \in Nat, Len(r) = n + 1
    PROVE  Reverse(r) = <<Last(r)>> \o Reverse(Front(r))
<1>1. Front(r) \in Seq(S) /\ Last(r) \in S
  BY PopParts
<1>2. Append(Front(r), Last(r)) = Front(r) \o <<Last(r)>>
  BY <1>1
<1>3. Front(r) \o <<Last(r)>> = r
  BY FrontLast
<1>4. Reverse(Append(Front(r), Last(r))) = <<Last(r)>> \o Reverse(Front(r))
  BY <1>1, ReverseAppend
<1>. QED BY <1>2, <1>3, <1>4, Zenon

\* Redo takes a state back.
LEMMA RedoMoves ==
    ASSUME NEW S, NEW u \in Seq(S), NEW c \in S, NEW r \in Seq(S), r # <<>>
    PROVE  EndToEnd(Append(u, c), Last(r), Front(r)) = EndToEnd(u, c, r)
<1>. PICK n \in Nat : Len(r) = n + 1
  BY NonEmpty
<1>1. Front(r) \in Seq(S) /\ Last(r) \in S
  BY PopParts
<1>2. Append(u, c) \in Seq(S) /\ Append(u, c) = u \o <<c>> /\ <<Last(r)>> \in Seq(S)
  BY <1>1
<1>3. Reverse(Front(r)) \in Seq(S)
  BY <1>1, ReverseParts
<1>4. (Append(u, c) \o <<Last(r)>>) \o Reverse(Front(r))
      = Append(u, c) \o (<<Last(r)>> \o Reverse(Front(r)))
  BY <1>2, <1>3, Assoc
<1>. QED BY <1>2, <1>4, ReverseTop, Zenon DEF EndToEnd

\* The name of a redone step stays where it is.
LEMMA RedoKeepsNames ==
    ASSUME NEW S, NEW u \in Seq(S), NEW r \in Seq(S), NEW n \in Nat, Len(r) = n + 1
    PROVE  Append(u, Last(r)) \o Reverse(Front(r)) = u \o Reverse(r)
<1>1. Front(r) \in Seq(S) /\ Last(r) \in S
  BY PopParts
<1>2. Append(u, Last(r)) = u \o <<Last(r)>> /\ <<Last(r)>> \in Seq(S)
  BY <1>1
<1>3. Reverse(Front(r)) \in Seq(S)
  BY <1>1, ReverseParts
<1>4. (u \o <<Last(r)>>) \o Reverse(Front(r)) = u \o (<<Last(r)>> \o Reverse(Front(r)))
  BY <1>2, <1>3, Assoc
<1>. QED BY <1>2, <1>4, ReverseTop, Zenon

\* The line has the current state under the cursor, and amending it there is
\* amending the current snapshot.
LEMMA AtCursor ==
    ASSUME NEW S, NEW u \in Seq(S), NEW c \in S, NEW q \in Seq(S)
    PROVE  /\ u \o <<c>> \o q \in Seq(S)
           /\ Len(u \o <<c>> \o q) = Len(u) + 1 + Len(q)
           /\ (u \o <<c>> \o q)[Len(u) + 1] = c
           /\ \A d \in S : [u \o <<c>> \o q EXCEPT ![Len(u) + 1] = d] = u \o <<d>> \o q
<1>. DEFINE n == Len(u)
            m == Len(q)
            line(e) == u \o <<e>> \o q
<1>1. n \in Nat /\ m \in Nat
  OBVIOUS
<1>2. ASSUME NEW e \in S
      PROVE  /\ line(e) \in Seq(S) /\ Len(line(e)) = n + 1 + m
             /\ \A i \in 1..n : line(e)[i] = u[i]
             /\ line(e)[n + 1] = e
             /\ \A i \in n + 2..n + 1 + m : line(e)[i] = q[i - (n + 1)]
  <2>1. /\ u \o <<e>> \in Seq(S) /\ Len(u \o <<e>>) = n + 1
        /\ \A i \in 1..n : (u \o <<e>>)[i] = u[i]
        /\ (u \o <<e>>)[n + 1] = e
    OBVIOUS
  <2>. QED BY <1>1, <2>1
<1>. HIDE DEF n, m, line
<1>3. n + 1 \in 1..n + 1 + m
  BY <1>1
<1>4. ASSUME NEW d \in S PROVE [line(c) EXCEPT ![n + 1] = d] = line(d)
  <2>. DEFINE t == [line(c) EXCEPT ![n + 1] = d]
  <2>1. /\ t \in Seq(S) /\ Len(t) = n + 1 + m
        /\ \A i \in 1..n + 1 + m : t[i] = IF i = n + 1 THEN d ELSE line(c)[i]
    BY <1>2, <1>3, ExceptSeq
  <2>. HIDE DEF t
  <2>2. ASSUME NEW i \in 1..n + 1 + m PROVE t[i] = line(d)[i]
    <3>1. t[i] = IF i = n + 1 THEN d ELSE line(c)[i]
      BY <2>1
    <3>2. CASE i = n + 1
      <4>1. line(d)[n + 1] = d
        BY <1>2
      <4>. QED BY <3>1, <3>2, <4>1
    <3>3. CASE i \in 1..n
      <4>1. line(c)[i] = u[i] /\ line(d)[i] = u[i]
        BY <1>2, <3>3
      <4>2. i # n + 1
        BY <1>1, <3>3
      <4>. QED BY <3>1, <4>1, <4>2
    <3>4. CASE i \in n + 2..n + 1 + m
      <4>1. line(c)[i] = q[i - (n + 1)] /\ line(d)[i] = q[i - (n + 1)]
        BY <1>2, <3>4
      <4>2. i # n + 1
        BY <1>1, <3>4
      <4>. QED BY <3>1, <4>1, <4>2
    <3>5. i \in 1..n \/ i = n + 1 \/ i \in n + 2..n + 1 + m
      BY <1>1
    <3>. QED BY <3>2, <3>3, <3>4, <3>5
  <2>3. t = line(d)
    BY <1>2, <2>1, <2>2, SeqEqual
  <2>. QED BY <2>3 DEF t
<1>. QED BY <1>2, <1>4 DEF n, m, line

\* What lies behind the cursor is cut off, and the oldest state if there is no
\* room for it.
LEMMA CutAtCursor ==
    ASSUME NEW S, NEW p \in Seq(S), NEW q \in Seq(S), NEW k \in {1, 2}
    PROVE  SubSeq(p \o q, k, Len(p)) = SubSeq(p, k, Len(p))
<1>. DEFINE n == Len(p)
<1>1. n \in Nat
  OBVIOUS
<1>2. \A i \in 1..n : (p \o q)[i] = p[i]
  OBVIOUS
<1>3. \A i \in 1..(n - k + 1) : i + k - 1 \in 1..n
  BY <1>1
<1>. QED BY <1>1, <1>2, <1>3

\* Trimming a stack that has one step too many drops the oldest.
LEMMA TrimmedPush ==
    ASSUME NEW S, NEW u \in Seq(S), NEW c \in S, NEW n \in Nat \ {0}, Len(u) <= n
    PROVE  /\ Len(u) + 1 > n => /\ KeepLast(Append(u, c), n) = SubSeq(Append(u, c), 2, Len(u) + 1)
                                /\ KeepLast(Append(u, c), n) = Append(SubSeq(u, 2, Len(u)), c)
           /\ ~(Len(u) + 1 > n) => KeepLast(Append(u, c), n) = Append(u, c)
<1>1. Len(u) \in Nat /\ Append(u, c) \in Seq(S) /\ Len(Append(u, c)) = Len(u) + 1
  OBVIOUS
<1>2. ASSUME Len(u) + 1 > n
      PROVE  /\ KeepLast(Append(u, c), n) = SubSeq(Append(u, c), 2, Len(u) + 1)
             /\ KeepLast(Append(u, c), n) = Append(SubSeq(u, 2, Len(u)), c)
  <2>1. Len(u) = n /\ Len(u) + 1 - n + 1 = 2
    BY <1>1, <1>2
  <2>2. KeepLast(Append(u, c), n) = SubSeq(Append(u, c), 2, Len(u) + 1)
    BY <1>1, <1>2, <2>1 DEF KeepLast
  <2>. DEFINE a == SubSeq(Append(u, c), 2, Len(u) + 1)
              b == Append(SubSeq(u, 2, Len(u)), c)
  <2>3. a \in Seq(S) /\ Len(a) = n /\ \A i \in 1..n : a[i] = Append(u, c)[i + 1]
    BY <1>1, <2>1
  <2>4. b \in Seq(S) /\ Len(b) = n /\ \A i \in 1..n : b[i] = IF i = n THEN c ELSE u[i + 1]
    BY <1>1, <2>1
  <2>5. \A i \in 1..n : Append(u, c)[i + 1] = IF i = n THEN c ELSE u[i + 1]
    BY <1>1, <2>1
  <2>. HIDE DEF a, b
  <2>6. a = b
    BY <2>3, <2>4, <2>5, SeqEqual
  <2>. QED BY <2>2, <2>6 DEF a, b
<1>3. ASSUME ~(Len(u) + 1 > n) PROVE KeepLast(Append(u, c), n) = Append(u, c)
  BY <1>1, <1>3 DEF KeepLast
<1>. QED BY <1>2, <1>3

\* The two sides of the refinement mapping that change.
Line == undoSnapshots \o <<currentSnapshot>> \o Reverse(redoSnapshots)
NameLine == undoStepNames \o Reverse(redoStepNames)

\* Before the first document the current state on the line is the empty string.
State == Snapshot \cup {NoSnapshot}

\* The stacks as stacks of states, and the parts of the line.
LEMMA LineParts ==
    ASSUME HistoryInv
    PROVE  /\ undoSnapshots \in Seq(State) /\ redoSnapshots \in Seq(State)
           /\ currentSnapshot \in State /\ Snapshot \subseteq State
           /\ undoStepNames \in Seq(RecordedName) /\ redoStepNames \in Seq(RecordedName)
           /\ Len(undoStepNames) = Len(undoSnapshots)
           /\ Len(redoStepNames) = Len(redoSnapshots)
           /\ Reverse(redoSnapshots) \in Seq(State)
           /\ Len(Reverse(redoSnapshots)) = Len(redoSnapshots)
           /\ Reverse(redoStepNames) \in Seq(RecordedName)
           /\ Line \in Seq(State)
           /\ Len(Line) = Len(undoSnapshots) + 1 + Len(redoSnapshots)
           /\ Line[Len(undoSnapshots) + 1] = currentSnapshot
<1>1. /\ undoSnapshots \in Seq(Snapshot) /\ redoSnapshots \in Seq(Snapshot)
      /\ Snapshot \subseteq State /\ currentSnapshot \in State
      /\ undoStepNames \in Seq(RecordedName) /\ redoStepNames \in Seq(RecordedName)
      /\ Len(undoStepNames) = Len(undoSnapshots)
      /\ Len(redoStepNames) = Len(redoSnapshots)
  BY DEF HistoryInv, TypeOK, State
<1>2. undoSnapshots \in Seq(State) /\ redoSnapshots \in Seq(State)
  BY <1>1, SeqMonotonic
<1>3. /\ Reverse(redoSnapshots) \in Seq(State)
      /\ Len(Reverse(redoSnapshots)) = Len(redoSnapshots)
      /\ Reverse(redoStepNames) \in Seq(RecordedName)
  BY <1>1, <1>2, ReverseParts
<1>4. /\ Line \in Seq(State)
      /\ Len(Line) = Len(undoSnapshots) + 1 + Len(Reverse(redoSnapshots))
      /\ Line[Len(undoSnapshots) + 1] = currentSnapshot
  <2>. DEFINE rest == Reverse(redoSnapshots)
  <2>1. rest \in Seq(State)
    BY <1>3
  <2>. HIDE DEF rest
  <2>2. /\ undoSnapshots \o <<currentSnapshot>> \o rest \in Seq(State)
        /\ Len(undoSnapshots \o <<currentSnapshot>> \o rest)
               = Len(undoSnapshots) + 1 + Len(rest)
        /\ (undoSnapshots \o <<currentSnapshot>> \o rest)[Len(undoSnapshots) + 1]
               = currentSnapshot
    BY ONLY <1>1, <1>2, <2>1, AtCursor
  <2>. QED BY <2>2, Zenon DEF Line, rest
<1>. QED BY <1>1, <1>2, <1>3, <1>4

\* Nothing lies beyond an empty redo stack.
LEMMA NothingToRedo ==
    ASSUME NEW S, NEW u \in Seq(S)
    PROVE  u \o Reverse(<<>>) = u
<1>1. <<>> \in Seq(S) /\ Len(<<>>) = 0
  BY EmptySeq
<1>2. Reverse(<<>>) \in Seq(S) /\ Len(Reverse(<<>>)) = 0
  BY <1>1, ReverseParts
<1>3. Reverse(<<>>) = <<>>
  BY <1>2, EmptySeq
<1>. QED BY <1>3

\* An empty history is an empty timeline.
LEMMA InitMaps == Init => Timeline!Init
<1>. SUFFICES ASSUME Init PROVE Timeline!Init
  OBVIOUS
<1>1. <<>> \in Seq(State) /\ Len(<<>>) = 0 /\ <<NoSnapshot>> \in Seq(State)
  BY EmptySeq DEF State
<1>2. <<NoSnapshot>> \o Reverse(<<>>) = <<NoSnapshot>> /\ <<>> \o Reverse(<<>>) = <<>>
  BY <1>1, NothingToRedo
<1>3. <<>> \o <<NoSnapshot>> = <<NoSnapshot>>
  BY <1>1
<1>. QED BY <1>1, <1>2, <1>3 DEF Init, Timeline!Init

\* undo() moves the cursor back and changes nothing else.
LEMMA UndoMaps ==
    ASSUME HistoryInv, Undo
    PROVE  Timeline!Undo
<1>1. PICK n \in Nat : Len(undoSnapshots) = n + 1
  BY NonEmpty DEF HistoryInv, TypeOK, Undo, CanUndo
<1>2. Len(undoSnapshots') = n
  <2>1. Len(Front(undoSnapshots)) = n
    BY <1>1, PopParts DEF HistoryInv, TypeOK
  <2>. QED BY <2>1 DEF Undo
<1>3. Line' = Line
  <2>1. /\ undoSnapshots \in Seq(State) /\ redoSnapshots \in Seq(State)
        /\ currentSnapshot \in State /\ undoSnapshots # <<>>
    BY LineParts DEF Undo, CanUndo
  <2>2. EndToEnd(Front(undoSnapshots), Last(undoSnapshots),
                 Append(redoSnapshots, currentSnapshot))
        = EndToEnd(undoSnapshots, currentSnapshot, redoSnapshots)
    BY <2>1, UndoMoves
  <2>. QED BY <2>2, Zenon DEF Undo, Line, EndToEnd
<1>4. NameLine' = NameLine
  BY <1>1, UndoKeepsNames, LineParts DEF Undo, NameLine
<1>5. Len(undoSnapshots) + 1 > 1 /\ Len(undoSnapshots') + 1 = (Len(undoSnapshots) + 1) - 1
  BY <1>1, <1>2
<1>6. UNCHANGED savedSnapshot
  BY DEF Undo
<1>. QED BY <1>3, <1>4, <1>5, <1>6 DEF Timeline!Undo, Line, NameLine

\* redo() moves it forward.
LEMMA RedoMaps ==
    ASSUME HistoryInv, Redo
    PROVE  Timeline!Redo
<1>1. PICK n \in Nat : Len(redoSnapshots) = n + 1
  BY NonEmpty DEF HistoryInv, TypeOK, Redo, CanRedo
<1>2. Len(undoSnapshots') = Len(undoSnapshots) + 1
  BY LineParts DEF Redo
<1>3. Line' = Line
  <2>1. /\ undoSnapshots \in Seq(State) /\ redoSnapshots \in Seq(State)
        /\ currentSnapshot \in State /\ redoSnapshots # <<>>
    BY LineParts DEF Redo, CanRedo
  <2>2. EndToEnd(Append(undoSnapshots, currentSnapshot), Last(redoSnapshots),
                 Front(redoSnapshots))
        = EndToEnd(undoSnapshots, currentSnapshot, redoSnapshots)
    BY <2>1, RedoMoves
  <2>. QED BY <2>2, Zenon DEF Redo, Line, EndToEnd
<1>4. NameLine' = NameLine
  BY <1>1, RedoKeepsNames, LineParts DEF Redo, NameLine
<1>5. Len(undoSnapshots) + 1 < Len(Line)
  BY <1>1, LineParts
<1>6. UNCHANGED savedSnapshot
  BY DEF Redo
<1>. QED BY <1>2, <1>3, <1>4, <1>5, <1>6 DEF Timeline!Redo, Line, NameLine

\* reset() starts a new line.
LEMMA ResetMaps ==
    ASSUME HistoryInv, NEW d \in Document, Reset(d)
    PROVE  Timeline!Reset(SnapshotOf(d))
<1>1. <<>> \in Seq(State) /\ Len(<<>>) = 0 /\ <<SnapshotOf(d)>> \in Seq(State)
  BY EmptySeq, SnapshotParts DEF State
<1>2. <<SnapshotOf(d)>> \o Reverse(<<>>) = <<SnapshotOf(d)>> /\ <<>> \o Reverse(<<>>) = <<>>
  BY <1>1, NothingToRedo
<1>3. <<>> \o <<SnapshotOf(d)>> = <<SnapshotOf(d)>>
  BY <1>1
<1>. QED BY <1>1, <1>2, <1>3 DEF Reset, Timeline!Reset

\* Amending the current snapshot amends the line at the cursor.
LEMMA AmendMaps ==
    ASSUME HistoryInv, NEW s \in Snapshot, currentSnapshot' = s,
           UNCHANGED <<undoSnapshots, undoStepNames, redoSnapshots, redoStepNames>>
    PROVE  Timeline!Amend(s)
<1>1. Line' = [Line EXCEPT ![Len(undoSnapshots) + 1] = s]
  <2>. DEFINE rest == Reverse(redoSnapshots)
  <2>1. /\ undoSnapshots \in Seq(State) /\ rest \in Seq(State)
        /\ currentSnapshot \in State /\ s \in State
    BY LineParts
  <2>2. rest' = rest
    OBVIOUS
  <2>. HIDE DEF rest
  <2>3. [undoSnapshots \o <<currentSnapshot>> \o rest EXCEPT ![Len(undoSnapshots) + 1] = s]
        = undoSnapshots \o <<s>> \o rest
    BY ONLY <2>1, AtCursor
  <2>. QED BY <2>2, <2>3, Zenon DEF Line, rest
<1>2. NameLine' = NameLine /\ Len(undoSnapshots') = Len(undoSnapshots)
  BY DEF NameLine
<1>. QED BY <1>1, <1>2 DEF Timeline!Amend, Line, NameLine

\* A recorded edit is a step of the line.
LEMMA PushStepMaps ==
    ASSUME HistoryInv, NEW d \in Document, NEW name \in StepName \cup {Unnamed},
           PushStep(d, name)
    PROVE  Timeline!Step(SnapshotOf(d), NameOf(name))
<1>. DEFINE s == SnapshotOf(d)
            u == Append(undoSnapshots, currentSnapshot)
            k == IF Len(undoSnapshots) + 1 > Depth THEN 2 ELSE 1
<1>1. Len(undoSnapshots) \in Nat /\ Len(redoSnapshots) \in Nat /\ Depth \in Nat \ {0}
  BY LineParts, DepthPositive
<1>2. Len(undoSnapshots) <= Depth
  BY <1>1 DEF HistoryInv, DepthBounded
<1>3. u \in Seq(State) /\ Len(u) = Len(undoSnapshots) + 1
      /\ u = undoSnapshots \o <<currentSnapshot>>
  BY LineParts
<1>4. s \in State /\ NameOf(name) \in RecordedName
  BY SnapshotParts, NameParts DEF State
<1>5. k \in {1, 2} /\ (k = 2 <=> Len(undoSnapshots) + 1 > Depth)
  OBVIOUS
<1>. HIDE DEF u, k, s
<1>6. Line[Len(undoSnapshots) + 1] \notin {NoSnapshot, s}
  BY LineParts DEF PushStep, Records, s
<1>7. SubSeq(Line, k, Len(undoSnapshots) + 1) = SubSeq(u, k, Len(u))
  BY <1>3, <1>5, CutAtCursor, LineParts DEF Line
<1>8. undoSnapshots' = SubSeq(u, k, Len(u))
  <2>1. SubSeq(u, 1, Len(u)) = u
    BY <1>3
  <2>2. undoSnapshots' = KeepLast(u, Depth)
    BY DEF PushStep, u
  <2>3. /\ Len(undoSnapshots) + 1 > Depth => KeepLast(u, Depth) = SubSeq(u, 2, Len(u))
        /\ ~(Len(undoSnapshots) + 1 > Depth) => KeepLast(u, Depth) = u
    BY <1>1, <1>2, <1>3, TrimmedPush, LineParts DEF u
  <2>. QED BY <1>5, <2>1, <2>2, <2>3
<1>9. undoSnapshots' \in Seq(State) /\ Len(undoSnapshots')
          = IF k = 2 THEN Len(undoSnapshots) ELSE Len(undoSnapshots) + 1
  BY <1>1, <1>3, <1>5, <1>8
<1>10. Line' = Append(SubSeq(Line, k, Len(undoSnapshots) + 1), s)
  <2>1. redoSnapshots' = <<>> /\ currentSnapshot' = s
    BY DEF PushStep, s
  <2>2. undoSnapshots' \o <<s>> \in Seq(State) /\ undoSnapshots' \o <<s>> = Append(undoSnapshots', s)
    BY <1>4, <1>9
  <2>3. undoSnapshots' \o <<s>> \o Reverse(<<>>) = undoSnapshots' \o <<s>>
    BY <2>2, NothingToRedo
  <2>. QED BY <1>7, <1>8, <2>1, <2>2, <2>3, Zenon DEF Line
<1>11. NameLine' = Append(SubSeq(NameLine, k, Len(undoSnapshots)), NameOf(name))
  <2>1. SubSeq(NameLine, k, Len(undoSnapshots)) = SubSeq(undoStepNames, k, Len(undoSnapshots))
    BY <1>5, CutAtCursor, LineParts DEF NameLine
  <2>2. undoStepNames' = Append(SubSeq(undoStepNames, k, Len(undoSnapshots)), NameOf(name))
    <3>1. SubSeq(undoStepNames, 1, Len(undoStepNames)) = undoStepNames
      BY LineParts
    <3>2. undoStepNames' = KeepLast(Append(undoStepNames, NameOf(name)), Depth)
      BY DEF PushStep
    <3>3. /\ Len(undoStepNames) + 1 > Depth =>
                 KeepLast(Append(undoStepNames, NameOf(name)), Depth)
                 = Append(SubSeq(undoStepNames, 2, Len(undoStepNames)), NameOf(name))
          /\ ~(Len(undoStepNames) + 1 > Depth) =>
                 KeepLast(Append(undoStepNames, NameOf(name)), Depth)
                 = Append(undoStepNames, NameOf(name))
      BY <1>1, <1>2, <1>4, TrimmedPush, LineParts
    <3>. QED BY <1>5, <3>1, <3>2, <3>3, LineParts
  <2>3. undoStepNames' \in Seq(RecordedName)
    BY <1>4, <2>2, LineParts, <1>1, <1>5
  <2>4. redoStepNames' = <<>>
    BY DEF PushStep
  <2>5. undoStepNames' \o Reverse(<<>>) = undoStepNames'
    BY <2>3, NothingToRedo
  <2>. QED BY <2>1, <2>2, <2>4, <2>5, Zenon DEF NameLine
<1>12. UNCHANGED savedSnapshot
  BY DEF PushStep
<1>13. (Len(undoSnapshots) + 1) - 1 = Len(undoSnapshots)
  BY <1>1
<1>14. Len(undoSnapshots') + 1 = IF Len(undoSnapshots) + 1 > Depth
                                 THEN Len(undoSnapshots) + 1
                                 ELSE (Len(undoSnapshots) + 1) + 1
  BY <1>5, <1>9
<1>. QED BY <1>6, <1>10, <1>11, <1>12, <1>13, <1>14, Zenon
         DEF Timeline!Step, Line, NameLine, k, s

\* Every call is a step of the timeline or leaves it as it is.
LEMMA NextMaps ==
    ASSUME HistoryInv, [Next]_history
    PROVE  [Timeline!Next]_(Timeline!timeline)
<1>1. ASSUME UNCHANGED history
      PROVE  UNCHANGED Timeline!timeline
  BY <1>1 DEF history, Timeline!timeline
<1>2. \A d \in Document : SnapshotOf(d) \in Snapshot
  BY SnapshotParts
<1>3. ASSUME NEW d \in Document, Reset(d) PROVE Timeline!Next
  BY <1>2, <1>3, ResetMaps DEF Timeline!Next
<1>4. ASSUME NEW d \in Document, MarkSaved(d) PROVE Timeline!Next
  <2>1. Timeline!Amend(SnapshotOf(d)) /\ savedSnapshot' = SnapshotOf(d)
    BY <1>2, <1>4, AmendMaps DEF MarkSaved
  <2>. QED BY <1>2, <2>1 DEF Timeline!Next, Timeline!Save
<1>5. ASSUME NEW d \in Document, AdoptFirst(d) PROVE Timeline!Next
  <2>1. Timeline!Amend(SnapshotOf(d)) /\ UNCHANGED savedSnapshot
    BY <1>2, <1>5, AmendMaps DEF AdoptFirst
  <2>2. Line[Len(undoSnapshots) + 1] = NoSnapshot
    BY <1>5, LineParts DEF AdoptFirst
  <2>. QED BY <1>2, <2>1, <2>2 DEF Timeline!Next, Timeline!Adopt, Line
<1>6. ASSUME NEW d \in Document, NEW name \in StepName \cup {Unnamed}, PushStep(d, name)
      PROVE  Timeline!Next
  BY <1>2, <1>6, NameParts, PushStepMaps DEF Timeline!Next
<1>7. ASSUME NEW d \in Document, NEW name \in StepName \cup {Unnamed}, RecordEdit(d, name)
      PROVE  [Timeline!Next]_(Timeline!timeline)
  BY <1>1, <1>5, <1>6, <1>7 DEF RecordEdit, history
<1>8. ASSUME Undo PROVE Timeline!Next
  BY <1>8, UndoMaps DEF Timeline!Next
<1>9. ASSUME Redo PROVE Timeline!Next
  BY <1>9, RedoMaps DEF Timeline!Next
<1>. QED BY <1>1, <1>3, <1>4, <1>7, <1>8, <1>9 DEF Next

\* The class keeps the promise of EditTimeline, for every depth.
THEOREM TimelineImplemented == Spec => ImplementsTimeline
BY InitMaps, NextMaps, HistoryInvariance, PTL
   DEF Spec, ImplementsTimeline, Timeline!Spec
=============================================================================
