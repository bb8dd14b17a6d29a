---------------------------- MODULE ProjectHistory ----------------------------
(***************************************************************************)
(* Undo, redo and dirty tracking of a project document: the class          *)
(* ProjectHistory (src/project/ProjectHistory.h, ProjectHistory.cpp).      *)
(*                                                                         *)
(* A document is a member of Document; only equality of documents matters  *)
(* to the class.  Its snapshot is the serialized document after routing    *)
(* normalization, so two documents with the same Normal form have the same *)
(* snapshot, and a snapshot is represented by that normal form.  Parsing a *)
(* snapshot back never fails: the parser only rejects a text without the   *)
(* format line that the serializer always writes.                          *)
(***************************************************************************)
EXTENDS Naturals, Sequences, SequencesExt

CONSTANTS
    Document,     \* project documents
    Normal,       \* the function from a document to its normalized form
    StepName,     \* names given to steps by the callers
    Unnamed,      \* the empty step name
    DefaultName,  \* kDefaultStepName, "Edit"
    NoSnapshot,   \* the empty string, before the first reset()
    MaxDepth      \* the constructor's maxDepth

ASSUME DocumentAssumption ==
    /\ Normal \in [Document -> Document]
    /\ \A d \in Document : Normal[Normal[d]] = Normal[d]
    /\ NoSnapshot \notin Document

ASSUME NameAssumption == Unnamed \notin StepName

ASSUME DepthAssumption == MaxDepth \in Nat

VARIABLES
    currentSnapshot,  \* snapshot of the document as the history knows it
    savedSnapshot,    \* snapshot of what was last saved (or reset to)
    undoSnapshots,    \* stacks, the top is the last element
    undoStepNames,
    redoSnapshots,
    redoStepNames

history == <<currentSnapshot, savedSnapshot, undoSnapshots, undoStepNames,
             redoSnapshots, redoStepNames>>

Snapshot == {Normal[d] : d \in Document}
RecordedName == StepName \cup {DefaultName}

\* The constructor turns a depth of 0 into 1.
Depth == IF MaxDepth = 0 THEN 1 ELSE MaxDepth

SnapshotOf(d) == Normal[d]

\* Mutant of KeepLast: the depth is off by one.
KeepOneMore(s, n) ==
    IF Len(s) > n + 1 THEN SubSeq(s, Len(s) - n, Len(s)) ELSE s

\* The last n elements of s, all of s when it is shorter.
KeepLast(s, n) ==
    IF Len(s) > n THEN SubSeq(s, Len(s) - n + 1, Len(s)) ELSE s

NameOf(n) == IF n = Unnamed THEN DefaultName ELSE n

IsDirty == currentSnapshot # savedSnapshot
CanUndo == undoSnapshots # <<>>
CanRedo == redoSnapshots # <<>>
-----------------------------------------------------------------------------
Init ==
    /\ currentSnapshot = NoSnapshot
    /\ savedSnapshot = NoSnapshot
    /\ undoSnapshots = <<>> /\ undoStepNames = <<>>
    /\ redoSnapshots = <<>> /\ redoStepNames = <<>>

\* reset(): forget everything, d is both current and saved.
Reset(d) ==
    /\ currentSnapshot' = SnapshotOf(d)
    /\ savedSnapshot' = SnapshotOf(d)
    /\ undoSnapshots' = <<>> /\ undoStepNames' = <<>>
    /\ redoSnapshots' = <<>> /\ redoStepNames' = <<>>

\* The first edit before any reset() is adopted without a step.
AdoptFirst(d) ==
    /\ currentSnapshot = NoSnapshot
    /\ currentSnapshot' = SnapshotOf(d)
    /\ UNCHANGED <<savedSnapshot, undoSnapshots, undoStepNames,
                   redoSnapshots, redoStepNames>>

\* Would recordEdit() return true for d?
Records(d) == currentSnapshot \notin {NoSnapshot, SnapshotOf(d)}

\* A recorded step: push the previous snapshot, drop the oldest steps beyond
\* the depth, forget the undone ones.
PushStep(d, name) ==
    /\ Records(d)
    /\ undoSnapshots' = KeepLast(Append(undoSnapshots, currentSnapshot), Depth)
    /\ undoStepNames' = KeepLast(Append(undoStepNames, NameOf(name)), Depth)
    /\ redoSnapshots' = <<>> /\ redoStepNames' = <<>>
    /\ currentSnapshot' = SnapshotOf(d)
    /\ UNCHANGED savedSnapshot

\* recordEdit(): its third outcome, the document did not change, leaves the
\* history alone.
RecordEdit(d, name) ==
    \/ AdoptFirst(d)
    \/ PushStep(d, name)
    \/ /\ currentSnapshot = SnapshotOf(d)
       /\ UNCHANGED <<currentSnapshot, savedSnapshot, undoSnapshots, undoStepNames,
                      redoSnapshots, redoStepNames>>

\* markSaved(): d becomes the current and the saved snapshot, the stacks stay.
MarkSaved(d) ==
    /\ currentSnapshot' = SnapshotOf(d)
    /\ savedSnapshot' = SnapshotOf(d)
    /\ UNCHANGED <<undoSnapshots, undoStepNames, redoSnapshots, redoStepNames>>

\* undo(): the caller's document becomes Last(undoSnapshots).
Undo ==
    /\ CanUndo
    /\ redoSnapshots' = Append(redoSnapshots, currentSnapshot)
    /\ redoStepNames' = Append(redoStepNames, Last(undoStepNames))
    /\ undoSnapshots' = Front(undoSnapshots)
    /\ undoStepNames' = Front(undoStepNames)
    /\ currentSnapshot' = Last(undoSnapshots)
    /\ UNCHANGED savedSnapshot

\* Mutant of Redo: the name is taken from the wrong end of the stack.
RedoNamedFromBottom ==
    /\ CanRedo
    /\ undoSnapshots' = Append(undoSnapshots, currentSnapshot)
    /\ undoStepNames' = Append(undoStepNames, Head(redoStepNames))
    /\ redoSnapshots' = Front(redoSnapshots)
    /\ redoStepNames' = Tail(redoStepNames)
    /\ currentSnapshot' = Last(redoSnapshots)
    /\ UNCHANGED savedSnapshot

\* redo(): the mirror image; it does not trim the undo stack.
Redo ==
    /\ CanRedo
    /\ undoSnapshots' = Append(undoSnapshots, currentSnapshot)
    /\ undoStepNames' = Append(undoStepNames, Last(redoStepNames))
    /\ redoSnapshots' = Front(redoSnapshots)
    /\ redoStepNames' = Front(redoStepNames)
    /\ currentSnapshot' = Last(redoSnapshots)
    /\ UNCHANGED savedSnapshot

Next ==
    \/ \E d \in Document : Reset(d) \/ MarkSaved(d)
    \/ \E d \in Document, name \in StepName \cup {Unnamed} : RecordEdit(d, name)
    \/ Undo
    \/ Redo

Spec == Init /\ [][Next]_history
-----------------------------------------------------------------------------
\* Every part of the state has its type, a step name goes with every snapshot on
\* a stack (undo() and redo() read the back of both), and where there are steps
\* there is a document (they push the current snapshot unchecked).
TypeOK ==
    /\ currentSnapshot \in Snapshot \cup {NoSnapshot}
    /\ savedSnapshot \in Snapshot \cup {NoSnapshot}
    /\ undoSnapshots \in Seq(Snapshot)
    /\ redoSnapshots \in Seq(Snapshot)
    /\ undoStepNames \in Seq(RecordedName)
    /\ redoStepNames \in Seq(RecordedName)
    /\ Len(undoStepNames) = Len(undoSnapshots)
    /\ Len(redoStepNames) = Len(redoSnapshots)
    /\ undoSnapshots # <<>> \/ redoSnapshots # <<>> => currentSnapshot # NoSnapshot

\* Undo and redo together never hold more than maxDepth steps, although only
\* recordEdit() trims a stack: redo() pushes on the undo stack unchecked, which
\* is safe only because what it pushes was popped from there before.
DepthBounded == Len(undoSnapshots) + Len(redoSnapshots) <= Depth

\* What the class promises its callers, as one line of states with a cursor.
\* Undo and redo only move the cursor, a step keeps its name whichever stack it
\* is on, and only a new step or the depth forgets a state.
Timeline == INSTANCE EditTimeline
    WITH states <- undoSnapshots \o <<currentSnapshot>> \o Reverse(redoSnapshots),
         names <- undoStepNames \o Reverse(redoStepNames),
         cursor <- Len(undoSnapshots) + 1,
         saved <- savedSnapshot

\* The stacks of ProjectHistory implement that line of states.
ImplementsTimeline == Timeline!Spec
=============================================================================
