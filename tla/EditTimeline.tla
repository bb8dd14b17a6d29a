----------------------------- MODULE EditTimeline -----------------------------
(***************************************************************************)
(* What an undo history promises: the states a document went through, a    *)
(* name on every step between two of them, a cursor on the current one.    *)
(* Undo and redo move the cursor and nothing else.  ProjectHistory keeps   *)
(* the two sides of the cursor on two stacks.                              *)
(***************************************************************************)
EXTENDS Naturals, Sequences

CONSTANTS
    Snapshot,      \* the states of a document
    RecordedName,  \* the names of steps
    NoSnapshot,    \* no document yet
    Depth          \* the number of steps kept

VARIABLES
    states,   \* states[1] the oldest state that can be reached
    names,    \* names[i] is the step from states[i] to states[i + 1]
    cursor,   \* states[cursor] is the current state
    saved     \* the state last saved

timeline == <<states, names, cursor, saved>>

Init ==
    /\ states = <<NoSnapshot>>
    /\ names = <<>>
    /\ cursor = 1
    /\ saved = NoSnapshot

\* Start over from s, which is what is on disk.
Reset(s) ==
    /\ states' = <<s>>
    /\ names' = <<>>
    /\ cursor' = 1
    /\ saved' = s

\* The current state is amended without a step.
Amend(s) ==
    /\ states' = [states EXCEPT ![cursor] = s]
    /\ UNCHANGED <<names, cursor>>

Adopt(s) ==
    /\ states[cursor] = NoSnapshot
    /\ Amend(s)
    /\ UNCHANGED saved

Save(s) ==
    /\ Amend(s)
    /\ saved' = s

\* A step to s: the undone steps are forgotten, and the oldest one when there
\* are more than Depth.
Step(s, name) ==
    LET full == cursor > Depth
        first == IF full THEN 2 ELSE 1
    IN  /\ states[cursor] \notin {NoSnapshot, s}
        /\ states' = Append(SubSeq(states, first, cursor), s)
        /\ names' = Append(SubSeq(names, first, cursor - 1), name)
        /\ cursor' = IF full THEN cursor ELSE cursor + 1
        /\ UNCHANGED saved

Undo ==
    /\ cursor > 1
    /\ cursor' = cursor - 1
    /\ UNCHANGED <<states, names, saved>>

Redo ==
    /\ cursor < Len(states)
    /\ cursor' = cursor + 1
    /\ UNCHANGED <<states, names, saved>>

Next ==
    \/ \E s \in Snapshot : Reset(s) \/ Adopt(s) \/ Save(s)
    \/ \E s \in Snapshot, name \in RecordedName : Step(s, name)
    \/ Undo
    \/ Redo

Spec == Init /\ [][Next]_timeline
=============================================================================
