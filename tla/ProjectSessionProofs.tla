------------------------- MODULE ProjectSessionProofs -------------------------
(***************************************************************************)
(* What holds of the open document and its files for all documents, paths  *)
(* and depths of the history: no completed save is lost, a clean document  *)
(* is what the project file holds, unsaved work is in the autosave, and    *)
(* work that was left behind is offered again.                             *)
(*                                                                         *)
(* The inductive invariant says of each handler that touches the disk what *)
(* the part of it that is done has put there.                              *)
(***************************************************************************)
EXTENDS ProjectSession, TLAPS

\* The types of the state.  A handler that is at a disk step has a target, and after the
\* mark, or after opening, it is the document's path.
HistoryTypes ==
    /\ currentSnapshot \in H!Snapshot /\ savedSnapshot \in H!Snapshot
    /\ undoSnapshots \in Seq(H!Snapshot) /\ redoSnapshots \in Seq(H!Snapshot)
HandlerTypes ==
    /\ project \in Document
    /\ projectPath \in Path \cup {NoPath}
    /\ autosaveError \in BOOLEAN /\ recovered \in BOOLEAN
    /\ step \in Steps
    /\ target \in Path \cup {NoPath}
    /\ step \in {"backup", "write", "mark", "dropSaved", "dropOpened"} => target \in Path
    /\ step \in {"dropSaved", "dropOpened"} => projectPath = target
FileTypes ==
    /\ projectFile \in [Path -> Document \cup {NoFile}]
    /\ backupFile \in [Path -> Content]
    /\ autosaveFile \in [Path -> Document \cup {NoFile}]
    /\ autosaveNewer \subseteq Path
    /\ lastSaved \in [Path -> Document \cup {NoFile}]
    /\ owed \in [Path -> H!Snapshot \cup {NoFile}]
Types == HistoryTypes /\ HandlerTypes /\ FileTypes

\* A project file is what was last saved, or it is gone and the backup is.  The file that is
\* about to be replaced is in the backup.
Backed ==
    /\ \A p \in Path : \/ projectFile[p] = lastSaved[p]
                       \/ projectFile[p] = NoFile /\ backupFile[p] = lastSaved[p]
    /\ step = "backup" => projectFile[target] # NoFile
    /\ step = "write" => projectFile[target] \in {NoFile, backupFile[target]}

\* The saved snapshot is the project file's, but between the writing of the document's own
\* file and the mark.
Matched ==
    /\ step = "mark" => projectFile[target] = project
    /\ (step = "mark" => target # projectPath) /\ projectPath # NoPath /\ ~recovered
         /\ projectFile[projectPath] # NoFile => savedSnapshot = H!SnapshotOf(projectFile[projectPath])

\* What is dirty is in the autosave, before the autosave of a step and after the mark or
\* the opening excepted: then the history has the document, or is clean.
Covered ==
    /\ step = "autosave" => H!SnapshotOf(project) = currentSnapshot
    /\ step \in {"dropSaved", "dropOpened"} => ~Dirty
    /\ step \in {"idle", "backup", "write"} /\ Dirty /\ projectPath # NoPath /\ ~autosaveError =>
         /\ autosaveFile[projectPath] # NoFile
         /\ H!SnapshotOf(autosaveFile[projectPath]) = currentSnapshot
         /\ projectPath \in autosaveNewer

\* Owed work is in an autosave that is the later file; none is owed at the path of the open
\* document, nor at one whose project was just written.
Kept ==
    /\ \A p \in Path : owed[p] # NoFile =>
         autosaveFile[p] # NoFile /\ p \in autosaveNewer /\ H!SnapshotOf(autosaveFile[p]) = owed[p]
    /\ step # "dropOpened" /\ projectPath # NoPath => owed[projectPath] = NoFile
    /\ step = "mark" => owed[target] = NoFile

SessionInv == Types /\ Backed /\ Matched /\ Covered /\ Kept
-----------------------------------------------------------------------------
\* A snapshot is a document that normalizes to itself, and never one of the marks for no
\* file and a torn copy.
LEMMA Snapshots ==
    /\ \A d \in Document : H!SnapshotOf(d) \in H!Snapshot /\ H!SnapshotOf(d) \in Document
    /\ \A s \in H!Snapshot : s \in Document /\ H!SnapshotOf(s) = s
    /\ NoSnapshot \notin H!Snapshot /\ NoFile \notin H!Snapshot
    /\ NoFile \notin Document /\ Torn \notin Document
BY SnapshotAssumption, FileAssumption DEF H!SnapshotOf, H!Snapshot

\* A trimmed stack is a stack.
LEMMA TrimmedStack ==
    ASSUME NEW s \in Seq(H!Snapshot), NEW x \in H!Snapshot
    PROVE  H!KeepLast(Append(s, x), H!Depth) \in Seq(H!Snapshot)
<1>1. Append(s, x) \in Seq(H!Snapshot)
  OBVIOUS
<1>2. H!Depth \in Nat /\ H!Depth >= 1
  BY SnapshotAssumption DEF H!Depth
<1>. QED BY <1>1, <1>2 DEF H!KeepLast

\* Undo and redo take the last of a stack.
LEMMA Popped ==
    ASSUME NEW s \in Seq(H!Snapshot), s # <<>>
    PROVE  H!Last(s) \in H!Snapshot /\ H!Front(s) \in Seq(H!Snapshot)
BY DEF H!Last, H!Front

\* What recording does: a step is recorded exactly when the snapshot changes, and is
\* followed by an autosave.
LEMMA Recording ==
    ASSUME Types, NEW d \in Document, NEW name, RecordStep(d, name)
    PROVE  /\ currentSnapshot' \in H!Snapshot /\ currentSnapshot' = H!SnapshotOf(d)
           /\ savedSnapshot' = savedSnapshot
           /\ undoSnapshots' \in Seq(H!Snapshot) /\ redoSnapshots' \in Seq(H!Snapshot)
           /\ step' \in {"autosave", "idle"}
           /\ step' = "idle" => currentSnapshot' = currentSnapshot
<1>1. currentSnapshot \in H!Snapshot /\ currentSnapshot # NoSnapshot
  BY Snapshots DEF Types, HistoryTypes, HandlerTypes, FileTypes
<1>2. H!SnapshotOf(d) \in H!Snapshot
  BY Snapshots
<1>3. CASE H!PushStep(d, name)
  <2>1. H!Records(d) /\ step' = "autosave"
    BY <1>3 DEF RecordStep, H!PushStep
  <2>2. undoSnapshots' \in Seq(H!Snapshot)
    BY <1>1, <1>3, TrimmedStack DEF Types, HistoryTypes, HandlerTypes, FileTypes, H!PushStep
  <2>. QED BY <1>2, <1>3, <2>1, <2>2 DEF H!PushStep
<1>4. CASE currentSnapshot = H!SnapshotOf(d) /\ UNCHANGED <<currentSnapshot, savedSnapshot, undoSnapshots,
                                                              undoStepNames, redoSnapshots, redoStepNames>>
  <2>1. step' = "idle"
    BY <1>4 DEF RecordStep, H!Records
  <2>. QED BY <1>1, <1>4, <2>1 DEF Types, HistoryTypes, HandlerTypes, FileTypes
<1>5. ~H!AdoptFirst(d)
  BY <1>1 DEF H!AdoptFirst
<1>. QED BY <1>3, <1>4, <1>5 DEF RecordStep, H!RecordEdit
-----------------------------------------------------------------------------
\* What recorded work a document leaves behind is a snapshot.
LEMMA LeftBehind ==
    ASSUME Types PROVE OwedOnLeaving \in [Path -> H!Snapshot \cup {NoFile}]
BY DEF Types, HistoryTypes, HandlerTypes, FileTypes, OwedOnLeaving

\* Every operation keeps the types.
LEMMA TypesStep ==
    ASSUME Types, [Next]_vars PROVE Types'
<1>. USE DEF Types, HistoryTypes, HandlerTypes, FileTypes, Steps
<1>1. ASSUME NEW d \in Document, SetUnrecorded(d) PROVE Types'
  BY <1>1 DEF SetUnrecorded, Idle, history, disk, ghost
<1>2. ASSUME NEW name \in StepName, RecordGesture(name) PROVE Types'
  <2>1. RecordStep(project, name)
    BY <1>2 DEF RecordGesture
  <2>. QED BY <1>2, <2>1, Recording DEF RecordGesture, bridge, disk, ghost
<1>3. ASSUME NEW d \in Document, NEW name \in StepName, Edit(d, name) PROVE Types'
  <2>1. RecordStep(Normal[d], name) /\ Normal[d] \in Document
    BY <1>3, SnapshotAssumption DEF Edit
  <2>. QED BY <1>3, <2>1, Recording DEF Edit, disk, ghost
<1>4. CASE Undo
  <2>1. H!Last(undoSnapshots) \in H!Snapshot /\ H!Front(undoSnapshots) \in Seq(H!Snapshot)
    BY <1>4, Popped DEF Undo, H!Undo, H!CanUndo
  <2>2. Append(redoSnapshots, currentSnapshot) \in Seq(H!Snapshot)
    <3>1. redoSnapshots \in Seq(H!Snapshot) /\ currentSnapshot \in H!Snapshot
      OBVIOUS
    <3>. QED BY <3>1
  <2>3. /\ currentSnapshot' = H!Last(undoSnapshots) /\ undoSnapshots' = H!Front(undoSnapshots)
        /\ redoSnapshots' = Append(redoSnapshots, currentSnapshot)
        /\ savedSnapshot' = savedSnapshot
    BY <1>4 DEF Undo, H!Undo
  <2>4. HistoryTypes'
    BY <2>1, <2>2, <2>3, Zenon
  <2>5. H!Last(undoSnapshots) \in Document
    BY <2>1, Snapshots
  <2>6. HandlerTypes'
    BY <1>4, <2>3, <2>5 DEF Undo, ghost
  <2>7. FileTypes'
    <3>1. UNCHANGED <<disk, ghost>>
      BY <1>4 DEF Undo
    <3>. QED BY <3>1 DEF disk, ghost
  <2>. QED BY <2>4, <2>6, <2>7 DEF Types
<1>5. CASE Redo
  <2>1. H!Last(redoSnapshots) \in H!Snapshot /\ H!Front(redoSnapshots) \in Seq(H!Snapshot)
    BY <1>5, Popped DEF Redo, H!Redo, H!CanRedo
  <2>2. Append(undoSnapshots, currentSnapshot) \in Seq(H!Snapshot)
    <3>1. undoSnapshots \in Seq(H!Snapshot) /\ currentSnapshot \in H!Snapshot
      OBVIOUS
    <3>. QED BY <3>1
  <2>3. /\ currentSnapshot' = H!Last(redoSnapshots) /\ redoSnapshots' = H!Front(redoSnapshots)
        /\ undoSnapshots' = Append(undoSnapshots, currentSnapshot)
        /\ savedSnapshot' = savedSnapshot
    BY <1>5 DEF Redo, H!Redo
  <2>4. HistoryTypes'
    BY <2>1, <2>2, <2>3, Zenon
  <2>5. H!Last(redoSnapshots) \in Document
    BY <2>1, Snapshots
  <2>6. HandlerTypes'
    BY <1>5, <2>3, <2>5 DEF Redo, ghost
  <2>7. FileTypes'
    <3>1. UNCHANGED <<disk, ghost>>
      BY <1>5 DEF Redo
    <3>. QED BY <3>1 DEF disk, ghost
  <2>. QED BY <2>4, <2>6, <2>7 DEF Types
<1>6. CASE Autosave
  BY <1>6 DEF Autosave, AutosaveWritten, AutosaveFailed, AutosaveDropped, Write, WriteFails, RemoveAutosave, history, ghost
<1>7. ASSUME NEW p \in Path, SaveAs(p) PROVE Types'
  BY <1>7 DEF SaveAs, history, bridge, ghost, Content
<1>8. CASE BackUp
  <2>1. target \in Path /\ projectFile[target] \in Content
    BY <1>8 DEF BackUp, Content
  <2>2. backupFile' \in [Path -> Content]
    BY <1>8, <2>1 DEF BackUp
  <2>. QED BY <1>8, <2>1, <2>2 DEF BackUp, Finish, history, bridge, ghost
<1>9. CASE WriteProject
  <2>1. target \in Path
    BY <1>9 DEF WriteProject
  <2>2. HistoryTypes'
    BY <1>9 DEF WriteProject, history
  <2>3. HandlerTypes'
    BY <1>9, <2>1 DEF WriteProject, Finish, bridge
  <2>4. projectFile' \in [Path -> Document \cup {NoFile}]
    BY <1>9, <2>1 DEF WriteProject, Write, WriteFails
  <2>5. /\ lastSaved' \in [Path -> Document \cup {NoFile}]
        /\ owed' \in [Path -> H!Snapshot \cup {NoFile}] /\ autosaveNewer' \subseteq Path
    BY <1>9, <2>1 DEF WriteProject
  <2>. QED BY <1>9, <2>2, <2>3, <2>4, <2>5 DEF WriteProject
<1>10. CASE MarkSaved
  BY <1>10, Snapshots DEF MarkSaved, H!MarkSaved, disk
<1>11. CASE DropSavedAutosave
  BY <1>11 DEF DropSavedAutosave, RemoveAutosave, Finish, history, ghost
<1>12. CASE New
  <2>1. H!SnapshotOf(DefaultDocument) \in H!Snapshot
    BY Snapshots, DefaultAssumption
  <2>2. HistoryTypes'
    BY <1>12, <2>1 DEF New, H!Reset
  <2>3. HandlerTypes'
    BY <1>12, DefaultAssumption DEF New, Idle
  <2>4. FileTypes'
    BY <1>12, LeftBehind DEF New, disk
  <2>. QED BY <2>2, <2>3, <2>4 DEF Types
<1>13. ASSUME NEW p \in Path, NEW preferAutosave \in BOOLEAN, Open(p, preferAutosave) PROVE Types'
  <2>. DEFINE loaded == IF preferAutosave THEN autosaveFile[p] ELSE projectFile[p]
  <2>1. loaded \in Document
    BY <1>13 DEF Open
  <2>2. Normal[loaded] \in Document /\ H!SnapshotOf(Normal[loaded]) \in H!Snapshot
    BY <2>1, Snapshots, SnapshotAssumption
  <2>3. HistoryTypes'
    BY <1>13, <2>2 DEF Open, H!Reset
  <2>4. HandlerTypes'
    BY <1>13, <2>2 DEF Open
  <2>5. FileTypes'
    BY <1>13, LeftBehind DEF Open, disk
  <2>. QED BY <2>3, <2>4, <2>5 DEF Types
<1>14. CASE DropOpenedAutosave
  BY <1>14 DEF DropOpenedAutosave, RemoveAutosave, Finish, history, bridge
<1>15. CASE Exit
  <2>1. H!SnapshotOf(DefaultDocument) \in H!Snapshot
    BY Snapshots, DefaultAssumption
  <2>2. HistoryTypes'
    BY <1>15, <2>1 DEF Exit, H!Reset
  <2>3. HandlerTypes'
    BY <1>15, DefaultAssumption DEF Exit, Finish
  <2>4. FileTypes'
    BY <1>15, LeftBehind DEF Exit, disk
  <2>. QED BY <2>2, <2>3, <2>4 DEF Types
<1>16. CASE UNCHANGED vars
  BY <1>16 DEF vars, history, bridge, disk, ghost
<1>. QED BY <1>1, <1>2, <1>3, <1>4, <1>5, <1>6, <1>7, <1>8, <1>9, <1>10, <1>11, <1>12, <1>13, <1>14, <1>15, <1>16 DEF Next
-----------------------------------------------------------------------------
\* Only a save touches a project file: it is written when it is in the backup, or was not
\* there, and a backup is overwritten while the project file is there.
LEMMA BackedStep ==
    ASSUME SessionInv, [Next]_vars PROVE Backed'
<1>. USE DEF SessionInv
<1>1. ASSUME UNCHANGED <<projectFile, backupFile, lastSaved>>, step' \notin {"backup", "write"}
      PROVE  Backed'
  BY <1>1 DEF Backed
<1>2. ASSUME NEW d \in Document, SetUnrecorded(d) PROVE Backed'
  BY <1>1, <1>2 DEF SetUnrecorded, Idle, disk, ghost
<1>3. ASSUME NEW name \in StepName, RecordGesture(name) PROVE Backed'
  BY <1>1, <1>3 DEF RecordGesture, RecordStep, disk, ghost
<1>4. ASSUME NEW d \in Document, NEW name \in StepName, Edit(d, name) PROVE Backed'
  BY <1>1, <1>4 DEF Edit, RecordStep, disk, ghost
<1>5. CASE Undo \/ Redo
  BY <1>1, <1>5 DEF Undo, Redo, disk, ghost
<1>6. CASE Autosave
  BY <1>1, <1>6 DEF Autosave, ghost
<1>7. ASSUME NEW p \in Path, SaveAs(p) PROVE Backed'
  <2>1. UNCHANGED <<projectFile, lastSaved>> /\ target' = p
    BY <1>7 DEF SaveAs, ghost
  <2>2. CASE projectFile[p] = NoFile
    BY <1>7, <2>1, <2>2 DEF SaveAs, Backed
  <2>3. CASE projectFile[p] # NoFile
    BY <1>7, <2>1, <2>3 DEF SaveAs, Backed, Types, FileTypes
  <2>. QED BY <2>2, <2>3
<1>8. CASE BackUp
  <2>1. target \in Path /\ projectFile[target] # NoFile /\ projectFile[target] = lastSaved[target]
    BY <1>8 DEF BackUp, Backed, Types, HandlerTypes
  <2>2. UNCHANGED <<projectFile, lastSaved>>
    BY <1>8 DEF BackUp, ghost
  <2>. QED BY <1>8, <2>1, <2>2 DEF BackUp, Finish, Backed, Types, FileTypes
<1>9. CASE WriteProject
  <2>1. target \in Path /\ projectFile[target] \in {NoFile, backupFile[target]}
    BY <1>9 DEF WriteProject, Backed, Types, HandlerTypes
  <2>2. UNCHANGED backupFile /\ step' \in {"mark", "idle"}
    BY <1>9 DEF WriteProject, Finish
  <2>. QED BY <1>9, <2>1, <2>2 DEF WriteProject, Write, WriteFails, Backed, Types, FileTypes
<1>10. CASE MarkSaved
  BY <1>1, <1>10 DEF MarkSaved, disk
<1>11. CASE DropSavedAutosave
  BY <1>1, <1>11 DEF DropSavedAutosave, Finish, ghost
<1>12. CASE New
  BY <1>1, <1>12 DEF New, Idle, disk
<1>13. ASSUME NEW p \in Path, NEW preferAutosave \in BOOLEAN, Open(p, preferAutosave) PROVE Backed'
  BY <1>1, <1>13 DEF Open, disk
<1>14. CASE DropOpenedAutosave
  BY <1>1, <1>14 DEF DropOpenedAutosave, Finish
<1>15. CASE Exit
  BY <1>1, <1>15 DEF Exit, Finish, disk
<1>16. CASE UNCHANGED vars
  BY <1>16 DEF vars, disk, ghost, Backed
<1>. QED BY <1>2, <1>3, <1>4, <1>5, <1>6, <1>7, <1>8, <1>9, <1>10, <1>11, <1>12, <1>13, <1>14, <1>15, <1>16 DEF Next

\* The mark follows the writing of the project file before anything else can happen, and
\* opening takes the saved snapshot from the file it read.
LEMMA MatchedStep ==
    ASSUME SessionInv, [Next]_vars PROVE Matched'
<1>. USE DEF SessionInv
<1>1. ASSUME UNCHANGED <<projectFile, projectPath, recovered, savedSnapshot>>, step # "mark", step' # "mark"
      PROVE  Matched'
  BY <1>1 DEF Matched
<1>2. ASSUME NEW d \in Document, SetUnrecorded(d) PROVE Matched'
  BY <1>1, <1>2 DEF SetUnrecorded, Idle, history, disk, ghost
<1>3. ASSUME NEW name \in StepName, RecordGesture(name) PROVE Matched'
  <2>1. RecordStep(project, name) /\ project \in Document /\ step = "idle"
    BY <1>3 DEF RecordGesture, Idle, Types, HandlerTypes
  <2>. QED BY <1>1, <1>3, <2>1, Recording DEF RecordGesture, bridge, disk, ghost
<1>4. ASSUME NEW d \in Document, NEW name \in StepName, Edit(d, name) PROVE Matched'
  <2>1. RecordStep(Normal[d], name) /\ Normal[d] \in Document /\ step = "idle"
    BY <1>4, SnapshotAssumption DEF Edit, Idle
  <2>. QED BY <1>1, <1>4, <2>1, Recording DEF Edit, disk, ghost
<1>5. CASE Undo \/ Redo
  BY <1>1, <1>5 DEF Undo, Redo, H!Undo, H!Redo, Idle, disk, ghost
<1>6. CASE Autosave
  BY <1>1, <1>6 DEF Autosave, history, ghost
<1>7. ASSUME NEW p \in Path, SaveAs(p) PROVE Matched'
  BY <1>1, <1>7 DEF SaveAs, Idle, history, bridge, ghost
<1>8. CASE BackUp
  BY <1>1, <1>8 DEF BackUp, Finish, history, bridge, ghost
<1>9. CASE WriteProject
  <2>1. target \in Path /\ UNCHANGED <<project, projectPath, recovered, savedSnapshot>> /\ step = "write"
    BY <1>9 DEF WriteProject, history, bridge, Types, HandlerTypes
  <2>2. projectPath \in Path \cup {NoPath}
    BY DEF Types, HandlerTypes
  <2>3. CASE step' = "mark" /\ Write(projectFile, target, project) /\ target' = target
    BY <2>1, <2>2, <2>3 DEF Write, Matched, Types, FileTypes
  <2>4. CASE step' = "idle" /\ WriteFails(projectFile, target)
    BY <2>1, <2>2, <2>4 DEF WriteFails, Matched, Types, FileTypes
  <2>. QED BY <1>9, <2>3, <2>4 DEF WriteProject, Finish
<1>10. CASE MarkSaved
  BY <1>10 DEF MarkSaved, H!MarkSaved, Matched, disk
<1>11. CASE DropSavedAutosave
  BY <1>1, <1>11 DEF DropSavedAutosave, Finish, history, ghost
<1>12. CASE New
  BY <1>12 DEF New, Idle, Matched
<1>13. ASSUME NEW p \in Path, NEW preferAutosave \in BOOLEAN, Open(p, preferAutosave) PROVE Matched'
  <2>1. CASE preferAutosave
    BY <1>13, <2>1 DEF Open, Matched
  <2>2. CASE ~preferAutosave
    <3>1. projectFile[p] \in Document /\ projectPath' = p /\ projectFile' = projectFile
      BY <1>13, <2>2 DEF Open, disk, Types, FileTypes
    <3>2. savedSnapshot' = H!SnapshotOf(Normal[projectFile[p]])
      BY <1>13, <2>2 DEF Open, H!Reset
    <3>3. savedSnapshot' = H!SnapshotOf(projectFile[p])
      BY <3>1, <3>2, SnapshotAssumption DEF H!SnapshotOf
    <3>. QED BY <1>13, <3>1, <3>3 DEF Open, Matched
  <2>. QED BY <2>1, <2>2
<1>14. CASE DropOpenedAutosave
  BY <1>1, <1>14 DEF DropOpenedAutosave, Finish, history, bridge
<1>15. CASE Exit
  BY <1>15 DEF Exit, Finish, Matched
<1>16. CASE UNCHANGED vars
  BY <1>16 DEF vars, history, bridge, disk, ghost, Matched
<1>. QED BY <1>2, <1>3, <1>4, <1>5, <1>6, <1>7, <1>8, <1>9, <1>10, <1>11, <1>12, <1>13, <1>14, <1>15, <1>16 DEF Next

\* Whatever makes the document dirty is followed by an autosave, and nothing else touches
\* the autosave of a dirty document.
LEMMA CoveredStep ==
    ASSUME SessionInv, [Next]_vars PROVE Covered'
<1>. USE DEF SessionInv
<1>1. ASSUME UNCHANGED <<currentSnapshot, savedSnapshot, projectPath, autosaveError, autosaveFile, autosaveNewer>>,
             step \in {"idle", "backup", "write"}, step' \in {"idle", "backup", "write"}
      PROVE  Covered'
  BY <1>1 DEF Covered, Dirty, H!IsDirty
<1>2. ASSUME Dirty' = FALSE, step' # "autosave" PROVE Covered'
  BY <1>2 DEF Covered
<1>3. ASSUME NEW d \in Document, NEW name, RecordStep(d, name), project' = d, step = "idle",
             UNCHANGED <<projectPath, autosaveError, autosaveFile, autosaveNewer>>
      PROVE  Covered'
  <2>1. /\ currentSnapshot' = H!SnapshotOf(d) /\ savedSnapshot' = savedSnapshot
        /\ step' \in {"autosave", "idle"} /\ (step' = "idle" => currentSnapshot' = currentSnapshot)
    BY <1>3, Recording
  <2>2. CASE step' = "autosave"
    BY <1>3, <2>1, <2>2 DEF Covered
  <2>3. CASE step' = "idle"
    BY <1>1, <1>3, <2>1, <2>3
  <2>. QED BY <2>1, <2>2, <2>3
<1>4. ASSUME NEW d \in Document, SetUnrecorded(d) PROVE Covered'
  BY <1>1, <1>4 DEF SetUnrecorded, Idle, history, disk
<1>5. ASSUME NEW name \in StepName, RecordGesture(name) PROVE Covered'
  <2>1. project \in Document /\ project' = project /\ RecordStep(project, name)
    BY <1>5 DEF RecordGesture, bridge, Types, HandlerTypes
  <2>. QED BY <1>3, <1>5, <2>1 DEF RecordGesture, Idle, bridge, disk
<1>6. ASSUME NEW d \in Document, NEW name \in StepName, Edit(d, name) PROVE Covered'
  <2>1. Normal[d] \in Document
    BY SnapshotAssumption
  <2>. QED BY <1>3, <1>6, <2>1 DEF Edit, Idle, disk
<1>7. ASSUME NEW s \in Seq(H!Snapshot), s # <<>>, currentSnapshot' = H!Last(s), project' = currentSnapshot',
             step' = "autosave"
      PROVE  Covered'
  BY <1>7, Popped, Snapshots DEF Covered
<1>8. CASE Undo
  BY <1>7, <1>8 DEF Undo, H!Undo, H!CanUndo, Types, HistoryTypes
<1>9. CASE Redo
  BY <1>7, <1>9 DEF Redo, H!Redo, H!CanRedo, Types, HistoryTypes
<1>10. CASE Autosave
  <2>1. UNCHANGED <<currentSnapshot, savedSnapshot, projectPath>> /\ step' = "idle" /\ step = "autosave"
    BY <1>10 DEF Autosave, history
  <2>2. Dirty' = Dirty
    BY <2>1 DEF Dirty, H!IsDirty
  <2>3. CASE projectPath = NoPath \/ ~Dirty
    BY <2>1, <2>2, <2>3 DEF Covered
  <2>4. CASE projectPath \in Path /\ AutosaveWritten
    <3>1. autosaveFile'[projectPath] = project /\ projectPath \in autosaveNewer'
      BY <2>4 DEF AutosaveWritten, Write, Types, FileTypes
    <3>2. project # NoFile /\ H!SnapshotOf(project) = currentSnapshot
      BY <2>1, Snapshots DEF Covered, Types, HandlerTypes
    <3>. QED BY <2>1, <2>2, <3>1, <3>2 DEF Covered
  <2>5. CASE AutosaveFailed
    BY <2>1, <2>5 DEF AutosaveFailed, Covered
  <2>. QED BY <1>10, <2>3, <2>4, <2>5 DEF Autosave, AutosaveDropped, Types, HandlerTypes
<1>11. ASSUME NEW p \in Path, SaveAs(p) PROVE Covered'
  BY <1>1, <1>11 DEF SaveAs, Idle, history, bridge
<1>12. CASE BackUp
  BY <1>1, <1>12 DEF BackUp, Finish, history, bridge
<1>13. CASE WriteProject
  <2>1. CASE step' = "mark"
    BY <2>1 DEF Covered
  <2>2. CASE Finish /\ UNCHANGED autosaveNewer
    BY <1>1, <1>13, <2>2 DEF WriteProject, Finish, history, bridge
  <2>. QED BY <1>13, <2>1, <2>2 DEF WriteProject
<1>14. CASE MarkSaved
  BY <1>2, <1>14 DEF MarkSaved, H!MarkSaved, Dirty, H!IsDirty
<1>15. CASE DropSavedAutosave
  BY <1>2, <1>15 DEF DropSavedAutosave, Finish, history, Covered, Dirty, H!IsDirty
<1>16. CASE New
  BY <1>2, <1>16 DEF New, Idle, H!Reset, Dirty, H!IsDirty
<1>17. ASSUME NEW p \in Path, NEW preferAutosave \in BOOLEAN, Open(p, preferAutosave) PROVE Covered'
  BY <1>2, <1>17 DEF Open, H!Reset, Dirty, H!IsDirty
<1>18. CASE DropOpenedAutosave
  BY <1>2, <1>18 DEF DropOpenedAutosave, Finish, history, Covered, Dirty, H!IsDirty
<1>19. CASE Exit
  BY <1>2, <1>19 DEF Exit, Finish, H!Reset, Dirty, H!IsDirty
<1>20. CASE UNCHANGED vars
  BY <1>20 DEF vars, history, bridge, disk, Covered, Dirty, H!IsDirty
<1>. QED BY <1>4, <1>5, <1>6, <1>8, <1>9, <1>10, <1>11, <1>12, <1>13, <1>14, <1>15, <1>16, <1>17, <1>18, <1>19, <1>20 DEF Next

\* The autosave that holds owed work is at a path that is not the open document's, so
\* nothing overwrites or removes it before the path is opened or saved to.
LEMMA KeptStep ==
    ASSUME SessionInv, [Next]_vars PROVE Kept'
<1>. USE DEF SessionInv
<1>1. ASSUME UNCHANGED <<owed, autosaveFile, autosaveNewer, projectPath>>, step # "dropOpened", step' # "mark"
      PROVE  Kept'
  BY <1>1 DEF Kept
<1>2. \A p \in Path : OwedOnLeaving[p] # NoFile =>
        autosaveFile[p] # NoFile /\ p \in autosaveNewer /\ H!SnapshotOf(autosaveFile[p]) = OwedOnLeaving[p]
  BY DEF OwedOnLeaving, Kept, Covered, Types, FileTypes
<1>3. ASSUME owed' = OwedOnLeaving, UNCHANGED <<autosaveFile, autosaveNewer>>, step' # "mark",
             projectPath' = NoPath \/ step' = "dropOpened"
      PROVE  Kept'
  BY <1>2, <1>3 DEF Kept
<1>4. ASSUME NEW d \in Document, SetUnrecorded(d) PROVE Kept'
  BY <1>1, <1>4 DEF SetUnrecorded, Idle, disk, ghost
<1>5. ASSUME NEW name \in StepName, RecordGesture(name) PROVE Kept'
  BY <1>1, <1>5 DEF RecordGesture, RecordStep, Idle, bridge, disk, ghost
<1>6. ASSUME NEW d \in Document, NEW name \in StepName, Edit(d, name) PROVE Kept'
  BY <1>1, <1>6 DEF Edit, RecordStep, Idle, disk, ghost
<1>7. CASE Undo \/ Redo
  BY <1>1, <1>7 DEF Undo, Redo, Idle, disk, ghost
<1>8. CASE Autosave
  <2>1. UNCHANGED <<owed, projectPath>> /\ step' = "idle" /\ step = "autosave"
    BY <1>8 DEF Autosave, ghost
  <2>2. CASE projectPath = NoPath
    BY <1>1, <1>8, <2>1, <2>2 DEF Autosave
  <2>3. CASE projectPath # NoPath
    <3>1. projectPath \in Path /\ owed[projectPath] = NoFile
      BY <2>1, <2>3 DEF Kept, Types, HandlerTypes
    <3>2. ASSUME NEW p \in Path, p # projectPath
          PROVE  autosaveFile'[p] = autosaveFile[p] /\ (p \in autosaveNewer /\ autosaveFile[p] # NoFile => p \in autosaveNewer')
      BY <1>8, <2>3, <3>1, <3>2 DEF Autosave, AutosaveWritten, AutosaveFailed, AutosaveDropped, Write, WriteFails,
           RemoveAutosave, Types, FileTypes
    <3>. QED BY <2>1, <3>1, <3>2 DEF Kept
  <2>. QED BY <2>2, <2>3
<1>9. ASSUME NEW p \in Path, SaveAs(p) PROVE Kept'
  BY <1>1, <1>9 DEF SaveAs, Idle, bridge, ghost
<1>10. CASE BackUp
  BY <1>1, <1>10 DEF BackUp, Finish, bridge, ghost
<1>11. CASE WriteProject
  <2>1. UNCHANGED <<autosaveFile, projectPath>> /\ target \in Path /\ step = "write"
    BY <1>11 DEF WriteProject, bridge, Types, HandlerTypes
  <2>2. CASE /\ step' = "mark" /\ target' = target /\ autosaveNewer' = autosaveNewer \ {target}
             /\ owed' = [owed EXCEPT ![target] = NoFile]
    BY <2>1, <2>2 DEF Kept, Types, FileTypes, HandlerTypes
  <2>3. CASE Finish /\ UNCHANGED <<autosaveNewer, owed>>
    BY <1>1, <2>1, <2>3 DEF Finish
  <2>. QED BY <1>11, <2>2, <2>3 DEF WriteProject
<1>12. CASE MarkSaved
  BY <1>12 DEF MarkSaved, disk, Kept
<1>13. CASE DropSavedAutosave
  <2>1. target \in Path /\ projectPath = target /\ owed[target] = NoFile /\ UNCHANGED <<owed, projectPath>> /\ step' = "idle"
    BY <1>13, PathAssumption DEF DropSavedAutosave, Finish, ghost, Kept, Types, HandlerTypes
  <2>. QED BY <1>13, <2>1 DEF DropSavedAutosave, RemoveAutosave, Kept, Types, FileTypes
<1>14. CASE New
  BY <1>3, <1>14 DEF New, Idle, disk
<1>15. ASSUME NEW p \in Path, NEW preferAutosave \in BOOLEAN, Open(p, preferAutosave) PROVE Kept'
  BY <1>3, <1>15 DEF Open, disk
<1>16. CASE DropOpenedAutosave
  <2>1. /\ target \in Path /\ projectPath = target /\ projectPath' = projectPath /\ step' = "idle"
        /\ owed' = [owed EXCEPT ![target] = NoFile]
    BY <1>16 DEF DropOpenedAutosave, Finish, bridge, Types, HandlerTypes
  <2>. QED BY <1>16, <2>1 DEF DropOpenedAutosave, RemoveAutosave, Kept, Types, FileTypes
<1>17. CASE Exit
  BY <1>3, <1>17 DEF Exit, Finish, disk
<1>18. CASE UNCHANGED vars
  BY <1>18 DEF vars, bridge, disk, ghost, Kept
<1>. QED BY <1>4, <1>5, <1>6, <1>7, <1>8, <1>9, <1>10, <1>11, <1>12, <1>13, <1>14, <1>15, <1>16, <1>17, <1>18 DEF Next
-----------------------------------------------------------------------------
\* A started process has an untitled, clean document, and no path has files yet.
LEMMA SessionInit ==
    ASSUME Init PROVE SessionInv
<1>1. currentSnapshot \in H!Snapshot /\ currentSnapshot = savedSnapshot
  BY Snapshots, DefaultAssumption DEF Init
<1>2. Types
  <2>1. HistoryTypes
    BY <1>1 DEF Init, HistoryTypes
  <2>2. HandlerTypes
    BY DefaultAssumption DEF Init, HandlerTypes, Steps
  <2>3. FileTypes
    BY DEF Init, FileTypes, Content
  <2>. QED BY <2>1, <2>2, <2>3 DEF Types
<1>3. Backed /\ Matched
  BY PathAssumption DEF Init, Backed, Matched
<1>4. Covered /\ Kept
  BY <1>1 DEF Init, Covered, Kept, Dirty, H!IsDirty
<1>. QED BY <1>2, <1>3, <1>4 DEF SessionInv

\* The parts of the invariant hold together in every reachable state.
THEOREM SessionInvariant == Spec => []SessionInv
<1>1. Init => SessionInv
  BY SessionInit
<1>2. SessionInv /\ [Next]_vars => SessionInv'
  <2>. SUFFICES ASSUME SessionInv, [Next]_vars PROVE SessionInv'
    OBVIOUS
  <2>1. Types'
    BY TypesStep DEF SessionInv
  <2>. QED BY <2>1, BackedStep, MatchedStep, CoveredStep, KeptStep DEF SessionInv
<1>. QED BY <1>1, <1>2, PTL DEF Spec

\* What the last completed save put at a path is in the project file or in its backup,
\* wherever a later save failed or the process died (backupExistingProjectFile() before
\* writeTextFileAtomically()).
THEOREM LastSaveKept == Spec => []LastSaveSurvives
<1>1. SessionInv => LastSaveSurvives
  BY DEF SessionInv, Backed, LastSaveSurvives
<1>. QED BY <1>1, SessionInvariant, PTL

\* When a handler is done the saved snapshot is what the project file holds, unless the
\* document was recovered from an autosave (markSaved() and reset() of ProjectHistory).
THEOREM CleanIsOnDisk == Spec => []CleanMatchesDisk
<1>1. SessionInv => CleanMatchesDisk
  BY DEF SessionInv, Matched, CleanMatchesDisk, Idle
<1>. QED BY <1>1, SessionInvariant, PTL

\* When a handler is done a dirty document with a path is in an autosave that is newer than
\* the project, unless the last autosave failed (recordStep() and autosave() of the bridge).
THEOREM DirtyHasAutosave == Spec => []DirtyIsAutosaved
<1>1. SessionInv => DirtyIsAutosaved
  BY DEF SessionInv, Covered, DirtyIsAutosaved, Idle
<1>. QED BY <1>1, SessionInvariant, PTL

\* Recorded work that was autosaved when its document was given up is offered when the
\* project is opened again (projectAutosaveIsNewerThanProject()).
THEOREM OwedIsOffered == Spec => []OwedWorkIsOffered
<1>1. SessionInv => OwedWorkIsOffered
  BY DEF SessionInv, Kept, OwedWorkIsOffered, AutosaveOffered
<1>. QED BY <1>1, SessionInvariant, PTL
=============================================================================
