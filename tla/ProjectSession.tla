---------------------------- MODULE ProjectSession ----------------------------
(***************************************************************************)
(* The open document of the application: the project the engine bridge     *)
(* holds (NCEngine in src/bridge/NeuracoustEngineBridge.cpp), its undo     *)
(* history (ProjectHistory), and the files of every project path: the      *)
(* project, the backup a save keeps and the autosave beside it             *)
(* (src/project/ProjectDocument.cpp).                                      *)
(*                                                                         *)
(* The bridge runs on one thread, so a handler is interleaved with nothing *)
(* but the death of the process: "step" says how far a handler that touches *)
(* the disk has come, and Exit may happen at any of them.  The process then *)
(* starts again on an untitled document, with the files as they were left. *)
(*                                                                         *)
(* A file holds a document, nothing, or a torn copy.  Of modification      *)
(* times only one comparison is ever made, autosave against project:       *)
(* autosaveNewer is the set of paths with an autosave that is the later one. *)
(***************************************************************************)
EXTENDS Naturals, Sequences, SequencesExt

CONSTANTS
    Document, Normal, StepName, Unnamed, DefaultName, NoSnapshot, MaxDepth,
    Path,             \* places on disk a project can have
    NoPath,           \* the document has no place on disk yet
    DefaultDocument,  \* defaultProject()
    NoFile, Torn,     \* no file; a half-written copy
    IOFaults          \* may writing, copying and removing a file fail?

ASSUME PathAssumption == NoPath \notin Path
ASSUME FileAssumption == {NoFile, Torn} \cap Document = {} /\ NoFile # Torn
ASSUME DefaultAssumption == DefaultDocument \in Document
ASSUME FaultAssumption == IOFaults \in BOOLEAN
ASSUME SnapshotAssumption ==
    /\ Normal \in [Document -> Document]
    /\ \A d \in Document : Normal[Normal[d]] = Normal[d]
    /\ NoSnapshot \notin Document
    /\ MaxDepth \in Nat

VARIABLES
    currentSnapshot, savedSnapshot, undoSnapshots, undoStepNames,
    redoSnapshots, redoStepNames,
    project,         \* the document itself
    projectPath,
    autosaveError,   \* is the last autosave error set?
    step, target,    \* the disk step a handler is at, and the path it saves to
    projectFile, backupFile, autosaveFile, autosaveNewer,
    lastSaved,       \* history: what the last completed save put at a path
    owed,            \* history: recorded, unsaved work left behind at a path
    recovered        \* history: did this document come from an autosave?

H == INSTANCE ProjectHistory

history == <<currentSnapshot, savedSnapshot, undoSnapshots, undoStepNames,
             redoSnapshots, redoStepNames>>
bridge == <<project, projectPath, autosaveError>>
disk == <<projectFile, backupFile, autosaveFile, autosaveNewer>>
ghost == <<lastSaved, owed, recovered>>
vars == <<history, bridge, step, target, disk, ghost>>

Content == Document \cup {NoFile, Torn}
Steps == {"idle", "autosave", "backup", "write", "mark", "dropSaved", "dropOpened"}

Idle == step = "idle"
Dirty == H!IsDirty

\* A handler that saves or opens a path returns.
Finish == step' = "idle" /\ target' = NoPath

\* projectAutosaveIsNewerThanProject()
AutosaveOffered(p) ==
    projectFile[p] # NoFile /\ autosaveFile[p] # NoFile /\ p \in autosaveNewer

Init ==
    /\ currentSnapshot = H!SnapshotOf(DefaultDocument)
    /\ savedSnapshot = currentSnapshot
    /\ undoSnapshots = <<>> /\ undoStepNames = <<>>
    /\ redoSnapshots = <<>> /\ redoStepNames = <<>>
    /\ project = DefaultDocument
    /\ projectPath = NoPath
    /\ autosaveError = FALSE
    /\ step = "idle" /\ target = NoPath
    /\ projectFile = [p \in Path |-> NoFile]
    /\ backupFile = [p \in Path |-> NoFile]
    /\ autosaveFile = [p \in Path |-> NoFile]
    /\ autosaveNewer = {}
    /\ lastSaved = [p \in Path |-> NoFile]
    /\ owed = [p \in Path |-> NoFile]
    /\ recovered = FALSE
-----------------------------------------------------------------------------
\* A setter that records no step: track volume and pan while they are dragged,
\* and also plug-in parameters, the loop range, the monitor station and the
\* listen room settings.
SetUnrecorded(d) ==
    /\ Idle
    /\ d # project
    /\ project' = d
    /\ UNCHANGED <<history, projectPath, autosaveError, step, target, disk, ghost>>

\* recordStep(): the history decides whether there is a step, and a step is
\* followed by an autosave.
RecordStep(d, name) ==
    /\ H!RecordEdit(d, name)
    /\ step' = IF H!Records(d) THEN "autosave" ELSE "idle"

\* nc_history_record_gesture(), when a drag ends.
RecordGesture(name) ==
    /\ Idle
    /\ RecordStep(project, name)
    /\ UNCHANGED <<bridge, target, disk, ghost>>

\* Every other edit: change the document, reconcile the engine (which
\* normalizes the routing), record.
Edit(d, name) ==
    /\ Idle
    /\ project' = Normal[d]
    /\ RecordStep(Normal[d], name)
    /\ UNCHANGED <<projectPath, autosaveError, target, disk, ghost>>

\* Mutant of Undo: the restored document is not autosaved.
UndoWithoutAutosave ==
    /\ Idle
    /\ H!Undo
    /\ project' = currentSnapshot'
    /\ UNCHANGED <<projectPath, autosaveError, step, target, disk, ghost>>

Undo ==
    /\ Idle
    /\ H!Undo
    /\ project' = currentSnapshot'
    /\ step' = "autosave"
    /\ UNCHANGED <<projectPath, autosaveError, target, disk, ghost>>

Redo ==
    /\ Idle
    /\ H!Redo
    /\ project' = currentSnapshot'
    /\ step' = "autosave"
    /\ UNCHANGED <<projectPath, autosaveError, target, disk, ghost>>
-----------------------------------------------------------------------------
\* writeTextFileAtomically(): a temporary file is renamed over the old one.
\* When the rename fails the old file is removed and the rename tried again.
Write(file, p, d) == file' = [file EXCEPT ![p] = d]
WriteFails(file, p) ==
    /\ IOFaults
    /\ file' \in {file, [file EXCEPT ![p] = NoFile]}

\* removeProjectAutosaveFile(); its callers ignore a failure.
RemoveAutosave(p) ==
    \/ /\ autosaveFile' = [autosaveFile EXCEPT ![p] = NoFile]
       /\ autosaveNewer' = autosaveNewer \ {p}
    \/ IOFaults /\ UNCHANGED <<autosaveFile, autosaveNewer>>

\* autosave(), after a recorded step, an undo or a redo.
AutosaveWritten ==
    /\ Dirty
    /\ Write(autosaveFile, projectPath, project)
    /\ autosaveNewer' = autosaveNewer \cup {projectPath}
    /\ autosaveError' = FALSE

AutosaveFailed ==
    /\ Dirty
    /\ WriteFails(autosaveFile, projectPath)
    /\ autosaveError' = TRUE
    /\ autosaveNewer' = {p \in autosaveNewer : autosaveFile'[p] # NoFile}

AutosaveDropped ==
    /\ ~Dirty
    /\ RemoveAutosave(projectPath)
    /\ autosaveError' = FALSE

Autosave ==
    /\ step = "autosave"
    /\ step' = "idle"
    /\ \/ projectPath = NoPath /\ UNCHANGED <<autosaveFile, autosaveNewer, autosaveError>>
       \/ projectPath # NoPath /\ (AutosaveWritten \/ AutosaveFailed \/ AutosaveDropped)
    /\ UNCHANGED <<history, project, projectPath, target, projectFile, backupFile, ghost>>
-----------------------------------------------------------------------------
\* nc_project_save_as(p); nc_project_save() is SaveAs(projectPath).  A file
\* that is there is copied to the backup first.
SaveAs(p) ==
    /\ Idle
    /\ target' = p
    /\ IF projectFile[p] = NoFile
       THEN step' = "write" /\ UNCHANGED backupFile
       ELSE step' = "backup" /\ backupFile' = [backupFile EXCEPT ![p] = Torn]
    /\ UNCHANGED <<history, bridge, projectFile, autosaveFile, autosaveNewer, ghost>>

\* Mutant of BackUp: the save goes on after a failed backup.
BackUpIgnoringFailure ==
    /\ step = "backup"
    /\ step' = "write"
    /\ \/ backupFile' = [backupFile EXCEPT ![target] = projectFile[target]]
       \/ IOFaults /\ UNCHANGED backupFile
    /\ UNCHANGED <<history, bridge, target, projectFile, autosaveFile, autosaveNewer, ghost>>

\* backupExistingProjectFile() returns; without a backup nothing is written.
BackUp ==
    /\ step = "backup"
    /\ \/ /\ backupFile' = [backupFile EXCEPT ![target] = projectFile[target]]
          /\ step' = "write"
          /\ UNCHANGED target
       \/ /\ IOFaults
          /\ Finish
          /\ UNCHANGED backupFile
    /\ UNCHANGED <<history, bridge, projectFile, autosaveFile, autosaveNewer, ghost>>

\* Mutant of WriteProject: a failed write is taken for a save.
WriteProjectIgnoringFailure ==
    /\ step = "write"
    /\ step' = "mark"
    /\ \/ Write(projectFile, target, project)
       \/ IOFaults /\ UNCHANGED projectFile
    /\ UNCHANGED <<history, bridge, target, backupFile, autosaveFile, autosaveNewer, ghost>>

WriteProject ==
    /\ step = "write"
    /\ \/ /\ Write(projectFile, target, project)
          /\ autosaveNewer' = autosaveNewer \ {target}
          /\ step' = "mark"
          /\ lastSaved' = [lastSaved EXCEPT ![target] = project]
          /\ owed' = [owed EXCEPT ![target] = NoFile]
          /\ UNCHANGED target
       \/ /\ WriteFails(projectFile, target)
          /\ Finish
          /\ UNCHANGED <<autosaveNewer, lastSaved, owed>>
    /\ UNCHANGED <<history, bridge, backupFile, autosaveFile, recovered>>

\* The document now has this path and matches the disk.
MarkSaved ==
    /\ step = "mark"
    /\ projectPath' = target
    /\ H!MarkSaved(project)
    /\ step' = "dropSaved"
    /\ recovered' = FALSE
    /\ UNCHANGED <<project, autosaveError, target, disk, lastSaved, owed>>

DropSavedAutosave ==
    /\ step = "dropSaved"
    /\ RemoveAutosave(target)
    /\ autosaveError' = FALSE
    /\ Finish
    /\ UNCHANGED <<history, project, projectPath, projectFile, backupFile, ghost>>
-----------------------------------------------------------------------------
\* The work a document leaves behind at its path when it is given up with
\* recorded changes that were autosaved.
OwedOnLeaving ==
    IF step \in {"idle", "backup", "write"} /\ Dirty /\ projectPath # NoPath /\ ~autosaveError
    THEN [owed EXCEPT ![projectPath] = currentSnapshot]
    ELSE owed

\* Mutant of New: the cleared document is autosaved to the path it had.
NewDroppingAutosave ==
    /\ Idle
    /\ project' = DefaultDocument
    /\ projectPath' = NoPath
    /\ autosaveError' = FALSE
    /\ H!Reset(DefaultDocument)
    /\ recovered' = FALSE
    /\ owed' = OwedOnLeaving
    /\ autosaveFile' = [p \in Path |-> IF p = projectPath THEN NoFile ELSE autosaveFile[p]]
    /\ UNCHANGED <<step, target, projectFile, backupFile, autosaveNewer, lastSaved>>

\* nc_project_new(), asked for or after declining to save.
New ==
    /\ Idle
    /\ project' = DefaultDocument
    /\ projectPath' = NoPath
    /\ autosaveError' = FALSE
    /\ H!Reset(DefaultDocument)
    /\ recovered' = FALSE
    /\ owed' = OwedOnLeaving
    /\ UNCHANGED <<step, target, disk, lastSaved>>

\* nc_project_open(p, preferAutosave); the caller prefers the autosave only
\* when one is offered.
Open(p, preferAutosave) ==
    LET loaded == IF preferAutosave THEN autosaveFile[p] ELSE projectFile[p]
    IN  /\ Idle
        /\ preferAutosave => AutosaveOffered(p)
        /\ loaded # NoFile
        /\ project' = Normal[loaded]
        /\ projectPath' = p
        /\ autosaveError' = FALSE
        /\ H!Reset(Normal[loaded])
        /\ step' = "dropOpened" /\ target' = p
        /\ recovered' = preferAutosave
        /\ owed' = OwedOnLeaving
        /\ UNCHANGED <<disk, lastSaved>>

\* "Recovered or declined, the autosave has served its purpose."
DropOpenedAutosave ==
    /\ step = "dropOpened"
    /\ RemoveAutosave(target)
    /\ Finish
    /\ owed' = [owed EXCEPT ![target] = NoFile]
    /\ UNCHANGED <<history, bridge, projectFile, backupFile, lastSaved, recovered>>

\* The process ends, at any point, and is started again.
Exit ==
    /\ project' = DefaultDocument
    /\ projectPath' = NoPath
    /\ autosaveError' = FALSE
    /\ H!Reset(DefaultDocument)
    /\ Finish
    /\ recovered' = FALSE
    /\ owed' = OwedOnLeaving
    /\ UNCHANGED <<disk, lastSaved>>

Next ==
    \/ \E d \in Document : SetUnrecorded(d)
    \/ \E name \in StepName : RecordGesture(name)
    \/ \E d \in Document, name \in StepName : Edit(d, name)
    \/ Undo \/ Redo
    \/ Autosave
    \/ \E p \in Path : SaveAs(p)
    \/ BackUp \/ WriteProject \/ MarkSaved \/ DropSavedAutosave
    \/ New
    \/ \E p \in Path, preferAutosave \in BOOLEAN : Open(p, preferAutosave)
    \/ DropOpenedAutosave
    \/ Exit

Spec == Init /\ [][Next]_vars
-----------------------------------------------------------------------------
\* Whatever edits, undos, redos, saves and opens came before: when a handler is
\* done and the document has recorded, unsaved changes and a path, then the
\* autosave at that path holds the current state and counts as newer than the
\* project, unless the last autosave reported an error.
DirtyIsAutosaved ==
    Idle /\ Dirty /\ projectPath # NoPath /\ ~autosaveError =>
        /\ autosaveFile[projectPath] # NoFile
        /\ H!SnapshotOf(autosaveFile[projectPath]) = currentSnapshot
        /\ projectPath \in autosaveNewer

\* What the last completed save put at a path can be read back from the project
\* or from its backup: through later saves that fail or die at any step, while
\* the backup is being overwritten, and when replacing the project file removes
\* it and then fails.
LastSaveSurvives ==
    \A p \in Path : lastSaved[p] # NoFile =>
        lastSaved[p] \in {projectFile[p], backupFile[p]}

\* Recorded, unsaved work that was autosaved when its document was given up (the
\* process died, the user quit, or opened something else without saving) is
\* offered the next time the project is opened, whatever happened in between at
\* other paths.
OwedWorkIsOffered ==
    \A p \in Path : owed[p] # NoFile /\ projectFile[p] # NoFile =>
        AutosaveOffered(p) /\ H!SnapshotOf(autosaveFile[p]) = owed[p]

\* A document that the history calls clean has a saved snapshot equal to the
\* project file at its path, unless it was recovered from an autosave.
CleanMatchesDisk ==
    Idle /\ projectPath # NoPath /\ ~recovered /\ projectFile[projectPath] # NoFile =>
        savedSnapshot = H!SnapshotOf(projectFile[projectPath])

\* A document with a path that is not dirty is what the project file holds: it
\* is why a clean document may be closed without asking ("Asks before throwing
\* away unsaved work. ... A clean document never prompts.",
\* EngineController.swift).  Recovering an autosave breaks it: the recovered
\* document is adopted as saved, and the autosave is removed.
CleanMeansOnDisk ==
    Idle /\ projectPath # NoPath /\ ~Dirty =>
        H!SnapshotOf(projectFile[projectPath]) = currentSnapshot
=============================================================================
