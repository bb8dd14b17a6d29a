--------------------------- MODULE MCProjectSession ---------------------------
(***************************************************************************)
(* ProjectSession with three documents, two paths, and a history of one    *)
(* step (ProjectHistory.cfg checks the stacks at depth 2).                 *)
(***************************************************************************)
EXTENDS ProjectSession, FiniteSets, TLC

CONSTANTS untitled, mixA, mixB, song, copy

MCDocument == {untitled, mixA, mixB}
MCNormal == [d \in MCDocument |-> d]
MCPath == {song, copy}

\* A bound: at most one of the two paths is ever saved over, so that one backup
\* exists; the other path is there for what happens elsewhere in between.
OneBackup == Cardinality({p \in Path : backupFile[p] # NoFile}) <= 1

\* The default document is the only one the code singles out.
Symmetry == Permutations({mixA, mixB}) \cup Permutations(MCPath)
=============================================================================
