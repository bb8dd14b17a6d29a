----------------------------- MODULE MCVst3Bridge -----------------------------
(***************************************************************************)
(* Vst3Bridge for TLC.  The bounds are given in the .cfg files.            *)
(***************************************************************************)
EXTENDS Vst3Bridge
=============================================================================
