--------------------------- MODULE MCProjectHistory ---------------------------
(***************************************************************************)
(* ProjectHistory on four documents, one of which differs from another only *)
(* in routing that normalization derives, and a depth of 2.                *)
(***************************************************************************)
EXTENDS ProjectHistory, TLC

CONSTANTS mixA, mixB, mixC, mixCUnrouted

MCDocument == {mixA, mixB, mixC, mixCUnrouted}
MCNormal == [d \in MCDocument |-> IF d = mixCUnrouted THEN mixC ELSE d]
=============================================================================
