--------------------------- MODULE MCRemoteDspStream ---------------------------
(***************************************************************************)
(* RemoteDspStream with two settings, which buffer one block and two, and  *)
(* queues short enough to overflow.                                        *)
(***************************************************************************)
EXTENDS RemoteDspStream

CONSTANTS short, long

MCSetting == {short, long}
MCTarget == [s \in MCSetting |-> IF s = short THEN 1 ELSE 2]
=============================================================================
