----------------------------- MODULE MCDspManager -----------------------------
(***************************************************************************)
(* DspManager with two machines: a studio computer, which has the default  *)
(* node's name as its host name and a number that a broadcast finds, and a *)
(* rack that only a broadcast or the user makes known.  A server has one   *)
(* channel or two, and two plug-in instances ask for one each.             *)
(***************************************************************************)
EXTENDS DspManager, TLC

CONSTANTS studio, studioNumber, rackNumber, rack, core, reverb, first, second

MCAddresses == <<rackNumber, studioNumber, studio>>
MCNumeric == {rackNumber, studioNumber}
MCHost == studio :> studio @@ studioNumber :> studio @@ rackNumber :> rack
MCOwnModule == studio :> core @@ studioNumber :> core @@ rackNumber :> reverb
MCDefaultNode == {studio}
MCTyped == {rackNumber}
MCInstance == {first, second}
Symmetry == Permutations(MCInstance)

\* Two servers are listed at a time, of three addresses, and one of them at most is
\* unsteady; the DSP engine is not stopped for longer than the window is idle.
TwoListed ==
    /\ Len(servers) <= 2
    /\ Cardinality({k \in DOMAIN servers : servers[k].peakHigh \/ servers[k].latched}) <= 1
    /\ dspEngineRunning \/ window = "idle"
=============================================================================
