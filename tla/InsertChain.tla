---- MODULE InsertChain ----
(***************************************************************************)
(* A chain of prepared plug-ins (RealtimeMasterInsertChain).  Each plug-in *)
(* is [plug, known, due, has]: `known` is the value the chain wants its    *)
(* parameter to have, `due` says that the plug-in has not been told yet,   *)
(* and `has` is what it was last told.  A plug-in is told with the next    *)
(* block it processes; a block that fails leaves the rest of the chain     *)
(* untold.                                                                 *)
(***************************************************************************)
EXTENDS Integers, Sequences, FiniteSets, SequencesExt, FiniteSetsExt, Folds, Functions

Untold == -1
Loaded(inserts) ==
    [i \in DOMAIN inserts |-> [plug |-> inserts[i].plug, known |-> inserts[i].param, due |-> TRUE, has |-> Untold]]
Plugs(inserts) == [i \in DOMAIN inserts |-> inserts[i].plug]
Healthy(inserts, broken) == Range(Plugs(inserts)) \cap broken = {}

\* A slip: the value is stored and the plug-in never told.
StoreParameter(run, i, value) == IF i \in DOMAIN run THEN [run EXCEPT ![i].known = value] ELSE run
UpdateParameter(run, i, value) ==
    IF i \in DOMAIN run /\ run[i].known # value
    THEN [run EXCEPT ![i].known = value, ![i].due = TRUE] ELSE run

\* The plug-ins at `on` process a block in order, up to the first that fails.
Process(run, on, broken) ==
    LET failing == {i \in on : run[i].plug \in broken}
        reached == {i \in on : \A j \in failing : i < j}
    IN [i \in DOMAIN run |-> IF i \in reached /\ run[i].due
                             THEN [run[i] EXCEPT !.has = run[i].known, !.due = FALSE] ELSE run[i]]
Effects(run, on) ==
    LET order == SelectSeq([i \in DOMAIN run |-> i], LAMBDA i : i \in on)
    IN [j \in DOMAIN order |-> <<run[order[j]].plug, run[order[j]].has>>]
====
