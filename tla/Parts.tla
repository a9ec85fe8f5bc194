-------------------------------- MODULE Parts --------------------------------
(***************************************************************************)
(* Five parts that share no state, checked one at a time in one run: the   *)
(* change ledger, the SQLite store, the dependency graph, the anomaly      *)
(* scout and the application itself.  `part` is chosen in the beginning    *)
(* and kept; the others stay where they begin.  A behaviour of each part   *)
(* is a behaviour here, and nothing else is: their states are added, not   *)
(* multiplied.                                                             *)
(***************************************************************************)
EXTENDS ChangeLedger, SnapshotStore, DependencyGraph, AnomalyDetector, Application

VARIABLE part
vars == <<part, ledgerVars, storeVars, graphVars, detectorVars, appVars>>

PartNames == {"ledger", "store", "graph", "scout", "application"}

\* A graph that is not looked at begins with a cluster of no objects.
QuietGraph == nodes = {} /\ alive = {} /\ needs = [p \in Pods |-> {}]

Init ==
    /\ part \in PartNames
    /\ LedgerInit /\ StoreInit /\ DetectorInit /\ AppInit
    /\ GraphInit
    /\ part # "graph" => QuietGraph

LedgerSteps ==
    part = "ledger" /\ LedgerNext /\ UNCHANGED <<part, storeVars, graphVars, detectorVars, appVars>>
StoreSteps ==
    part = "store" /\ StoreNext /\ UNCHANGED <<part, ledgerVars, graphVars, detectorVars, appVars>>
GraphSteps ==
    part = "graph" /\ GraphNext /\ UNCHANGED <<part, ledgerVars, storeVars, detectorVars, appVars>>
DetectorSteps ==
    part = "scout" /\ DetectorNext /\ UNCHANGED <<part, ledgerVars, storeVars, graphVars, appVars>>
AppSteps ==
    part = "application" /\ AppNext /\ UNCHANGED <<part, ledgerVars, storeVars, graphVars, detectorVars>>

Next == LedgerSteps \/ StoreSteps \/ GraphSteps \/ DetectorSteps \/ AppSteps

(* A part that was not chosen stays in its initial state, where none of    *)
(* its fair actions is enabled.                                            *)
Spec == Init /\ [][Next]_vars /\ StoreFairness /\ AppFairness

-----------------------------------------------------------------------------
(* What the variables of the five parts hold.                              *)
PartsTypeOK ==
    /\ part \in PartNames
    /\ LedgerTypeOK /\ StoreTypeOK /\ GraphTypeOK /\ DetectorTypeOK /\ AppTypeOK
=============================================================================
