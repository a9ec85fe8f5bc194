-------------------------- MODULE AnalysisRequests --------------------------
(***************************************************************************)
(* What the work queue promises its callers, with no workers, sentinels,   *)
(* registry, capacity or rates: a request waits, is served once, the most  *)
(* urgent first, and its outcome is fixed once; two requests for the same  *)
(* workload never wait at the same time.  WorkQueue implements it.         *)
(***************************************************************************)
EXTENDS Naturals

CONSTANTS Items, Resources, KeyOf, None

VARIABLES waiting, serving, outcome, subject, urgency
vars == <<waiting, serving, outcome, subject, urgency>>

Settled == {"resolved", "failed", "cancelled"}

Init ==
    /\ waiting = {} /\ serving = {}
    /\ outcome = [i \in Items |-> "free"]
    /\ subject = [i \in Items |-> None]
    /\ urgency = [i \in Items |-> 1]

Accept(i) ==
    /\ outcome[i] = "free" /\ i \notin waiting \cup serving
    /\ \E r \in Resources, p \in 1..3 :
          /\ \A j \in waiting : KeyOf[subject[j]] # KeyOf[r]
          /\ subject' = [subject EXCEPT ![i] = r]
          /\ urgency' = [urgency EXCEPT ![i] = p]
    /\ outcome' = [outcome EXCEPT ![i] = "pending"]
    /\ waiting' = waiting \cup {i}
    /\ UNCHANGED serving

\* the most urgent request leaves the queue; a cancelled one is not served
Begin(i) ==
    /\ i \in waiting
    /\ \A j \in waiting : urgency[i] <= urgency[j]
    /\ waiting' = waiting \ {i}
    /\ serving' = IF outcome[i] = "cancelled" THEN serving ELSE serving \cup {i}
    /\ UNCHANGED <<outcome, subject, urgency>>

Settle(i) ==
    /\ i \in serving
    /\ serving' = serving \ {i}
    /\ \E o \in {"resolved", "failed"} :
          outcome' = [outcome EXCEPT ![i] = IF @ = "pending" THEN o ELSE @]
    /\ UNCHANGED <<waiting, subject, urgency>>

Cancel(i) ==
    /\ outcome[i] = "pending"
    /\ outcome' = [outcome EXCEPT ![i] = "cancelled"]
    /\ UNCHANGED <<waiting, serving, subject, urgency>>

Release(i) ==
    /\ outcome[i] \in Settled /\ i \notin waiting \cup serving
    /\ outcome' = [outcome EXCEPT ![i] = "free"]
    /\ subject' = [subject EXCEPT ![i] = None]
    /\ urgency' = [urgency EXCEPT ![i] = 1]
    /\ UNCHANGED <<waiting, serving>>

\* a restarted queue is empty
Restart ==
    /\ serving = {}
    /\ waiting' = {}
    /\ UNCHANGED <<serving, outcome, subject, urgency>>

Next ==
    \/ \E i \in Items : Accept(i) \/ Begin(i) \/ Settle(i) \/ Cancel(i) \/ Release(i)
    \/ Restart

Spec == Init /\ [][Next]_vars
=============================================================================
