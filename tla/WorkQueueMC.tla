---------------------------- MODULE WorkQueueMC -----------------------------
(* Small instances of WorkQueue for TLC.  podB and podC are, say, a Pod    *)
(* and a Deployment of one name: the deduplication key forgets the kind.   *)
EXTENDS WorkQueue, TLC

CONSTANTS podA, podB, podC

EachItsOwnKey == [r \in Resources |-> r]
SharedKeys == (podA :> podA) @@ (podB :> podB) @@ (podC :> podB)

Interchangeable == Permutations(Workers) \cup Permutations(Items)
=============================================================================
