--------------------------- MODULE ResourceCache ---------------------------
(***************************************************************************)
(* The two halves of ResourceCache (cache/resource_cache.py), one at a     *)
(* time in one run: the objects of a kind with the watcher that keeps them *)
(* current, and the readiness state.  The code lets neither read or write  *)
(* what the other is made of: the readiness looks at kinds listed and at   *)
(* accesses, never at objects.  `half` is chosen in the beginning and      *)
(* kept, so that their states are added, not multiplied.                   *)
(***************************************************************************)
EXTENDS WatchedCache, CacheReadiness

VARIABLE half
resourceCacheVars == <<half, vars, readinessVars>>

ResourceCacheInit ==
    /\ half \in {"contents", "readiness"}
    /\ Init /\ ReadinessInit

ContentsSteps == half = "contents" /\ Next /\ UNCHANGED <<half, readinessVars>>
ReadinessSteps == half = "readiness" /\ ReadinessNext /\ UNCHANGED <<half, vars>>

(* The half that was not chosen stays in its initial state, where none of  *)
(* its fair actions is enabled.                                            *)
ResourceCacheSpec ==
    /\ ResourceCacheInit
    /\ [][ContentsSteps \/ ReadinessSteps]_resourceCacheVars
    /\ WatchFairness /\ ReadinessFairness
=============================================================================
