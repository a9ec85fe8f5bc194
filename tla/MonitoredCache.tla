--------------------------- MODULE MonitoredCache ---------------------------
(***************************************************************************)
(* A watcher beside the cache whose readiness is to tell how good the data *)
(* is.  The watcher counts its failures and relist timeouts for itself: no *)
(* step of it calls notify_reconnect_failure(), notify_relist_timeout() or *)
(* notify_burst_error() of the cache (collector/watcher.py, app.py).       *)
(***************************************************************************)
EXTENDS Watcher

CONSTANTS
    MaxRV  \* bound: the versions the server mentions

CONSTANTS Kinds, MissPercent, MissWindow, FailureThreshold, TimeoutThreshold,
          TimeoutWindow, BurstWindow, StaleAfter, MaxPerTick

VARIABLES allKinds, populating, toList, readyKinds, readiness, partialFor, hits,
          misses, reconnects, timeouts, bursts

Readiness == INSTANCE CacheReadiness
cacheVars == <<allKinds, populating, toList, readyKinds, readiness, partialFor,
               hits, misses, reconnects, timeouts, bursts>>
monitoredVars == <<watcherVars, cacheVars>>

\* what any API server may answer
Receive == \E version \in NoRV..MaxRV : ReceiveEvent(version)
ListEnds == (\E version \in NoRV..MaxRV : ListReturns(version)) \/ RelistError

MonitoredInit == WatcherInit /\ Readiness!ReadinessInit

\* the watchers start once populate() is over
WatcherMoves ==
    /\ allKinds # {} /\ ~ populating
    /\ \/ StartWatcher \/ StopWatcher
       \/ StreamOpens \/ Receive \/ WatchError
       \/ BackoffEnds \/ ListEnds \/ TimePasses
    /\ UNCHANGED cacheVars

\* callers read from the cache and ask for its state
CacheMoves ==
    /\ \/ Readiness!Populate
       \/ Readiness!AskReadiness
       \/ \E hit \in BOOLEAN : Readiness!Get(hit)
       \/ Readiness!Tick
    /\ UNCHANGED watcherVars

AskReadiness == Readiness!AskReadiness /\ UNCHANGED watcherVars
Retry == (WatchError \/ BackoffEnds \/ ListEnds) /\ UNCHANGED cacheVars

(* A watch request that is refused again and again keeps being retried,    *)
(* and callers keep asking for the state.                                  *)
MonitoredSpec ==
    /\ MonitoredInit
    /\ [][WatcherMoves \/ CacheMoves]_monitoredVars
    /\ WF_monitoredVars(AskReadiness)
    /\ WF_monitoredVars(Retry)

-----------------------------------------------------------------------------
(* INV-DT02, "More than 3 reconnect failures trigger DEGRADED state": an   *)
(* outage that never ends, with ever more failed attempts to open a        *)
(* stream, shows in the readiness in the end.                              *)
OutageDegrades ==
    <>[](pc \in {"opening", "backoff", "listing", "fallback"})
        => <>(readiness = "DEGRADED")
=============================================================================
