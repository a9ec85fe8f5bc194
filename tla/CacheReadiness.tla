--------------------------- MODULE CacheReadiness ---------------------------
(***************************************************************************)
(* The readiness state of ResourceCache (cache/resource_cache.py): which   *)
(* kinds populate() has listed, the divergence indicators and the moments  *)
(* at which _recompute_readiness() looks at them.                          *)
(*                                                                         *)
(* Nothing recomputes the state when time passes or an access is recorded: *)
(* readiness is what the last caller was told.  populate() runs once; the  *)
(* class lets callers in between its list calls.                           *)
(***************************************************************************)
EXTENDS Naturals, FiniteSets, AgedCounts

CONSTANTS
    Kinds,             \* the kinds populate() is asked to list
    MissPercent,       \* _MISS_RATE_THRESHOLD
    MissWindow,        \* _MISS_RATE_WINDOW, in ticks
    FailureThreshold,  \* _RECONNECT_FAILURE_THRESHOLD
    TimeoutThreshold,  \* _RELIST_TIMEOUT_THRESHOLD
    TimeoutWindow,     \* _RELIST_TIMEOUT_WINDOW
    BurstWindow,       \* _BURST_WINDOW
    StaleAfter,        \* _PARTIALLY_READY_STALENESS_TIMEOUT
    MaxPerTick         \* bound: accesses, and timeouts, of one tick

ASSUME CacheAssumption ==
    /\ Kinds # {} /\ IsFiniteSet(Kinds)
    /\ MissPercent \in 0..100
    /\ {MissWindow, FailureThreshold, TimeoutThreshold, TimeoutWindow,
        BurstWindow, MaxPerTick} \subseteq Nat
    /\ StaleAfter \in Nat \ {0}

VARIABLES
    allKinds,   \* _all_kinds
    populating, \* populate() is running
    toList,     \* the kinds it has still to list
    readyKinds, \* _ready_kinds
    readiness,  \* _readiness
    partialFor, \* age of _partially_ready_since; Never when it is None
    hits, misses, \* _access_log
    reconnects, \* _reconnect_failures, counted up to one past the threshold
    timeouts,   \* _relist_timeout_times
    bursts      \* _burst_error_times: the ages at which an error was recorded
kindVars == <<allKinds, populating, toList, readyKinds>>
logVars  == <<hits, misses, reconnects, timeouts, bursts>>
readinessVars == <<allKinds, populating, toList, readyKinds, readiness, partialFor, hits,
          misses, reconnects, timeouts, bursts>>

Never == StaleAfter + 1
States == {"WARMING", "PARTIALLY_READY", "READY", "DEGRADED"}

ReadinessTypeOK ==
    /\ allKinds \in {{}, Kinds}
    /\ toList \subseteq Kinds /\ populating \in BOOLEAN
    /\ readyKinds \subseteq allKinds
    /\ readiness \in States
    /\ partialFor \in 0..Never
    /\ hits \in [0..MissWindow -> Nat] /\ misses \in [0..MissWindow -> Nat]
    /\ reconnects \in 0..FailureThreshold + 1
    /\ timeouts \in [0..TimeoutWindow -> Nat]
    /\ bursts \subseteq 0..BurstWindow

-----------------------------------------------------------------------------
\* _current_miss_rate() > _MISS_RATE_THRESHOLD
MissRateHigh(h, m) == 100 * Total(m) > MissPercent * (Total(h) + Total(m))

\* _recent_burst_duration() > _BURST_WINDOW, entries older than the window dropped
BurstLasts(b) == \E age \in b : age > BurstWindow

\* _is_diverged, on the logs as they are once the caller has written to them
Diverged(f, t, b) ==
    \/ MissRateHigh(hits, misses)
    \/ f > FailureThreshold
    \/ Total(t) > TimeoutThreshold
    \/ BurstLasts(b)

\* Mutant: the clock of PARTIALLY_READY starts anew at every look.
RecomputeRestartsClock(all, ready, f, t, b) ==
    /\ readiness' = CASE all = {} -> "WARMING"
                      [] all # {} /\ Diverged(f, t, b) -> "DEGRADED"
                      [] all # {} /\ ~ Diverged(f, t, b) /\ all \subseteq ready -> "READY"
                      [] all # {} /\ ~ Diverged(f, t, b) /\ ~ (all \subseteq ready)
                            /\ ready # {} -> "PARTIALLY_READY"
                      [] OTHER -> "WARMING"
    /\ partialFor' = 0

\* Mutant: a cache with kinds missing is taken for one still warming up.
RecomputeAllOrNothing(all, ready, f, t, b) ==
    /\ readiness' = IF all # {} /\ Diverged(f, t, b) THEN "DEGRADED"
                    ELSE IF all # {} /\ all \subseteq ready THEN "READY" ELSE "WARMING"
    /\ UNCHANGED partialFor

\* _recompute_readiness
Recompute(all, ready, f, t, b) ==
    LET waited == IF partialFor = Never THEN 0 ELSE partialFor
    IN  CASE all = {} ->
                /\ readiness' = "WARMING"
                /\ UNCHANGED partialFor
          [] all # {} /\ Diverged(f, t, b) ->
                /\ readiness' = "DEGRADED"
                /\ UNCHANGED partialFor
          [] all # {} /\ ~ Diverged(f, t, b) /\ all \subseteq ready ->
                /\ readiness' = "READY"
                /\ partialFor' = Never
          [] all # {} /\ ~ Diverged(f, t, b) /\ ~ (all \subseteq ready) /\ ready # {} ->
                /\ partialFor' = waited
                /\ readiness' = IF waited >= StaleAfter THEN "DEGRADED"
                                                        ELSE "PARTIALLY_READY"
          [] OTHER ->
                /\ readiness' = "WARMING"
                /\ UNCHANGED partialFor

-----------------------------------------------------------------------------
ReadinessInit ==
    /\ allKinds = {} /\ toList = {} /\ readyKinds = {} /\ populating = FALSE
    /\ readiness = "WARMING"
    /\ partialFor = Never
    /\ hits = Empty(MissWindow) /\ misses = Empty(MissWindow)
    /\ reconnects = 0
    /\ timeouts = Empty(TimeoutWindow)
    /\ bursts = {}

\* Mutant: the kinds are not registered.
PopulateUnregistered ==
    /\ allKinds = {} /\ ~ populating
    /\ populating' = TRUE
    /\ toList' = Kinds
    /\ readiness' = "WARMING"
    /\ UNCHANGED <<allKinds, readyKinds, partialFor, logVars>>

\* populate() up to its first list call; the state is set, not recomputed
PopulateStarts ==
    /\ allKinds = {}
    /\ allKinds' = Kinds
    /\ populating' = TRUE
    /\ toList' = Kinds
    /\ readiness' = "WARMING"
    /\ UNCHANGED <<readyKinds, partialFor, logVars>>

(* One kind: listed, or skipped (no API, no list function, an exception,   *)
(* which is logged and never retried).                                     *)
ListKind(k, listed) ==
    /\ populating /\ k \in toList
    /\ toList' = toList \ {k}
    /\ readyKinds' = IF listed THEN readyKinds \cup {k} ELSE readyKinds
    /\ UNCHANGED <<allKinds, populating, readiness, partialFor, logVars>>

\* after the pause that follows the last kind
PopulateEnds ==
    /\ populating /\ toList = {}
    /\ populating' = FALSE
    /\ Recompute(allKinds, readyKinds, reconnects, timeouts, bursts)
    /\ UNCHANGED <<allKinds, toList, readyKinds, logVars>>

\* Mutant: the last state is returned as it is.
AskReadinessCached == UNCHANGED readinessVars

\* readiness()
AskReadiness ==
    /\ Recompute(allKinds, readyKinds, reconnects, timeouts, bursts)
    /\ UNCHANGED <<kindVars, logVars>>

\* get(): the access is recorded, the state left alone
Get(hit) ==
    /\ hits[0] + misses[0] < MaxPerTick
    /\ hits' = IF hit THEN Record(hits) ELSE hits
    /\ misses' = IF hit THEN misses ELSE Record(misses)
    /\ UNCHANGED <<kindVars, readiness, partialFor, reconnects, timeouts, bursts>>

\* Mutant: the state is recomputed before the failure is counted.
NotifyReconnectFailureLate ==
    /\ reconnects' = IF reconnects > FailureThreshold THEN reconnects ELSE reconnects + 1
    /\ Recompute(allKinds, readyKinds, reconnects, timeouts, bursts)
    /\ UNCHANGED <<kindVars, hits, misses, timeouts, bursts>>

NotifyReconnectFailure ==
    /\ reconnects' = IF reconnects > FailureThreshold THEN reconnects ELSE reconnects + 1
    /\ Recompute(allKinds, readyKinds, reconnects', timeouts, bursts)
    /\ UNCHANGED <<kindVars, hits, misses, timeouts, bursts>>

ResetReconnectFailures ==
    /\ reconnects' = 0
    /\ UNCHANGED <<kindVars, readiness, partialFor, hits, misses, timeouts, bursts>>

NotifyRelistTimeout ==
    /\ timeouts[0] < MaxPerTick
    /\ timeouts' = Record(timeouts)
    /\ Recompute(allKinds, readyKinds, reconnects, timeouts', bursts)
    /\ UNCHANGED <<kindVars, hits, misses, reconnects, bursts>>

NotifyBurstError ==
    /\ bursts' = bursts \cup {0}
    /\ Recompute(allKinds, readyKinds, reconnects, timeouts, bursts')
    /\ UNCHANGED <<kindVars, hits, misses, reconnects, timeouts>>

\* a tick of the clock; the code drops what is too old when it next looks
Tick ==
    /\ hits' = Aged(hits) /\ misses' = Aged(misses)
    /\ timeouts' = Aged(timeouts)
    /\ bursts' = {age + 1 : age \in bursts \ {BurstWindow}}
    /\ partialFor' = IF partialFor < StaleAfter THEN partialFor + 1 ELSE partialFor
    /\ UNCHANGED <<kindVars, readiness, reconnects>>

PopulateGoesOn ==
    PopulateEnds \/ \E k \in Kinds, listed \in BOOLEAN : ListKind(k, listed)
Populate == PopulateStarts \/ PopulateGoesOn

\* the calls "called by watchers" in the class, by tests only in the code
Notify ==
    \/ NotifyReconnectFailure
    \/ ResetReconnectFailures
    \/ NotifyRelistTimeout
    \/ NotifyBurstError

ReadinessNext ==
    \/ Populate
    \/ AskReadiness
    \/ \E hit \in BOOLEAN : Get(hit)
    \/ Notify
    \/ Tick

ReadinessSpec == ReadinessInit /\ [][ReadinessNext]_readinessVars

(* The clock moves, populate() goes on once it has begun, and the REST and *)
(* MCP status calls keep asking for the state.                             *)
ReadinessFairness ==
    /\ WF_readinessVars(Tick) /\ WF_readinessVars(AskReadiness)
    /\ WF_readinessVars(PopulateGoesOn)

-----------------------------------------------------------------------------
\* the transitions INV-CS01 allows
Allowed ==
    {<<"WARMING", "PARTIALLY_READY">>, <<"WARMING", "DEGRADED">>,
     <<"WARMING", "READY">>, <<"PARTIALLY_READY", "READY">>,
     <<"PARTIALLY_READY", "DEGRADED">>, <<"READY", "DEGRADED">>,
     <<"DEGRADED", "READY">>, <<"DEGRADED", "PARTIALLY_READY">>}
StateMoves == <<readiness, readiness'>> \in Allowed \/ readiness' = readiness

(* From the first kind listed on, the state moves along the transitions of *)
(* INV-CS01 only, whichever caller recomputes it and whatever expires in   *)
(* between: READY is never taken back to PARTIALLY_READY or WARMING.       *)
AllowedOnceListed == [][readyKinds' # {} => StateMoves]_readinessVars

(* READY is announced only when every kind was listed and no indicator is  *)
(* above its threshold, the ones the same call has just written included.  *)
ReadyIsEarned ==
    [][readiness' = "READY" /\ readiness # "READY" =>
          /\ readyKinds' = Kinds
          /\ ~ MissRateHigh(hits', misses')
          /\ reconnects' <= FailureThreshold
          /\ Total(timeouts') <= TimeoutThreshold]_readinessVars

(* PARTIALLY_READY does not last: it degrades after the staleness timeout  *)
(* unless the missing kinds are listed first.                              *)
PartialDoesNotLast == (readiness = "PARTIALLY_READY") ~> (readiness # "PARTIALLY_READY")

(* When every kind is listed and the indicators stay quiet, the cache is   *)
(* READY again in the end and stays so.                                    *)
Recovers ==
    <>[](readyKinds = Kinds /\ ~ Diverged(reconnects, timeouts, bursts))
        => <>[](readiness = "READY")

(* A kind whose one list call failed is never retried: with another kind   *)
(* listed, the cache ends up DEGRADED for good, whatever the watches       *)
(* deliver afterwards.                                                     *)
OneFailedListDegradesForGood ==
    (populating /\ toList = {} /\ readyKinds # {} /\ readyKinds # Kinds)
        ~> [](readiness = "DEGRADED")
=============================================================================
