------------------------------ MODULE Watcher -------------------------------
(***************************************************************************)
(* The watch loop of BaseWatcher (collector/watcher.py): open a stream at  *)
(* the last resourceVersion seen, follow it, and on an error back off or   *)
(* relist.  What the API server answers is a parameter of the actions; the *)
(* module that composes the watcher with a cluster decides it.             *)
(*                                                                         *)
(* Time is abstracted to what the loop asks of it: whether the last relist *)
(* is less than five minutes old (throttled) and how many 429/5xx errors   *)
(* the last minute holds (burst).  Both may lapse at any moment.           *)
(***************************************************************************)
EXTENDS Naturals

CONSTANTS
    MaxFailures,     \* _MAX_CONSECUTIVE_FAILURES
    BurstThreshold,  \* _BURST_RELIST_THRESHOLD
    MaxBackoff       \* _BACKOFF_MAX_S

ASSUME WatcherAssumption ==
    /\ MaxFailures \in Nat \ {0}
    /\ BurstThreshold \in Nat
    /\ MaxBackoff \in Nat \ {0}

VARIABLES
    pc,        \* the await the loop is suspended in
    rv,        \* _resource_version; NoRV is the empty string
    failures,  \* _consecutive_failures, counted up to one past MaxFailures
    burst,     \* 429/5xx of the last minute, up to one past BurstThreshold
    throttled, \* _last_relist_at is less than 5 minutes ago
    backoff    \* _backoff_s
watcherVars == <<pc, rv, failures, burst, throttled, backoff>>

NoRV == 0
Places == {"new", "opening", "streaming", "backoff", "listing", "fallback", "stopped"}
Min2(a, b) == IF a <= b THEN a ELSE b

WatcherTypeOK ==
    /\ pc \in Places
    /\ rv \in Nat
    /\ failures \in 0..MaxFailures + 1
    /\ burst \in 0..BurstThreshold + 1
    /\ throttled \in BOOLEAN
    /\ backoff \in 1..MaxBackoff

WatcherInit ==
    /\ pc = "new" /\ rv = NoRV
    /\ failures = 0 /\ burst = 0
    /\ throttled = FALSE
    /\ backoff = 1

-----------------------------------------------------------------------------
\* start(): the loop task is created; rv and the counters are kept
StartWatcher ==
    /\ pc \in {"new", "stopped"}
    /\ pc' = "opening"
    /\ UNCHANGED <<rv, failures, burst, throttled, backoff>>

\* stop(): the task is cancelled at whatever await it is in
StopWatcher ==
    /\ pc \notin {"new", "stopped"}
    /\ pc' = "stopped"
    /\ UNCHANGED <<rv, failures, burst, throttled, backoff>>

\* the server accepts the watch request
StreamOpens ==
    /\ pc = "opening"
    /\ pc' = "streaming"
    /\ UNCHANGED <<rv, failures, burst, throttled, backoff>>

\* an event or a bookmark: only the resourceVersion is remembered
ReceiveEvent(newRV) ==
    /\ pc = "streaming"
    /\ rv' = IF newRV = NoRV THEN rv ELSE newRV
    /\ UNCHANGED <<pc, failures, burst, throttled, backoff>>

(* What follows an error: _relist() unless it is throttled, or _backoff(). *)
(* _do_relist() forgets the resourceVersion before it asks for a list.     *)
Recover(relist, keptRV) ==
    IF relist /\ ~ throttled
    THEN /\ pc' = "listing"
         /\ throttled' = TRUE
         /\ rv' = NoRV
    ELSE /\ pc' = "backoff"
         /\ rv' = keptRV
         /\ UNCHANGED throttled

OneMoreFailure == Min2(failures + 1, MaxFailures + 1)
OneMoreBurst == Min2(burst + 1, BurstThreshold + 1)
Watching == pc \in {"opening", "streaming"}

\* Mutant: the version the server refused is kept.
GoneKeepsVersion ==
    /\ Watching
    /\ Recover(TRUE, rv)
    /\ UNCHANGED <<failures, burst, backoff>>

\* 410 Gone: the resourceVersion is too old
Gone ==
    /\ Watching
    /\ Recover(TRUE, NoRV)
    /\ UNCHANGED <<failures, burst, backoff>>

\* 429: counts as a burst error, not as a failure
TooManyRequests ==
    /\ Watching
    /\ burst' = OneMoreBurst
    /\ Recover(burst' > BurstThreshold, rv)
    /\ UNCHANGED <<failures, backoff>>

\* 500, 503, 504
ServerError ==
    /\ Watching
    /\ failures' = OneMoreFailure
    /\ burst' = OneMoreBurst
    /\ Recover(failures' >= MaxFailures \/ burst' > BurstThreshold, rv)
    /\ UNCHANGED backoff

\* any other status, an unexpected exception, or a stream that just ended
OtherFailure ==
    /\ Watching
    /\ failures' = OneMoreFailure
    /\ Recover(failures' >= MaxFailures, rv)
    /\ UNCHANGED <<burst, backoff>>

\* Mutant: no maximum.
BackoffEndsUncapped ==
    /\ pc = "backoff"
    /\ backoff' = backoff * 2
    /\ pc' = "opening"
    /\ UNCHANGED <<rv, failures, burst, throttled>>

\* the sleep of _backoff() is over
BackoffEnds ==
    /\ pc = "backoff"
    /\ backoff' = Min2(backoff * 2, MaxBackoff)
    /\ pc' = "opening"
    /\ UNCHANGED <<rv, failures, burst, throttled>>

\* _reset_backoff() at the end of _relist(), whatever became of the list
RelistEnds ==
    /\ backoff' = 1
    /\ failures' = 0
    /\ pc' = "opening"
    /\ UNCHANGED <<burst, throttled>>

\* a list of the watched kind, or of pods in the fallback, comes back: only
\* its resourceVersion is kept, the items are not looked at
ListReturns(newRV) ==
    /\ pc \in {"listing", "fallback"}
    /\ rv' = IF newRV = NoRV THEN rv ELSE newRV
    /\ RelistEnds

\* the list raises; _resource_version stays empty
ListFails ==
    /\ pc \in {"listing", "fallback"}
    /\ RelistEnds
    /\ UNCHANGED rv

\* the list exceeds its budget: pods only
ListTimesOut ==
    /\ pc = "listing"
    /\ pc' = "fallback"
    /\ UNCHANGED <<rv, failures, burst, throttled, backoff>>

\* five minutes pass since the last relist
ThrottleLapses ==
    /\ throttled
    /\ throttled' = FALSE
    /\ UNCHANGED <<pc, rv, failures, burst, backoff>>

\* burst errors grow older than a minute
BurstLapses ==
    /\ burst > 0
    /\ burst' \in 0..burst - 1
    /\ UNCHANGED <<pc, rv, failures, throttled, backoff>>
-----------------------------------------------------------------------------
WatchError == Gone \/ TooManyRequests \/ ServerError \/ OtherFailure
RelistError == ListFails \/ ListTimesOut
TimePasses == ThrottleLapses \/ BurstLapses
=============================================================================
