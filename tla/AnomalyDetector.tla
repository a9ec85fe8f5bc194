--------------------------- MODULE AnomalyDetector ---------------------------
(***************************************************************************)
(* AnomalyDetector (scout/detector.py) for one resource and one reason,    *)
(* which is what its cooldowns and rate windows are kept by: the threshold *)
(* rule, the rate-of-change rule and the cooldown, all in the time the     *)
(* events carry.                                                           *)
(*                                                                         *)
(* The cluster counts occurrences in Event objects, and one resource may   *)
(* have several for one reason (two containers in a crash loop), each with *)
(* a count of its own.  The watch may tell them late, out of order and     *)
(* again.  Events below the severity of a rule change nothing and are left *)
(* out.                                                                    *)
(***************************************************************************)
EXTENDS Naturals, Sequences

CONSTANTS
    Series,       \* Event objects of the resource and reason
    CountThreshold, DeltaThreshold, ObservationWindow,  \* of the rules
    Cooldown,     \* _cooldown
    MaxCount, MaxClock,  \* bounds: occurrences of an Event object, and time
    Nobody        \* no series: no alert, no window

ASSUME DetectorAssumption ==
    /\ Nobody \notin Series
    /\ {CountThreshold, DeltaThreshold} \subseteq Nat \ {0}
    /\ {ObservationWindow, Cooldown, MaxCount, MaxClock} \subseteq Nat

VARIABLES
    clock,
    when,      \* external: when[s][c] is the time s counted its c-th occurrence
    window,    \* the _RateWindow: its first count and time, and the series
               \* (history) they are from
    lastAlert, \* _cooldown_state: the time of the last alert, shifted by one;
               \* 0 when there is none
    alert      \* what the last process_event() returned, and by which rule
detectorVars == <<clock, when, window, lastAlert, alert>>

NoWindow == [of |-> Nobody, count |-> 0, seen |-> 0]
NoAlert == [by |-> "none", of |-> Nobody, count |-> 0]

DetectorTypeOK ==
    /\ clock \in 0..MaxClock
    /\ \A s \in Series : when[s] \in Seq(0..clock) /\ Len(when[s]) <= MaxCount
    /\ window.count \in 0..MaxCount /\ window.seen \in 0..clock
    /\ lastAlert \in 0..clock + 1
    /\ alert.by \in {"none", "threshold", "rate"} /\ alert.count \in 0..MaxCount

DetectorInit ==
    /\ clock = 0
    /\ when = [s \in Series |-> << >>]
    /\ window = NoWindow
    /\ lastAlert = 0
    /\ alert = NoAlert

-----------------------------------------------------------------------------
\* external: the cluster counts an occurrence in Event object s
Occur(s) ==
    /\ Len(when[s]) < MaxCount
    /\ when' = [when EXCEPT ![s] = Append(@, clock)]
    /\ UNCHANGED <<clock, window, lastAlert, alert>>

ClockTick ==
    /\ clock < MaxClock
    /\ clock' = clock + 1
    /\ UNCHANGED <<when, window, lastAlert, alert>>

\* _in_cooldown; an event from before the last alert is in it too
InCooldown(seen) == lastAlert # 0 /\ seen + 1 < lastAlert + Cooldown

\* Mutant: the window is not started anew when it is over.
SlidNever(s, count, seen) ==
    IF window = NoWindow THEN [of |-> s, count |-> count, seen |-> seen] ELSE window

\* the rate window once the event is looked at: opened, started anew, or kept
Slid(s, count, seen) ==
    IF window = NoWindow \/ seen > window.seen + ObservationWindow
    THEN [of |-> s, count |-> count, seen |-> seen]
    ELSE window

(* process_event() of the event that told count c of series s.  While a    *)
(* threshold alert is due, the rate rule does not see the event; while one *)
(* is suppressed, it does.                                                 *)
ProcessEvent(s, c) ==
    /\ c \in 1..Len(when[s])
    /\ LET seen == when[s][c]
           fires == c >= CountThreshold /\ ~ InCooldown(seen)
           rises == window # NoWindow /\ c >= Slid(s, c, seen).count + DeltaThreshold
       IN  /\ window' = IF fires THEN window ELSE Slid(s, c, seen)
           /\ alert' = IF fires THEN [by |-> "threshold", of |-> s, count |-> c]
                       ELSE IF rises /\ ~ InCooldown(seen)
                       THEN [by |-> "rate", of |-> s, count |-> c]
                       ELSE NoAlert
           /\ lastAlert' = IF alert' # NoAlert THEN seen + 1 ELSE lastAlert
    /\ UNCHANGED <<clock, when>>

\* clear_cooldown(), "operator overrides"
ClearCooldown ==
    /\ lastAlert' = 0
    /\ UNCHANGED <<clock, when, window, alert>>

DetectorNext ==
    \/ ClockTick
    \/ \E s \in Series : Occur(s) \/ (\E c \in 1..MaxCount : ProcessEvent(s, c))
    \/ ClearCooldown

DetectorSpec == DetectorInit /\ [][DetectorNext]_detectorVars

-----------------------------------------------------------------------------
(* A rate alert raised in a window that the same Event object opened is    *)
(* backed by the cluster: DeltaThreshold occurrences within one            *)
(* observation window, whatever was told late, twice or out of order.  (A  *)
(* window opened by another Event object compares unrelated counts.)       *)
RateAlertBacked ==
    (alert.by = "rate" /\ window.of = alert.of) =>
        /\ alert.count > DeltaThreshold
        /\ when[alert.of][alert.count] <=
              when[alert.of][alert.count - DeltaThreshold] + ObservationWindow
=============================================================================
