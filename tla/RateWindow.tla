----------------------------- MODULE RateWindow -----------------------------
(***************************************************************************)
(* The sliding-window rate limiter inside analyst/queue.py: the timestamps *)
(* of the calls submit() let through during the last minute and the        *)
(* five-minute halving that an upstream 429 starts.                        *)
(*                                                                         *)
(* recent[a] is the number of calls let through a ticks ago (AgedCounts);  *)
(* halvedFor is what remains of _rate_halved_until - now.                  *)
(***************************************************************************)
EXTENDS Naturals, AgedCounts

CONSTANTS
    Window,        \* ticks in the sliding minute
    DefaultRate,   \* _DEFAULT_RATE_PER_MINUTE
    DegradedRate,  \* _DEGRADED_RATE_PER_MINUTE
    HalveFor       \* ticks in _RATE_HALVE_DURATION_S

ASSUME RateAssumption ==
    /\ Window \in Nat
    /\ DefaultRate \in Nat \ {0}
    /\ DegradedRate \in Nat \ {0}
    /\ HalveFor \in Nat

VARIABLES recent, halvedFor
rateVars == <<recent, halvedFor>>

Ages == 0..Window

RateTypeOK ==
    /\ recent \in [Ages -> Nat]
    /\ halvedFor \in 0..HalveFor

RateInit ==
    /\ recent = Empty(Window)
    /\ halvedFor = 0

\* len(self._request_timestamps) after the pruning
CallsInWindow == Total(recent)

\* max(1.0, base / 2.0), the count being compared with a whole number of calls
HalfRate == (DefaultRate + 1) \div 2

\* a degraded cache is granted no more than the halved rate (5, and half of 20)
ASSUME DegradedIsLess == DegradedRate <= HalfRate

\* Mutant: the 429 halving is not looked at.
EffectiveRateUnhalved(degraded, cpuBusy) ==
    CASE degraded              -> DegradedRate
      [] ~degraded /\ cpuBusy  -> HalfRate
      [] OTHER                 -> DefaultRate

\* _compute_effective_rate: a DEGRADED cache wins, then the 429 halving (no
\* stacking), then CPU pressure.  A callback that is absent or raises counts
\* as "not degraded" and "not busy".
EffectiveRate(degraded, cpuBusy) ==
    CASE degraded                       -> DegradedRate
      [] ~degraded /\ halvedFor > 0     -> HalfRate
      [] ~degraded /\ halvedFor = 0 /\ cpuBusy  -> HalfRate
      [] OTHER                          -> DefaultRate

\* Mutant: off by one at the limit.
AdmitOneMore(degraded, cpuBusy) ==
    /\ CallsInWindow <= EffectiveRate(degraded, cpuBusy)
    /\ recent' = Record(recent)
    /\ UNCHANGED halvedFor

\* _enforce_rate_limit: disabled where the code raises, else the call is recorded
Admit(degraded, cpuBusy) ==
    /\ CallsInWindow < EffectiveRate(degraded, cpuBusy)
    /\ recent' = Record(recent)
    /\ UNCHANGED halvedFor

\* notify_upstream_429
Notify429 ==
    /\ halvedFor' = HalveFor
    /\ UNCHANGED recent

\* time.monotonic() moves on by one tick
RateTick ==
    /\ recent' = Aged(recent)
    /\ halvedFor' = IF halvedFor = 0 THEN 0 ELSE halvedFor - 1
=============================================================================
