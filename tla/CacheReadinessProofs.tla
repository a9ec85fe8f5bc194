------------------------ MODULE CacheReadinessProofs ------------------------
(***************************************************************************)
(* How the readiness state may move, for any set of kinds, any thresholds  *)
(* and windows, and any number of accesses, timeouts and errors.           *)
(***************************************************************************)
EXTENDS CacheReadiness, AgedCountsProofs, TLAPS

\* Kinds are listed only once they are registered.
ListedAreRegistered == populating => allKinds = Kinds

(* A cache that was READY still has every kind: nothing takes a kind away. *)
ReadyHasAll == readiness = "READY" => allKinds = Kinds /\ Kinds \subseteq readyKinds

ReadinessInv == ReadinessTypeOK /\ ListedAreRegistered /\ ReadyHasAll

-----------------------------------------------------------------------------
(* What _recompute_readiness() makes of a typed state, whichever logs it   *)
(* is called with: READY and PARTIALLY_READY stand for what was listed.    *)
LEMMA RecomputeSays ==
    ASSUME ReadinessTypeOK, NEW f, NEW t, NEW b, Recompute(allKinds, readyKinds, f, t, b)
    PROVE  /\ readiness' \in States
           /\ partialFor' \in 0..Never
           /\ readiness' = "READY" =>
                 allKinds # {} /\ allKinds \subseteq readyKinds /\ ~ Diverged(f, t, b)
           /\ readiness' = "PARTIALLY_READY" => ~ (allKinds \subseteq readyKinds)
           /\ readiness' = "WARMING" => readyKinds = {}
  <1> DEFINE diverged == Diverged(f, t, b)
             waited   == IF partialFor = Never THEN 0 ELSE partialFor
  <1>1. /\ partialFor \in 0..Never /\ 0 \in 0..Never /\ Never \in 0..Never
        /\ waited \in 0..Never
    <2>1. StaleAfter \in Nat /\ partialFor \in 0..Never
      BY CacheAssumption DEF ReadinessTypeOK
    <2>2. QED  BY <2>1 DEF Never
  <1>2. readyKinds \subseteq allKinds
    BY DEF ReadinessTypeOK
  <1>3. CASE allKinds = {}
    <2>1. readiness' = "WARMING" /\ partialFor' = partialFor
      BY <1>3 DEF Recompute
    <2>2. QED  BY <1>1, <1>2, <1>3, <2>1 DEF States
  <1>4. CASE allKinds # {} /\ diverged
    <2>1. readiness' = "DEGRADED" /\ partialFor' = partialFor
      BY <1>4 DEF Recompute
    <2>2. QED  BY <1>1, <2>1 DEF States
  <1>5. CASE allKinds # {} /\ ~ diverged /\ allKinds \subseteq readyKinds
    <2>1. readiness' = "READY" /\ partialFor' = Never
      BY <1>5 DEF Recompute
    <2>2. QED  BY <1>1, <1>5, <2>1 DEF States
  <1>6. CASE allKinds # {} /\ ~ diverged /\ ~ (allKinds \subseteq readyKinds) /\ readyKinds # {}
    <2>1. /\ partialFor' = waited
          /\ readiness' = "DEGRADED" \/ readiness' = "PARTIALLY_READY"
      BY <1>6 DEF Recompute
    <2> HIDE DEF waited
    <2>2. QED  BY <1>1, <1>6, <2>1 DEF States
  <1>7. CASE allKinds # {} /\ ~ diverged /\ ~ (allKinds \subseteq readyKinds) /\ readyKinds = {}
    <2>1. readiness' = "WARMING" /\ partialFor' = partialFor
      BY <1>7 DEF Recompute
    <2>2. QED  BY <1>1, <1>7, <2>1 DEF States
  <1>8. QED  BY <1>3, <1>4, <1>5, <1>6, <1>7

\* The invariant after a call that recomputes the state and lists nothing.
LEMMA RecomputeInv ==
    ASSUME ReadinessInv, NEW f, NEW t, NEW b, Recompute(allKinds, readyKinds, f, t, b),
           UNCHANGED <<allKinds, toList, readyKinds>>, populating' \in {populating, FALSE},
           hits' \in [0..MissWindow -> Nat], misses' \in [0..MissWindow -> Nat],
           reconnects' \in 0..FailureThreshold + 1,
           timeouts' \in [0..TimeoutWindow -> Nat], bursts' \subseteq 0..BurstWindow
    PROVE  /\ ReadinessInv'
           /\ readyKinds' # {} => StateMoves
           /\ readiness' = "READY" /\ readiness # "READY" =>
                 readyKinds' = Kinds /\ ~ Diverged(f, t, b)
  <1>1. /\ readiness' \in States /\ partialFor' \in 0..Never
        /\ readiness' = "READY" =>
              allKinds # {} /\ allKinds \subseteq readyKinds /\ ~ Diverged(f, t, b)
        /\ readiness' = "PARTIALLY_READY" => ~ (allKinds \subseteq readyKinds)
        /\ readiness' = "WARMING" => readyKinds = {}
    BY RecomputeSays DEF ReadinessInv
  <1>2. /\ allKinds \in {{}, Kinds} /\ readyKinds \subseteq allKinds
        /\ readiness \in States /\ populating \in BOOLEAN
    BY DEF ReadinessInv, ReadinessTypeOK
  <1>3. ReadinessTypeOK'
    BY <1>1, <1>2 DEF ReadinessInv, ReadinessTypeOK
  <1>4. ListedAreRegistered' /\ ReadyHasAll'
    <2>1. populating' => populating
      OBVIOUS
    <2>2. QED
      BY <1>1, <1>2, <2>1 DEF ReadinessInv, ListedAreRegistered, ReadyHasAll
  <1>5. ASSUME readyKinds' # {} PROVE StateMoves
    <2>1. readiness = "READY" => allKinds \subseteq readyKinds
      BY DEF ReadinessInv, ReadyHasAll
    <2>2. QED  BY <1>1, <1>2, <1>5, <2>1 DEF StateMoves, Allowed, States
  <1>6. readiness' = "READY" => readyKinds' = Kinds
    BY <1>1, <1>2
  <1>7. QED  BY <1>1, <1>3, <1>4, <1>5, <1>6 DEF ReadinessInv

\* The invariant holds before populate().
LEMMA ReadinessInitInv == ReadinessInit => ReadinessInv
  <1> SUFFICES ASSUME ReadinessInit PROVE ReadinessInv
    OBVIOUS
  <1>1. /\ allKinds = {} /\ toList = {} /\ readyKinds = {} /\ populating = FALSE
        /\ readiness = "WARMING" /\ partialFor = Never /\ reconnects = 0 /\ bursts = {}
    BY DEF ReadinessInit
  <1>2. /\ hits \in [0..MissWindow -> Nat] /\ misses \in [0..MissWindow -> Nat]
        /\ timeouts \in [0..TimeoutWindow -> Nat]
    BY DEF ReadinessInit, Empty
  <1>3. partialFor \in 0..Never /\ reconnects \in 0..FailureThreshold + 1
    BY <1>1, CacheAssumption DEF Never
  <1>4. QED
    BY <1>1, <1>2, <1>3
    DEF ReadinessInv, ReadinessTypeOK, States, ListedAreRegistered, ReadyHasAll

(* What every step keeps and does: the three results are three parts of    *)
(* one case analysis.                                                      *)
LEMMA ReadinessStep ==
    ASSUME ReadinessInv, [ReadinessNext]_readinessVars
    PROVE  /\ ReadinessInv'
           /\ readyKinds' # {} => StateMoves
           /\ readiness' = "READY" /\ readiness # "READY" =>
                 readyKinds' = Kinds /\ ~ Diverged(reconnects, timeouts, bursts)'
  <1>1. /\ allKinds \in {{}, Kinds} /\ toList \subseteq Kinds /\ populating \in BOOLEAN
        /\ readyKinds \subseteq allKinds /\ readiness \in States
        /\ partialFor \in 0..Never
        /\ hits \in [0..MissWindow -> Nat] /\ misses \in [0..MissWindow -> Nat]
        /\ reconnects \in 0..FailureThreshold + 1
        /\ timeouts \in [0..TimeoutWindow -> Nat]
        /\ bursts \subseteq 0..BurstWindow
    BY DEF ReadinessInv, ReadinessTypeOK
  <1>2. /\ MissWindow \in Nat /\ TimeoutWindow \in Nat /\ BurstWindow \in Nat
        /\ FailureThreshold \in Nat /\ StaleAfter \in Nat \ {0}
    BY CacheAssumption
  <1>3. /\ Record(hits) \in [0..MissWindow -> Nat] /\ Record(misses) \in [0..MissWindow -> Nat]
        /\ Record(timeouts) \in [0..TimeoutWindow -> Nat]
    BY <1>1, <1>2, TotalOfRecord
  <1>4. CASE PopulateStarts
    <2>1. /\ allKinds = {} /\ allKinds' = Kinds /\ toList' = Kinds /\ populating' = TRUE
          /\ readiness' = "WARMING"
          /\ UNCHANGED <<readyKinds, partialFor, hits, misses, reconnects, timeouts, bursts>>
      BY <1>4 DEF PopulateStarts, logVars
    <2>2. readyKinds' = {}
      BY <1>1, <2>1
    <2>3. QED
      BY <1>1, <2>1, <2>2
      DEF ReadinessInv, ReadinessTypeOK, States, ListedAreRegistered, ReadyHasAll
  <1>5. CASE PopulateEnds
    BY <1>1, <1>5, RecomputeInv DEF PopulateEnds, logVars, Diverged
  <1>6. CASE \E k \in Kinds, listed \in BOOLEAN : ListKind(k, listed)
    <2>1. PICK k \in Kinds, listed \in BOOLEAN : ListKind(k, listed)
      BY <1>6
    <2>2. /\ populating /\ toList' = toList \ {k}
          /\ readyKinds' \in {readyKinds, readyKinds \cup {k}}
          /\ UNCHANGED <<allKinds, populating, readiness, partialFor, hits, misses,
                         reconnects, timeouts, bursts>>
      BY <2>1 DEF ListKind, logVars
    <2>3. allKinds = Kinds
      BY <2>2 DEF ReadinessInv, ListedAreRegistered
    <2>4. QED
      BY <1>1, <2>2, <2>3
      DEF ReadinessInv, ReadinessTypeOK, ListedAreRegistered, ReadyHasAll, StateMoves
  <1>7. CASE AskReadiness
    BY <1>1, <1>7, RecomputeInv DEF AskReadiness, kindVars, logVars, Diverged
  <1>8. CASE \E hit \in BOOLEAN : Get(hit)
    <2>1. /\ hits' \in {hits, Record(hits)} /\ misses' \in {misses, Record(misses)}
          /\ UNCHANGED <<allKinds, populating, toList, readyKinds, readiness, partialFor,
                         reconnects, timeouts, bursts>>
      BY <1>8 DEF Get, kindVars
    <2>2. QED
      BY <1>1, <1>3, <2>1
      DEF ReadinessInv, ReadinessTypeOK, ListedAreRegistered, ReadyHasAll, StateMoves
  <1>9. CASE NotifyReconnectFailure
    <2>1. /\ UNCHANGED <<allKinds, populating, toList, readyKinds, hits, misses, timeouts, bursts>>
          /\ Recompute(allKinds, readyKinds, reconnects', timeouts, bursts)
          /\ reconnects' = IF reconnects > FailureThreshold THEN reconnects ELSE reconnects + 1
      BY <1>9 DEF NotifyReconnectFailure, kindVars
    <2>2. reconnects' \in 0..FailureThreshold + 1
      BY <1>1, <1>2, <2>1
    <2>3. QED  BY <1>1, <2>1, <2>2, RecomputeInv DEF Diverged
  <1>10. CASE ResetReconnectFailures
    <2>1. /\ reconnects' = 0
          /\ UNCHANGED <<allKinds, populating, toList, readyKinds, readiness, partialFor,
                         hits, misses, timeouts, bursts>>
      BY <1>10 DEF ResetReconnectFailures, kindVars
    <2>2. 0 \in 0..FailureThreshold + 1
      BY <1>2
    <2>3. QED
      BY <1>1, <2>1, <2>2
      DEF ReadinessInv, ReadinessTypeOK, ListedAreRegistered, ReadyHasAll, StateMoves
  <1>11. CASE NotifyRelistTimeout
    <2>1. /\ UNCHANGED <<allKinds, populating, toList, readyKinds, hits, misses, reconnects, bursts>>
          /\ timeouts' = Record(timeouts)
          /\ Recompute(allKinds, readyKinds, reconnects, timeouts', bursts)
      BY <1>11 DEF NotifyRelistTimeout, kindVars
    <2>2. QED  BY <1>1, <1>3, <2>1, RecomputeInv DEF Diverged
  <1>12. CASE NotifyBurstError
    <2>1. /\ UNCHANGED <<allKinds, populating, toList, readyKinds, hits, misses, reconnects, timeouts>>
          /\ bursts' = bursts \cup {0}
          /\ Recompute(allKinds, readyKinds, reconnects, timeouts, bursts')
      BY <1>12 DEF NotifyBurstError, kindVars
    <2>2. bursts' \subseteq 0..BurstWindow
      BY <1>1, <1>2, <2>1
    <2>3. QED  BY <1>1, <2>1, <2>2, RecomputeInv DEF Diverged
  <1>13. CASE Tick
    <2>1. /\ hits' = Aged(hits) /\ misses' = Aged(misses) /\ timeouts' = Aged(timeouts)
          /\ bursts' = {age + 1 : age \in bursts \ {BurstWindow}}
          /\ partialFor' = IF partialFor < StaleAfter THEN partialFor + 1 ELSE partialFor
          /\ UNCHANGED <<allKinds, populating, toList, readyKinds, readiness, reconnects>>
      BY <1>13 DEF Tick, kindVars
    <2>2. /\ hits' \in [0..MissWindow -> Nat] /\ misses' \in [0..MissWindow -> Nat]
          /\ timeouts' \in [0..TimeoutWindow -> Nat]
      BY <1>1, <1>2, <2>1, TotalOfAged
    <2>3. bursts' \subseteq 0..BurstWindow
      BY <1>1, <1>2, <2>1
    <2>4. partialFor' \in 0..Never
      BY <1>1, <1>2, <2>1 DEF Never
    <2>5. QED
      BY <1>1, <2>1, <2>2, <2>3, <2>4
      DEF ReadinessInv, ReadinessTypeOK, ListedAreRegistered, ReadyHasAll, StateMoves
  <1>14. CASE UNCHANGED readinessVars
    BY <1>1, <1>14
    DEF readinessVars, ReadinessInv, ReadinessTypeOK, ListedAreRegistered, ReadyHasAll, StateMoves
  <1>15. QED
    BY <1>4, <1>5, <1>6, <1>7, <1>8, <1>9, <1>10, <1>11, <1>12, <1>13, <1>14
    DEF ReadinessNext, Populate, PopulateGoesOn, Notify

-----------------------------------------------------------------------------
\* The types of the readiness state, kinds, clock and indicators.
THEOREM ReadinessTypes == ReadinessSpec => []ReadinessTypeOK
  <1>1. ReadinessInv /\ [ReadinessNext]_readinessVars => ReadinessInv'
    BY ReadinessStep
  <1>2. ReadinessInv => ReadinessTypeOK
    BY DEF ReadinessInv
  <1>3. QED  BY ReadinessInitInv, <1>1, <1>2, PTL DEF ReadinessSpec

(* From the first kind listed on, readiness() and the notify calls keep to *)
(* the transitions INV-CS01 allows.                                        *)
THEOREM MovesAllowedOnceListed == ReadinessSpec => AllowedOnceListed
  <1>1. ReadinessInv /\ [ReadinessNext]_readinessVars => ReadinessInv' /\ [readyKinds' # {} => StateMoves]_readinessVars
    BY ReadinessStep
  <1>2. QED  BY ReadinessInitInv, <1>1, PTL DEF ReadinessSpec, AllowedOnceListed

(* No call announces READY while a kind is missing or an indicator is      *)
(* above its threshold, the one the same call writes included.             *)
THEOREM ReadyIsAlwaysEarned == ReadinessSpec => ReadyIsEarned
  <1> DEFINE Earned == readiness' = "READY" /\ readiness # "READY" =>
                          /\ readyKinds' = Kinds
                          /\ ~ MissRateHigh(hits', misses')
                          /\ reconnects' <= FailureThreshold
                          /\ Total(timeouts') <= TimeoutThreshold
  <1>1. ReadinessInv /\ [ReadinessNext]_readinessVars => ReadinessInv' /\ [Earned]_readinessVars
    <2> SUFFICES ASSUME ReadinessInv, [ReadinessNext]_readinessVars, readiness' = "READY", readiness # "READY"
                 PROVE  ReadinessInv' /\ Earned
      BY ReadinessStep
    <2>1. /\ ReadinessInv' /\ readyKinds' = Kinds
          /\ ~ Diverged(reconnects, timeouts, bursts)'
      BY ReadinessStep
    <2>2. ~ MissRateHigh(hits', misses')
      BY <2>1 DEF Diverged
    <2>3. ~ (reconnects' > FailureThreshold) /\ ~ (Total(timeouts') > TimeoutThreshold)
      BY <2>1 DEF Diverged
    <2>4. /\ reconnects' \in Nat /\ FailureThreshold \in Nat
          /\ Total(timeouts') \in Nat /\ TimeoutThreshold \in Nat
      <3>1. /\ reconnects' \in 0..FailureThreshold + 1
            /\ timeouts' \in [0..TimeoutWindow -> Nat]
        BY <2>1 DEF ReadinessInv, ReadinessTypeOK
      <3>2. FailureThreshold \in Nat /\ TimeoutThreshold \in Nat /\ TimeoutWindow \in Nat
        BY CacheAssumption
      <3>3. Total(timeouts') \in Nat
        BY <3>1, <3>2, TotalType
      <3>4. QED  BY <3>1, <3>2, <3>3
    <2>5. QED  BY <2>1, <2>2, <2>3, <2>4
  <1>2. QED  BY ReadinessInitInv, <1>1, PTL DEF ReadinessSpec, ReadyIsEarned

-----------------------------------------------------------------------------
(* The safety half of OneFailedListDegradesForGood.  populate() has come   *)
(* to its last kind and some kind was not listed.                          *)
KindMissing == allKinds = Kinds /\ toList = {} /\ readyKinds # Kinds

\* The cache has also been PARTIALLY_READY for as long as it may be.
Outdated ==
    /\ KindMissing /\ readyKinds # {}
    /\ partialFor = StaleAfter /\ readiness = "DEGRADED"

\* A state recomputed without a kind that was not listed is what it was.
LEMMA RecomputeOutdated ==
    ASSUME ReadinessInv, NEW f, NEW t, NEW b, Recompute(allKinds, readyKinds, f, t, b), Outdated
    PROVE  partialFor' = StaleAfter /\ readiness' = "DEGRADED"
  <1>1. allKinds # {} /\ readyKinds # {} /\ ~ (allKinds \subseteq readyKinds)
    BY CacheAssumption DEF ReadinessInv, ReadinessTypeOK, Outdated, KindMissing
  <1>2. /\ partialFor = StaleAfter /\ StaleAfter \in Nat /\ StaleAfter # Never
    BY CacheAssumption DEF Outdated, Never
  <1>3. CASE Diverged(f, t, b)
    <2>1. readiness' = "DEGRADED" /\ partialFor' = partialFor
      BY <1>1, <1>3 DEF Recompute
    <2>2. QED  BY <1>2, <2>1
  <1>4. CASE ~ Diverged(f, t, b)
    <2> DEFINE waited == IF partialFor = Never THEN 0 ELSE partialFor
    <2>1. /\ partialFor' = waited
          /\ readiness' = IF waited >= StaleAfter THEN "DEGRADED" ELSE "PARTIALLY_READY"
      BY <1>1, <1>4 DEF Recompute
    <2>2. waited = StaleAfter
      BY <1>2
    <2> HIDE DEF waited
    <2>3. QED  BY <1>2, <2>1, <2>2
  <1>5. QED  BY <1>3, <1>4

\* No step lists a kind that populate() has passed.
LEMMA MissingStep ==
    ASSUME ReadinessInv, [ReadinessNext]_readinessVars, KindMissing
    PROVE  KindMissing' /\ UNCHANGED readyKinds
  <1>1. allKinds # {}
    BY CacheAssumption DEF KindMissing
  <1>2. CASE Populate
    BY <1>1, <1>2
    DEF Populate, PopulateGoesOn, PopulateStarts, PopulateEnds, ListKind, KindMissing
  <1>3. CASE AskReadiness \/ (\E hit \in BOOLEAN : Get(hit)) \/ Notify \/ Tick
    BY <1>3
    DEF AskReadiness, Get, Notify, NotifyReconnectFailure, ResetReconnectFailures,
        NotifyRelistTimeout, NotifyBurstError, Tick, kindVars, KindMissing
  <1>4. CASE UNCHANGED readinessVars
    BY <1>4 DEF readinessVars, KindMissing
  <1>5. QED  BY <1>2, <1>3, <1>4 DEF ReadinessNext

\* An outdated cache stays DEGRADED through every step.
LEMMA OutdatedStep ==
    ASSUME ReadinessInv, [ReadinessNext]_readinessVars, Outdated
    PROVE  Outdated'
  <1>1. KindMissing' /\ readyKinds' # {} /\ allKinds # {}
    BY MissingStep, CacheAssumption DEF Outdated, KindMissing
  <1>2. CASE \E f, t, b : Recompute(allKinds, readyKinds, f, t, b)
    BY <1>1, <1>2, RecomputeOutdated DEF Outdated
  <1>3. CASE PopulateStarts
    BY <1>1, <1>3 DEF PopulateStarts
  <1>4. CASE PopulateEnds \/ AskReadiness
    BY <1>2, <1>4 DEF PopulateEnds, AskReadiness
  <1>5. CASE NotifyReconnectFailure \/ NotifyRelistTimeout \/ NotifyBurstError
    BY <1>2, <1>5 DEF NotifyReconnectFailure, NotifyRelistTimeout, NotifyBurstError
  <1>6. CASE \/ \E k \in Kinds, listed \in BOOLEAN : ListKind(k, listed)
             \/ \E hit \in BOOLEAN : Get(hit)
             \/ ResetReconnectFailures
    BY <1>1, <1>6 DEF ListKind, Get, ResetReconnectFailures, Outdated
  <1>7. CASE Tick
    <2>1. ~ (partialFor < StaleAfter)
      BY CacheAssumption DEF Outdated
    <2>2. partialFor' = partialFor /\ readiness' = readiness
      BY <1>7, <2>1 DEF Tick
    <2>3. QED  BY <1>1, <2>2 DEF Outdated
  <1>8. CASE UNCHANGED readinessVars
    BY <1>1, <1>8 DEF readinessVars, Outdated
  <1>9. QED
    BY <1>3, <1>4, <1>5, <1>6, <1>7, <1>8 DEF ReadinessNext, Populate, PopulateGoesOn, Notify

(* A cache that lacks a kind after its start-up lists is never READY, and  *)
(* once outdated it is DEGRADED for good, whatever the watches deliver.    *)
THEOREM FailedListIsForGood ==
    ReadinessSpec => /\ [](KindMissing => [](readiness # "READY"))
            /\ [](Outdated => [](readiness = "DEGRADED"))
  <1>1. ReadinessInv /\ [ReadinessNext]_readinessVars => ReadinessInv'
    BY ReadinessStep
  <1>2. ReadinessInv /\ [ReadinessNext]_readinessVars /\ KindMissing => KindMissing'
    BY MissingStep
  <1>3. ReadinessInv /\ [ReadinessNext]_readinessVars /\ Outdated => Outdated'
    BY OutdatedStep
  <1>4. ReadinessInv /\ KindMissing => readiness # "READY"
    BY DEF ReadinessInv, ReadyHasAll, ReadinessTypeOK, KindMissing
  <1>5. Outdated => readiness = "DEGRADED"
    BY DEF Outdated
  <1>6. QED  BY ReadinessInitInv, <1>1, <1>2, <1>3, <1>4, <1>5, PTL DEF ReadinessSpec
=============================================================================
