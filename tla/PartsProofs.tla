----------------------------- MODULE PartsProofs -----------------------------
(***************************************************************************)
(* The parts that share no state: the SQLite store, the anomaly scout and  *)
(* the application's life, then what holds of each part alone holds of     *)
(* them side by side (Parts).  The change ledger and the dependency graph  *)
(* have modules of their own.                                              *)
(***************************************************************************)
EXTENDS Parts, ChangeLedgerProofs, DependencyGraphProofs, FiniteSetTheorems,
        Integers, TLAPS

-----------------------------------------------------------------------------
(* The SQLite store: what becomes of the snapshots it accepted, for any    *)
(* resources and cap, and any number of snapshots, faults and restarts.    *)
-----------------------------------------------------------------------------
(* Of the rows of one resource, those with fewer older rows than there are *)
(* rows too many have KeptRows newer ones.                                 *)
LEMMA OldestGoFirst ==
    ASSUME NEW rows, IsFiniteSet(rows), rows \subseteq Row,
           \A r, s \in rows : r.key = s.key,
           NEW n \in Nat, n + KeptRows <= Cardinality(rows),
           NEW r \in rows, Cardinality({s \in rows : Older(s, r)}) < n
    PROVE  Cardinality({s \in rows : Older(r, s)}) >= KeptRows
  <1> DEFINE before == {s \in rows : Older(s, r)}
             after == {s \in rows : Older(r, s)}
  <1>1. IsFiniteSet(before) /\ IsFiniteSet(after) /\ IsFiniteSet({r})
    BY FS_Subset, FS_Singleton
  <1>2. /\ Cardinality(before) \in Nat /\ Cardinality(after) \in Nat
        /\ Cardinality(rows) \in Nat /\ KeptRows \in Nat
    BY <1>1, FS_CardinalityType, StoreAssumption
  <1>3. rows = (before \cup {r}) \cup after
    <2>1. ASSUME NEW s \in rows PROVE s = r \/ Older(s, r) \/ Older(r, s)
      <3>1. /\ s \in [key : Tables, nr : 1..MaxStored]
            /\ r \in [key : Tables, nr : 1..MaxStored]
            /\ s.key = r.key
        BY DEF Row
      <3>2. s.nr = r.nr => s = r
        BY <3>1
      <3>3. s.nr \in Int /\ r.nr \in Int
        BY <3>1
      <3>4. QED  BY <3>2, <3>3 DEF Older
    <2>2. QED  BY <2>1
  <1>4. /\ before \cap {r} = {}
        /\ (before \cup {r}) \cap after = {}
    <2>1. \A s \in rows : s.nr \in Int
      BY DEF Row
    <2>2. ~ Older(r, r) /\ \A s \in rows : ~ (Older(s, r) /\ Older(r, s))
      BY <2>1 DEF Older
    <2>3. QED  BY <2>2
  <1>5. Cardinality(rows) = Cardinality(before) + 1 + Cardinality(after)
    <2> HIDE DEF before, after
    <2>1. IsFiniteSet(before \cup {r})
      BY <1>1, FS_Union
    <2>2. Cardinality(before \cup {r}) = Cardinality(before) + 1
      <3>1. Cardinality({r}) = 1 /\ Cardinality({}) = 0
        BY FS_Singleton, FS_EmptySet
      <3>2. QED  BY <1>1, <1>2, <1>4, <3>1, FS_Union
    <2>3. Cardinality(rows) = Cardinality(before \cup {r}) + Cardinality(after)
      <3>1. Cardinality({}) = 0
        BY FS_EmptySet
      <3>2. Cardinality((before \cup {r}) \cup after)
              = Cardinality(before \cup {r}) + Cardinality(after)
                 - Cardinality((before \cup {r}) \cap after)
        BY <1>1, <2>1, FS_Union
      <3>3. Cardinality(before \cup {r}) \in Nat
        BY <1>2, <2>2
      <3>4. Cardinality((before \cup {r}) \cap after) = 0
        BY <1>4, <3>1, Zenon
      <3>5. Cardinality(rows) = Cardinality((before \cup {r}) \cup after)
        BY <1>3, Zenon
      <3>6. \A a, b \in Nat : a + b - 0 = a + b
        OBVIOUS
      <3>7. QED  BY <1>2, <3>2, <3>3, <3>4, <3>5, <3>6, Zenon
    <2>4. QED  BY <2>2, <2>3
  <1> HIDE DEF before, after
  <1>6. Cardinality(before) < n
    BY DEF before
  <1>7. Cardinality(after) >= KeptRows
    BY <1>2, <1>5, <1>6
  <1>8. QED  BY <1>7 DEF after

\* A resource has at most MaxStored rows.
LEMMA FewRows ==
    ASSUME NEW k \in Tables, NEW rows \in SUBSET Row
    PROVE  /\ IsFiniteSet(Of(k, rows))
           /\ Cardinality(Of(k, rows)) \in 0..MaxStored
  <1> DEFINE f == [i \in 1..MaxStored |-> [key |-> k, nr |-> i]]
             all == {[key |-> k, nr |-> i] : i \in 1..MaxStored}
  <1>1. f \in Surjection(1..MaxStored, all)
    BY DEF Surjection
  <1>2. IsFiniteSet(1..MaxStored) /\ Cardinality(1..MaxStored) = MaxStored
    <2>1. 1 \in Int /\ MaxStored \in Int /\ MaxStored \in Nat
      BY StoreAssumption
    <2>2. /\ IsFiniteSet(1..MaxStored)
          /\ Cardinality(1..MaxStored) = IF 1 > MaxStored THEN 0 ELSE MaxStored - 1 + 1
      BY <2>1, FS_Interval
    <2>3. QED  BY <2>1, <2>2
  <1> HIDE DEF f
  <1>3. IsFiniteSet(all) /\ Cardinality(all) <= MaxStored
    BY <1>1, <1>2, FS_Surjection
  <1>4. Of(k, rows) \subseteq all
    BY DEF Of, Row
  <1> HIDE DEF all
  <1>5. IsFiniteSet(Of(k, rows)) /\ Cardinality(Of(k, rows)) <= Cardinality(all)
    BY <1>3, <1>4, FS_Subset
  <1>6. Cardinality(Of(k, rows)) \in Nat /\ Cardinality(all) \in Nat
    BY <1>3, <1>5, FS_CardinalityType
  <1>7. QED  BY <1>3, <1>5, <1>6, StoreAssumption

-----------------------------------------------------------------------------
(* Where a row of the batch is while the flush is on its way.              *)
BatchIsKnown ==
    /\ flusher \notin {"inserting", "committing"} => batch = {}
    /\ flusher = "committing" => batch \subseteq table \cup pruned

\* What a rollback would take away, and what close() leaves pending.
RollbackIsExcused ==
    /\ table \subseteq disk \cup excused \cup batch
    /\ degraded => pending \subseteq excused
    /\ place = "closing" /\ flusher # "cancelled" => pending \subseteq excused
    /\ place = "down" => pending = {} /\ flusher \notin {"inserting", "committing"}

\* The rows counted as too many are still too many when they are deleted.
CountIsBacked ==
    cleaner = "trimming" =>
        \A k \in Tables :
            excess[k] > 0 => excess[k] + KeptRows <= Cardinality(Of(k, table))

StoreInv == StoreTypeOK /\ BatchIsKnown /\ RollbackIsExcused /\ CountIsBacked

\* The invariant holds before open().
LEMMA StoreInitInv == StoreInit => StoreInv
  <1> SUFFICES ASSUME StoreInit PROVE StoreInv
    OBVIOUS
  <1>1. NothingExcess \in [Tables -> 0..MaxStored]
    BY StoreAssumption DEF NothingExcess
  <1>2. StoreTypeOK
    <2>1. 0 \in 0..MaxStored /\ 0 \in 0..0 /\ 0 \in 0..MaxFaults
      BY StoreAssumption
    <2>2. QED  BY <1>1, <2>1, Zenon DEF StoreInit, StoreTypeOK
  <1>3. QED
    BY <1>2 DEF StoreInit, StoreInv, BatchIsKnown, RollbackIsExcused, CountIsBacked

\* More rows do not make a count wrong.
LEMMA GrowthKeepsCounts ==
    ASSUME StoreInv, table \subseteq table', table' \in SUBSET Row,
           excess' = excess, cleaner' = cleaner
    PROVE  CountIsBacked'
  <1>1. SUFFICES ASSUME cleaner = "trimming", NEW k \in Tables, excess[k] > 0
                 PROVE  excess[k] + KeptRows <= Cardinality(Of(k, table'))
    BY DEF CountIsBacked
  <1>2. excess[k] + KeptRows <= Cardinality(Of(k, table))
    BY <1>1 DEF StoreInv, CountIsBacked
  <1>3. table \in SUBSET Row
    BY DEF StoreInv, StoreTypeOK
  <1>4. Of(k, table) \subseteq Of(k, table')
    BY DEF Of
  <1>5. /\ Cardinality(Of(k, table)) <= Cardinality(Of(k, table'))
        /\ Cardinality(Of(k, table)) \in Nat /\ Cardinality(Of(k, table')) \in Nat
    BY <1>3, <1>4, FewRows, FS_Subset
  <1>6. excess[k] \in Nat /\ KeptRows \in Nat
    BY StoreAssumption DEF StoreInv, StoreTypeOK
  <1>7. QED  BY <1>2, <1>5, <1>6

-----------------------------------------------------------------------------
\* The flush, store() and the life of the store: the table only grows or the
\* clean-up is not counting.
LEMMA FlushStep ==
    ASSUME StoreInv,
           FlushBegins \/ FlushInserts \/ (\E slow \in BOOLEAN : FlushCommits(slow)) \/ FlushFails
    PROVE  StoreInv' /\ Accounted \subseteq Accounted'
  <1> USE DEF StoreInv, StoreTypeOK, BatchIsKnown, RollbackIsExcused, Accounted,
              flushVars, cleanVars, dataVars
  <1>1. table' \in SUBSET Row /\ table \subseteq table' /\ excess' = excess /\ cleaner' = cleaner
    <2>1. CASE FlushBegins
      BY <2>1 DEF FlushBegins
    <2>2. CASE FlushInserts
      BY <2>2 DEF FlushInserts
    <2>3. CASE \E slow \in BOOLEAN : FlushCommits(slow)
      BY <2>3 DEF FlushCommits
    <2>4. CASE FlushFails
      BY <2>4 DEF FlushFails
    <2>5. QED  BY <2>1, <2>2, <2>3, <2>4
  <1>2. CountIsBacked'
    BY <1>1, GrowthKeepsCounts
  <1>3. CASE FlushBegins
    BY <1>2, <1>3 DEF FlushBegins
  <1>4. CASE FlushInserts
    BY <1>2, <1>4 DEF FlushInserts
  <1>5. CASE \E slow \in BOOLEAN : FlushCommits(slow)
    BY <1>2, <1>5 DEF FlushCommits, AfterFlush
  <1>6. CASE FlushFails
    <2>1. /\ flusher \in {"inserting", "committing"} /\ flusher' \in {"asleep", "flushed"}
          /\ batch' = {} /\ excused' = excused \cup batch
          /\ table \subseteq table' /\ table' \subseteq table \cup batch
          /\ faults' \in 0..MaxFaults
          /\ UNCHANGED <<place, pending, degraded, cleaner, excess, disk, stored, expired, pruned>>
      BY <1>6, StoreAssumption DEF FlushFails, AfterFlush
    <2>2. QED  BY <1>2, <2>1
  <1>7. QED  BY <1>3, <1>4, <1>5, <1>6

\* open(), store(), close() and crashes preserve it and lose no accounted row.
LEMMA LifeStep ==
    ASSUME StoreInv,
           \/ OpenStore \/ Expire \/ (\E k \in Tables : StoreSnapshot(k))
           \/ CloseBegins \/ CloseCancelsCleanup \/ CloseEnds \/ Crash
    PROVE  StoreInv' /\ Accounted \subseteq Accounted'
  <1> USE DEF StoreInv, StoreTypeOK, BatchIsKnown, RollbackIsExcused, Accounted,
              flushVars, cleanVars, dataVars
  <1>1. NothingExcess \in [Tables -> 0..MaxStored]
    BY StoreAssumption DEF NothingExcess
  <1>2. CASE OpenStore
    BY <1>1, <1>2 DEF OpenStore, CountIsBacked
  <1>3. CASE Expire
    <2>1. \A n \in 0..MaxStored : \A m \in 0..n : m < n => m + 1 \in 0..n
      BY StoreAssumption
    <2>2. expired' \in 0..stored
      BY <1>3, <2>1 DEF Expire
    <2>3. QED  BY <1>3, <2>2 DEF Expire, CountIsBacked
  <1>4. CASE \E k \in Tables : StoreSnapshot(k)
    <2>1. PICK k \in Tables : StoreSnapshot(k)
      BY <1>4
    <2> DEFINE row == [key |-> k, nr |-> stored + 1]
               tooLate == place = "closing" /\ flusher # "cancelled"
    <2>2. /\ stored' \in 0..MaxStored /\ row \in Row /\ expired \in 0..stored'
      <3>1. \A n \in 0..MaxStored : \A m \in 0..n :
               n < MaxStored => n + 1 \in 1..MaxStored /\ n + 1 \in 0..MaxStored
                                /\ m \in 0..n + 1
        BY StoreAssumption
      <3>2. stored' = stored + 1 /\ stored < MaxStored
        BY <2>1 DEF StoreSnapshot
      <3>3. QED  BY <3>1, <3>2 DEF Row
    <2>3. \/ degraded /\ pending' = pending /\ excused' = excused
          \/ /\ ~ degraded /\ pending' = pending \cup {row}
             /\ excused' = IF tooLate THEN excused \cup {row} ELSE excused
      BY <2>1 DEF StoreSnapshot
    <2>4. /\ place # "down"
          /\ UNCHANGED <<place, flusher, batch, degraded, cleaner, excess, table, disk,
                         expired, faults, pruned>>
      BY <2>1 DEF StoreSnapshot
    <2> HIDE DEF row
    <2>5. QED  BY <2>2, <2>3, <2>4 DEF CountIsBacked
  <1>5. CASE CloseBegins
    <2>1. table' \in SUBSET Row /\ table \subseteq table' /\ excess' = excess /\ cleaner' = cleaner
      BY <1>5 DEF CloseBegins
    <2>2. CountIsBacked'
      BY <2>1, GrowthKeepsCounts
    <2>3. QED  BY <1>5, <2>2 DEF CloseBegins
  <1>6. CASE CloseCancelsCleanup
    BY <1>1, <1>6 DEF CloseCancelsCleanup, CountIsBacked
  <1>7. CASE CloseEnds
    BY <1>7 DEF CloseEnds, CountIsBacked
  <1>8. CASE Crash
    <2>1. faults' \in 0..MaxFaults
      BY <1>8, StoreAssumption DEF Crash
    <2>2. QED  BY <1>1, <1>8, <2>1 DEF Crash, CountIsBacked
  <1>9. QED  BY <1>2, <1>3, <1>4, <1>5, <1>6, <1>7, <1>8

\* One DELETE of the clean-up takes only what it has a reason to take.
LEMMA DeletedIsDue ==
    ASSUME StoreInv, NEW k \in Tables, DeleteExcess(k)
    PROVE  \E gone \in SUBSET Of(k, table) :
              table' = table \ gone /\ pruned' = pruned \cup gone
  <1> DEFINE gone == {r \in Of(k, table) :
                        Cardinality({s \in Of(k, table) : Older(s, r)}) < excess[k]}
             due  == {r \in gone :
                        Cardinality({s \in Of(k, table) : Older(r, s)}) >= KeptRows}
  <1>1. table' = table \ gone /\ pruned' = pruned \cup due
    BY DEF DeleteExcess
  <1>2. ASSUME NEW r \in gone PROVE r \in due
    <2>1. /\ table \in SUBSET Row
          /\ excess[k] \in Nat /\ cleaner = "trimming" /\ excess[k] > 0
      BY DEF StoreInv, StoreTypeOK, DeleteExcess
    <2>2. excess[k] + KeptRows <= Cardinality(Of(k, table))
      BY <2>1 DEF StoreInv, CountIsBacked
    <2>3. /\ IsFiniteSet(Of(k, table)) /\ Of(k, table) \subseteq Row
          /\ \A q, s \in Of(k, table) : q.key = s.key
      BY <2>1, FewRows DEF Of
    <2>4. Cardinality({s \in Of(k, table) : Older(r, s)}) >= KeptRows
      BY <2>1, <2>2, <2>3, OldestGoFirst
    <2>5. QED  BY <2>4
  <1>3. gone = due
    BY <1>2
  <1> HIDE DEF due
  <1>4. gone \in SUBSET Of(k, table)
    OBVIOUS
  <1>5. QED  BY <1>1, <1>3, <1>4

\* So does each part of a clean-up.
LEMMA CleanStep ==
    ASSUME StoreInv,
           \/ DeleteExpired \/ CountExcess \/ CleanupCommits \/ CleanupFails
           \/ \E k \in Tables : DeleteExcess(k)
    PROVE  StoreInv' /\ Accounted \subseteq Accounted'
  <1> USE DEF StoreInv, StoreTypeOK, BatchIsKnown, RollbackIsExcused, Accounted,
              flushVars, cleanVars, dataVars
  <1>1. NothingExcess \in [Tables -> 0..MaxStored]
    BY StoreAssumption DEF NothingExcess
  <1>2. CASE DeleteExpired
    BY <1>2 DEF DeleteExpired, CountIsBacked
  <1>3. CASE CountExcess
    <2> DEFINE n(k) == Cardinality(Of(k, table))
               more(k) == IF n(k) > KeptRows THEN n(k) - KeptRows ELSE 0
    <2>1. /\ excess' = [k \in Tables |-> more(k)] /\ table' = table
          /\ cleaner' = "trimming"
      BY <1>3 DEF CountExcess
    <2>2. ASSUME NEW k \in Tables
          PROVE  /\ more(k) \in 0..MaxStored
                 /\ more(k) > 0 => more(k) + KeptRows <= n(k)
      <3>1. n(k) \in 0..MaxStored
        BY FewRows
      <3> HIDE DEF n
      <3>2. QED  BY <3>1, StoreAssumption
    <2> HIDE DEF n, more
    <2>3. excess' \in [Tables -> 0..MaxStored]
      BY <2>1, <2>2
    <2>4. CountIsBacked'
      <3>1. \A k \in Tables : excess'[k] = more(k)
        BY <2>1
      <3>2. QED  BY <2>1, <2>2, <3>1 DEF CountIsBacked, n
    <2>5. QED  BY <1>3, <2>3, <2>4 DEF CountExcess
  <1>4. CASE CleanupCommits
    BY <1>4 DEF CleanupCommits, CountIsBacked
  <1>5. CASE CleanupFails
    <2>1. faults' \in 0..MaxFaults
      BY <1>5, StoreAssumption DEF CleanupFails
    <2>2. QED  BY <1>1, <1>5, <2>1 DEF CleanupFails, CountIsBacked
  <1>6. CASE \E k \in Tables : DeleteExcess(k)
    <2>1. PICK k \in Tables : DeleteExcess(k)
      BY <1>6
    <2>2. PICK gone \in SUBSET Of(k, table) : table' = table \ gone /\ pruned' = pruned \cup gone
      BY <2>1, DeletedIsDue
    <2>3. /\ excess' = [excess EXCEPT ![k] = 0] /\ cleaner' = cleaner
          /\ UNCHANGED <<place, pending, flusher, batch, degraded, disk, stored, expired,
                         faults, excused>>
      BY <2>1 DEF DeleteExcess
    <2>4. gone \subseteq table
      BY DEF Of
    <2>5. excess' \in [Tables -> 0..MaxStored]
      BY <2>3, StoreAssumption
    <2>6. CountIsBacked'
      <3>1. SUFFICES ASSUME cleaner = "trimming", NEW q \in Tables, excess'[q] > 0
                     PROVE  excess'[q] + KeptRows <= Cardinality(Of(q, table'))
        BY <2>3 DEF CountIsBacked
      <3>2. q # k /\ excess'[q] = excess[q]
        BY <2>3, <3>1
      <3>3. Of(q, table') = Of(q, table)
        BY <2>2, <3>2 DEF Of
      <3>4. QED  BY <3>1, <3>2, <3>3 DEF CountIsBacked
    <2>7. QED  BY <2>2, <2>3, <2>4, <2>5, <2>6
  <1>7. QED  BY <1>2, <1>3, <1>4, <1>5, <1>6

\* So does every step of the store.
LEMMA StoreStep ==
    ASSUME StoreInv, [StoreNext]_storeVars
    PROVE  StoreInv' /\ Accounted \subseteq Accounted'
  <1>1. CASE UNCHANGED storeVars
    BY <1>1
    DEF storeVars, StoreInv, StoreTypeOK, BatchIsKnown, RollbackIsExcused, CountIsBacked, Accounted
  <1>2. CASE StoreNext
    BY <1>2, FlushStep, LifeStep, CleanStep DEF StoreNext, Flushing, Cleaning, Closing
  <1>3. QED  BY <1>1, <1>2

\* So it holds in every reachable state.
LEMMA StoreInductive == StoreSpec => []StoreInv
  <1>1. StoreInv /\ [StoreNext]_storeVars => StoreInv'
    BY StoreStep
  <1>2. QED  BY <1>1, StoreInitInv, PTL DEF StoreSpec

-----------------------------------------------------------------------------
(* _do_flush(), cleanup() and close() share one connection and wait in the *)
(* middle of what they do: no interleaving of them loses a snapshot that   *)
(* store() accepted, beyond what the excuses name.                         *)
THEOREM AcceptedRowsAreKept == StoreSpec => AcceptedIsKept
  <1>1. StoreInv /\ [StoreNext]_storeVars => [Accounted \subseteq Accounted']_storeVars
    BY StoreStep
  <1>2. QED  BY <1>1, StoreInductive, PTL DEF StoreSpec, AcceptedIsKept

(* The types of the store, and of the two background tasks.                *)
THEOREM StoreTypesHold == StoreSpec => []StoreTypeOK
  <1>1. StoreInv => StoreTypeOK
    BY DEF StoreInv
  <1>2. QED  BY <1>1, StoreInductive, PTL

-----------------------------------------------------------------------------
(* The anomaly scout: the rate alerts, for any thresholds, windows and     *)
(* cooldown, and any number of Event objects and occurrences.              *)
-----------------------------------------------------------------------------
\* The cluster counts in the order of time.
CountedInOrder ==
    \A s \in Series : \A i, j \in 1..Len(when[s]) : i <= j => when[s][i] <= when[s][j]

\* The window starts at an occurrence that was really counted.
WindowIsReal ==
    window # NoWindow =>
        /\ window.of \in Series
        /\ window.count \in 1..Len(when[window.of])
        /\ window.seen = when[window.of][window.count]

\* An alert is of an occurrence that was really counted.
AlertIsReal ==
    alert.by # "none" => alert.of \in Series /\ alert.count \in 1..Len(when[alert.of])

Typed ==
    /\ clock \in Nat
    /\ when \in [Series -> Seq(Nat)]
    /\ \A s \in Series : \A i \in 1..Len(when[s]) : when[s][i] <= clock

DetectorInv == Typed /\ CountedInOrder /\ WindowIsReal /\ AlertIsReal /\ RateAlertBacked

-----------------------------------------------------------------------------
\* The invariant holds before the first event.
LEMMA DetectorInitInv == DetectorInit => DetectorInv
  <1> SUFFICES ASSUME DetectorInit PROVE DetectorInv
    OBVIOUS
  <1>1. when = [s \in Series |-> << >>] /\ clock = 0 /\ window = NoWindow /\ alert = NoAlert
    BY DEF DetectorInit
  <1>2. Typed
    BY <1>1 DEF Typed
  <1>3. CountedInOrder
    BY <1>1 DEF CountedInOrder
  <1>4. WindowIsReal /\ AlertIsReal /\ RateAlertBacked
    BY <1>1 DEF WindowIsReal, AlertIsReal, RateAlertBacked, NoAlert
  <1>5. QED  BY <1>2, <1>3, <1>4 DEF DetectorInv

\* What was counted stays: a new occurrence comes last.
LEMMA OccurrenceInv ==
    ASSUME DetectorInv, NEW s \in Series, Occur(s)
    PROVE  DetectorInv'
  <1>1. /\ when' = [when EXCEPT ![s] = Append(@, clock)]
        /\ clock' = clock /\ window' = window /\ alert' = alert
    BY DEF Occur
  <1>2. /\ clock \in Nat /\ when \in [Series -> Seq(Nat)]
        /\ \A q \in Series : \A i \in 1..Len(when[q]) : when[q][i] <= clock
    BY DEF DetectorInv, Typed
  <1>3. ASSUME NEW q \in Series
        PROVE  /\ when'[q] \in Seq(Nat)
               /\ Len(when'[q]) >= Len(when[q])
               /\ \A i \in 1..Len(when[q]) : when'[q][i] = when[q][i]
               /\ \A i \in 1..Len(when'[q]) :
                     i \notin 1..Len(when[q]) => i = Len(when'[q]) /\ when'[q][i] = clock
    <2>1. CASE q = s
      <3>1. when'[q] = Append(when[q], clock) /\ when[q] \in Seq(Nat)
        BY <1>1, <1>2, <2>1
      <3>2. QED  BY <1>2, <3>1
    <2>2. CASE q # s
      <3>1. when'[q] = when[q] /\ when[q] \in Seq(Nat)
        BY <1>1, <1>2, <2>2
      <3>2. QED  BY <3>1
    <2>3. QED  BY <2>1, <2>2
  <1>4. \A q \in Series : Len(when[q]) \in Nat /\ Len(when'[q]) \in Nat
    BY <1>2, <1>3
  <1>5. Typed'
    <2>1. when' \in [Series -> Seq(Nat)]
      <3>1. when' = [q \in Series |-> when'[q]]
        BY <1>1, <1>2
      <3>2. QED  BY <1>3, <3>1
    <2>2. ASSUME NEW q \in Series, NEW i \in 1..Len(when'[q]) PROVE when'[q][i] <= clock
      <3>1. CASE i \in 1..Len(when[q])
        <4>1. when'[q][i] = when[q][i] /\ when[q][i] <= clock
          BY <1>2, <1>3, <3>1, Zenon
        <4>2. QED  BY <4>1
      <3>2. CASE i \notin 1..Len(when[q])
        <4>1. when'[q][i] = clock
          BY <1>3, <2>2, <3>2, Zenon
        <4>2. QED  BY <1>2, <4>1
      <3>3. QED  BY <3>1, <3>2
    <2>3. QED  BY <1>1, <1>2, <2>1, <2>2 DEF Typed
  <1>6. CountedInOrder'
    <2>1. SUFFICES ASSUME NEW q \in Series, NEW i \in 1..Len(when'[q]),
                          NEW j \in 1..Len(when'[q]), i <= j
                   PROVE  when'[q][i] <= when'[q][j]
      BY DEF CountedInOrder
    <2>2. CASE j \in 1..Len(when[q])
      <3>1. i \in 1..Len(when[q])
        BY <1>4, <2>1, <2>2
      <3>2. QED  BY <1>3, <2>1, <2>2, <3>1 DEF DetectorInv, CountedInOrder
    <2>3. CASE j \notin 1..Len(when[q])
      <3>1. when'[q][j] = clock
        BY <1>3, <2>1, <2>3
      <3>2. QED  BY <1>1, <1>5, <3>1 DEF Typed
    <2>4. QED  BY <2>2, <2>3
  <1>7. WindowIsReal'
    BY <1>1, <1>3, <1>4 DEF DetectorInv, WindowIsReal, NoWindow
  <1>8. AlertIsReal'
    BY <1>1, <1>3, <1>4 DEF DetectorInv, AlertIsReal
  <1>9. RateAlertBacked'
    <2>1. SUFFICES ASSUME alert.by = "rate", window.of = alert.of
                   PROVE  /\ alert.count > DeltaThreshold
                          /\ when'[alert.of][alert.count] <=
                                when'[alert.of][alert.count - DeltaThreshold] + ObservationWindow
      BY <1>1 DEF RateAlertBacked
    <2>2. alert.of \in Series /\ alert.count \in 1..Len(when[alert.of])
      BY <2>1 DEF DetectorInv, AlertIsReal
    <2>3. alert.count > DeltaThreshold
      BY <2>1 DEF DetectorInv, RateAlertBacked
    <2>4. alert.count - DeltaThreshold \in 1..Len(when[alert.of])
      <3>1. \A n, d, len \in Nat : n <= len /\ n > d => n - d \in 1..len
        OBVIOUS
      <3>2. /\ alert.count \in Nat /\ alert.count <= Len(when[alert.of])
            /\ Len(when[alert.of]) \in Nat /\ DeltaThreshold \in Nat
        BY <1>4, <2>2, DetectorAssumption
      <3>3. QED  BY <2>3, <3>1, <3>2, Zenon
    <2>5. QED  BY <1>3, <2>1, <2>2, <2>3, <2>4 DEF DetectorInv, RateAlertBacked
  <1>10. QED  BY <1>5, <1>6, <1>7, <1>8, <1>9 DEF DetectorInv

\* process_event() preserves it.
LEMMA ProcessInv ==
    ASSUME DetectorInv, NEW s \in Series, NEW c \in 1..MaxCount, ProcessEvent(s, c)
    PROVE  DetectorInv'
  <1> DEFINE seen == when[s][c]
             kept == window # NoWindow /\ ~ (seen > window.seen + ObservationWindow)
  <1>1. c \in 1..Len(when[s]) /\ clock' = clock /\ when' = when
    BY DEF ProcessEvent
  <1>2. when[s] \in Seq(Nat) /\ Len(when[s]) \in Nat /\ seen \in Nat
    <2>1. when[s] \in Seq(Nat)
      BY DEF DetectorInv, Typed
    <2>2. QED  BY <1>1, <2>1
  <1>3. Slid(s, c, seen) = IF kept THEN window ELSE [of |-> s, count |-> c, seen |-> seen]
    BY DEF Slid
  <1>4. window' = window \/ window' = Slid(s, c, seen)
    BY DEF ProcessEvent
  <1>5. \/ alert' = NoAlert
        \/ alert' = [by |-> "threshold", of |-> s, count |-> c]
        \/ /\ alert' = [by |-> "rate", of |-> s, count |-> c]
           /\ window # NoWindow /\ c >= Slid(s, c, seen).count + DeltaThreshold
           /\ window' = Slid(s, c, seen)
    BY DEF ProcessEvent
  <1> HIDE DEF seen, kept
  <1>6. Typed' /\ CountedInOrder'
    BY <1>1 DEF DetectorInv, Typed, CountedInOrder
  <1>7. WindowIsReal'
    <2>1. window' = window \/ window' = [of |-> s, count |-> c, seen |-> seen]
      BY <1>3, <1>4
    <2>2. QED  BY <1>1, <2>1 DEF DetectorInv, WindowIsReal, NoWindow, seen
  <1>8. AlertIsReal'
    BY <1>1, <1>5 DEF AlertIsReal, NoAlert
  <1>9. RateAlertBacked'
    <2>1. SUFFICES ASSUME alert'.by = "rate", window'.of = alert'.of
                   PROVE  /\ alert'.count > DeltaThreshold
                          /\ when[alert'.of][alert'.count] <=
                                when[alert'.of][alert'.count - DeltaThreshold] + ObservationWindow
      BY <1>1 DEF RateAlertBacked
    <2>2. /\ alert' = [by |-> "rate", of |-> s, count |-> c]
          /\ window # NoWindow /\ c >= Slid(s, c, seen).count + DeltaThreshold
          /\ window' = Slid(s, c, seen)
      BY <1>5, <2>1 DEF NoAlert
    <2>3. kept
      <3>1. ~ (c >= c + DeltaThreshold)
        BY <1>1, <1>2, DetectorAssumption
      <3>2. QED  BY <1>3, <2>2, <3>1
    <2>4. window.of = s /\ c >= window.count + DeltaThreshold
      BY <1>3, <2>1, <2>2, <2>3, Zenon
    <2>5. window.count \in 1..Len(when[s]) /\ window.seen = when[s][window.count]
      BY <2>2, <2>4 DEF DetectorInv, WindowIsReal
    <2>6. c - DeltaThreshold \in 1..Len(when[s]) /\ window.count <= c - DeltaThreshold
      <3>1. \A w, d, n \in Nat : w >= 1 /\ c <= n /\ c >= w + d => c - d \in 1..n /\ w <= c - d
        BY <1>1, <1>2
      <3>2. window.count \in Nat /\ window.count >= 1 /\ c <= Len(when[s]) /\ DeltaThreshold \in Nat
        BY <1>1, <1>2, <2>5, DetectorAssumption
      <3>3. QED  BY <1>2, <2>4, <3>1, <3>2, Zenon
    <2>7. when[s][window.count] <= when[s][c - DeltaThreshold]
      BY <2>5, <2>6 DEF DetectorInv, CountedInOrder
    <2>8. when[s][window.count] \in Nat /\ when[s][c - DeltaThreshold] \in Nat
      BY <1>2, <2>5, <2>6
    <2>9. \A a, b, d, w \in Nat : ~ (a > b + w) /\ b <= d => a <= d + w
      OBVIOUS
    <2>10. when[s][c] <= when[s][c - DeltaThreshold] + ObservationWindow
      <3>1. ObservationWindow \in Nat
        BY DetectorAssumption
      <3>2. ~ (when[s][c] > when[s][window.count] + ObservationWindow)
        BY <2>3, <2>5, Zenon DEF kept, seen
      <3>3. when[s][c] \in Nat
        BY <1>2 DEF seen
      <3>4. QED  BY <2>7, <2>8, <2>9, <3>1, <3>2, <3>3, Zenon
    <2>11. c > DeltaThreshold
      BY <1>1, <1>2, <2>6, DetectorAssumption
    <2>12. QED  BY <2>2, <2>10, <2>11
  <1>10. QED  BY <1>6, <1>7, <1>8, <1>9 DEF DetectorInv

\* So does every step of scout and cluster.
LEMMA DetectorNextInv == DetectorInv /\ [DetectorNext]_detectorVars => DetectorInv'
  <1> SUFFICES ASSUME DetectorInv, [DetectorNext]_detectorVars PROVE DetectorInv'
    OBVIOUS
  <1>1. CASE ClockTick
    <2>1. /\ clock' = clock + 1 /\ when' = when /\ window' = window /\ alert' = alert
      BY <1>1 DEF ClockTick
    <2>2. \A s \in Series : \A i \in 1..Len(when[s]) : when[s][i] \in Nat
      <3>1. \A s \in Series : when[s] \in Seq(Nat)
        BY DEF DetectorInv, Typed
      <3>2. QED  BY <3>1
    <2>3. Typed'
      BY <2>1, <2>2 DEF DetectorInv, Typed
    <2>4. QED
      BY <2>1, <2>3
      DEF DetectorInv, CountedInOrder, WindowIsReal, AlertIsReal, RateAlertBacked
  <1>2. CASE ClearCooldown \/ UNCHANGED detectorVars
    <2>1. clock' = clock /\ when' = when /\ window' = window /\ alert' = alert
      BY <1>2 DEF ClearCooldown, detectorVars
    <2>2. QED
      BY <2>1
      DEF DetectorInv, Typed, CountedInOrder, WindowIsReal, AlertIsReal, RateAlertBacked
  <1>3. CASE \E s \in Series : Occur(s)
    BY <1>3, OccurrenceInv
  <1>4. CASE \E s \in Series : \E c \in 1..MaxCount : ProcessEvent(s, c)
    BY <1>4, ProcessInv
  <1>5. QED  BY <1>1, <1>2, <1>3, <1>4 DEF DetectorNext

(* _check_rate_of_change() compares counts across time, told late, twice   *)
(* or out of order: an alert within one Event object's window stands for   *)
(* DeltaThreshold occurrences in one observation window.                   *)
THEOREM RateAlertsAreBacked == DetectorSpec => []RateAlertBacked
  <1>1. DetectorInv => RateAlertBacked
    BY DEF DetectorInv
  <1>2. QED  BY <1>1, DetectorInitInv, DetectorNextInv, PTL DEF DetectorSpec

\* The bounds, and that an alert has one of the two rules or is none.
DetectorBounds ==
    /\ clock <= MaxClock
    /\ \A s \in Series : Len(when[s]) <= MaxCount
    /\ lastAlert \in 0..clock + 1
    /\ alert = NoAlert \/ alert.by \in {"threshold", "rate"}

\* Every step of scout and cluster keeps to the bounds.
LEMMA DetectorBoundsStep ==
    ASSUME DetectorInv, DetectorBounds, [DetectorNext]_detectorVars
    PROVE  DetectorBounds'
  <1>1. /\ clock \in Nat /\ MaxClock \in Nat /\ MaxCount \in Nat
        /\ when \in [Series -> Seq(Nat)]
        /\ \A s \in Series : \A i \in 1..Len(when[s]) : when[s][i] \in Nat /\ when[s][i] <= clock
    <2>1. when \in [Series -> Seq(Nat)] /\ clock \in Nat
      BY DEF DetectorInv, Typed
    <2>2. \A s \in Series : \A i \in 1..Len(when[s]) : when[s][i] \in Nat
      BY <2>1
    <2>3. QED  BY <2>1, <2>2, DetectorAssumption DEF DetectorInv, Typed
  <1>2. CASE ClockTick
    <2>1. /\ clock < MaxClock /\ clock' = clock + 1
          /\ UNCHANGED <<when, lastAlert, alert>>
      BY <1>2 DEF ClockTick
    <2>2. clock' <= MaxClock /\ lastAlert' \in 0..clock' + 1
      BY <1>1, <2>1 DEF DetectorBounds
    <2>3. QED  BY <2>1, <2>2 DEF DetectorBounds
  <1>3. CASE \E s \in Series : Occur(s)
    <2>1. PICK s \in Series : Occur(s)
      BY <1>3
    <2>2. /\ Len(when[s]) < MaxCount /\ when' = [when EXCEPT ![s] = Append(@, clock)]
          /\ UNCHANGED <<clock, lastAlert, alert>>
      BY <2>1 DEF Occur
    <2>3. when[s] \in Seq(Nat)
      BY <1>1
    <2>4. Len(when'[s]) <= MaxCount
      <3>1. when'[s] = Append(when[s], clock)
        BY <1>1, <2>2
      <3>2. QED  BY <1>1, <2>2, <2>3, <3>1
    <2>5. \A q \in Series : Len(when'[q]) <= MaxCount
      BY <1>1, <2>2, <2>4 DEF DetectorBounds
    <2>6. QED  BY <2>2, <2>5 DEF DetectorBounds
  <1>4. CASE \E s \in Series : \E c \in 1..MaxCount : ProcessEvent(s, c)
    <2>1. PICK s \in Series, c \in 1..MaxCount : ProcessEvent(s, c)
      BY <1>4
    <2>2. /\ c \in 1..Len(when[s]) /\ clock' = clock /\ when' = when
          /\ alert' = NoAlert \/ alert'.by \in {"threshold", "rate"}
          /\ lastAlert' = lastAlert \/ lastAlert' = when[s][c] + 1
      BY <2>1 DEF ProcessEvent
    <2>3. when[s][c] \in Nat /\ when[s][c] <= clock
      BY <1>1, <2>2
    <2>4. lastAlert' \in 0..clock' + 1
      BY <1>1, <2>2, <2>3 DEF DetectorBounds
    <2>5. QED  BY <2>2, <2>4 DEF DetectorBounds
  <1>5. CASE ClearCooldown
    <2>1. lastAlert' = 0 /\ UNCHANGED <<clock, when, alert>>
      BY <1>5 DEF ClearCooldown
    <2>2. 0 \in 0..clock' + 1
      BY <1>1, <2>1
    <2>3. QED  BY <2>1, <2>2 DEF DetectorBounds
  <1>6. CASE UNCHANGED detectorVars
    BY <1>6 DEF detectorVars, DetectorBounds
  <1>7. QED  BY <1>2, <1>3, <1>4, <1>5, <1>6 DEF DetectorNext

\* The types follow: a window and an alert are of occurrences really counted.
LEMMA DetectorTypesFollow == DetectorInv /\ DetectorBounds => DetectorTypeOK
  <1> SUFFICES ASSUME DetectorInv, DetectorBounds PROVE DetectorTypeOK
    OBVIOUS
  <1>1. /\ clock \in Nat /\ MaxClock \in Nat /\ MaxCount \in Nat
        /\ when \in [Series -> Seq(Nat)]
        /\ \A s \in Series : \A i \in 1..Len(when[s]) : when[s][i] <= clock
    BY DetectorAssumption DEF DetectorInv, Typed
  <1>2. \A s \in Series : /\ when[s] \in Seq(Nat) /\ Len(when[s]) \in Nat
                          /\ Len(when[s]) <= MaxCount
                          /\ \A i \in 1..Len(when[s]) : when[s][i] \in 0..clock
    <2>1. SUFFICES ASSUME NEW s \in Series
                   PROVE  /\ when[s] \in Seq(Nat) /\ Len(when[s]) \in Nat
                          /\ Len(when[s]) <= MaxCount
                          /\ \A i \in 1..Len(when[s]) : when[s][i] \in 0..clock
      OBVIOUS
    <2>2. when[s] \in Seq(Nat)
      BY <1>1
    <2>3. \A i \in 1..Len(when[s]) : when[s][i] \in Nat /\ when[s][i] <= clock
      BY <1>1, <2>2
    <2>4. QED  BY <1>1, <2>2, <2>3 DEF DetectorBounds
  <1>3. \A s \in Series : when[s] \in Seq(0..clock)
    <2>1. SUFFICES ASSUME NEW s \in Series PROVE when[s] \in Seq(0..clock)
      OBVIOUS
    <2>2. PICK n \in Nat : n = Len(when[s])
      BY <1>2
    <2>3. when[s] = [i \in 1..n |-> when[s][i]]
      BY <1>2, <2>2
    <2>4. \A i \in 1..n : when[s][i] \in 0..clock
      BY <1>2, <2>2
    <2>5. when[s] \in [1..n -> 0..clock]
      BY <2>3, <2>4
    <2>6. \A T : when[s] \in [1..n -> T] => when[s] \in Seq(T)
      OBVIOUS
    <2>7. QED  BY <2>5, <2>6, Zenon
  <1>4. window.count \in 0..MaxCount /\ window.seen \in 0..clock
    <2>1. CASE window = NoWindow
      BY <1>1, <2>1 DEF NoWindow
    <2>2. CASE window # NoWindow
      <3>1. PICK s \in Series : /\ window.of = s /\ window.count \in 1..Len(when[s])
                                /\ window.seen = when[s][window.count]
        BY <2>2 DEF DetectorInv, WindowIsReal
      <3>2. Len(when[s]) \in Nat /\ Len(when[s]) <= MaxCount
        BY <1>2
      <3>3. when[s][window.count] \in 0..clock
        BY <1>2, <3>1
      <3>4. window.count \in 0..MaxCount
        BY <1>1, <3>1, <3>2
      <3>5. QED  BY <3>1, <3>3, <3>4
    <2>3. QED  BY <2>1, <2>2
  <1>5. alert.by \in {"none", "threshold", "rate"} /\ alert.count \in 0..MaxCount
    <2>1. CASE alert = NoAlert
      BY <1>1, <2>1 DEF NoAlert
    <2>2. CASE alert.by \in {"threshold", "rate"}
      <3>1. PICK s \in Series : alert.count \in 1..Len(when[s])
        BY <2>2 DEF DetectorInv, AlertIsReal
      <3>2. Len(when[s]) \in Nat /\ Len(when[s]) <= MaxCount
        BY <1>2
      <3>3. alert.count \in 0..MaxCount
        BY <1>1, <3>1, <3>2
      <3>4. QED  BY <2>2, <3>3
    <2>3. QED  BY <2>1, <2>2 DEF DetectorBounds
  <1>6. clock \in 0..MaxClock /\ lastAlert \in 0..clock + 1
    BY <1>1 DEF DetectorBounds
  <1>7. QED  BY <1>2, <1>3, <1>4, <1>5, <1>6 DEF DetectorTypeOK

(* The types of the scout's window, cooldown and last alert.               *)
THEOREM DetectorTypesHold == DetectorSpec => []DetectorTypeOK
  <1>1. DetectorInit => DetectorBounds
    <2>1. \A s \in Series : Len(<< >>) <= MaxCount
      BY DetectorAssumption
    <2>2. 0 <= MaxClock /\ 0 \in 0..0 + 1
      BY DetectorAssumption
    <2>3. QED  BY <2>1, <2>2 DEF DetectorInit, DetectorBounds
  <1>2. DetectorInv /\ DetectorBounds /\ [DetectorNext]_detectorVars => DetectorBounds'
    BY DetectorBoundsStep
  <1>3. QED
    BY DetectorInitInv, DetectorNextInv, DetectorTypesFollow, <1>1, <1>2, PTL DEF DetectorSpec

-----------------------------------------------------------------------------
(* The application: what stop() and main() may not do, whatever the order  *)
(* of start(), the signals and the shutdown task.                          *)
-----------------------------------------------------------------------------
(* A shutdown task belongs to a signal, and main() calls stop() only after *)
(* start() failed.                                                         *)
StopHasAReason ==
    /\ stopping["task"] # "none" => triggered
    /\ stopping["main"] # "none" => main \in {"failing", "ended"}

AppInv == AppTypeOK /\ StopHasAReason

-----------------------------------------------------------------------------
\* The invariant holds when main() begins.
LEMMA AppInitInv == AppInit => AppInv
  BY DEF AppInit, AppInv, AppTypeOK, StopHasAReason, MainPlaces, StopPlaces,
         Components, Tasks, Activities

\* Every step of main(), start(), stop() and the signals preserves it.
LEMMA AppNextInv == AppInv /\ [AppNext]_appVars => AppInv'
  <1> SUFFICES ASSUME AppInv, [AppNext]_appVars PROVE AppInv'
    OBVIOUS
  <1> USE DEF AppInv, AppTypeOK, StopHasAReason, MainPlaces, StopPlaces,
              Components, Tasks, Activities
  <1>1. CASE Configured
    BY <1>1 DEF Configured
  <1>2. CASE Listed
    BY <1>2 DEF Listed, StartEnds, Watches
  <1>3. CASE LLMChecked
    BY <1>3 DEF LLMChecked, StartEnds
  <1>4. CASE StartFails
    BY <1>4 DEF StartFails, Watches
  <1>5. CASE Signal
    BY <1>5 DEF Signal
  <1>6. CASE QueueStarts
    BY <1>6 DEF QueueStarts
  <1>7. CASE \E caller \in {"task", "main"} : StopSteps(caller)
    <2>1. PICK caller \in {"task", "main"} : StopSteps(caller)
      BY <1>7
    <2>2. CASE StopBegins(caller)
      BY <2>2 DEF StopBegins, AfterGather
    <2>3. CASE TasksGathered(caller)
      BY <2>3 DEF TasksGathered, AfterGather
    <2>4. CASE QueueStopped(caller)
      BY <2>4 DEF QueueStopped
    <2>5. CASE CollectorStopped(caller)
      BY <2>5 DEF CollectorStopped
    <2>6. QED  BY <2>1, <2>2, <2>3, <2>4, <2>5 DEF StopSteps
  <1>8. CASE MainEnds
    BY <1>8 DEF MainEnds
  <1>9. CASE UNCHANGED appVars
    BY <1>9 DEF appVars
  <1>10. QED
    BY <1>1, <1>2, <1>3, <1>4, <1>5, <1>6, <1>7, <1>8, <1>9 DEF AppNext, Starting

-----------------------------------------------------------------------------
(* The types of the application's life, and who may call stop(): the       *)
(* shutdown task of a signal, or main() after a failed start.              *)
THEOREM StopAlwaysHasAReason == AppSpec => [](AppTypeOK /\ StopHasAReason)
  BY AppInitInv, AppNextInv, PTL DEF AppSpec, AppInv

-----------------------------------------------------------------------------
(* The parts side by side.                                                 *)
(* A behaviour of all of them is a behaviour of each.                      *)
THEOREM EachPartBehaves ==
    Spec => LedgerSpec /\ StoreSpec /\ GraphSpec /\ DetectorSpec /\ AppSpec
  <1>1. Init => LedgerInit /\ StoreInit /\ GraphInit /\ DetectorInit /\ AppInit
    BY DEF Init
  <1>2. [Next]_vars => [LedgerNext]_ledgerVars
    BY DEF Next, vars, ledgerVars, LedgerSteps, StoreSteps, GraphSteps, DetectorSteps, AppSteps
  <1>3. [Next]_vars => [StoreNext]_storeVars
    BY DEF Next, vars, storeVars, LedgerSteps, StoreSteps, GraphSteps, DetectorSteps, AppSteps
  <1>4. [Next]_vars => [GraphNext]_graphVars
    BY DEF Next, vars, graphVars, LedgerSteps, StoreSteps, GraphSteps, DetectorSteps, AppSteps
  <1>5. [Next]_vars => [DetectorNext]_detectorVars
    BY DEF Next, vars, detectorVars, LedgerSteps, StoreSteps, GraphSteps, DetectorSteps, AppSteps
  <1>6. [Next]_vars => [AppNext]_appVars
    BY DEF Next, vars, appVars, LedgerSteps, StoreSteps, GraphSteps, DetectorSteps, AppSteps
  <1>7. QED
    BY <1>1, <1>2, <1>3, <1>4, <1>5, <1>6, PTL
    DEF Spec, LedgerSpec, StoreSpec, GraphSpec, DetectorSpec, AppSpec

\* What every part's variables hold, in whichever part the steps are.
THEOREM PartsTypes == Spec => []PartsTypeOK
  <1>1. Init => part \in PartNames
    BY DEF Init
  <1>2. part \in PartNames /\ [Next]_vars => (part \in PartNames)'
    BY DEF Next, vars, LedgerSteps, StoreSteps, GraphSteps, DetectorSteps, AppSteps
  <1>3. Spec => [](part \in PartNames)
    BY <1>1, <1>2, PTL DEF Spec
  <1>4. ASSUME part \in PartNames, LedgerTypeOK, StoreTypeOK, GraphTypeOK, DetectorTypeOK,
               AppTypeOK /\ StopHasAReason
        PROVE  PartsTypeOK
    BY <1>4 DEF PartsTypeOK
  <1>5. QED
    BY <1>3, <1>4, EachPartBehaves, LedgerTypes, StoreTypesHold, GraphTypes, DetectorTypesHold,
       StopAlwaysHasAReason, PTL

(* So every promise of a part is kept beside the others: the ledger's      *)
(* rings, the graph's lists and blast radius, the scout's alerts, and what *)
(* ledger and store may not undo.                                          *)
THEOREM PartsKeepTheirPromises ==
    Spec => /\ [](NoHoles /\ AdjacencyAgrees /\ BlastRadiusIsCurrent /\ RateAlertBacked)
            /\ LatestKept /\ AcceptedIsKept
  BY EachPartBehaves, RingsHaveNoHoles, AdjacencyAlwaysAgrees, BlastRadiusStaysCurrent,
     RateAlertsAreBacked, LatestIsKept, AcceptedRowsAreKept, PTL
=============================================================================
