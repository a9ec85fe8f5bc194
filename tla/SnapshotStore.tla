---------------------------- MODULE SnapshotStore ----------------------------
(***************************************************************************)
(* SQLiteStore (ledger/sqlite_store.py): snapshots wait in _pending for a  *)
(* flush every 500 ms, a clean-up runs every five minutes, and both use    *)
(* the one connection, so each one's commit commits what the other has     *)
(* done so far.  Every await on the connection is a step of its own; a     *)
(* statement handed to the connection is carried out even when the task    *)
(* that awaits it is cancelled.                                            *)
(*                                                                         *)
(* A row is a resource and the number of the snapshot; snapshots are       *)
(* captured in the order of their numbers.                                 *)
(***************************************************************************)
EXTENDS Integers, FiniteSets

CONSTANTS
    Tables,      \* the resource keys
    KeptRows,    \* _max_versions
    MaxStored,   \* bound: snapshots handed to store()
    MaxFaults    \* bound: crashes, restarts and failing statements

ASSUME StoreAssumption ==
    /\ KeptRows \in Nat \ {0}
    /\ MaxStored \in Nat /\ MaxFaults \in Nat

VARIABLES
    place,     \* of the store: down, up, closing (in close())
    pending,   \* _pending
    flusher,   \* where the flush task is, or in closing the final flush
    batch,     \* the batch of _do_flush
    cleaner,   \* where the clean-up task is
    excess,    \* rows beyond the cap, as counted, still to be deleted
    degraded,  \* _degraded
    table,     \* the rows as the connection sees them
    disk,      \* the rows that are committed
    stored,    \* snapshots captured so far
    expired,   \* those of numbers up to this one are past the retention
    faults,    \* crashes and failures so far
    pruned,    \* history: rows a clean-up had a reason to delete
    excused    \* history: accepted rows a crash, a failure, a slow flush or
               \* a close() in the middle of a flush may lose
storeVars == <<place, pending, flusher, batch, cleaner, excess, degraded, table,
               disk, stored, expired, faults, pruned, excused>>
flushVars == <<pending, flusher, batch, degraded>>
cleanVars == <<cleaner, excess>>
dataVars  == <<table, disk>>

Row == [key : Tables, nr : 1..MaxStored]
Of(k, rows) == {r \in rows : r.key = k}
NothingExcess == [k \in Tables |-> 0]
Older(r, s) == r.nr < s.nr

StoreTypeOK ==
    /\ place \in {"down", "up", "closing"}
    /\ pending \subseteq Row /\ batch \subseteq Row
    /\ flusher \in {"asleep", "inserting", "committing", "cancelled", "flushed"}
    /\ cleaner \in {"asleep", "counting", "trimming", "committing", "cancelled"}
    /\ excess \in [Tables -> 0..MaxStored]
    /\ degraded \in BOOLEAN
    /\ table \subseteq Row /\ disk \subseteq Row
    /\ stored \in 0..MaxStored /\ expired \in 0..stored
    /\ faults \in 0..MaxFaults
    /\ pruned \subseteq Row /\ excused \subseteq Row

StoreInit ==
    /\ place = "down" /\ flusher = "asleep" /\ cleaner = "asleep"
    /\ pending = {} /\ batch = {} /\ excess = NothingExcess /\ degraded = FALSE
    /\ table = {} /\ disk = {}
    /\ stored = 0 /\ expired = 0 /\ faults = 0
    /\ pruned = {} /\ excused = {}

-----------------------------------------------------------------------------
\* open() of a new store object on the file
OpenStore ==
    /\ place = "down"
    /\ place' = "up"
    /\ flusher' = "asleep" /\ cleaner' = "asleep"
    /\ pending' = {} /\ batch' = {} /\ excess' = NothingExcess /\ degraded' = FALSE
    /\ UNCHANGED <<dataVars, stored, expired, faults, pruned, excused>>

(* store(): also while close() awaits; too late once its flush has begun.  *)
(* A degraded store drops the snapshot.                                    *)
StoreSnapshot(k) ==
    /\ place # "down" /\ stored < MaxStored
    /\ stored' = stored + 1
    /\ LET row == [key |-> k, nr |-> stored + 1]
           tooLate == place = "closing" /\ flusher # "cancelled"
       IN  IF degraded
           THEN UNCHANGED <<pending, excused>>
           ELSE /\ pending' = pending \cup {row}
                /\ excused' = IF tooLate THEN excused \cup {row} ELSE excused
    /\ UNCHANGED <<place, flusher, batch, degraded, cleanVars, dataVars, expired,
                   faults, pruned>>

\* the retention passes for some of the snapshots
Expire ==
    /\ expired < stored
    /\ expired' = expired + 1
    /\ UNCHANGED <<place, flushVars, cleanVars, dataVars, stored, faults, pruned, excused>>

-----------------------------------------------------------------------------
\* the flush task wakes up, or close() flushes what is left
FlushBegins ==
    /\ \/ place = "up" /\ flusher = "asleep"
       \/ place = "closing" /\ flusher = "cancelled" /\ cleaner = "cancelled"
    /\ pending # {} /\ ~ degraded
    /\ batch' = pending /\ pending' = {}
    /\ flusher' = "inserting"
    /\ UNCHANGED <<place, degraded, cleanVars, dataVars, stored, expired, faults,
                   pruned, excused>>

\* executemany()
FlushInserts ==
    /\ flusher = "inserting"
    /\ table' = table \cup batch
    /\ flusher' = "committing"
    /\ UNCHANGED <<place, pending, batch, degraded, cleanVars, disk, stored, expired,
                   faults, pruned, excused>>

AfterFlush == IF place = "closing" THEN "flushed" ELSE "asleep"

\* Mutant: the pending list is cleared when the flush is over.
FlushCommitsAndClears(slow) ==
    /\ flusher = "committing"
    /\ disk' = table
    /\ batch' = {} /\ pending' = {}
    /\ flusher' = AfterFlush
    /\ degraded' = (degraded \/ slow)
    /\ excused' = IF slow THEN excused \cup pending ELSE excused
    /\ UNCHANGED <<place, cleanVars, table, stored, expired, faults, pruned>>

(* commit(); after more than 50 ms the store degrades, and what was        *)
(* accepted in the meantime stays pending for good.                        *)
FlushCommits(slow) ==
    /\ flusher = "committing"
    /\ disk' = table
    /\ batch' = {}
    /\ flusher' = AfterFlush
    /\ degraded' = (degraded \/ slow)
    /\ excused' = IF slow THEN excused \cup pending ELSE excused
    /\ UNCHANGED <<place, pending, cleanVars, table, stored, expired, faults, pruned>>

\* the statement raises: the batch is given up, and what was inserted of it
\* waits in the open transaction
FlushFails ==
    /\ flusher \in {"inserting", "committing"}
    /\ faults < MaxFaults /\ faults' = faults + 1
    /\ \E inserted \in SUBSET batch :
          table' = IF flusher = "inserting" THEN table \cup inserted ELSE table
    /\ batch' = {}
    /\ flusher' = AfterFlush
    /\ excused' = excused \cup batch
    /\ UNCHANGED <<place, pending, degraded, cleanVars, disk, stored, expired, pruned>>

-----------------------------------------------------------------------------
\* _delete_expired
DeleteExpired ==
    /\ place = "up" /\ cleaner = "asleep"
    /\ LET old == {r \in table : r.nr <= expired}
       IN  table' = table \ old /\ pruned' = pruned \cup old
    /\ cleaner' = "counting"
    /\ UNCHANGED <<place, flushVars, excess, disk, stored, expired, faults, excused>>

\* Mutant: without the HAVING clause.
CountExcessEverywhere ==
    /\ cleaner = "counting"
    /\ excess' = [k \in Tables |-> Cardinality(Of(k, table)) - KeptRows]
    /\ cleaner' = "trimming"
    /\ UNCHANGED <<place, flushVars, dataVars, stored, expired, faults, pruned, excused>>

\* the SELECT of _enforce_version_caps
CountExcess ==
    /\ cleaner = "counting"
    /\ excess' = [k \in Tables |->
                     LET n == Cardinality(Of(k, table))
                     IN  IF n > KeptRows THEN n - KeptRows ELSE 0]
    /\ cleaner' = "trimming"
    /\ UNCHANGED <<place, flushVars, dataVars, stored, expired, faults, pruned, excused>>

(* One DELETE of _enforce_version_caps: as many of the oldest rows as were *)
(* counted.  The history tells those that have KeptRows newer ones.        *)
DeleteExcess(k) ==
    /\ cleaner = "trimming" /\ excess[k] > 0
    /\ LET gone == {r \in Of(k, table) :
                       Cardinality({s \in Of(k, table) : Older(s, r)}) < excess[k]}
           due  == {r \in gone :
                       Cardinality({s \in Of(k, table) : Older(r, s)}) >= KeptRows}
       IN  table' = table \ gone /\ pruned' = pruned \cup due
    /\ excess' = [excess EXCEPT ![k] = 0]
    /\ UNCHANGED <<place, flushVars, cleaner, disk, stored, expired, faults, excused>>

CleanupCommits ==
    /\ \/ /\ cleaner = "trimming" /\ excess = NothingExcess
          /\ cleaner' = "committing" /\ UNCHANGED disk
       \/ /\ cleaner = "committing"
          /\ cleaner' = "asleep" /\ disk' = table
    /\ UNCHANGED <<place, flushVars, excess, table, stored, expired, faults, pruned, excused>>

\* a statement of the clean-up raises: cleanup() is left, the loop goes on
CleanupFails ==
    /\ cleaner \in {"counting", "trimming", "committing"}
    /\ faults < MaxFaults /\ faults' = faults + 1
    /\ cleaner' = "asleep" /\ excess' = NothingExcess
    /\ UNCHANGED <<place, flushVars, dataVars, stored, expired, pruned, excused>>

-----------------------------------------------------------------------------
(* close() cancels the flush task.  What its cancelled statement was, the  *)
(* connection still does; a batch that is inserted but not committed is    *)
(* saved only if a later commit comes.                                     *)
CloseBegins ==
    /\ place = "up"
    /\ place' = "closing"
    /\ flusher' = "cancelled"
    /\ batch' = {}
    /\ table' = IF flusher = "inserting" THEN table \cup batch ELSE table
    /\ disk' = IF flusher = "committing" THEN table ELSE disk
    /\ excused' = IF flusher = "inserting" THEN excused \cup batch ELSE excused
    /\ UNCHANGED <<pending, degraded, cleanVars, stored, expired, faults, pruned>>

\* and the clean-up task
CloseCancelsCleanup ==
    /\ place = "closing" /\ cleaner # "cancelled"
    /\ cleaner' = "cancelled" /\ excess' = NothingExcess
    /\ disk' = IF cleaner = "committing" THEN table ELSE disk
    /\ UNCHANGED <<place, flushVars, table, stored, expired, faults, pruned, excused>>

\* Mutant: the final flush is left out.
CloseEndsUnflushed ==
    /\ place = "closing" /\ cleaner = "cancelled" /\ flusher \in {"cancelled", "flushed"}
    /\ place' = "down"
    /\ table' = disk
    /\ pending' = {}
    /\ UNCHANGED <<flusher, batch, degraded, cleanVars, disk, stored, expired, faults,
                   pruned, excused>>

\* the connection is closed: what is not committed is rolled back
CloseEnds ==
    /\ place = "closing" /\ cleaner = "cancelled"
    /\ \/ flusher = "flushed"
       \/ flusher = "cancelled" /\ (pending = {} \/ degraded)
    /\ place' = "down"
    /\ table' = disk
    /\ pending' = {}
    /\ UNCHANGED <<flusher, batch, degraded, cleanVars, disk, stored, expired, faults,
                   pruned, excused>>

\* the process dies; what is committed is still on disk
Crash ==
    /\ place # "down"
    /\ faults < MaxFaults /\ faults' = faults + 1
    /\ place' = "down"
    /\ flusher' = "asleep" /\ cleaner' = "asleep"
    /\ table' = disk
    /\ pending' = {} /\ batch' = {} /\ excess' = NothingExcess
    /\ excused' = excused \cup pending \cup batch
    /\ UNCHANGED <<degraded, disk, stored, expired, pruned>>

-----------------------------------------------------------------------------
Flushing == FlushBegins \/ FlushInserts \/ FlushCommits(TRUE) \/ FlushCommits(FALSE)
Cleaning ==
    \/ DeleteExpired \/ CountExcess \/ CleanupCommits
    \/ \E k \in Tables : DeleteExcess(k)
Closing == CloseCancelsCleanup \/ CloseEnds

StoreNext ==
    \/ OpenStore \/ Expire
    \/ \E k \in Tables : StoreSnapshot(k)
    \/ Flushing \/ FlushFails
    \/ Cleaning \/ CleanupFails
    \/ CloseBegins \/ Closing
    \/ Crash

(* The flush task runs and its statements return; a close() that has begun *)
(* is carried out.  Nothing is asked of the clean-up.                      *)
StoreFairness == WF_storeVars(Flushing) /\ WF_storeVars(Closing)

StoreSpec == StoreInit /\ [][StoreNext]_storeVars /\ StoreFairness

-----------------------------------------------------------------------------
(* Every snapshot store() accepted is pending, in flight or in the table,  *)
(* or a clean-up had a reason to delete it, unless a crash, a failing or   *)
(* slow flush, or a close() that met a flush half-way is to blame.         *)
Accounted == pending \cup batch \cup table \cup pruned \cup excused
AcceptedIsKept == [][Accounted \subseteq Accounted']_storeVars

(* "Flush pending writes": what was accepted is committed in the end, with *)
(* the same exceptions.                                                    *)
EventuallyOnDisk ==
    \A r \in Row : (r \in pending) ~> (r \in disk \cup pruned \cup excused)
=============================================================================
