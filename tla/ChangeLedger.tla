---------------------------- MODULE ChangeLedger ----------------------------
(***************************************************************************)
(* ChangeLedger (ledger/change_ledger.py): one bounded deque of snapshots  *)
(* per resource, and the limits record() looks at before it stores one.    *)
(*                                                                         *)
(* A snapshot is kept as what the limits ask of it: its age (captured_at   *)
(* seen from now), its size, and, for the properties, how many snapshots   *)
(* of its resource were stored after it.  Snapshots may be handed in late  *)
(* and out of order.                                                       *)
(***************************************************************************)
EXTENDS Naturals, Sequences, FiniteSets, FiniteSetsExt, Functions

CONSTANTS
    Resources,    \* the resource keys (kind, namespace, name)
    Sizes,        \* the sizes snapshots are estimated at
    MaxVersions,  \* _max_versions
    Retention,    \* _retention, in ticks
    FailsafeAge,  \* _FAILSAFE_AGE_CUTOFF
    SoftLimit, HardLimit, FailsafeLimit,  \* the memory tiers
    MaxLate       \* bound: the age a snapshot may have when it is recorded

ASSUME LedgerAssumption ==
    /\ IsFiniteSet(Resources)
    /\ Sizes \subseteq Nat \ {0}
    /\ MaxVersions \in Nat \ {0}
    /\ {Retention, FailsafeAge, MaxLate} \subseteq Nat
    /\ {SoftLimit, HardLimit, FailsafeLimit} \subseteq Nat
    /\ SoftLimit < HardLimit /\ HardLimit < FailsafeLimit

VARIABLES
    buffers,  \* _buffers; a resource that has none is empty here
    dropped   \* history: the last call of record() dropped its snapshot
ledgerVars == <<buffers, dropped>>

Oldest == Retention + FailsafeAge + MaxLate + 1  \* ages stop counting here
Snapshot == [age : 0..Oldest, size : Sizes, newer : Nat]

LedgerTypeOK ==
    /\ buffers \in [Resources -> Seq(Snapshot)]
    /\ dropped \in BOOLEAN

LedgerInit ==
    /\ buffers = [r \in Resources |-> << >>]
    /\ dropped = FALSE

-----------------------------------------------------------------------------
SizesOf(bufs) == [r \in Resources |-> [i \in DOMAIN bufs[r] |-> bufs[r][i].size]]
SumOf(sizes) ==
    MapThenSumSet(LAMBDA r : FoldFunction(+, 0, sizes[r]), Resources)
\* _estimate_memory_bytes
Bytes(bufs) == SumOf(SizesOf(bufs))

\* the last n entries: what popleft() leaves
Suffix(buf, n) == SubSeq(buf, Len(buf) - n + 1, Len(buf))

\* Mutant: an old front takes the whole buffer with it.
DropAllIfOlder(buf, limit) ==
    IF Len(buf) > 0 /\ buf[1].age > limit THEN << >> ELSE buf

\* popleft() while the front is older than `limit`: what is behind a young
\* front stays, however old it is
DropWhileOlder(buf, limit) ==
    LET young == {i \in 1..Len(buf) : buf[i].age <= limit}
    IN  Suffix(buf, IF young = {} THEN 0 ELSE Len(buf) - Min(young) + 1)

\* Mutant: the newer half is thrown away.
SoftTrimNewest(bufs) ==
    [r \in Resources |->
        SubSeq(bufs[r], 1, IF Len(bufs[r]) <= 1 THEN Len(bufs[r]) ELSE Len(bufs[r]) \div 2)]

\* _soft_trim
SoftTrim(bufs) ==
    [r \in Resources |->
        Suffix(bufs[r], IF Len(bufs[r]) <= 1 THEN Len(bufs[r]) ELSE Len(bufs[r]) \div 2)]

\* the orders _failsafe_evict may visit the buffers in (the places of the
\* resources): the longest first
Visits(bufs) ==
    {order \in Bijection(Resources, 1..Cardinality(Resources)) :
        \A q, r \in Resources : order[q] < order[r] => Len(bufs[q]) >= Len(bufs[r])}

\* after the first n buffers of the order
Evicted(bufs, order, n) ==
    [r \in Resources |->
        IF order[r] <= n THEN DropWhileOlder(bufs[r], FailsafeAge) ELSE bufs[r]]

\* _failsafe_evict, which stops once the estimate is below the limit
FailsafeEvict(bufs, order) ==
    LET enough == {n \in 0..Cardinality(Resources) :
                      \/ Bytes(Evicted(bufs, order, n)) < FailsafeLimit
                      \/ n = Cardinality(Resources)}
    IN  Evicted(bufs, order, Min(enough))

\* deque.append, for a deque with maxlen
Push(buf, s) ==
    LET counted == [i \in 1..Len(buf) |-> [buf[i] EXCEPT !.newer = @ + 1]]
        all     == Append(counted, s)
    IN  IF Len(all) > MaxVersions THEN Suffix(all, MaxVersions) ELSE all

\* the hard limit: record() drops its snapshot and returns
NoRoom(bufs) == ~ (Bytes(bufs) < HardLimit)

\* record() below the failsafe tier
Store(bufs, r, s) ==
    IF NoRoom(bufs)
    THEN bufs
    ELSE LET trimmed == IF Bytes(bufs) >= SoftLimit THEN SoftTrim(bufs) ELSE bufs
         IN  [trimmed EXCEPT ![r] = Push(DropWhileOlder(@, Retention), s)]

Record(r, age, size) ==
    LET s == [age |-> age, size |-> size, newer |-> 0]
    IN  \/ /\ ~ (Bytes(buffers) >= FailsafeLimit)
           /\ buffers' = Store(buffers, r, s)
           /\ dropped' = NoRoom(buffers)
        \/ /\ Bytes(buffers) >= FailsafeLimit
           /\ \E order \in Visits(buffers) :
                 LET evicted == FailsafeEvict(buffers, order)
                 IN  /\ buffers' = Store(evicted, r, s)
                     /\ dropped' = NoRoom(evicted)

LedgerTick ==
    /\ buffers' = [r \in Resources |->
                      [i \in 1..Len(buffers[r]) |->
                          [buffers[r][i] EXCEPT !.age = Min({@ + 1, Oldest})]]]
    /\ dropped' = FALSE

LedgerNext ==
    \/ \E r \in Resources, age \in 0..MaxLate, size \in Sizes : Record(r, age, size)
    \/ LedgerTick

LedgerSpec == LedgerInit /\ [][LedgerNext]_ledgerVars

-----------------------------------------------------------------------------
(* Whatever mix of the ring's maximum, expiry, trimming, eviction and late *)
(* snapshots went before, a buffer holds the last snapshots stored for its *)
(* resource, in the order they were stored and without a gap, and latest() *)
(* is the last one stored.                                                 *)
NoHoles ==
    \A r \in Resources :
        /\ Len(buffers[r]) <= MaxVersions
        /\ \A i \in 1..Len(buffers[r]) : buffers[r][i].newer = Len(buffers[r]) - i

(* A resource that has a latest() keeps one through every trim, "so that   *)
(* latest() continues to work"; only the failsafe tier takes it away, and  *)
(* only when that snapshot itself is older than an hour, however old the   *)
(* front of its buffer is.                                                 *)
LatestKept ==
    [][\A r \in Resources :
          buffers[r] # << >> /\ buffers'[r] = << >> =>
             /\ Bytes(buffers) >= FailsafeLimit
             /\ buffers[r][Len(buffers[r])].age > FailsafeAge]_ledgerVars

(* "An emergency eviction pass is triggered first; if memory remains above *)
(* the hard limit after eviction the snapshot is discarded": record()      *)
(* drops a snapshot only when evicting what is old would not have made     *)
(* room for it.                                                            *)
DropsOnlyAfterEviction ==
    dropped => NoRoom([r \in Resources |-> DropWhileOlder(buffers[r], FailsafeAge)])
=============================================================================
