-------------------------- MODULE ChangeLedgerProofs --------------------------
(***************************************************************************)
(* The rings of the change ledger, for any resources, sizes, limits, ages  *)
(* and number of snapshots.                                                *)
(***************************************************************************)
EXTENDS ChangeLedger, SequenceTheorems, WellFoundedInduction, Integers, TLAPS

(* Snapshots that followed each other, the last one stored at the end; and *)
(* those a deque with maxlen has room for.                                 *)
Runs == {b \in Seq(Snapshot) : \A i \in 1..Len(b) : b[i].newer = Len(b) - i}
Rings == {b \in Runs : Len(b) <= MaxVersions}
LedgerInv == buffers \in [Resources -> Rings] /\ dropped \in BOOLEAN

-----------------------------------------------------------------------------
\* A non-empty set of numbers has a least element.
LEMMA LeastOf ==
    ASSUME NEW S \in SUBSET Nat, S # {}
    PROVE  Min(S) \in S /\ \A y \in S : Min(S) <= y
  <1>1. PICK x \in S : \A y \in S : ~ (<<y, x>> \in OpToRel(<, Nat))
    BY NatLessThanWellFounded, WFMin
  <1>2. \A y \in S : x <= y
    <2>1. \A y \in S : ~ (y < x)
      BY <1>1 DEF OpToRel
    <2>2. QED  BY <2>1
  <1>3. QED  BY <1>2 DEF Min

\* What popleft() leaves of a run is a run.
LEMMA SuffixIsRun ==
    ASSUME NEW b \in Runs, NEW n \in 0..Len(b)
    PROVE  /\ Suffix(b, n) \in Runs
           /\ Len(Suffix(b, n)) = n
           /\ n = 0 => Suffix(b, n) = << >>
  <1> DEFINE from == Len(b) - n + 1
  <1>1. b \in Seq(Snapshot) /\ Len(b) \in Nat /\ n \in Nat /\ n <= Len(b)
    BY DEF Runs
  <1>2. from \in 1..Len(b) + 1
    BY <1>1
  <1>3. \A i \in from..Len(b) : b[i] \in Snapshot
    BY <1>1, <1>2
  <1>4. /\ Suffix(b, n) \in Seq(Snapshot)
        /\ Len(Suffix(b, n)) = n
        /\ \A i \in 1..n : Suffix(b, n)[i] = b[from + i - 1]
    <2>1. from \in Int /\ Len(b) \in Int
      BY <1>1, <1>2
    <2>2. /\ Suffix(b, n) \in Seq(Snapshot)
          /\ Len(Suffix(b, n)) = IF from <= Len(b) THEN Len(b) - from + 1 ELSE 0
          /\ \A i \in 1..(Len(b) - from + 1) : Suffix(b, n)[i] = b[from + i - 1]
      BY <1>3, <2>1, SubSeqProperties DEF Suffix
    <2>3. Len(b) - from + 1 = n /\ (from <= Len(b) <=> n # 0)
      BY <1>1
    <2>4. QED  BY <2>2, <2>3
  <1>5. \A i \in 1..n : Suffix(b, n)[i].newer = n - i
    <2>1. ASSUME NEW i \in 1..n PROVE Suffix(b, n)[i].newer = n - i
      <3>1. from + i - 1 \in 1..Len(b) /\ Len(b) - (from + i - 1) = n - i
        BY <1>1, <1>2
      <3>2. Suffix(b, n)[i] = b[from + i - 1]
        BY <1>4
      <3>3. \A j \in 1..Len(b) : b[j].newer = Len(b) - j
        BY DEF Runs
      <3>4. QED  BY <3>1, <3>2, <3>3
    <2>2. QED  BY <2>1
  <1>6. n = 0 => Suffix(b, n) = << >>
    BY <1>4
  <1>7. QED  BY <1>4, <1>5, <1>6 DEF Runs

\* Expiry and eviction leave a run, and empty it only if its last one is old.
LEMMA DropOlder ==
    ASSUME NEW b \in Runs, NEW limit \in Nat
    PROVE  /\ DropWhileOlder(b, limit) \in Runs
           /\ Len(DropWhileOlder(b, limit)) <= Len(b)
           /\ b # << >> /\ DropWhileOlder(b, limit) = << >> => b[Len(b)].age > limit
  <1> DEFINE young == {i \in 1..Len(b) : b[i].age <= limit}
             left == IF young = {} THEN 0 ELSE Len(b) - Min(young) + 1
  <1>1. b \in Seq(Snapshot) /\ Len(b) \in Nat
    BY DEF Runs
  <1>2. DropWhileOlder(b, limit) = Suffix(b, left)
    BY DEF DropWhileOlder
  <1>3. young # {} => Min(young) \in 1..Len(b)
    <2>1. young \in SUBSET Nat
      OBVIOUS
    <2>2. young # {} => Min(young) \in young
      BY <2>1, LeastOf
    <2>3. QED  BY <2>2
  <1> HIDE DEF young
  <1>4. left \in 0..Len(b) /\ (left = 0 => young = {})
    BY <1>1, <1>3
  <1> HIDE DEF left
  <1>5. Suffix(b, left) \in Runs /\ Len(Suffix(b, left)) = left
    BY <1>4, SuffixIsRun
  <1>6. ASSUME b # << >>, young = {} PROVE b[Len(b)].age > limit
    <2>1. Len(b) \in 1..Len(b) /\ b[Len(b)] \in Snapshot
      BY <1>1, <1>6
    <2>2. ~ (b[Len(b)].age <= limit)
      BY <1>6, <2>1 DEF young
    <2>3. b[Len(b)].age \in Nat
      BY <2>1, LedgerAssumption DEF Snapshot, Oldest
    <2>4. QED  BY <2>2, <2>3
  <1>7. left = 0 <=> Suffix(b, left) = << >>
    <2>1. Len(<< >>) = 0
      OBVIOUS
    <2>2. QED  BY <1>4, <1>5, <2>1, SuffixIsRun
  <1>8. QED  BY <1>1, <1>2, <1>4, <1>5, <1>6, <1>7

\* deque.append() keeps a ring.
LEMMA PushIsRing ==
    ASSUME NEW b \in Runs, NEW s \in Snapshot, s.newer = 0
    PROVE  Push(b, s) \in Rings /\ Push(b, s) # << >>
  <1> DEFINE counted == [i \in 1..Len(b) |-> [b[i] EXCEPT !.newer = @ + 1]]
             all == Append(counted, s)
  <1>1. b \in Seq(Snapshot) /\ Len(b) \in Nat
    BY DEF Runs
  <1>2. counted \in Seq(Snapshot) /\ Len(counted) = Len(b)
    <2>1. \A i \in 1..Len(b) : b[i] \in Snapshot
      BY <1>1
    <2>2. \A x \in Snapshot : [x EXCEPT !.newer = @ + 1] \in Snapshot
      BY DEF Snapshot
    <2>3. \A i \in 1..Len(b) : counted[i] \in Snapshot
      BY <2>1, <2>2
    <2>4. counted \in [1..Len(b) -> Snapshot]
      BY <2>3
    <2>5. QED  BY <1>1, <2>4
  <1>3. \A i \in 1..Len(b) : counted[i].newer = Len(b) - i + 1
    <2>1. ASSUME NEW i \in 1..Len(b) PROVE counted[i].newer = Len(b) - i + 1
      <3>1. b[i] \in Snapshot /\ b[i].newer = Len(b) - i
        BY <1>1 DEF Runs
      <3>2. counted[i].newer = b[i].newer + 1
        BY <3>1 DEF Snapshot
      <3>3. QED  BY <3>1, <3>2
    <2>2. QED  BY <2>1
  <1> HIDE DEF counted
  <1>4. /\ all \in Seq(Snapshot) /\ Len(all) = Len(b) + 1
        /\ \A i \in 1..Len(b) : all[i] = counted[i]
        /\ all[Len(b) + 1] = s
    BY <1>1, <1>2
  <1> HIDE DEF all
  <1>5. all \in Runs
    <2>1. ASSUME NEW i \in 1..Len(all) PROVE all[i].newer = Len(all) - i
      <3>1. CASE i \in 1..Len(b)
        <4>1. all[i].newer = Len(b) - i + 1
          BY <1>3, <1>4, <3>1
        <4>2. QED  BY <1>1, <1>4, <3>1, <4>1
      <3>2. CASE i = Len(b) + 1
        <4>1. all[i].newer = 0
          BY <1>4, <3>2
        <4>2. QED  BY <1>1, <1>4, <3>2, <4>1
      <3>3. QED  BY <1>1, <1>4, <3>1, <3>2
    <2>2. QED  BY <1>4, <2>1 DEF Runs
  <1>6. Push(b, s) = IF Len(all) > MaxVersions THEN Suffix(all, MaxVersions) ELSE all
    BY DEF Push, all, counted
  <1>7. MaxVersions \in Nat /\ MaxVersions # 0
    BY LedgerAssumption
  <1>8. CASE Len(all) > MaxVersions
    <2>1. MaxVersions \in 0..Len(all)
      BY <1>1, <1>4, <1>7, <1>8
    <2>2. Suffix(all, MaxVersions) \in Runs /\ Len(Suffix(all, MaxVersions)) = MaxVersions
      BY <1>5, <2>1, SuffixIsRun
    <2>3. Len(<< >>) = 0
      OBVIOUS
    <2>4. QED  BY <1>6, <1>7, <1>8, <2>2, <2>3 DEF Rings
  <1>9. CASE ~ (Len(all) > MaxVersions)
    <2>1. Len(<< >>) = 0
      OBVIOUS
    <2>2. QED  BY <1>1, <1>4, <1>5, <1>6, <1>7, <1>9, <2>1 DEF Rings
  <1>10. QED  BY <1>8, <1>9

-----------------------------------------------------------------------------
\* Half of every ring, but for the last one of a resource.
LEMMA TrimKeepsOne ==
    ASSUME NEW bufs \in [Resources -> Rings]
    PROVE  /\ SoftTrim(bufs) \in [Resources -> Rings]
           /\ \A r \in Resources : SoftTrim(bufs)[r] = << >> => bufs[r] = << >>
  <1>1. ASSUME NEW r \in Resources
        PROVE  SoftTrim(bufs)[r] \in Rings /\ (SoftTrim(bufs)[r] = << >> => bufs[r] = << >>)
    <2> DEFINE n == IF Len(bufs[r]) <= 1 THEN Len(bufs[r]) ELSE Len(bufs[r]) \div 2
    <2>1. bufs[r] \in Runs /\ Len(bufs[r]) \in Nat /\ Len(bufs[r]) <= MaxVersions
      BY DEF Rings, Runs
    <2>2. n \in 0..Len(bufs[r]) /\ (n = 0 => Len(bufs[r]) = 0)
      BY <2>1
    <2>3. SoftTrim(bufs)[r] = Suffix(bufs[r], n)
      BY DEF SoftTrim
    <2> HIDE DEF n
    <2>4. Suffix(bufs[r], n) \in Runs /\ Len(Suffix(bufs[r], n)) = n
      BY <2>1, <2>2, SuffixIsRun
    <2>5. n <= MaxVersions /\ n \in Nat
      BY <2>1, <2>2, LedgerAssumption
    <2>6. SoftTrim(bufs)[r] \in Rings
      BY <2>3, <2>4, <2>5 DEF Rings
    <2>7. SoftTrim(bufs)[r] = << >> => bufs[r] = << >>
      <3>1. ASSUME Suffix(bufs[r], n) = << >> PROVE bufs[r] = << >>
        <4>1. n = 0
          BY <2>4, <3>1
        <4>2. Len(bufs[r]) = 0 /\ bufs[r] \in Seq(Snapshot)
          BY <2>1, <2>2, <4>1 DEF Runs
        <4>3. QED  BY <4>2
      <3>2. QED  BY <2>3, <3>1
    <2>8. QED  BY <2>6, <2>7
  <1>2. SoftTrim(bufs) = [r \in Resources |-> SoftTrim(bufs)[r]]
    BY DEF SoftTrim
  <1>3. QED  BY <1>1, <1>2

\* The failsafe leaves rings, and empties those only whose last one is old.
LEMMA EvictionIsSafe ==
    ASSUME NEW bufs \in [Resources -> Rings], NEW order
    PROVE  /\ FailsafeEvict(bufs, order) \in [Resources -> Rings]
           /\ \A r \in Resources :
                 bufs[r] # << >> /\ FailsafeEvict(bufs, order)[r] = << >> =>
                    bufs[r][Len(bufs[r])].age > FailsafeAge
  <1>1. PICK n : FailsafeEvict(bufs, order) = Evicted(bufs, order, n)
    BY DEF FailsafeEvict
  <1>2. ASSUME NEW r \in Resources
        PROVE  /\ Evicted(bufs, order, n)[r] \in Rings
               /\ bufs[r] # << >> /\ Evicted(bufs, order, n)[r] = << >> =>
                     bufs[r][Len(bufs[r])].age > FailsafeAge
    <2> DEFINE rest == DropWhileOlder(bufs[r], FailsafeAge)
    <2>1. bufs[r] \in Runs /\ Len(bufs[r]) \in Nat /\ Len(bufs[r]) <= MaxVersions
      BY DEF Rings, Runs
    <2>2. FailsafeAge \in Nat /\ MaxVersions \in Nat
      BY LedgerAssumption
    <2>3. /\ rest \in Runs /\ Len(rest) <= Len(bufs[r])
          /\ bufs[r] # << >> /\ rest = << >> => bufs[r][Len(bufs[r])].age > FailsafeAge
      BY <2>1, <2>2, DropOlder
    <2>4. Evicted(bufs, order, n)[r] \in {rest, bufs[r]}
      BY DEF Evicted
    <2> HIDE DEF rest
    <2>5. Len(rest) \in Nat
      BY <2>3 DEF Runs
    <2>6. rest \in Rings
      BY <2>1, <2>2, <2>3, <2>5 DEF Rings
    <2>7. QED  BY <2>3, <2>4, <2>6
  <1>3. Evicted(bufs, order, n) = [r \in Resources |-> Evicted(bufs, order, n)[r]]
    BY DEF Evicted
  <1>4. QED  BY <1>1, <1>2, <1>3

\* record() below the failsafe keeps the rings, and whatever had a latest().
LEMMA StoreKeeps ==
    ASSUME NEW bufs \in [Resources -> Rings], NEW r \in Resources,
           NEW s \in Snapshot, s.newer = 0
    PROVE  /\ Store(bufs, r, s) \in [Resources -> Rings]
           /\ \A q \in Resources : Store(bufs, r, s)[q] = << >> => bufs[q] = << >>
  <1> DEFINE trimmed == IF Bytes(bufs) >= SoftLimit THEN SoftTrim(bufs) ELSE bufs
             expired(q) == DropWhileOlder(trimmed[q], Retention)
  <1>1. CASE NoRoom(bufs)
    BY <1>1 DEF Store
  <1>2. CASE ~ NoRoom(bufs)
    <2>1. Store(bufs, r, s) = [trimmed EXCEPT ![r] = Push(DropWhileOlder(@, Retention), s)]
      BY <1>2 DEF Store
    <2>2. /\ trimmed \in [Resources -> Rings]
          /\ \A q \in Resources : trimmed[q] = << >> => bufs[q] = << >>
      BY TrimKeepsOne
    <2> HIDE DEF trimmed
    <2>3. Store(bufs, r, s) = [trimmed EXCEPT ![r] = Push(expired(r), s)]
      BY <2>1, <2>2
    <2>4. expired(r) \in Runs
      <3>1. trimmed[r] \in Runs
        BY <2>2 DEF Rings
      <3>2. Retention \in Nat
        BY LedgerAssumption
      <3>3. QED  BY <3>1, <3>2, DropOlder
    <2> HIDE DEF expired
    <2>5. Push(expired(r), s) \in Rings /\ Push(expired(r), s) # << >>
      BY <2>4, PushIsRing
    <2>6. QED  BY <2>2, <2>3, <2>5
  <1>3. QED  BY <1>1, <1>2

\* The snapshots record() is given.
LEMMA NewSnapshot ==
    ASSUME NEW age \in 0..MaxLate, NEW size \in Sizes
    PROVE  [age |-> age, size |-> size, newer |-> 0] \in Snapshot
  <1>1. {Retention, FailsafeAge, MaxLate} \subseteq Nat
    BY LedgerAssumption
  <1>2. \A a, b, c \in Nat : \A x \in 0..c : x \in 0..(a + b + c + 1)
    OBVIOUS
  <1>3. age \in 0..Oldest
    BY <1>1, <1>2 DEF Oldest
  <1>4. QED  BY <1>3 DEF Snapshot

\* Time passes for every snapshot, and for nothing else of it.
LEMMA TickKeeps ==
    ASSUME LedgerInv, LedgerTick
    PROVE  /\ LedgerInv'
           /\ \A r \in Resources : buffers'[r] = << >> => buffers[r] = << >>
  <1> DEFINE older(x) == [x EXCEPT !.age = Min({@ + 1, Oldest})]
  <1>1. buffers' = [r \in Resources |-> [i \in 1..Len(buffers[r]) |-> older(buffers[r][i])]]
    BY DEF LedgerTick
  <1>2. Oldest \in Nat
    <2>1. Retention \in Nat /\ FailsafeAge \in Nat /\ MaxLate \in Nat
      BY LedgerAssumption
    <2>2. QED  BY <2>1 DEF Oldest
  <1>3. ASSUME NEW x \in Snapshot
        PROVE  older(x) \in Snapshot /\ older(x).newer = x.newer
    <2>1. x.age \in 0..Oldest
      BY DEF Snapshot
    <2>2. x.age + 1 \in Nat
      BY <1>2, <2>1
    <2>3. /\ {x.age + 1, Oldest} \in SUBSET Nat /\ {x.age + 1, Oldest} # {}
      BY <1>2, <2>2
    <2>4. /\ Min({x.age + 1, Oldest}) \in {x.age + 1, Oldest}
          /\ \A y \in {x.age + 1, Oldest} : Min({x.age + 1, Oldest}) <= y
      BY <2>3, LeastOf
    <2>5. Min({x.age + 1, Oldest}) \in 0..Oldest
      BY <1>2, <2>1, <2>2, <2>4
    <2>6. QED  BY <2>5 DEF Snapshot
  <1> HIDE DEF older
  <1>4. ASSUME NEW r \in Resources
        PROVE  /\ buffers'[r] \in Rings
               /\ buffers'[r] = << >> => buffers[r] = << >>
    <2>1. /\ buffers[r] \in Seq(Snapshot) /\ Len(buffers[r]) \in Nat
          /\ Len(buffers[r]) <= MaxVersions
          /\ \A i \in 1..Len(buffers[r]) : buffers[r][i].newer = Len(buffers[r]) - i
      BY DEF LedgerInv, Rings, Runs
    <2>2. \A i \in 1..Len(buffers[r]) : buffers[r][i] \in Snapshot
      BY <2>1
    <2>3. buffers'[r] = [i \in 1..Len(buffers[r]) |-> older(buffers[r][i])]
      BY <1>1
    <2>4. buffers'[r] \in Seq(Snapshot) /\ Len(buffers'[r]) = Len(buffers[r])
      <3>1. buffers'[r] \in [1..Len(buffers[r]) -> Snapshot]
        BY <1>3, <2>2, <2>3
      <3>2. QED  BY <2>1, <3>1
    <2>5. \A i \in 1..Len(buffers[r]) : buffers'[r][i].newer = buffers[r][i].newer
      BY <1>3, <2>2, <2>3
    <2>6. buffers'[r] \in Rings
      BY <2>1, <2>4, <2>5 DEF Rings, Runs
    <2>7. buffers'[r] = << >> => buffers[r] = << >>
      BY <2>1, <2>4
    <2>8. QED  BY <2>6, <2>7
  <1>5. LedgerInv'
    <2>1. buffers' = [r \in Resources |-> buffers'[r]]
      BY <1>1
    <2>2. dropped' \in BOOLEAN
      BY DEF LedgerTick
    <2>3. QED  BY <1>4, <2>1, <2>2 DEF LedgerInv
  <1>6. QED  BY <1>4, <1>5

-----------------------------------------------------------------------------
\* What a step does to the buffers: the cases of record(), or time.
LEMMA RecordKeeps ==
    ASSUME LedgerInv, NEW r \in Resources, NEW age \in 0..MaxLate, NEW size \in Sizes,
           Record(r, age, size)
    PROVE  /\ LedgerInv'
           /\ \A q \in Resources : buffers[q] # << >> /\ buffers'[q] = << >> =>
                 /\ Bytes(buffers) >= FailsafeLimit
                 /\ buffers[q][Len(buffers[q])].age > FailsafeAge
  <1> DEFINE s == [age |-> age, size |-> size, newer |-> 0]
  <1>1. s \in Snapshot /\ s.newer = 0
    BY NewSnapshot
  <1>2. CASE /\ ~ (Bytes(buffers) >= FailsafeLimit)
             /\ buffers' = Store(buffers, r, s)
    <2> HIDE DEF s
    <2>1. dropped' \in BOOLEAN
      BY DEF Record, NoRoom
    <2>2. QED  BY <1>1, <1>2, <2>1, StoreKeeps DEF LedgerInv
  <1>3. CASE /\ Bytes(buffers) >= FailsafeLimit
             /\ \E order \in Visits(buffers) :
                   buffers' = Store(FailsafeEvict(buffers, order), r, s)
    <2> HIDE DEF s
    <2>1. PICK order : buffers' = Store(FailsafeEvict(buffers, order), r, s)
      BY <1>3
    <2> DEFINE evicted == FailsafeEvict(buffers, order)
    <2>2. /\ evicted \in [Resources -> Rings]
          /\ \A q \in Resources :
                buffers[q] # << >> /\ evicted[q] = << >> =>
                   buffers[q][Len(buffers[q])].age > FailsafeAge
      BY EvictionIsSafe DEF LedgerInv
    <2> HIDE DEF evicted
    <2>3. /\ Store(evicted, r, s) \in [Resources -> Rings]
          /\ \A q \in Resources : Store(evicted, r, s)[q] = << >> => evicted[q] = << >>
      BY <1>1, <2>2, StoreKeeps
    <2>4. buffers' = Store(evicted, r, s)
      BY <2>1 DEF evicted
    <2>5. dropped' \in BOOLEAN
      BY DEF Record, NoRoom
    <2>6. QED  BY <1>3, <2>2, <2>3, <2>4, <2>5 DEF LedgerInv
  <1>4. QED  BY <1>2, <1>3 DEF Record

\* Every step preserves the invariant, and empties rings for age only.
LEMMA LedgerStep ==
    ASSUME LedgerInv, [LedgerNext]_ledgerVars
    PROVE  /\ LedgerInv'
           /\ \A q \in Resources : buffers[q] # << >> /\ buffers'[q] = << >> =>
                 /\ Bytes(buffers) >= FailsafeLimit
                 /\ buffers[q][Len(buffers[q])].age > FailsafeAge
  <1>1. CASE \E r \in Resources, age \in 0..MaxLate, size \in Sizes : Record(r, age, size)
    BY <1>1, RecordKeeps
  <1>2. CASE LedgerTick
    BY <1>2, TickKeeps
  <1>3. CASE UNCHANGED ledgerVars
    BY <1>3 DEF ledgerVars, LedgerInv
  <1>4. QED  BY <1>1, <1>2, <1>3 DEF LedgerNext

\* The invariant holds for an empty ledger.
LEMMA LedgerInitInv == LedgerInit => LedgerInv
  <1>1. << >> \in Rings
    <2>1. << >> \in Seq(Snapshot) /\ Len(<< >>) = 0
      OBVIOUS
    <2>2. MaxVersions \in Nat
      BY LedgerAssumption
    <2>3. QED  BY <2>1, <2>2 DEF Rings, Runs
  <1>2. QED  BY <1>1 DEF LedgerInit, LedgerInv

\* So it holds in every reachable state.
LEMMA LedgerInductive == LedgerSpec => []LedgerInv
  <1>1. LedgerInv /\ [LedgerNext]_ledgerVars => LedgerInv'
    BY LedgerStep
  <1>2. QED  BY <1>1, LedgerInitInv, PTL DEF LedgerSpec

-----------------------------------------------------------------------------
(* Whatever record() has stored, expired, trimmed and evicted, a buffer    *)
(* holds snapshots that followed each other, the last one stored among     *)
(* them, and no more than its maximum.                                     *)
THEOREM RingsHaveNoHoles == LedgerSpec => []NoHoles
  <1>1. LedgerInv => NoHoles
    BY DEF LedgerInv, Rings, Runs, NoHoles
  <1>2. QED  BY <1>1, LedgerInductive, PTL

\* The snapshots of the ledger have the ages and sizes they may have.
THEOREM LedgerTypes == LedgerSpec => []LedgerTypeOK
  <1>1. LedgerInv => LedgerTypeOK
    BY DEF LedgerInv, Rings, Runs, LedgerTypeOK
  <1>2. QED  BY <1>1, LedgerInductive, PTL

(* _soft_trim() and _expire_buffer() never leave a resource without a      *)
(* latest(); _failsafe_evict() does, when that snapshot itself is old.     *)
THEOREM LatestIsKept == LedgerSpec => LatestKept
  <1>1. LedgerInv /\ [LedgerNext]_ledgerVars =>
           [\A r \in Resources :
              buffers[r] # << >> /\ buffers'[r] = << >> =>
                 /\ Bytes(buffers) >= FailsafeLimit
                 /\ buffers[r][Len(buffers[r])].age > FailsafeAge]_ledgerVars
    BY LedgerStep
  <1>2. QED  BY <1>1, LedgerInductive, PTL DEF LedgerSpec, LatestKept
=============================================================================
