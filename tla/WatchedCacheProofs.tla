-------------------------- MODULE WatchedCacheProofs --------------------------
(***************************************************************************)
(* The cache of one kind and its watcher, for any names, cap, thresholds,  *)
(* and any number of writes and errors.                                    *)
(***************************************************************************)
EXTENDS WatchedCache, FiniteSetTheorems, WellFoundedInduction, Integers, TLAPS

-----------------------------------------------------------------------------
(* The version of an object after so many writes.                          *)
LEMMA GreatestOf ==
    ASSUME NEW r \in Nat, NEW S \in SUBSET (1..r), S # {}
    PROVE  Max(S) \in S /\ \A y \in S : Max(S) >= y
  <1> DEFINE left == {r - k : k \in S}
  <1>1. left \in SUBSET Nat /\ left # {}
    <2>1. \A k \in 1..r : r - k \in Nat
      OBVIOUS
    <2>2. QED  BY <2>1
  <1>2. PICK m \in left : \A y \in left : ~ (<<y, m>> \in OpToRel(<, Nat))
    BY <1>1, NatLessThanWellFounded, WFMin
  <1>3. \A y \in left : m <= y
    <2>1. \A y \in left : ~ (y < m)
      BY <1>1, <1>2 DEF OpToRel
    <2>2. QED  BY <1>1, <2>1
  <1>4. PICK x \in S : m = r - x
    OBVIOUS
  <1>5. \A y \in S : x >= y
    BY <1>3, <1>4
  <1>6. QED  BY <1>5 DEF Max

\* A version is the number of a write, or none.
LEMMA VersionRange ==
    ASSUME NEW n, NEW r \in Nat
    PROVE  VersionAt(n, r) \in 0..r
  <1> DEFINE of == {k \in 1..r : log[k].name = n}
  <1>1. of # {} => Max(of) \in of
    BY GreatestOf
  <1>2. VersionAt(n, r) = IF of = {} \/ log[Max(of)].op = "DELETED" THEN 0 ELSE Max(of)
    BY DEF VersionAt, Absent
  <1>3. of \subseteq 1..r
    OBVIOUS
  <1> HIDE DEF of
  <1>4. 0 \in 0..r /\ \A k \in 1..r : k \in 0..r
    OBVIOUS
  <1>5. QED  BY <1>1, <1>2, <1>3, <1>4, Zenon

\* One more write gives one object its number, or deletes it.
LEMMA VersionNext ==
    ASSUME NEW n, NEW r \in Nat
    PROVE  VersionAt(n, r + 1) =
              IF log[r + 1].name # n THEN VersionAt(n, r)
              ELSE IF log[r + 1].op = "DELETED" THEN Absent ELSE r + 1
  <1> DEFINE of == {k \in 1..r : log[k].name = n}
             ofNext == {k \in 1..r + 1 : log[k].name = n}
  <1>1. CASE log[r + 1].name # n
    <2>1. ofNext = of
      BY <1>1
    <2>2. QED  BY <1>1, <2>1 DEF VersionAt
  <1>2. CASE log[r + 1].name = n
    <2>1. ofNext \in SUBSET (1..r + 1) /\ r + 1 \in ofNext /\ r + 1 \in Nat
      BY <1>2
    <2>2. VersionAt(n, r + 1) = IF ofNext = {} \/ log[Max(ofNext)].op = "DELETED"
                                THEN Absent ELSE Max(ofNext)
      BY DEF VersionAt
    <2> HIDE DEF ofNext
    <2>3. Max(ofNext) \in ofNext /\ Max(ofNext) >= r + 1
      BY <2>1, GreatestOf
    <2>4. Max(ofNext) = r + 1
      <3>1. \A k \in 1..r + 1 : k >= r + 1 => k = r + 1
        OBVIOUS
      <3>2. QED  BY <2>1, <2>3, <3>1, Zenon
    <2>5. QED  BY <1>2, <2>1, <2>2, <2>4
  <1>3. QED  BY <1>1, <1>2

\* More writes change no earlier version.
LEMMA VersionStays ==
    ASSUME NEW n, NEW r \in Nat, r <= LastWrite, LastWrite \in Nat,
           \A k \in 1..LastWrite : log'[k] = log[k]
    PROVE  VersionAt(n, r)' = VersionAt(n, r)
  <1> DEFINE of == {k \in 1..r : log[k].name = n}
  <1>1. {k \in 1..r : log'[k].name = n} = of
    OBVIOUS
  <1>2. of # {} => log'[Max(of)] = log[Max(of)]
    <2>1. of \in SUBSET (1..r)
      OBVIOUS
    <2>2. of # {} => Max(of) \in 1..r
      BY <2>1, GreatestOf
    <2>3. QED  BY <2>2
  <1>3. VersionAt(n, r) = IF of = {} \/ log[Max(of)].op = "DELETED" THEN Absent ELSE Max(of)
    BY DEF VersionAt
  <1>4. VersionAt(n, r)' = IF of = {} \/ log'[Max(of)].op = "DELETED" THEN Absent ELSE Max(of)
    BY <1>1 DEF VersionAt, Absent
  <1> HIDE DEF of
  <1>5. QED  BY <1>2, <1>3, <1>4

\* Versions depend on the writes alone.
LEMMA SameVersions ==
    ASSUME log' = log
    PROVE  LastWrite' = LastWrite /\ \A n, r : VersionAt(n, r)' = VersionAt(n, r)
  BY DEF VersionAt, LastWrite, Absent

-----------------------------------------------------------------------------
(* What the cache holds of n is the state after some write from p on, or   *)
(* the cap kept n out.  A stream resumed at an older version redelivers:   *)
(* the cache may be ahead of it.                                           *)
Agrees(n, p) ==
    \/ \E q \in p..LastWrite : cache[n] = VersionAt(n, q)
    \/ cache[n] = Absent /\ truncated

StreamAgrees ==
    pc = "streaming" =>
        rv <= pos /\ \A n \in Names \ (unsynced \cup snapshot) : Agrees(n, pos)

\* While no stream is open, the next one will go on at rv, or from scratch.
ResumeAgrees ==
    pc # "streaming" =>
        snapshot = {} /\ (rv # NoRV => \A n \in Names \ unsynced : Agrees(n, rv))

CacheInv ==
    /\ TypeOK /\ log # << >> /\ rv \in 0..LastWrite
    /\ pc = "new" => rv = NoRV
    /\ StreamAgrees /\ ResumeAgrees
    /\ WithinCap

\* The invariant holds before anything is listed.
LEMMA CacheInitInv == Init => CacheInv
  <1> SUFFICES ASSUME Init PROVE CacheInv
    OBVIOUS
  <1>1. PICK n \in Names : log = <<[op |-> "ADDED", name |-> n]>>
    BY DEF Init
  <1>2. log \in Seq(Writes) /\ LastWrite = 1 /\ log # << >>
    <2>1. [op |-> "ADDED", name |-> n] \in Writes
      BY DEF Writes
    <2>2. QED  BY <1>1, <2>1 DEF LastWrite
  <1>3. /\ pc = "new" /\ rv = NoRV /\ compacted = 0 /\ pos = 0 /\ snapshot = {} /\ errors = 0
        /\ unsynced = {} /\ cache = [m \in Names |-> Absent]
    BY DEF Init, WatcherInit
  <1>4. TypeOK
    <2>1. WatcherTypeOK
      <3>1. 1 \in 1..MaxBackoff /\ 0 \in 0..MaxFailures + 1 /\ 0 \in 0..BurstThreshold + 1
        BY WatcherAssumption
      <3>2. QED
        BY <3>1 DEF Init, WatcherInit, WatcherTypeOK, Places, NoRV
    <2>2. 1 <= MaxWrites /\ 0 \in 0..LastWrite /\ 0 \in 0..MaxErrors
      BY <1>2, WatchedCacheAssumption
    <2>3. listed \in BOOLEAN /\ truncated \in BOOLEAN
      BY DEF Init
    <2>4. cache \in [Names -> 0..LastWrite]
      BY <1>3, <2>2 DEF Absent
    <2>5. QED
      BY <1>2, <1>3, <2>1, <2>2, <2>3, <2>4 DEF TypeOK
  <1>5. WithinCap
    <2>1. CachedNames = {}
      BY <1>3 DEF CachedNames
    <2>2. QED  BY <2>1, FS_EmptySet, WatchedCacheAssumption DEF WithinCap
  <1>6. QED
    BY <1>2, <1>3, <1>4, <1>5 DEF CacheInv, StreamAgrees, ResumeAgrees, NoRV

-----------------------------------------------------------------------------
(* The steps of the loop that move neither the cache nor the stream.       *)
dataVars == <<log, pos, snapshot, cache, truncated, unsynced>>

\* A step of the loop that leaves the cache alone keeps the agreement.
LEMMA LoopStep ==
    ASSUME CacheInv, TypeOK', UNCHANGED dataVars,
           \/ pc' = pc /\ rv' = rv
           \/ /\ pc # "streaming" /\ pc' \notin {"streaming", "new"}
              /\ rv' \in {rv, NoRV}
           \/ /\ pc = "streaming" /\ pc' = "streaming"
              /\ rv' \in {rv, pos}
    PROVE  CacheInv'
  <1>2. /\ \A n \in Names : Agrees(n, pos)' <=> Agrees(n, pos)
        /\ \A n \in Names : rv' = rv => (Agrees(n, rv)' <=> Agrees(n, rv))
    BY DEF dataVars, Agrees, VersionAt, LastWrite
  <1>3. WithinCap'
    BY DEF CacheInv, WithinCap, CachedNames, dataVars
  <1>4. rv \in 0..LastWrite /\ pos \in 0..LastWrite /\ LastWrite' = LastWrite /\ LastWrite \in Nat
    BY DEF CacheInv, TypeOK, dataVars, LastWrite
  <1>5. rv' \in 0..LastWrite'
    BY <1>4 DEF NoRV
  <1>6. StreamAgrees'
    <2>1. SUFFICES ASSUME pc' = "streaming"
                   PROVE  /\ rv' <= pos
                          /\ \A n \in Names \ (unsynced \cup snapshot) : Agrees(n, pos)
      BY <1>2 DEF StreamAgrees, dataVars
    <2>2. pc = "streaming" /\ rv' \in {rv, pos}
      BY <2>1
    <2>3. QED  BY <1>4, <2>2 DEF CacheInv, StreamAgrees
  <1>7. ResumeAgrees'
    BY <1>2 DEF CacheInv, ResumeAgrees, dataVars
  <1>8. QED
    BY <1>3, <1>5, <1>6, <1>7 DEF CacheInv, dataVars

\* A stream that breaks, or whose watcher is stopped, leaves what it had
\* still to send to the unsynced.
LEMMA BreakStep ==
    ASSUME CacheInv, TypeOK', pc = "streaming", pc' \notin {"streaming", "new"},
           rv' \in {rv, NoRV}, snapshot' = {},
           unsynced' = unsynced \cup {n \in snapshot : cache[n] # VersionAt(n, pos)},
           UNCHANGED <<log, pos, cache, truncated>>
    PROVE  CacheInv'
  <1>1. rv \in 0..LastWrite /\ pos \in 0..LastWrite /\ LastWrite' = LastWrite /\ LastWrite \in Nat
    BY DEF CacheInv, TypeOK, LastWrite
  <1>2. rv <= pos /\ \A n \in Names \ (unsynced \cup snapshot) : Agrees(n, pos)
    BY DEF CacheInv, StreamAgrees
  <1>3. \A n : Agrees(n, pos) => Agrees(n, rv)
    <2>1. pos..LastWrite \subseteq rv..LastWrite
      BY <1>1, <1>2
    <2>2. QED  BY <2>1 DEF Agrees
  <1>4. \A n : cache[n] = VersionAt(n, pos) => Agrees(n, rv)
    <2>1. pos \in rv..LastWrite
      BY <1>1, <1>2
    <2>2. QED  BY <2>1 DEF Agrees
  <1>5. \A n : Agrees(n, rv) /\ rv' = rv => Agrees(n, rv)'
    BY DEF Agrees, VersionAt, LastWrite
  <1>6. ResumeAgrees'
    <2>1. SUFFICES ASSUME rv' # NoRV, NEW n \in Names \ unsynced'
                   PROVE  Agrees(n, rv)'
      BY DEF ResumeAgrees, NoRV
    <2>2. Agrees(n, rv)
      BY <1>2, <1>3, <1>4, <2>1
    <2>3. QED  BY <1>5, <2>1, <2>2
  <1>7. WithinCap' /\ StreamAgrees'
    BY DEF CacheInv, WithinCap, CachedNames, StreamAgrees
  <1>8. rv' \in 0..LastWrite'
    BY <1>1 DEF NoRV
  <1>9. QED  BY <1>6, <1>7, <1>8 DEF CacheInv

-----------------------------------------------------------------------------
(* What the handler does to the cache.                                     *)
LEMMA CapKept ==
    ASSUME CacheInv, NEW n \in Names, NEW version,
           Update(n, version) \/ Remove(n)
    PROVE  WithinCap'
  <1>1. IsFiniteSet(CachedNames) /\ Cardinality(CachedNames) \in Nat /\ Cardinality(CachedNames) <= Cap
    <2>1. IsFiniteSet(CachedNames)
      BY WatchedCacheAssumption, FS_Subset DEF CachedNames
    <2>2. QED  BY <2>1, FS_CardinalityType DEF CacheInv, WithinCap
  <1>2. cache \in [Names -> 0..LastWrite]
    BY DEF CacheInv, TypeOK
  <1>3. CASE CachedNames' \subseteq CachedNames
    <2>1. Cardinality(CachedNames') <= Cardinality(CachedNames) /\ Cardinality(CachedNames') \in Nat
      BY <1>1, <1>3, FS_Subset, FS_CardinalityType
    <2>2. QED  BY <1>1, <2>1, WatchedCacheAssumption DEF WithinCap
  <1>4. CASE cache[n] = Absent /\ ~ (Cardinality(CachedNames) >= Cap) /\ cache' = [cache EXCEPT ![n] = version]
    <2>1. CachedNames' \subseteq CachedNames \cup {n} /\ n \notin CachedNames
      BY <1>2, <1>4 DEF CachedNames
    <2>2. IsFiniteSet(CachedNames \cup {n}) /\ Cardinality(CachedNames \cup {n}) = Cardinality(CachedNames) + 1
      BY <1>1, <2>1, FS_AddElement
    <2>3. Cardinality(CachedNames') <= Cardinality(CachedNames) + 1 /\ Cardinality(CachedNames') \in Nat
      BY <2>1, <2>2, FS_Subset, FS_CardinalityType
    <2>4. QED  BY <1>1, <1>4, <2>3, WatchedCacheAssumption DEF WithinCap
  <1>5. CASE Remove(n)
    BY <1>2, <1>3, <1>5 DEF Remove, CachedNames, Absent
  <1>6. CASE Update(n, version) /\ cache[n] # Absent
    BY <1>2, <1>3, <1>6 DEF Update, CachedNames
  <1>7. CASE Update(n, version) /\ cache[n] = Absent /\ Cardinality(CachedNames) >= Cap
    BY <1>3, <1>7 DEF Update, CachedNames
  <1>8. QED  BY <1>4, <1>5, <1>6, <1>7 DEF Update

\* It disturbs no other name, and n is as told or kept out by the cap.
LEMMA Updated ==
    ASSUME CacheInv, NEW n \in Names, NEW version, Update(n, version)
    PROVE  /\ truncated => truncated'
           /\ \A m \in Names \ {n} : cache'[m] = cache[m]
           /\ cache'[n] = version \/ (cache'[n] = Absent /\ truncated')
  <1>1. cache \in [Names -> 0..LastWrite]
    BY DEF CacheInv, TypeOK
  <1>2. QED  BY <1>1 DEF Update

\* remove() of one object leaves the others alone.
LEMMA Removed ==
    ASSUME CacheInv, NEW n \in Names, Remove(n)
    PROVE  /\ truncated' = truncated
           /\ \A m \in Names \ {n} : cache'[m] = cache[m]
           /\ cache'[n] = Absent
  <1>1. cache \in [Names -> 0..LastWrite]
    BY DEF CacheInv, TypeOK
  <1>2. QED  BY <1>1 DEF Remove

\* The next write delivered brings its object to that write.
LEMMA DeliverStep ==
    ASSUME CacheInv, TypeOK', Deliver
    PROVE  CacheInv'
  <1> DEFINE w == log[pos + 1]
  <1>1. /\ pos \in Nat /\ rv \in Nat /\ LastWrite \in Nat /\ pos + 1 <= LastWrite
        /\ pos + 1 \in 1..LastWrite /\ log \in Seq(Writes)
    BY DEF CacheInv, TypeOK, LastWrite, Deliver
  <1>2. w \in Writes /\ w.name \in Names
    <2>1. w \in Writes
      BY <1>1 DEF LastWrite
    <2>2. QED  BY <2>1 DEF Writes
  <1>3. pc = "streaming" /\ pc' = "streaming" /\ rv' = pos + 1
    BY <1>1 DEF Deliver, ReceiveEvent, NoRV
  <1>4. /\ snapshot = {} /\ snapshot' = {} /\ pos' = pos + 1 /\ log' = log
        /\ unsynced' = unsynced \ {w.name}
    BY DEF Deliver, clusterVars
  <1>5. /\ truncated => truncated'
        /\ \A m \in Names \ {w.name} : cache'[m] = cache[m]
        /\ cache'[w.name] = VersionAt(w.name, pos + 1) \/ (cache'[w.name] = Absent /\ truncated')
    <2>1. VersionAt(w.name, pos + 1) = IF w.op = "DELETED" THEN Absent ELSE pos + 1
      BY <1>1, VersionNext
    <2>2. CASE w.op = "DELETED"
      <3>1. Remove(w.name)
        BY <2>2 DEF Deliver
      <3>2. QED  BY <1>2, <2>1, <2>2, <3>1, Removed
    <2>3. CASE w.op # "DELETED"
      <3>1. Update(w.name, pos + 1)
        BY <2>3 DEF Deliver
      <3>2. QED  BY <1>2, <2>1, <2>3, <3>1, Updated
    <2>4. QED  BY <2>2, <2>3
  <1>6. \A m \in Names \ unsynced' : Agrees(m, pos)'
    <2>1. SUFFICES ASSUME NEW m \in Names \ unsynced'
                   PROVE  \/ \E q \in pos + 1..LastWrite : cache'[m] = VersionAt(m, q)
                          \/ cache'[m] = Absent /\ truncated'
      BY <1>4, SameVersions DEF Agrees
    <2>2. CASE m = w.name
      <3>1. pos + 1 \in pos + 1..LastWrite
        BY <1>1
      <3>2. QED  BY <1>5, <2>2, <3>1
    <2>3. CASE m # w.name
      <3>1. Agrees(m, pos)
        BY <1>3, <1>4, <2>1, <2>3 DEF CacheInv, StreamAgrees
      <3>2. cache'[m] = cache[m]
        BY <1>5, <2>3
      <3>3. ASSUME NEW q \in pos..LastWrite, cache[m] = VersionAt(m, q)
            PROVE  \E p \in pos + 1..LastWrite : cache[m] = VersionAt(m, p)
        <4>1. CASE q = pos
          <5>1. VersionAt(m, pos + 1) = VersionAt(m, pos)
            BY <1>1, <2>3, VersionNext
          <5>2. pos + 1 \in pos + 1..LastWrite
            BY <1>1
          <5>3. QED  BY <3>3, <4>1, <5>1, <5>2
        <4>2. CASE q # pos
          <5>1. q \in pos + 1..LastWrite
            BY <1>1, <4>2
          <5>2. QED  BY <3>3, <5>1
        <4>3. QED  BY <4>1, <4>2
      <3>4. QED  BY <1>5, <3>1, <3>2, <3>3 DEF Agrees
    <2>4. QED  BY <2>2, <2>3
  <1>7. StreamAgrees'
    <2>1. rv' <= pos'
      BY <1>1, <1>3, <1>4
    <2>2. QED  BY <1>4, <1>6, <2>1 DEF StreamAgrees
  <1>8. WithinCap'
    <2>1. Remove(w.name) \/ Update(w.name, pos + 1)
      BY DEF Deliver
    <2>2. QED  BY <1>2, <2>1, CapKept
  <1>9. rv' \in 0..LastWrite' /\ log' # << >>
    <2>1. LastWrite' = LastWrite
      BY <1>4 DEF LastWrite
    <2>2. pos + 1 \in 0..LastWrite
      BY <1>1
    <2>3. QED  BY <1>3, <1>4, <2>1, <2>2 DEF CacheInv
  <1>10. QED
    BY <1>3, <1>7, <1>8, <1>9 DEF CacheInv, ResumeAgrees

\* An object told at the start of a stream brings it to that version.
LEMMA DeliverSnapshotStep ==
    ASSUME CacheInv, TypeOK', NEW n \in Names, DeliverSnapshot(n)
    PROVE  CacheInv'
  <1> DEFINE version == VersionAt(n, pos)
  <1>1. pos \in Nat /\ rv \in Nat /\ LastWrite \in Nat /\ pos <= LastWrite
    BY DEF CacheInv, TypeOK, LastWrite
  <1>2. version \in 0..pos
    BY <1>1, VersionRange
  <1>3. pc = "streaming" /\ pc' = "streaming" /\ rv' \in {rv, version}
    BY DEF DeliverSnapshot, ReceiveEvent
  <1>4. /\ Update(n, version) /\ snapshot' = snapshot \ {n} /\ unsynced' = unsynced \ {n}
        /\ pos' = pos /\ log' = log
    BY DEF DeliverSnapshot, clusterVars
  <1>5. /\ truncated => truncated'
        /\ \A m \in Names \ {n} : cache'[m] = cache[m]
        /\ cache'[n] = version \/ (cache'[n] = Absent /\ truncated')
    BY <1>4, Updated
  <1>6. \A m \in Names \ (unsynced' \cup snapshot') : Agrees(m, pos)'
    <2>1. SUFFICES ASSUME NEW m \in Names \ (unsynced' \cup snapshot')
                   PROVE  \/ \E q \in pos..LastWrite : cache'[m] = VersionAt(m, q)
                          \/ cache'[m] = Absent /\ truncated'
      BY <1>4, SameVersions DEF Agrees
    <2>2. CASE m = n
      <3>1. pos \in pos..LastWrite
        BY <1>1
      <3>2. QED  BY <1>5, <2>2, <3>1
    <2>3. CASE m # n
      <3>1. Agrees(m, pos)
        BY <1>3, <1>4, <2>1, <2>3 DEF CacheInv, StreamAgrees
      <3>2. QED  BY <1>5, <2>3, <3>1 DEF Agrees
    <2>4. QED  BY <2>2, <2>3
  <1>7. rv' <= pos'
    <2>1. rv <= pos /\ version <= pos
      BY <1>2, <1>3, <1>1 DEF CacheInv, StreamAgrees
    <2>2. QED  BY <1>3, <1>4, <2>1
  <1>8. rv' \in 0..LastWrite'
    <2>1. rv \in 0..LastWrite /\ version \in 0..LastWrite
      BY <1>1, <1>2 DEF CacheInv
    <2>2. LastWrite' = LastWrite
      BY <1>4 DEF LastWrite
    <2>3. QED  BY <1>3, <2>1, <2>2
  <1>9. WithinCap'
    BY <1>4, CapKept
  <1>10. QED
    BY <1>3, <1>4, <1>6, <1>7, <1>8, <1>9 DEF CacheInv, StreamAgrees, ResumeAgrees

-----------------------------------------------------------------------------
(* A watch is opened, a relist returns, the cluster is written to, the     *)
(* kind is listed.                                                         *)
LEMMA OpenStep ==
    ASSUME CacheInv, TypeOK', Open
    PROVE  CacheInv'
  <1>1. rv \in 0..LastWrite /\ LastWrite \in Nat /\ cache \in [Names -> 0..LastWrite]
    BY DEF CacheInv, TypeOK, LastWrite
  <1>2. pc = "opening" /\ pc' = "streaming" /\ rv' = rv
    BY DEF Open, StreamOpens
  <1>3. UNCHANGED <<log, cache, truncated>>
    BY DEF Open, clusterVars, storeVars
  <1>4. \A n \in Names \ (unsynced' \cup snapshot') : Agrees(n, pos')
    <2>1. CASE rv = NoRV
      <3>1. SUFFICES ASSUME NEW n \in Names \ (unsynced' \cup snapshot')
                     PROVE  Agrees(n, LastWrite)
        BY <2>1 DEF Open
      <3>2. ~ Present(n) /\ n \notin CachedNames
        BY <2>1, <3>1 DEF Open
      <3>3. cache[n] = VersionAt(n, LastWrite)
        BY <3>2 DEF Present, CachedNames
      <3>4. LastWrite \in LastWrite..LastWrite
        BY <1>1
      <3>5. QED  BY <3>3, <3>4 DEF Agrees
    <2>2. CASE rv # NoRV
      <3>1. pos' = rv /\ snapshot' = {} /\ unsynced' = unsynced
        BY <2>2 DEF Open
      <3>2. QED  BY <1>2, <2>2, <3>1 DEF CacheInv, ResumeAgrees
    <2>3. QED  BY <2>1, <2>2
  <1>5. rv' <= pos'
    BY <1>1, <1>2 DEF Open, NoRV
  <1>6. StreamAgrees'
    BY <1>3, <1>4, <1>5, SameVersions DEF StreamAgrees, Agrees
  <1>7. WithinCap' /\ rv' \in 0..LastWrite' /\ log' # << >>
    BY <1>2, <1>3 DEF CacheInv, WithinCap, CachedNames, LastWrite
  <1>8. QED
    BY <1>2, <1>6, <1>7 DEF CacheInv, ResumeAgrees

\* A relist moves the watch on; what it skips is unsynced from then on.
LEMMA RelistedStep ==
    ASSUME CacheInv, TypeOK', Relisted
    PROVE  CacheInv'
  <1>1. LastWrite \in Nat /\ LastWrite # 0
    BY DEF CacheInv, TypeOK, LastWrite
  <1>2. pc \in {"listing", "fallback"} /\ pc' = "opening" /\ rv' = LastWrite
    BY <1>1 DEF Relisted, ListReturns, RelistEnds, NoRV
  <1>3. UNCHANGED <<log, cache, truncated, snapshot>> /\ LastWrite' = LastWrite
    BY DEF Relisted, clusterVars, streamVars, storeVars, LastWrite
  <1>4. ASSUME NEW n \in Names \ unsynced'
        PROVE  Agrees(n, rv)'
    <2>1. cache[n] = VersionAt(n, LastWrite)
      BY <1>4 DEF Relisted
    <2>2. cache'[n] = VersionAt(n, LastWrite)'
      BY <1>3, <2>1 DEF VersionAt, LastWrite
    <2>3. rv' \in rv'..LastWrite'
      BY <1>1, <1>2, <1>3
    <2>4. rv' = LastWrite'
      BY <1>2, <1>3
    <2>5. QED  BY <2>2, <2>3, <2>4 DEF Agrees
  <1>5. WithinCap' /\ rv' \in 0..LastWrite' /\ log' # << >>
    BY <1>1, <1>2, <1>3 DEF CacheInv, WithinCap, CachedNames
  <1>6. snapshot' = {}
    BY <1>2, <1>3 DEF CacheInv, ResumeAgrees
  <1>7. QED
    BY <1>2, <1>4, <1>5, <1>6 DEF CacheInv, StreamAgrees, ResumeAgrees

\* A write of the cluster leaves what the cache held a state it had.
LEMMA WriteStep ==
    ASSUME CacheInv, TypeOK', NEW n \in Names, ClusterWrite(n)
    PROVE  CacheInv'
  <1>1. /\ log \in Seq(Writes) /\ LastWrite \in Nat
        /\ rv \in 0..LastWrite /\ pos \in 0..LastWrite
    BY DEF CacheInv, TypeOK, LastWrite
  <1>2. PICK w \in Writes : log' = Append(log, w)
    BY DEF ClusterWrite, Writes
  <1>3. /\ LastWrite' = LastWrite + 1 /\ log' # << >>
        /\ \A k \in 1..LastWrite : log'[k] = log[k]
    BY <1>1, <1>2 DEF LastWrite
  <1>4. UNCHANGED <<pc, rv, pos, snapshot, cache, truncated, unsynced>>
    BY DEF ClusterWrite, watcherVars, streamVars, storeVars
  <1>5. \A m : \A r \in 0..LastWrite : VersionAt(m, r)' = VersionAt(m, r)
    <2>1. SUFFICES ASSUME NEW m, NEW r \in 0..LastWrite
                   PROVE  VersionAt(m, r)' = VersionAt(m, r)
      OBVIOUS
    <2>2. r \in Nat /\ r <= LastWrite
      BY <1>1
    <2>3. QED  BY <1>1, <1>3, <2>2, VersionStays
  <1>6. \A m : \A p \in 0..LastWrite :
            Agrees(m, p) => \/ \E q \in p..LastWrite' : cache'[m] = VersionAt(m, q)'
                            \/ cache'[m] = Absent /\ truncated'
    <2>1. SUFFICES ASSUME NEW m, NEW p \in 0..LastWrite,
                          NEW q \in p..LastWrite, cache[m] = VersionAt(m, q)
                   PROVE  \E k \in p..LastWrite' : cache'[m] = VersionAt(m, k)'
      BY <1>4 DEF Agrees
    <2>2. q \in p..LastWrite' /\ q \in 0..LastWrite
      BY <1>1, <1>3
    <2>3. QED  BY <1>4, <1>5, <2>1, <2>2
  <1>7. StreamAgrees'
    BY <1>1, <1>4, <1>6 DEF CacheInv, StreamAgrees, Agrees
  <1>8. ResumeAgrees'
    BY <1>1, <1>4, <1>6 DEF CacheInv, ResumeAgrees, Agrees
  <1>9. WithinCap' /\ rv' \in 0..LastWrite'
    <2>1. rv \in 0..LastWrite + 1
      BY <1>1
    <2>2. QED  BY <1>3, <1>4, <2>1 DEF CacheInv, WithinCap, CachedNames
  <1>10. QED
    BY <1>3, <1>4, <1>7, <1>8, <1>9 DEF CacheInv

\* The list at start-up claims nothing before the first stream.
LEMMA ListStep ==
    ASSUME CacheInv, TypeOK', ListAtStartup
    PROVE  CacheInv'
  <1> DEFINE present == {n \in Names : Present(n)}
  <1>1. PICK S \in SUBSET present :
            /\ Cardinality(S) = Min2(Cap, Cardinality(present))
            /\ cache' = [n \in Names |-> IF n \in S THEN VersionAt(n, LastWrite) ELSE Absent]
    BY DEF ListAtStartup
  <1>2. pc = "new" /\ pc' = "new" /\ rv' = rv /\ log' = log /\ snapshot' = snapshot
    BY DEF ListAtStartup, watcherVars, clusterVars, streamVars
  <1>3. IsFiniteSet(present) /\ IsFiniteSet(S)
    BY <1>1, WatchedCacheAssumption, FS_Subset
  <1>4. Cardinality(S) <= Cap
    BY <1>1, <1>3, FS_CardinalityType, WatchedCacheAssumption DEF Min2
  <1>5. CachedNames' \subseteq S
    BY <1>1 DEF CachedNames
  <1>6. WithinCap'
    <2>1. Cardinality(CachedNames') <= Cardinality(S) /\ Cardinality(CachedNames') \in Nat /\ Cardinality(S) \in Nat
      BY <1>3, <1>5, FS_Subset, FS_CardinalityType
    <2>2. QED  BY <1>4, <2>1, WatchedCacheAssumption DEF WithinCap
  <1>7. QED
    BY <1>2, <1>6 DEF CacheInv, StreamAgrees, ResumeAgrees, NoRV, LastWrite

-----------------------------------------------------------------------------
(* Types.                                                                  *)
LEMMA RecoverTypes ==
    ASSUME WatcherTypeOK, NEW relist, NEW kept \in Nat, Recover(relist, kept)
    PROVE  pc' \in {"listing", "backoff"} /\ rv' \in Nat /\ throttled' \in BOOLEAN
  <1>1. throttled \in BOOLEAN /\ NoRV \in Nat
    BY DEF WatcherTypeOK, NoRV
  <1>2. CASE relist /\ ~ throttled
    BY <1>1, <1>2 DEF Recover
  <1>3. CASE ~ (relist /\ ~ throttled)
    BY <1>1, <1>3 DEF Recover
  <1>4. QED  BY <1>2, <1>3

\* A counter with a cap stays within it.
LEMMA OneMoreTypes ==
    ASSUME WatcherTypeOK
    PROVE  OneMoreFailure \in 0..MaxFailures + 1 /\ OneMoreBurst \in 0..BurstThreshold + 1
  <1>1. OneMoreFailure \in 0..MaxFailures + 1
    BY WatcherAssumption DEF WatcherTypeOK, OneMoreFailure, Min2
  <1>2. OneMoreBurst \in 0..BurstThreshold + 1
    BY WatcherAssumption DEF WatcherTypeOK, OneMoreBurst, Min2
  <1>3. QED  BY <1>1, <1>2

\* Each error branch of the loop keeps the watcher's types.
LEMMA ErrorTypes ==
    ASSUME WatcherTypeOK, Gone \/ TooManyRequests \/ ServerError \/ OtherFailure
    PROVE  WatcherTypeOK'
  <1>1. rv \in Nat /\ NoRV \in Nat /\ {"listing", "backoff"} \subseteq Places
    BY DEF WatcherTypeOK, NoRV, Places
  <1>2. CASE Gone
    <2>1. pc' \in {"listing", "backoff"} /\ rv' \in Nat /\ throttled' \in BOOLEAN
      BY <1>1, <1>2, RecoverTypes DEF Gone
    <2>2. QED  BY <1>1, <1>2, <2>1 DEF Gone, WatcherTypeOK
  <1>3. CASE TooManyRequests
    <2>1. pc' \in {"listing", "backoff"} /\ rv' \in Nat /\ throttled' \in BOOLEAN
      BY <1>1, <1>3, RecoverTypes DEF TooManyRequests
    <2>2. QED  BY <1>1, <1>3, <2>1, OneMoreTypes DEF TooManyRequests, WatcherTypeOK
  <1>4. CASE ServerError
    <2>1. pc' \in {"listing", "backoff"} /\ rv' \in Nat /\ throttled' \in BOOLEAN
      BY <1>1, <1>4, RecoverTypes DEF ServerError
    <2>2. QED  BY <1>1, <1>4, <2>1, OneMoreTypes DEF ServerError, WatcherTypeOK
  <1>5. CASE OtherFailure
    <2>1. pc' \in {"listing", "backoff"} /\ rv' \in Nat /\ throttled' \in BOOLEAN
      BY <1>1, <1>5, RecoverTypes DEF OtherFailure
    <2>2. QED  BY <1>1, <1>5, <2>1, OneMoreTypes DEF OtherFailure, WatcherTypeOK
  <1>6. QED  BY <1>2, <1>3, <1>4, <1>5

\* Every step of the watcher keeps its types.
LEMMA WatcherTypes ==
    ASSUME WatcherTypeOK, NEW newRV \in Nat,
           \/ StartWatcher \/ StopWatcher \/ StreamOpens \/ ReceiveEvent(newRV)
           \/ BackoffEnds \/ ListReturns(newRV) \/ ListFails \/ ListTimesOut
           \/ ThrottleLapses \/ BurstLapses \/ UNCHANGED watcherVars
    PROVE  WatcherTypeOK'
  <1> USE DEF WatcherTypeOK, Places
  <1>1. CASE StartWatcher \/ StopWatcher \/ StreamOpens \/ ListTimesOut
    BY <1>1 DEF StartWatcher, StopWatcher, StreamOpens, ListTimesOut
  <1>2. CASE ReceiveEvent(newRV)
    BY <1>2 DEF ReceiveEvent
  <1>3. CASE BackoffEnds
    BY <1>3, WatcherAssumption DEF BackoffEnds, Min2
  <1>4. CASE ListReturns(newRV) \/ ListFails
    <2>1. 1 \in 1..MaxBackoff /\ 0 \in 0..MaxFailures + 1
      BY WatcherAssumption
    <2>2. QED  BY <1>4, <2>1 DEF ListReturns, ListFails, RelistEnds
  <1>5. CASE ThrottleLapses
    BY <1>5 DEF ThrottleLapses
  <1>6. CASE BurstLapses
    BY <1>6, WatcherAssumption DEF BurstLapses
  <1>7. CASE UNCHANGED watcherVars
    BY <1>7 DEF watcherVars
  <1>8. QED  BY <1>1, <1>2, <1>3, <1>4, <1>5, <1>6, <1>7

\* With the log as it is, a step keeps the types if it keeps those of what
\* it changes.
LEMMA SameLogTypes ==
    ASSUME TypeOK, log' = log, WatcherTypeOK',
           compacted' \in 0..LastWrite, pos' \in 0..LastWrite,
           snapshot' \subseteq Names, unsynced' \subseteq Names,
           errors' \in 0..MaxErrors, listed' \in BOOLEAN, truncated' \in BOOLEAN,
           cache' \in [Names -> 0..LastWrite]
    PROVE  TypeOK'
  BY DEF TypeOK, LastWrite

\* update() and remove() keep the types of the cache.
LEMMA CacheTypes ==
    ASSUME TypeOK, NEW n \in Names, NEW version \in 0..LastWrite,
           Update(n, version) \/ Remove(n)
    PROVE  cache' \in [Names -> 0..LastWrite] /\ truncated' \in BOOLEAN
  <1>1. 0 \in 0..LastWrite /\ cache \in [Names -> 0..LastWrite] /\ truncated \in BOOLEAN
    <2>1. LastWrite \in Nat
      BY DEF TypeOK, LastWrite
    <2>2. QED  BY <2>1 DEF TypeOK
  <1>2. CASE Update(n, version)
    BY <1>1, <1>2 DEF Update
  <1>3. CASE Remove(n)
    BY <1>1, <1>3 DEF Remove, Absent
  <1>4. QED  BY <1>2, <1>3

\* Every step keeps the types.
LEMMA TypeStep ==
    ASSUME CacheInv, [Next]_vars
    PROVE  TypeOK'
  <1> USE DEF clusterVars, streamVars, storeVars
  <1>1. /\ TypeOK /\ WatcherTypeOK
        /\ log \in Seq(Writes) /\ LastWrite <= MaxWrites
        /\ compacted \in 0..LastWrite /\ pos \in 0..LastWrite
        /\ snapshot \subseteq Names /\ unsynced \subseteq Names
        /\ errors \in 0..MaxErrors
        /\ listed \in BOOLEAN /\ truncated \in BOOLEAN
        /\ cache \in [Names -> 0..LastWrite] /\ rv \in 0..LastWrite
    BY DEF CacheInv, TypeOK
  <1>2. LastWrite \in Nat /\ 0 \in 0..LastWrite /\ LastWrite \in 0..LastWrite
    <2>1. LastWrite \in Nat
      BY <1>1 DEF LastWrite
    <2>2. QED  BY <2>1
  <1>3. errors < MaxErrors /\ errors' = errors + 1 => errors' \in 0..MaxErrors
    BY <1>1, WatchedCacheAssumption
  <1>4. ASSUME NEW n \in Names, ClusterWrite(n)
        PROVE  TypeOK'
    <2>1. PICK w \in Writes : log' = Append(log, w)
      BY <1>4 DEF ClusterWrite, Writes
    <2>2. log' \in Seq(Writes) /\ LastWrite' = LastWrite + 1
      BY <1>1, <2>1 DEF LastWrite
    <2>3. LastWrite' <= MaxWrites
      BY <1>2, <1>4, <2>2, WatchedCacheAssumption DEF ClusterWrite
    <2>4. 0..LastWrite \subseteq 0..LastWrite'
      BY <1>2, <2>2
    <2>5. WatcherTypeOK'
      BY <1>1, <1>4, <1>2, WatcherTypes DEF ClusterWrite
    <2>6. cache' \in [Names -> 0..LastWrite']
      BY <1>1, <1>4, <2>4 DEF ClusterWrite
    <2>7. compacted' \in 0..LastWrite' /\ pos' \in 0..LastWrite'
      BY <1>1, <1>4, <2>4 DEF ClusterWrite
    <2>8. QED  BY <1>1, <1>4, <2>2, <2>3, <2>5, <2>6, <2>7 DEF ClusterWrite, TypeOK
  <1>5. CASE Compact
    <2>1. WatcherTypeOK'
      BY <1>1, <1>2, <1>5, WatcherTypes DEF Compact
    <2>2. QED  BY <1>1, <1>2, <1>5, <2>1, SameLogTypes DEF Compact
  <1>6. CASE ListAtStartup
    <2>1. WatcherTypeOK'
      BY <1>1, <1>2, <1>6, WatcherTypes DEF ListAtStartup
    <2>2. cache' \in [Names -> 0..LastWrite]
      <3>1. \A n : VersionAt(n, LastWrite) \in 0..LastWrite
        BY <1>2, VersionRange
      <3>2. PICK S : cache' = [n \in Names |-> IF n \in S THEN VersionAt(n, LastWrite) ELSE Absent]
        BY <1>6 DEF ListAtStartup
      <3>3. QED  BY <1>2, <3>1, <3>2 DEF Absent
    <2>3. truncated' \in BOOLEAN
      BY <1>6 DEF ListAtStartup
    <2>4. QED  BY <1>1, <1>6, <2>1, <2>2, <2>3, SameLogTypes DEF ListAtStartup
  <1>7. CASE ListAtStartupFails
    <2>1. WatcherTypeOK'
      BY <1>1, <1>2, <1>7, WatcherTypes DEF ListAtStartupFails
    <2>2. QED  BY <1>1, <1>3, <1>7, <2>1, SameLogTypes DEF ListAtStartupFails
  <1>8. CASE Start
    <2>1. WatcherTypeOK'
      BY <1>1, <1>2, <1>8, WatcherTypes DEF Start
    <2>2. QED  BY <1>1, <1>8, <2>1, SameLogTypes DEF Start
  <1>9. CASE Stop
    <2>1. WatcherTypeOK'
      BY <1>1, <1>2, <1>9, WatcherTypes DEF Stop
    <2>2. QED  BY <1>1, <1>3, <1>9, <2>1, SameLogTypes DEF Stop
  <1>10. CASE Open
    <2>1. WatcherTypeOK'
      BY <1>1, <1>2, <1>10, WatcherTypes DEF Open
    <2>2. pos' \in 0..LastWrite /\ snapshot' \subseteq Names /\ unsynced' \subseteq Names
      BY <1>1, <1>2, <1>10 DEF Open, CachedNames
    <2>3. QED  BY <1>1, <1>10, <2>1, <2>2, SameLogTypes DEF Open
  <1>11. CASE VersionGone
    <2>1. WatcherTypeOK'
      BY <1>1, <1>11, ErrorTypes DEF VersionGone
    <2>2. QED  BY <1>1, <1>11, <2>1, SameLogTypes DEF VersionGone
  <1>12. CASE Deliver
    <2>1. pos \in Nat /\ pos + 1 \in 0..LastWrite /\ pos + 1 \in 1..LastWrite
      BY <1>1, <1>2, <1>12 DEF Deliver
    <2>2. WatcherTypeOK'
      <3>1. ReceiveEvent(pos + 1) /\ pos + 1 \in Nat
        BY <1>12, <2>1 DEF Deliver
      <3>2. QED  BY <1>1, <3>1, WatcherTypes
    <2>3. log[pos + 1].name \in Names
      <3>1. log[pos + 1] \in Writes
        BY <1>1, <2>1 DEF LastWrite
      <3>2. QED  BY <3>1 DEF Writes
    <2>4. cache' \in [Names -> 0..LastWrite] /\ truncated' \in BOOLEAN
      <3>1. Update(log[pos + 1].name, pos + 1) \/ Remove(log[pos + 1].name)
        BY <1>12 DEF Deliver
      <3>2. QED  BY <1>1, <2>1, <2>3, <3>1, CacheTypes
    <2>5. QED  BY <1>1, <1>12, <2>1, <2>2, <2>4, SameLogTypes DEF Deliver
  <1>13. ASSUME NEW n \in Names, DeliverSnapshot(n)
         PROVE  TypeOK'
    <2>1. VersionAt(n, pos) \in 0..LastWrite /\ VersionAt(n, pos) \in Nat
      <3>1. pos \in Nat /\ \A k \in 0..pos : k \in 0..LastWrite /\ k \in Nat
        BY <1>1, <1>2
      <3>2. QED  BY <3>1, VersionRange
    <2>2. WatcherTypeOK'
      BY <1>1, <1>13, <2>1, WatcherTypes DEF DeliverSnapshot
    <2>3. cache' \in [Names -> 0..LastWrite] /\ truncated' \in BOOLEAN
      BY <1>1, <1>13, <2>1, CacheTypes DEF DeliverSnapshot
    <2>4. QED  BY <1>1, <1>13, <2>2, <2>3, SameLogTypes DEF DeliverSnapshot
  <1>14. CASE Bookmark
    <2>1. WatcherTypeOK'
      <3>1. ReceiveEvent(pos) /\ pos \in Nat
        BY <1>1, <1>14 DEF Bookmark
      <3>2. QED  BY <1>1, <3>1, WatcherTypes
    <2>2. QED  BY <1>1, <1>14, <2>1, SameLogTypes DEF Bookmark
  <1>15. CASE Break(TooManyRequests) \/ Break(ServerError) \/ Break(OtherFailure)
    <2>1. WatcherTypeOK'
      BY <1>1, <1>15, ErrorTypes DEF Break
    <2>2. QED  BY <1>1, <1>3, <1>15, <2>1, SameLogTypes DEF Break
  <1>16. CASE BackoffOver
    <2>1. WatcherTypeOK'
      BY <1>1, <1>2, <1>16, WatcherTypes DEF BackoffOver
    <2>2. QED  BY <1>1, <1>16, <2>1, SameLogTypes DEF BackoffOver
  <1>17. CASE Relisted
    <2>1. WatcherTypeOK'
      BY <1>1, <1>2, <1>17, WatcherTypes DEF Relisted
    <2>2. QED  BY <1>1, <1>17, <2>1, SameLogTypes DEF Relisted
  <1>18. CASE RelistGoesWrong
    <2>1. WatcherTypeOK'
      BY <1>1, <1>2, <1>18, WatcherTypes DEF RelistGoesWrong, RelistError
    <2>2. QED  BY <1>1, <1>3, <1>18, <2>1, SameLogTypes DEF RelistGoesWrong
  <1>19. CASE Time
    <2>1. WatcherTypeOK'
      BY <1>1, <1>2, <1>19, WatcherTypes DEF Time, TimePasses
    <2>2. QED  BY <1>1, <1>19, <2>1, SameLogTypes DEF Time
  <1>20. CASE UNCHANGED vars
    <2>1. WatcherTypeOK' /\ log' = log
      BY <1>1, <1>2, <1>20, WatcherTypes DEF vars, watcherVars
    <2>2. QED  BY <1>1, <1>20, <2>1, SameLogTypes DEF vars
  <1>21. QED
    BY <1>4, <1>5, <1>6, <1>7, <1>8, <1>9, <1>10, <1>11, <1>12, <1>13, <1>14, <1>15,
       <1>16, <1>17, <1>18, <1>19, <1>20
       DEF Next, Cluster, Delivery, Failing

-----------------------------------------------------------------------------
\* Stopping or losing the stream keeps the agreement.
LEMMA StopOrBreakStep ==
    ASSUME CacheInv, TypeOK',
           pc' \notin {"streaming", "new"}, rv' \in {rv, NoRV}, snapshot' = {},
           unsynced' = unsynced \cup {n \in snapshot : cache[n] # VersionAt(n, pos)},
           UNCHANGED <<log, pos, cache, truncated>>
    PROVE  CacheInv'
  <1>1. CASE pc = "streaming"
    BY <1>1, BreakStep
  <1>2. CASE pc # "streaming"
    <2>1. snapshot = {}
      BY <1>2 DEF CacheInv, ResumeAgrees
    <2>2. unsynced' = unsynced
      BY <2>1
    <2>3. QED  BY <1>2, <2>1, <2>2, LoopStep DEF dataVars
  <1>3. QED  BY <1>1, <1>2

\* Every step of cluster, server, watcher and cache preserves the invariant.
LEMMA CacheInvStep == CacheInv /\ [Next]_vars => CacheInv'
  <1> SUFFICES ASSUME CacheInv, [Next]_vars PROVE CacheInv'
    OBVIOUS
  <1> USE DEF clusterVars, streamVars, storeVars, watcherVars
  <1>1. TypeOK'
    BY TypeStep
  <1>2. CASE Compact \/ ListAtStartupFails \/ Time \/ UNCHANGED vars
    <2>1. pc' = pc /\ rv' = rv /\ UNCHANGED dataVars
      BY <1>2 DEF Compact, ListAtStartupFails, Time, TimePasses, ThrottleLapses, BurstLapses,
                  vars, dataVars
    <2>2. QED  BY <1>1, <2>1, LoopStep
  <1>3. CASE Start \/ VersionGone \/ BackoffOver \/ RelistGoesWrong
    <2>1. /\ pc # "streaming" /\ pc' \notin {"streaming", "new"}
          /\ rv' \in {rv, NoRV} /\ UNCHANGED dataVars
      BY <1>3 DEF Start, StartWatcher, VersionGone, Gone, Recover, BackoffOver, BackoffEnds,
                  RelistGoesWrong, RelistError, ListFails, ListTimesOut, RelistEnds, dataVars
    <2>2. QED  BY <1>1, <2>1, LoopStep
  <1>4. CASE Bookmark
    <2>1. /\ pc = "streaming" /\ pc' = "streaming"
          /\ rv' \in {rv, pos} /\ UNCHANGED dataVars
      BY <1>4 DEF Bookmark, ReceiveEvent, dataVars
    <2>2. QED  BY <1>1, <2>1, LoopStep
  <1>5. CASE Stop
    BY <1>1, <1>5, StopOrBreakStep DEF Stop, StopWatcher
  <1>6. CASE Break(TooManyRequests) \/ Break(ServerError) \/ Break(OtherFailure)
    <2>1. pc' \notin {"streaming", "new"} /\ rv' \in {rv, NoRV}
      BY <1>6 DEF Break, TooManyRequests, ServerError, OtherFailure, Recover
    <2>2. QED  BY <1>1, <1>6, <2>1, StopOrBreakStep DEF Break
  <1>7. QED
    BY <1>1, <1>2, <1>3, <1>4, <1>5, <1>6, OpenStep, RelistedStep, WriteStep, ListStep,
       DeliverStep, DeliverSnapshotStep
       DEF Next, Cluster, Delivery, Failing

\* So it holds in every reachable state.
THEOREM CacheInvariant == Spec => []CacheInv
  BY CacheInitInv, CacheInvStep, PTL DEF Spec

-----------------------------------------------------------------------------
(* The watcher and the cache of a kind keep their types.                   *)
THEOREM TypeCorrect == Spec => []TypeOK
  <1>1. CacheInv => TypeOK
    BY DEF CacheInv
  <1>2. QED  BY <1>1, CacheInvariant, PTL

(* However lists, watch events and deletions mix, the cap holds.           *)
THEOREM CapHolds == Spec => []WithinCap
  <1>1. CacheInv => WithinCap
    BY DEF CacheInv
  <1>2. QED  BY <1>1, CacheInvariant, PTL

(* A watcher at the end of its stream has a cache that agrees with the     *)
(* cluster, but for what no stream was going to tell and the cap.          *)
THEOREM CaughtUpMeansAgreed == Spec => []CaughtUpAgrees
  <1>1. CacheInv => CaughtUpAgrees
    <2>1. SUFFICES ASSUME CacheInv, CaughtUp, NEW n \in Names \ unsynced
                   PROVE  \/ cache[n] = VersionAt(n, LastWrite)
                          \/ cache[n] = Absent /\ truncated
      BY DEF CaughtUpAgrees
    <2>2. Agrees(n, LastWrite)
      BY <2>1 DEF CaughtUp, CacheInv, StreamAgrees
    <2>3. \A q \in LastWrite..LastWrite : q = LastWrite
      <3>1. LastWrite \in Nat
        BY <2>1 DEF CacheInv, TypeOK, LastWrite
      <3>2. QED  BY <3>1
    <2>4. QED  BY <2>2, <2>3 DEF Agrees
  <1>2. QED  BY <1>1, CacheInvariant, PTL
=============================================================================
