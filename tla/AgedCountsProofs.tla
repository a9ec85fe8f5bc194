-------------------------- MODULE AgedCountsProofs --------------------------
(***************************************************************************)
(* What the total of a rolling window is, for windows of any width: the    *)
(* facts the bounds on the request rate (WorkQueueProofs) and the miss     *)
(* rate of the cache (CacheReadinessProofs) rest on.                       *)
(*                                                                         *)
(* Total is a fold, that is, a recursive function on sets.  The induction  *)
(* it takes is stated for a set of numbers (NatSetInduction) and follows   *)
(* from the well-foundedness of < on Nat.                                  *)
(***************************************************************************)
EXTENDS AgedCounts, Integers, FiniteSetTheorems, WellFoundedInduction, TLAPS

\* A set of numbers that holds 0 and each successor holds every number.
LEMMA NatSetInduction ==
    ASSUME NEW S \in SUBSET Nat, 0 \in S, \A n \in S : n + 1 \in S
    PROVE  S = Nat
  <1>1. SUFFICES ASSUME Nat \ S # {} PROVE FALSE
    OBVIOUS
  <1>2. PICK m \in Nat \ S : \A y \in Nat \ S : ~ (y < m)
    <2>1. PICK m \in Nat \ S : \A y \in Nat \ S : ~ (<<y, m>> \in OpToRel(<, Nat))
      BY <1>1, NatLessThanWellFounded, WFMin
    <2>2. \A y \in Nat \ S : ~ (y < m)
      BY <2>1 DEF OpToRel
    <2>3. QED  BY <2>1, <2>2, Zenon
  <1>3. m \in Nat /\ m # 0
    BY <1>2
  <1>4. m - 1 \in Nat /\ m - 1 < m /\ (m - 1) + 1 = m
    BY <1>3
  <1>5. m - 1 \in S
    BY <1>2, <1>4
  <1>6. QED  BY <1>2, <1>4, <1>5

-----------------------------------------------------------------------------
(* The fold that Total is, one element at a time.                          *)
Any(s) == CHOOSE x \in s : TRUE
Equation(g, f, D) ==
    g = [s \in SUBSET D |-> IF s = {} THEN 0 ELSE f[Any(s)] + g[s \ {Any(s)}]]
Sums(f, D) == CHOOSE g : Equation(g, f, D)

\* Total is the last of the sums.
LEMMA TotalIsSum ==
    ASSUME NEW f
    PROVE  Total(f) = Sums(f, DOMAIN f)[DOMAIN f]
  BY DEF Total, FoldFunction, FoldFunctionOnSet, MapThenFoldSet, Sums, Equation, Any

\* A function on finite sets may be defined by such an equation.
LEMMA SumsExist ==
    ASSUME NEW D, IsFiniteSet(D), NEW f \in [D -> Nat]
    PROVE  \E g \in [SUBSET D -> Nat] : Equation(g, f, D)
  <1> DEFINE Small(n) == {s \in SUBSET D : Cardinality(s) <= n}
             Defined(g, n) ==
                \A s \in Small(n) :
                    g[s] = IF s = {} THEN 0 ELSE f[Any(s)] + g[s \ {Any(s)}]
             P(n) == \E g \in [Small(n) -> Nat] : Defined(g, n)
             S == {n \in Nat : P(n)}
  <1>0. \A s \in SUBSET D : /\ IsFiniteSet(s) /\ Cardinality(s) \in Nat
                            /\ Cardinality(s) <= Cardinality(D)
                            /\ s = {} <=> Cardinality(s) = 0
    BY FS_Subset, FS_CardinalityType, FS_EmptySet
  <1>1. \A s \in SUBSET D : s # {} =>
            /\ Any(s) \in s /\ s \ {Any(s)} \in SUBSET D
            /\ Cardinality(s \ {Any(s)}) = Cardinality(s) - 1
    BY <1>0, FS_RemoveElement DEF Any
  <1>2. P(0)
    <2> DEFINE g == [s \in Small(0) |-> 0]
    <2>1. \A s \in Small(0) : s = {}
      BY <1>0
    <2>2. g \in [Small(0) -> Nat] /\ Defined(g, 0)
      BY <2>1
    <2>3. QED  BY <2>2
  <1>3. ASSUME NEW n \in Nat, P(n) PROVE P(n + 1)
    <2>1. PICK g \in [Small(n) -> Nat] : Defined(g, n)
      BY <1>3
    <2> DEFINE h == [s \in Small(n + 1) |->
                        IF s = {} THEN 0 ELSE f[Any(s)] + g[s \ {Any(s)}]]
    <2>2. \A s \in Small(n + 1) : s # {} => s \ {Any(s)} \in Small(n)
      BY <1>0, <1>1, <1>3
    <2>3. h \in [Small(n + 1) -> Nat]
      <3>1. \A s \in Small(n + 1) : s # {} => f[Any(s)] \in Nat /\ g[s \ {Any(s)}] \in Nat
        BY <1>1, <2>1, <2>2
      <3>2. QED  BY <3>1
    <2>4. \A s \in Small(n) : s \in Small(n + 1) /\ h[s] = g[s]
      BY <1>0, <1>3, <2>1
    <2>5. Defined(h, n + 1)
      <3>1. ASSUME NEW s \in Small(n + 1)
            PROVE  h[s] = IF s = {} THEN 0 ELSE f[Any(s)] + h[s \ {Any(s)}]
        BY <2>2, <2>4
      <3>2. QED  BY <3>1
    <2>6. QED  BY <2>3, <2>5
  <1> HIDE DEF P
  <1>4. S = Nat
    <2>1. S \in SUBSET Nat
      OBVIOUS
    <2>2. 0 \in S
      BY <1>2
    <2>3. \A n \in S : n + 1 \in S
      BY <1>3
    <2> HIDE DEF S
    <2>4. QED  BY <2>1, <2>2, <2>3, NatSetInduction
  <1>5. Cardinality(D) \in Nat /\ P(Cardinality(D))
    BY <1>4, FS_CardinalityType
  <1>6. PICK g \in [Small(Cardinality(D)) -> Nat] : Defined(g, Cardinality(D))
    BY <1>5 DEF P
  <1>7. Small(Cardinality(D)) = SUBSET D
    BY <1>0
  <1>8. g \in [SUBSET D -> Nat]
    BY <1>6, <1>7
  <1>9. Equation(g, f, D)
    <2>1. \A s \in SUBSET D :
             g[s] = IF s = {} THEN 0 ELSE f[Any(s)] + g[s \ {Any(s)}]
      BY <1>6, <1>7
    <2>2. g = [s \in SUBSET D |-> g[s]]
      BY <1>8
    <2>3. QED  BY <2>1, <2>2 DEF Equation
  <1>10. QED  BY <1>8, <1>9

\* The sums are numbers and satisfy their equation.
LEMMA SumsDefined ==
    ASSUME NEW D, IsFiniteSet(D), NEW f \in [D -> Nat]
    PROVE  /\ Sums(f, D) \in [SUBSET D -> Nat]
           /\ Sums(f, D)[{}] = 0
           /\ \A s \in SUBSET D : s # {} =>
                 /\ Any(s) \in s
                 /\ Sums(f, D)[s] = f[Any(s)] + Sums(f, D)[s \ {Any(s)}]
  <1> DEFINE g == Sums(f, D)
  <1>1. Equation(g, f, D)
    BY SumsExist DEF Sums
  <1>2. g = [s \in SUBSET D |-> IF s = {} THEN 0 ELSE f[Any(s)] + g[s \ {Any(s)}]]
    BY <1>1 DEF Equation
  <1> HIDE DEF g
  <1>3. \A s \in SUBSET D :
            g[s] = IF s = {} THEN 0 ELSE f[Any(s)] + g[s \ {Any(s)}]
    BY <1>2
  <1>4. \A s \in SUBSET D : s # {} => Any(s) \in s
    BY DEF Any
  <1> DEFINE P(n) == \A s \in SUBSET D : Cardinality(s) <= n => g[s] \in Nat
             S == {n \in Nat : P(n)}
  <1>5. \A s \in SUBSET D : IsFiniteSet(s) /\ Cardinality(s) \in Nat
                            /\ (s = {} <=> Cardinality(s) = 0)
    BY FS_Subset, FS_CardinalityType, FS_EmptySet
  <1>6. P(0)
    BY <1>3, <1>5
  <1>7. ASSUME NEW n \in Nat, P(n) PROVE P(n + 1)
    <2>0. SUFFICES ASSUME NEW s \in SUBSET D, Cardinality(s) <= n + 1
                   PROVE  g[s] \in Nat
      OBVIOUS
    <2>1. CASE s = {}
      <3>1. g[s] = 0
        BY <1>3, <2>1, Zenon
      <3>2. QED  BY <3>1
    <2> SUFFICES ASSUME s # {} PROVE g[s] \in Nat
      BY <2>1
    <2>2. Cardinality(s \ {Any(s)}) = Cardinality(s) - 1
      BY <1>4, <1>5, FS_RemoveElement
    <2>3. g[s \ {Any(s)}] \in Nat
      BY <1>5, <1>7, <2>0, <2>2
    <2>4. f[Any(s)] \in Nat
      BY <1>4
    <2>5. g[s] = f[Any(s)] + g[s \ {Any(s)}]
      BY <1>3
    <2>6. QED  BY <2>3, <2>4, <2>5
  <1> HIDE DEF P
  <1>8. S = Nat
    <2>1. S \in SUBSET Nat
      OBVIOUS
    <2>2. 0 \in S
      BY <1>6
    <2>3. \A n \in S : n + 1 \in S
      BY <1>7
    <2> HIDE DEF S
    <2>4. QED  BY <2>1, <2>2, <2>3, NatSetInduction
  <1>9. \A s \in SUBSET D : g[s] \in Nat
    BY <1>5, <1>8 DEF P
  <1>10. g \in [SUBSET D -> Nat]
    BY <1>2, <1>9
  <1>11. QED  BY <1>3, <1>4, <1>10 DEF g

\* It does not matter which element is added last.
LEMMA SumOfAny ==
    ASSUME NEW D, IsFiniteSet(D), NEW f \in [D -> Nat],
           NEW s \in SUBSET D, NEW x \in s
    PROVE  Sums(f, D)[s] = f[x] + Sums(f, D)[s \ {x}]
  <1> DEFINE g == Sums(f, D)
  <1>1. /\ g \in [SUBSET D -> Nat]
        /\ \A t \in SUBSET D : t # {} =>
              Any(t) \in t /\ g[t] = f[Any(t)] + g[t \ {Any(t)}]
    BY SumsDefined
  <1> HIDE DEF g
  <1> DEFINE P(n) == \A t \in SUBSET D : Cardinality(t) <= n =>
                        \A y \in t : g[t] = f[y] + g[t \ {y}]
             S == {n \in Nat : P(n)}
  <1>2. \A t \in SUBSET D : IsFiniteSet(t) /\ Cardinality(t) \in Nat
                            /\ (t = {} <=> Cardinality(t) = 0)
    BY FS_Subset, FS_CardinalityType, FS_EmptySet
  <1>3. P(0)
    BY <1>2
  <1>4. ASSUME NEW n \in Nat, P(n) PROVE P(n + 1)
    <2>1. SUFFICES ASSUME NEW t \in SUBSET D, Cardinality(t) <= n + 1, NEW y \in t
                   PROVE  g[t] = f[y] + g[t \ {y}]
      OBVIOUS
    <2>2. PICK a \in t : a = Any(t) /\ g[t] = f[a] + g[t \ {a}]
      BY <1>1, <2>1
    <2>3. CASE a = y
      BY <2>2, <2>3
    <2>4. CASE a # y
      <3>1. /\ Cardinality(t \ {a}) <= n /\ Cardinality(t \ {y}) <= n
            /\ t \ {a} \in SUBSET D /\ t \ {y} \in SUBSET D
        <4>1. Cardinality(t \ {a}) = Cardinality(t) - 1
          BY <1>2, <2>1, <2>2, FS_RemoveElement
        <4>2. Cardinality(t \ {y}) = Cardinality(t) - 1
          BY <1>2, <2>1, FS_RemoveElement
        <4>3. QED  BY <1>2, <2>1, <4>1, <4>2
      <3> DEFINE rest == t \ {a, y}
      <3>2. (t \ {a}) \ {y} = rest /\ (t \ {y}) \ {a} = rest /\ rest \in SUBSET D
        OBVIOUS
      <3>3. g[t \ {a}] = f[y] + g[rest]
        BY <1>4, <2>1, <2>4, <3>1, <3>2
      <3>4. g[t \ {y}] = f[a] + g[rest]
        BY <1>4, <2>2, <2>4, <3>1, <3>2
      <3>5. f[a] \in Nat /\ f[y] \in Nat /\ g[rest] \in Nat
        BY <1>1, <2>1, <2>2, <3>2
      <3> HIDE DEF rest
      <3>6. QED  BY <2>2, <3>3, <3>4, <3>5
    <2>5. QED  BY <2>3, <2>4
  <1> HIDE DEF P
  <1>5. S = Nat
    <2>1. S \in SUBSET Nat
      OBVIOUS
    <2>2. 0 \in S
      BY <1>3
    <2>3. \A n \in S : n + 1 \in S
      BY <1>4
    <2> HIDE DEF S
    <2>4. QED  BY <2>1, <2>2, <2>3, NatSetInduction
  <1>6. P(Cardinality(s))
    BY <1>2, <1>5
  <1>7. QED  BY <1>2, <1>6 DEF P, g

-----------------------------------------------------------------------------
(* A window of w + 1 ages, summed age by age.                              *)
Steps(c, log, w) ==
    /\ c[0] = log[0]
    /\ \A n \in 1..w : c[n] = c[n - 1] + log[n]

\* The total is the last of the running sums.
LEMMA TotalBySteps ==
    ASSUME NEW w \in Nat, NEW log \in [0..w -> Nat]
    PROVE  \E c \in [0..w -> Nat] : Steps(c, log, w) /\ Total(log) = c[w]
  <1> DEFINE g == Sums(log, 0..w)
             c == [n \in 0..w |-> g[0..n]]
  <1>1. IsFiniteSet(0..w)
    BY FS_Interval
  <1>2. g \in [SUBSET (0..w) -> Nat] /\ g[{}] = 0
    BY <1>1, SumsDefined
  <1>3. \A s \in SUBSET (0..w) : \A x \in s : g[s] = log[x] + g[s \ {x}]
    BY <1>1, SumOfAny
  <1> HIDE DEF g
  <1>4. \A n \in 0..w : 0..n \in SUBSET (0..w) /\ n \in 0..n
    OBVIOUS
  <1>5. c \in [0..w -> Nat]
    BY <1>2, <1>4
  <1>6. c[0] = log[0]
    <2>1. 0 \in 0..w /\ (0..0) \ {0} = {}
      OBVIOUS
    <2>2. g[0..0] = log[0] + g[(0..0) \ {0}]
      BY <1>3, <1>4, <2>1, Zenon
    <2>3. g[0..0] = log[0] + 0
      BY <1>2, <2>1, <2>2, Zenon
    <2>4. log[0] \in Nat /\ c[0] = g[0..0]
      BY <2>1
    <2>5. \A k \in Nat : k + 0 = k
      OBVIOUS
    <2> HIDE DEF c
    <2>6. QED  BY <2>3, <2>4, <2>5, Zenon
  <1>7. ASSUME NEW n \in 1..w PROVE c[n] = c[n - 1] + log[n]
    <2>1. n \in 0..w /\ n - 1 \in 0..w /\ (0..n) \ {n} = 0..(n - 1)
      OBVIOUS
    <2>2. g[0..n] = log[n] + g[(0..n) \ {n}]
      BY <1>3, <1>4, <2>1
    <2>3. c[n] = g[0..n] /\ c[n - 1] = g[0..(n - 1)]
      BY <2>1
    <2>4. log[n] \in Nat /\ c[n - 1] \in Nat
      BY <1>5, <2>1
    <2>5. \A k, m \in Nat : k + m = m + k
      OBVIOUS
    <2> HIDE DEF c
    <2>6. c[n] = log[n] + c[n - 1]
      BY <2>1, <2>2, <2>3, Zenon
    <2>7. QED  BY <2>4, <2>5, <2>6, Zenon
  <1>8. Total(log) = c[w]
    <2>1. DOMAIN log = 0..w /\ w \in 0..w
      OBVIOUS
    <2>2. Total(log) = g[0..w]
      BY <2>1, TotalIsSum DEF g
    <2>3. QED  BY <2>1, <2>2
  <1> HIDE DEF c
  <1>9. QED  BY <1>5, <1>6, <1>7, <1>8 DEF Steps

\* Running sums of the same events, the one begun one higher, end so.
LEMMA StepsOfOneMore ==
    ASSUME NEW w \in Nat, NEW b \in [0..w -> Nat], NEW c \in [0..w -> Nat],
           NEW log \in [0..w -> Nat], b[0] = c[0] + 1,
           \A n \in 1..w : b[n] = b[n - 1] + log[n] /\ c[n] = c[n - 1] + log[n]
    PROVE  b[w] = c[w] + 1
  <1> DEFINE S == {n \in Nat : n \in 0..w => b[n] = c[n] + 1}
  <1>1. S \in SUBSET Nat
    OBVIOUS
  <1>2. 0 \in S
    OBVIOUS
  <1>3. ASSUME NEW n \in S PROVE n + 1 \in S
    <2>1. n \in Nat /\ n + 1 \in Nat
      OBVIOUS
    <2>2. ASSUME n + 1 \in 0..w PROVE b[n + 1] = c[n + 1] + 1
      <3>1. n \in 0..w /\ n + 1 \in 1..w /\ (n + 1) - 1 = n
        BY <2>1, <2>2
      <3>2. b[n] = c[n] + 1
        BY <3>1
      <3>3. b[n + 1] = b[n] + log[n + 1] /\ c[n + 1] = c[n] + log[n + 1]
        BY <3>1
      <3>4. b[n] \in Nat /\ c[n] \in Nat /\ log[n + 1] \in Nat
        BY <2>2, <3>1
      <3>5. QED  BY <3>2, <3>3, <3>4
    <2>3. QED  BY <2>1, <2>2
  <1> HIDE DEF S
  <1>4. S = Nat
    BY <1>1, <1>2, <1>3, NatSetInduction
  <1>5. w \in S /\ w \in 0..w
    BY <1>4
  <1>6. QED  BY <1>5 DEF S

\* A recorded event raises the total by one.
LEMMA TotalOfRecord ==
    ASSUME NEW w \in Nat, NEW log \in [0..w -> Nat]
    PROVE  Record(log) \in [0..w -> Nat] /\ Total(Record(log)) = Total(log) + 1
  <1> DEFINE more == Record(log)
  <1>1. /\ more \in [0..w -> Nat] /\ more[0] = log[0] + 1
        /\ \A n \in 1..w : more[n] = log[n]
    BY DEF Record
  <1> HIDE DEF more
  <1>2. PICK c \in [0..w -> Nat] : Steps(c, log, w) /\ Total(log) = c[w]
    BY TotalBySteps
  <1>3. PICK b \in [0..w -> Nat] : Steps(b, more, w) /\ Total(more) = b[w]
    BY <1>1, TotalBySteps
  <1>4. b[0] = c[0] + 1
    BY <1>1, <1>2, <1>3 DEF Steps
  <1>5. \A n \in 1..w : b[n] = b[n - 1] + log[n] /\ c[n] = c[n - 1] + log[n]
    BY <1>1, <1>2, <1>3 DEF Steps
  <1>6. b[w] = c[w] + 1
    BY <1>4, <1>5, StepsOfOneMore
  <1>7. QED  BY <1>1, <1>2, <1>3, <1>6 DEF more

\* A tick never raises the total: what is oldest leaves the window.
LEMMA TotalOfAged ==
    ASSUME NEW w \in Nat, NEW log \in [0..w -> Nat]
    PROVE  Aged(log) \in [0..w -> Nat] /\ Total(Aged(log)) = Total(log) - log[w]
  <1> DEFINE aged == Aged(log)
  <1>1. /\ aged \in [0..w -> Nat] /\ aged[0] = 0
        /\ \A n \in 1..w : aged[n] = log[n - 1]
    <2>1. \A n \in 1..w : n \in 0..w /\ n - 1 \in 0..w /\ n # 0
      OBVIOUS
    <2>2. \A n \in 0..w : n = 0 \/ n \in 1..w
      OBVIOUS
    <2>3. aged = [n \in 0..w |-> IF n = 0 THEN 0 ELSE log[n - 1]]
      BY DEF Aged
    <2>4. \A n \in 1..w : log[n - 1] \in Nat
      BY <2>1
    <2> HIDE DEF aged
    <2>5. QED  BY <2>1, <2>2, <2>3, <2>4
  <1> HIDE DEF aged
  <1>2. PICK c \in [0..w -> Nat] : Steps(c, log, w) /\ Total(log) = c[w]
    BY TotalBySteps
  <1>3. PICK b \in [0..w -> Nat] : Steps(b, aged, w) /\ Total(aged) = b[w]
    BY <1>1, TotalBySteps
  <1> DEFINE S == {n \in Nat : n \in 0..w => b[n] = c[n] - log[n]}
  <1>4. S \in SUBSET Nat
    OBVIOUS
  <1>5. 0 \in S
    <2>1. 0 \in 0..w /\ b[0] = 0 /\ c[0] = log[0] /\ log[0] \in Nat
      BY <1>1, <1>2, <1>3 DEF Steps
    <2>2. QED  BY <2>1
  <1>6. ASSUME NEW n \in S PROVE n + 1 \in S
    <2>1. n \in Nat /\ n + 1 \in Nat
      OBVIOUS
    <2>2. ASSUME n + 1 \in 0..w PROVE b[n + 1] = c[n + 1] - log[n + 1]
      <3>1. n \in 0..w /\ n + 1 \in 1..w /\ (n + 1) - 1 = n
        BY <2>1, <2>2
      <3>2. b[n] = c[n] - log[n]
        BY <3>1
      <3>3. b[n + 1] = b[n] + log[n] /\ c[n + 1] = c[n] + log[n + 1]
        BY <1>1, <1>2, <1>3, <3>1 DEF Steps
      <3>4. b[n] \in Nat /\ c[n] \in Nat /\ log[n] \in Nat /\ log[n + 1] \in Nat
        BY <2>2, <3>1
      <3>5. QED  BY <3>2, <3>3, <3>4
    <2>3. QED  BY <2>1, <2>2
  <1> HIDE DEF S
  <1>7. S = Nat
    BY <1>4, <1>5, <1>6, NatSetInduction
  <1>8. w \in S /\ w \in 0..w
    BY <1>7
  <1>9. b[w] = c[w] - log[w]
    BY <1>8 DEF S
  <1>10. QED  BY <1>1, <1>2, <1>3, <1>9 DEF aged

\* Totals are numbers.
LEMMA TotalType ==
    ASSUME NEW w \in Nat, NEW log \in [0..w -> Nat]
    PROVE  Total(log) \in Nat
  <1>1. PICK c \in [0..w -> Nat] : Steps(c, log, w) /\ Total(log) = c[w]
    BY TotalBySteps
  <1>2. w \in 0..w
    OBVIOUS
  <1>3. QED  BY <1>1, <1>2

\* An empty window holds nothing.
LEMMA TotalOfEmpty ==
    ASSUME NEW w \in Nat
    PROVE  Empty(w) \in [0..w -> Nat] /\ Total(Empty(w)) = 0
  <1> DEFINE log == Empty(w)
  <1>1. log \in [0..w -> Nat] /\ \A n \in 0..w : log[n] = 0
    BY DEF Empty
  <1> HIDE DEF log
  <1>2. PICK c \in [0..w -> Nat] : Steps(c, log, w) /\ Total(log) = c[w]
    BY <1>1, TotalBySteps
  <1> DEFINE S == {n \in Nat : n \in 0..w => c[n] = 0}
  <1>3. S \in SUBSET Nat
    OBVIOUS
  <1>4. 0 \in S
    BY <1>1, <1>2 DEF Steps
  <1>5. ASSUME NEW n \in S PROVE n + 1 \in S
    <2>1. n \in Nat /\ n + 1 \in Nat
      OBVIOUS
    <2>2. ASSUME n + 1 \in 0..w PROVE c[n + 1] = 0
      <3>1. n \in 0..w /\ n + 1 \in 1..w /\ (n + 1) - 1 = n
        BY <2>1, <2>2
      <3>2. c[n + 1] = c[n] + log[n + 1]
        BY <1>2, <3>1 DEF Steps
      <3>3. c[n] = 0 /\ log[n + 1] = 0
        BY <1>1, <2>2, <3>1
      <3>4. QED  BY <3>2, <3>3
    <2>3. QED  BY <2>1, <2>2
  <1> HIDE DEF S
  <1>6. S = Nat
    BY <1>3, <1>4, <1>5, NatSetInduction
  <1>7. w \in S /\ w \in 0..w
    BY <1>6
  <1>8. c[w] = 0
    BY <1>7 DEF S
  <1>9. QED  BY <1>1, <1>2, <1>8 DEF log
=============================================================================
