------------------------ MODULE DependencyGraphProofs ------------------------
(***************************************************************************)
(* The dependency graph, for any pods, nodes and other resources, and any  *)
(* number of changes and relists: the two adjacency lists agree, and the   *)
(* blast radius is what the cluster says once everything was told.         *)
(***************************************************************************)
EXTENDS DependencyGraph, FiniteSetTheorems, TLAPS

Counts == INSTANCE AgedCountsProofs  \* for its induction on numbers

\* What the steps need to know: the lists, and the events on their way.
ListsTyped ==
    /\ nodes \subseteq Keys
    /\ forward \in [Keys -> SUBSET Keys]
    /\ reverse \in [Keys -> SUBSET Keys]
EventsTyped ==
    /\ inbox \in [{"Pod", "Node"} -> Seq(Event)]
    /\ needs \in [Pods -> SUBSET (NodeNames \cup Others)]
    /\ alive \subseteq Watched
GraphInv == ListsTyped /\ EventsTyped /\ AdjacencyAgrees

-----------------------------------------------------------------------------
(* The two operations, on any lists that agree.                            *)
LEMMA AddAgrees ==
    ASSUME ListsTyped, AdjacencyAgrees,
           NEW k \in Keys, NEW targets \in SUBSET Keys, AddResource(k, targets)
    PROVE  ListsTyped' /\ AdjacencyAgrees'
  <1>1. /\ nodes' = nodes \cup {k} \cup targets
        /\ nodes' \subseteq Keys
    BY DEF AddResource, ListsTyped
  <1>2. forward' \in [Keys -> SUBSET Keys]
    BY DEF AddResource, ListsTyped
  <1>3. reverse' \in [Keys -> SUBSET Keys]
    <2>1. reverse' = [t \in Keys |->
                        IF t \in targets THEN reverse[t] \cup {k}
                        ELSE IF t \in forward[k] THEN reverse[t] \ {k}
                        ELSE reverse[t]]
      BY DEF AddResource
    <2>2. \A t \in Keys : reverse[t] \subseteq Keys
      BY DEF ListsTyped
    <2>3. QED  BY <2>1, <2>2
  <1>4. AdjacencyAgrees'
    <2>1. SUFFICES ASSUME NEW s \in Keys, NEW t \in Keys
                   PROVE  /\ (t \in forward'[s]) <=> (s \in reverse'[t])
                          /\ t \in forward'[s] => s \in nodes' /\ t \in nodes'
      BY DEF AdjacencyAgrees
    <2>2. /\ (t \in forward[s]) <=> (s \in reverse[t])
          /\ t \in forward[s] => s \in nodes /\ t \in nodes
      BY DEF AdjacencyAgrees
    <2>3. forward'[s] = IF s = k THEN targets ELSE forward[s]
      BY DEF AddResource, ListsTyped
    <2>4. reverse'[t] = IF t \in targets THEN reverse[t] \cup {k}
                        ELSE IF t \in forward[k] THEN reverse[t] \ {k}
                        ELSE reverse[t]
      BY DEF AddResource
    <2>5. (t \in forward[k]) <=> (k \in reverse[t])
      BY DEF AdjacencyAgrees
    <2>6. QED  BY <1>1, <2>2, <2>3, <2>4, <2>5
  <1>5. QED  BY <1>1, <1>2, <1>3, <1>4 DEF ListsTyped

\* remove_resource() takes an edge out of both lists or neither.
LEMMA RemoveAgrees ==
    ASSUME ListsTyped, AdjacencyAgrees, NEW k \in Keys, RemoveResource(k)
    PROVE  ListsTyped' /\ AdjacencyAgrees'
  <1>1. nodes' = nodes \ {k}
    BY DEF RemoveResource
  <1>2. forward' = [s \in Keys |->
                      IF s = k THEN {}
                      ELSE IF s \in reverse[k] THEN forward[s] \ {k} ELSE forward[s]]
    BY DEF RemoveResource
  <1>3. reverse' = [t \in Keys |->
                      IF t = k THEN {}
                      ELSE IF t \in forward[k] THEN reverse[t] \ {k} ELSE reverse[t]]
    BY DEF RemoveResource
  <1>4. \A x \in Keys : forward[x] \subseteq Keys /\ reverse[x] \subseteq Keys
    BY DEF ListsTyped
  <1>5. ListsTyped'
    BY <1>1, <1>2, <1>3, <1>4 DEF ListsTyped
  <1>6. AdjacencyAgrees'
    <2>1. SUFFICES ASSUME NEW s \in Keys, NEW t \in Keys
                   PROVE  /\ (t \in forward'[s]) <=> (s \in reverse'[t])
                          /\ t \in forward'[s] => s \in nodes' /\ t \in nodes'
      BY DEF AdjacencyAgrees
    <2>2. \A x, y \in Keys : /\ (y \in forward[x]) <=> (x \in reverse[y])
                             /\ y \in forward[x] => x \in nodes /\ y \in nodes
      BY DEF AdjacencyAgrees
    <2>3. QED  BY <1>1, <1>2, <1>3, <2>2
  <1>7. QED  BY <1>5, <1>6

-----------------------------------------------------------------------------
\* The nodes are finitely many, so the seed can list them, all of them.
LEMMA SeqOfASet ==
    ASSUME NEW S, IsFiniteSet(S)
    PROVE  /\ SetToSeq(S) \in Seq(S)
           /\ \A e \in S : \E n \in 1..Len(SetToSeq(S)) : SetToSeq(S)[n] = e
  <1> DEFINE D == 1..Cardinality(S)
             q == SetToSeq(S)
  <1>1. Cardinality(S) \in Nat
    BY FS_CardinalityType
  <1>2. \E f \in [D -> S] : IsInjective(f)
    <2>1. PICK f : f \in Bijection(D, S)
      BY FS_CardinalityType DEF ExistsBijection
    <2>2. f \in [D -> S] /\ IsInjective(f)
      BY <2>1 DEF Bijection, Injection, Surjection, IsInjective
    <2>3. QED  BY <2>2
  <1>3. q \in [D -> S] /\ IsInjective(q)
    BY <1>2 DEF SetToSeq
  <1> HIDE DEF q
  <1>4. q \in Seq(S) /\ Len(q) = Cardinality(S)
    BY <1>1, <1>3
  <1>5. q \in Injection(D, S)
    BY <1>3 DEF Injection, IsInjective
  <1>6. Cardinality(D) = Cardinality(S)
    BY <1>1, FS_Interval
  <1>7. q \in Surjection(D, S)
    BY <1>5, <1>6, FS_Injection
  <1>8. \A e \in S : \E n \in 1..Len(q) : q[n] = e
    BY <1>4, <1>7 DEF Surjection
  <1>9. QED  BY <1>4, <1>8 DEF q

-----------------------------------------------------------------------------
\* What the watch of a kind tells of the objects that exist.
Told(kind) ==
    {[op |-> "ADDED", key |-> x, needs |-> IF x \in Pods THEN needs[x] ELSE {}] :
        x \in {y \in alive : KindOf(y) = kind}}

\* The streams begin with an event for each object that exists, and no other.
LEMMA SeedTells ==
    ASSUME GraphInit, NEW kind \in {"Pod", "Node"}
    PROVE  /\ inbox[kind] \in Seq(Told(kind))
           /\ \A e \in Told(kind) : \E n \in 1..Len(inbox[kind]) : inbox[kind][n] = e
  <1> DEFINE Those == {y \in alive : KindOf(y) = kind}
             f == [x \in Those |-> [op |-> "ADDED", key |-> x,
                                    needs |-> IF x \in Pods THEN needs[x] ELSE {}]]
  <1>1. IsFiniteSet(Those)
    <2>1. IsFiniteSet(Watched)
      BY GraphAssumption, FS_Union DEF Watched
    <2>2. Those \subseteq Watched
      BY DEF GraphInit
    <2>3. QED  BY <2>1, <2>2, FS_Subset
  <1>2. IsFiniteSet(Told(kind))
    <2>1. f \in Surjection(Those, Told(kind))
      BY DEF Surjection, Told
    <2>2. QED  BY <1>1, <2>1, FS_Surjection
  <1>3. inbox = [k \in {"Pod", "Node"} |-> SetToSeq(Told(k))]
    BY DEF GraphInit, Told
  <1>4. inbox[kind] = SetToSeq(Told(kind))
    BY <1>3
  <1>5. QED  BY <1>2, <1>4, SeqOfASet

\* The invariant holds after the seed.
LEMMA GraphInitInv == GraphInit => GraphInv
  <1>1. SUFFICES ASSUME GraphInit PROVE GraphInv
    OBVIOUS
  <1>2. ListsTyped /\ AdjacencyAgrees
    <2>1. nodes \subseteq Keys
      BY <1>1 DEF GraphInit, Watched, Keys
    <2>2. /\ forward = [k \in Keys |-> {}]
          /\ reverse = [k \in Keys |-> {}]
      BY <1>1 DEF GraphInit
    <2>3. QED  BY <2>1, <2>2 DEF ListsTyped, AdjacencyAgrees
  <1>3. alive \subseteq Watched
    BY <1>1 DEF GraphInit
  <1>4. needs \in [Pods -> SUBSET (NodeNames \cup Others)]
    <2>1. PICK on \in [Pods \cap alive -> {{}} \cup {{n} : n \in NodeNames}] :
             needs = [p \in Pods |-> IF p \in alive THEN Others \cup on[p] ELSE {}]
      BY <1>1 DEF GraphInit
    <2>2. \A p \in Pods \cap alive : on[p] \subseteq NodeNames
      OBVIOUS
    <2>3. QED  BY <2>1, <2>2
  <1>5. inbox \in [{"Pod", "Node"} -> Seq(Event)]
    <2>1. ASSUME NEW kind \in {"Pod", "Node"}
          PROVE  inbox[kind] \in Seq(Event)
      <3>1. Told(kind) \subseteq Event
        <4>1. SUFFICES ASSUME NEW x \in alive
                       PROVE  [op |-> "ADDED", key |-> x,
                               needs |-> IF x \in Pods THEN needs[x] ELSE {}] \in Event
          BY DEF Told
        <4>2. x \in Watched
          BY <1>3
        <4>3. (IF x \in Pods THEN needs[x] ELSE {}) \in SUBSET Keys
          BY <1>4 DEF Keys
        <4>4. QED  BY <4>2, <4>3 DEF Event
      <3>2. inbox[kind] \in Seq(Told(kind))
        BY <1>1, SeedTells
      <3>3. QED  BY <3>1, <3>2
    <2>2. inbox = [kind \in {"Pod", "Node"} |-> inbox[kind]]
      BY <1>1 DEF GraphInit
    <2>3. QED  BY <2>1, <2>2
  <1>6. QED  BY <1>2, <1>3, <1>4, <1>5 DEF GraphInv, EventsTyped

\* A step of the cluster leaves the lists alone and tells a typed event.
LEMMA WriteTyped ==
    ASSUME EventsTyped, NEW op \in {"ADDED", "MODIFIED", "DELETED"}, NEW x \in Watched,
           NEW names \in SUBSET (NodeNames \cup Others), Write(op, x, names)
    PROVE  EventsTyped' /\ UNCHANGED adjacencyVars
  <1>1. /\ alive' = IF op = "DELETED" THEN alive \ {x} ELSE alive \cup {x}
        /\ needs' = IF x \in Pods THEN [needs EXCEPT ![x] = names] ELSE needs
        /\ inbox' = [inbox EXCEPT ![KindOf(x)] =
                        Append(@, [op |-> op, key |-> x, needs |-> names])]
        /\ UNCHANGED adjacencyVars
    BY DEF Write
  <1>2. alive' \subseteq Watched
    BY <1>1 DEF EventsTyped
  <1>3. needs' \in [Pods -> SUBSET (NodeNames \cup Others)]
    BY <1>1 DEF EventsTyped
  <1>4. inbox' \in [{"Pod", "Node"} -> Seq(Event)]
    <2>1. [op |-> op, key |-> x, needs |-> names] \in Event
      BY DEF Event, Keys
    <2>2. KindOf(x) \in {"Pod", "Node"}
      BY DEF KindOf
    <2>3. \A seq \in Seq(Event), e \in Event : Append(seq, e) \in Seq(Event)
      OBVIOUS
    <2>4. QED  BY <1>1, <2>1, <2>2, <2>3 DEF EventsTyped
  <1>5. QED  BY <1>1, <1>2, <1>3, <1>4 DEF EventsTyped

\* Every watch event keeps it.
LEMMA DeliveryInv ==
    ASSUME GraphInv, NEW kind \in {"Pod", "Node"}, DeliverTo(kind)
    PROVE  GraphInv'
  <1> DEFINE e == Head(inbox[kind])
  <1>1. inbox[kind] \in Seq(Event) /\ inbox[kind] # << >>
    BY DEF GraphInv, EventsTyped, DeliverTo
  <1>2. e \in Event
    BY <1>1
  <1>3. e.key \in Keys /\ e.needs \in SUBSET Keys
    BY <1>2 DEF Event, Watched, Keys
  <1>4. RemoveResource(e.key) \/ AddResource(e.key, e.needs)
    BY DEF DeliverTo
  <1>5. ListsTyped' /\ AdjacencyAgrees'
    <2> HIDE DEF e
    <2>1. QED  BY <1>3, <1>4, AddAgrees, RemoveAgrees DEF GraphInv
  <1>6. EventsTyped'
    <2>1. /\ inbox' = [inbox EXCEPT ![kind] = Tail(@)]
          /\ needs' = needs /\ alive' = alive
      BY DEF DeliverTo
    <2>2. Tail(inbox[kind]) \in Seq(Event)
      BY <1>1
    <2>3. QED  BY <2>1, <2>2 DEF GraphInv, EventsTyped
  <1>7. QED  BY <1>5, <1>6 DEF GraphInv

\* Each change is a write of an object of the cluster, and only pods name others.
LEMMA ChangeWrites ==
    ASSUME EventsTyped, Change
    PROVE  \E op \in {"ADDED", "MODIFIED", "DELETED"}, x \in Watched,
              names \in SUBSET (NodeNames \cup Others) :
                 (x \in Pods \/ names = {}) /\ Write(op, x, names)
  <1>1. CASE \E x \in Watched \ alive, names \in {{}, Others} :
                (x \in Pods \/ names = {}) /\ Write("ADDED", x, names)
    BY <1>1
  <1>2. CASE \E p \in Pods \cap alive, n \in NodeNames \cap alive :
                needs[p] \cap NodeNames = {} /\ Write("MODIFIED", p, needs[p] \cup {n})
    <2>1. PICK p \in Pods \cap alive, n \in NodeNames :
             Write("MODIFIED", p, needs[p] \cup {n})
      BY <1>2
    <2>2. needs[p] \cup {n} \in SUBSET (NodeNames \cup Others)
      BY DEF EventsTyped
    <2>3. p \in Watched
      BY DEF Watched
    <2>4. QED  BY <2>1, <2>2, <2>3
  <1>3. CASE \E x \in alive, op \in {"MODIFIED", "DELETED"} :
                Write(op, x, IF x \in Pods THEN needs[x] ELSE {})
    <2>1. PICK x \in alive, op \in {"MODIFIED", "DELETED"} :
             Write(op, x, IF x \in Pods THEN needs[x] ELSE {})
      BY <1>3
    <2>2. /\ (IF x \in Pods THEN needs[x] ELSE {}) \in SUBSET (NodeNames \cup Others)
          /\ x \in Pods \/ (IF x \in Pods THEN needs[x] ELSE {}) = {}
      BY DEF EventsTyped
    <2>3. x \in Watched
      BY DEF EventsTyped
    <2>4. QED  BY <2>1, <2>2, <2>3
  <1>4. QED  BY <1>1, <1>2, <1>3 DEF Change

\* So does every step of cluster, streams and graph.
LEMMA GraphNextInv == GraphInv /\ [GraphNext]_graphVars => GraphInv'
  <1>1. SUFFICES ASSUME GraphInv, [GraphNext]_graphVars PROVE GraphInv'
    OBVIOUS
  <1>2. ASSUME EventsTyped', UNCHANGED adjacencyVars PROVE GraphInv'
    BY <1>1, <1>2 DEF GraphInv, ListsTyped, AdjacencyAgrees, adjacencyVars
  <1>3. CASE Change
    <2>1. PICK op \in {"ADDED", "MODIFIED", "DELETED"}, x \in Watched,
               names \in SUBSET (NodeNames \cup Others) : Write(op, x, names)
      BY <1>1, <1>3, ChangeWrites DEF GraphInv
    <2>2. QED  BY <1>1, <1>2, <2>1, WriteTyped DEF GraphInv
  <1>4. CASE \E kind \in {"Pod", "Node"} : DeliverTo(kind)
    BY <1>1, <1>4, DeliveryInv
  <1>5. CASE \E kind \in {"Pod", "Node"} : SkipEvents(kind)
    <2>1. PICK kind \in {"Pod", "Node"} : SkipEvents(kind)
      BY <1>5
    <2>2. << >> \in Seq(Event)
      OBVIOUS
    <2>3. EventsTyped'
      BY <1>1, <2>1, <2>2 DEF GraphInv, EventsTyped, SkipEvents
    <2>4. UNCHANGED adjacencyVars
      BY <2>1 DEF SkipEvents
    <2>5. QED  BY <1>2, <2>3, <2>4
  <1>6. CASE UNCHANGED graphVars
    BY <1>1, <1>2, <1>6 DEF GraphInv, EventsTyped, graphVars, adjacencyVars
  <1>7. QED  BY <1>1, <1>3, <1>4, <1>5, <1>6 DEF GraphNext

(* The lists _add_edge, _remove_edges_for and remove_resource keep each in *)
(* a loop of its own tell the same edges, whatever the two streams deliver *)
(* and in whatever order.                                                  *)
THEOREM AdjacencyAlwaysAgrees == GraphSpec => []AdjacencyAgrees
  <1>1. GraphInv => AdjacencyAgrees
    BY DEF GraphInv
  <1>2. QED  BY <1>1, GraphInitInv, GraphNextInv, PTL DEF GraphSpec

-----------------------------------------------------------------------------
(* The blast radius.  A graph that was told everything is current because  *)
(* at every moment before, for each pod, the last event on its way tells   *)
(* what the pod is now, and, where none is on its way, the graph does.     *)
\* The streams tell their own kind, and only pods name other resources.
EventsSorted ==
    \A kind \in {"Pod", "Node"} : \A n \in 1..Len(inbox[kind]) :
        /\ KindOf(inbox[kind][n].key) = kind
        /\ inbox[kind][n].needs \subseteq (IF kind = "Pod" THEN NodeNames \cup Others ELSE {})

EdgesLeavePods ==
    \A s, t \in Keys : t \in forward[s] => s \in Pods /\ t \in NodeNames \cup Others

PodEvent(p, n) == n \in 1..Len(inbox["Pod"]) /\ inbox["Pod"][n].key = p

LastEventsAreCurrent ==
    skips = 0 =>
        \A p \in Pods : \A n \in Nat :
            PodEvent(p, n) /\ (\A m \in Nat : m > n => ~ PodEvent(p, m)) =>
                /\ (inbox["Pod"][n].op = "DELETED") <=> (p \notin alive)
                /\ p \in alive => inbox["Pod"][n].needs = needs[p]

\* the pods that name x, as far as the graph can know of x
Names(p, x) == p \in alive /\ x \in needs[p] /\ <<p, x>> \notin cut

ToldPodsAreCurrent ==
    skips = 0 =>
        \A p \in Pods : (\A n \in Nat : ~ PodEvent(p, n)) =>
            \A x \in NodeNames \cup Others : (p \in reverse[x]) <=> Names(p, x)

BoundsKept == changes \in 0..MaxChanges /\ skips \in 0..MaxSkips /\ cut \subseteq Pods \X NodeNames

BlastInv ==
    /\ GraphInv /\ BoundsKept
    /\ EventsSorted /\ EdgesLeavePods
    /\ LastEventsAreCurrent /\ ToldPodsAreCurrent

\* What the kinds of keys have to do with each other.
LEMMA KeysApart ==
    /\ \A x \in Watched : KindOf(x) = "Pod" => x \in Pods
    /\ \A x \in Watched : KindOf(x) = "Node" => x \in NodeNames /\ x \notin Pods
    /\ \A x \in Pods : KindOf(x) = "Pod" /\ x \in Watched /\ x \in Keys
    /\ \A x \in NodeNames \cup Others : x \notin Pods /\ x \in Keys
    /\ \A x \in NodeNames : x \in Watched /\ KindOf(x) = "Node"
  BY GraphAssumption DEF Watched, KindOf, Keys

\* The reverse lists after add_resource() ...
LEMMA AddTells ==
    ASSUME ListsTyped, AdjacencyAgrees,
           NEW k \in Keys, NEW targets \in SUBSET Keys, AddResource(k, targets),
           NEW p \in Keys, NEW x \in Keys
    PROVE  (p \in reverse'[x]) <=> IF p = k THEN x \in targets ELSE p \in reverse[x]
  <1>1. reverse'[x] = IF x \in targets THEN reverse[x] \cup {k}
                      ELSE IF x \in forward[k] THEN reverse[x] \ {k}
                      ELSE reverse[x]
    BY DEF AddResource
  <1>2. (x \in forward[k]) <=> (k \in reverse[x])
    BY DEF AdjacencyAgrees
  <1>3. QED  BY <1>1, <1>2

\* ... and after remove_resource().
LEMMA RemoveTells ==
    ASSUME ListsTyped, AdjacencyAgrees, NEW k \in Keys, RemoveResource(k),
           NEW p \in Keys, NEW x \in Keys
    PROVE  (p \in reverse'[x]) <=> (p # k /\ x # k /\ p \in reverse[x])
  <1>1. reverse'[x] = IF x = k THEN {}
                      ELSE IF x \in forward[k] THEN reverse[x] \ {k} ELSE reverse[x]
    BY DEF RemoveResource
  <1>2. (x \in forward[k]) <=> (k \in reverse[x])
    BY DEF AdjacencyAgrees
  <1>3. QED  BY <1>1, <1>2

(* With edges from pods to other resources only, nothing is further than   *)
(* one edge upstream, however deep upstream() looks.                       *)
LEMMA UpstreamIsDirect ==
    ASSUME ListsTyped, AdjacencyAgrees, EdgesLeavePods, NEW x \in NodeNames \cup Others
    PROVE  Upstream(x, Depth) = reverse[x]
  <1> DEFINE Levels(g) == g = [i \in 0..Depth |->
                                  IF i = 0 THEN {x}
                                  ELSE g[i - 1] \cup UNION {reverse[y] : y \in g[i - 1]}]
             within == CHOOSE g : Levels(g)
             direct == [i \in 0..Depth |-> IF i = 0 THEN {x} ELSE {x} \cup reverse[x]]
             S == {i \in Nat : i \in 0..Depth => within[i] = direct[i]}
  <1>1. x \in Keys /\ x \notin Pods /\ Depth \in Nat /\ Depth # 0
    BY KeysApart, GraphAssumption
  <1>2. Upstream(x, Depth) = IF x \in nodes THEN (within[Depth] \ {x}) \cap nodes ELSE {}
    BY DEF Upstream
  <1>3. /\ reverse[x] \subseteq Pods \cap nodes
        /\ reverse[x] # {} => x \in nodes
        /\ \A y \in reverse[x] : reverse[y] = {}
    <2>1. \A y \in Keys : reverse[y] \subseteq Keys
      BY DEF ListsTyped
    <2>2. \A y, z \in Keys : z \in reverse[y] => z \in Pods /\ y \notin Pods /\ z \in nodes /\ y \in nodes
      BY KeysApart DEF AdjacencyAgrees, EdgesLeavePods
    <2>3. QED  BY <1>1, <2>1, <2>2
  <1>4. UNION {reverse[y] : y \in {x} \cup reverse[x]} = reverse[x]
    BY <1>3
  <1>5. \A i \in 0..Depth : i # 0 => i - 1 \in 0..Depth
    BY <1>1
  <1>6. Levels(direct)
    <2>1. ASSUME NEW i \in 0..Depth, i # 0
          PROVE  direct[i] = direct[i - 1] \cup UNION {reverse[y] : y \in direct[i - 1]}
      <3>1. direct[i - 1] = {x} \/ direct[i - 1] = {x} \cup reverse[x]
        BY <1>5, <2>1
      <3>2. direct[i] = {x} \cup reverse[x]
        BY <2>1
      <3>3. UNION {reverse[y] : y \in {x}} = reverse[x]
        OBVIOUS
      <3>4. QED  BY <1>4, <3>1, <3>2, <3>3, Zenon
    <2>2. direct[0] = {x}
      BY <1>1
    <2>3. direct = [i \in 0..Depth |-> direct[i]]
      OBVIOUS
    <2> HIDE DEF direct
    <2>4. QED  BY <2>1, <2>2, <2>3
  <1>7. Levels(within)
    BY <1>6
  <1>8. /\ \A i \in 0..Depth : direct[i] = IF i = 0 THEN {x} ELSE {x} \cup reverse[x]
        /\ direct[Depth] = {x} \cup reverse[x]
    BY <1>1
  <1> HIDE DEF within, direct
  <1>9. ASSUME NEW i \in S PROVE i + 1 \in S
    <2>1. ASSUME i + 1 \in 0..Depth PROVE within[i + 1] = direct[i + 1]
      <3>1. i \in 0..Depth /\ i + 1 # 0 /\ (i + 1) - 1 = i /\ i \in Nat
        BY <1>1, <2>1
      <3>2. within[i + 1] = within[i] \cup UNION {reverse[y] : y \in within[i]}
        BY <1>7, <2>1, <3>1
      <3>3. direct[i + 1] = direct[i] \cup UNION {reverse[y] : y \in direct[i]}
        BY <1>6, <2>1, <3>1
      <3>4. within[i] = direct[i]
        BY <3>1
      <3>5. QED  BY <3>2, <3>3, <3>4
    <2>2. QED  BY <2>1
  <1>10. 0 \in S
    BY <1>1, <1>6, <1>7
  <1>11. S \in SUBSET Nat
    OBVIOUS
  <1> HIDE DEF S
  <1>12. S = Nat
    BY <1>9, <1>10, <1>11, Counts!NatSetInduction
  <1>13. Depth \in S /\ Depth \in 0..Depth
    BY <1>1, <1>12
  <1>14. within[Depth] = {x} \cup reverse[x]
    BY <1>8, <1>13 DEF S
  <1>15. QED  BY <1>1, <1>2, <1>3, <1>14

\* After the seed, every pod there is has an event on its way.
LEMMA BlastInitInv == GraphInit => BlastInv
  <1> SUFFICES ASSUME GraphInit PROVE BlastInv
    OBVIOUS
  <1>1. GraphInv
    BY GraphInitInv
  <1>2. /\ changes = 0 /\ skips = 0 /\ cut = {} /\ alive \subseteq Watched
        /\ forward = [k \in Keys |-> {}] /\ reverse = [k \in Keys |-> {}]
    BY DEF GraphInit
  <1>3. BoundsKept
    BY <1>2, GraphAssumption DEF BoundsKept
  <1>4. EdgesLeavePods
    BY <1>2 DEF EdgesLeavePods
  <1>5. needs \in [Pods -> SUBSET (NodeNames \cup Others)]
    BY <1>1 DEF GraphInv, EventsTyped
  <1>6. ASSUME NEW kind \in {"Pod", "Node"}, NEW n \in 1..Len(inbox[kind])
        PROVE  \E x \in alive : /\ KindOf(x) = kind
                                /\ inbox[kind][n] = [op |-> "ADDED", key |-> x,
                                      needs |-> IF x \in Pods THEN needs[x] ELSE {}]
    <2>1. inbox[kind][n] \in Told(kind)
      BY SeedTells, <1>6
    <2>2. QED  BY <2>1 DEF Told
  <1>7. EventsSorted
    <2>1. SUFFICES ASSUME NEW kind \in {"Pod", "Node"}, NEW n \in 1..Len(inbox[kind])
                   PROVE  /\ KindOf(inbox[kind][n].key) = kind
                          /\ inbox[kind][n].needs \subseteq
                                (IF kind = "Pod" THEN NodeNames \cup Others ELSE {})
      BY DEF EventsSorted
    <2>2. PICK x \in alive : /\ KindOf(x) = kind
                             /\ inbox[kind][n] = [op |-> "ADDED", key |-> x,
                                   needs |-> IF x \in Pods THEN needs[x] ELSE {}]
      BY <1>6
    <2>3. kind = "Pod" <=> x \in Pods
      BY <1>2, <2>2, KeysApart
    <2>4. inbox[kind][n].key = x /\ inbox[kind][n].needs = IF x \in Pods THEN needs[x] ELSE {}
      BY <2>2
    <2>5. QED  BY <1>5, <2>2, <2>3, <2>4
  <1>8. LastEventsAreCurrent
    <2>1. SUFFICES ASSUME NEW p \in Pods, NEW n \in Nat, PodEvent(p, n)
                   PROVE  /\ (inbox["Pod"][n].op = "DELETED") <=> (p \notin alive)
                          /\ p \in alive => inbox["Pod"][n].needs = needs[p]
      BY DEF LastEventsAreCurrent
    <2>2. n \in 1..Len(inbox["Pod"]) /\ inbox["Pod"][n].key = p
      BY <2>1 DEF PodEvent
    <2>3. PICK x \in alive : inbox["Pod"][n] = [op |-> "ADDED", key |-> x,
                                needs |-> IF x \in Pods THEN needs[x] ELSE {}]
      BY <1>6, <2>2
    <2>4. QED  BY <2>2, <2>3
  <1>9. ToldPodsAreCurrent
    <2>1. SUFFICES ASSUME NEW p \in Pods, \A n \in Nat : ~ PodEvent(p, n),
                          NEW x \in NodeNames \cup Others
                   PROVE  (p \in reverse[x]) <=> Names(p, x)
      BY DEF ToldPodsAreCurrent
    <2>2. p \notin alive
      <3>1. SUFFICES ASSUME p \in alive PROVE FALSE
        OBVIOUS
      <3>2. [op |-> "ADDED", key |-> p, needs |-> needs[p]] \in Told("Pod")
        <4>1. KindOf(p) = "Pod"
          BY KeysApart
        <4>2. QED  BY <3>1, <4>1 DEF Told
      <3>3. PICK n \in 1..Len(inbox["Pod"]) :
               inbox["Pod"][n] = [op |-> "ADDED", key |-> p, needs |-> needs[p]]
        BY <3>2, SeedTells
      <3>4. n \in Nat /\ PodEvent(p, n)
        BY <3>3 DEF PodEvent
      <3>5. QED  BY <2>1, <3>4
    <2>3. p \notin reverse[x]
      BY <1>2, KeysApart
    <2>4. QED  BY <2>2, <2>3 DEF Names
  <1>10. QED  BY <1>1, <1>3, <1>4, <1>7, <1>8, <1>9 DEF BlastInv

\* A write comes after the events the stream has still to tell.
LEMMA WriteBlastInv ==
    ASSUME BlastInv, NEW op \in {"ADDED", "MODIFIED", "DELETED"}, NEW x \in Watched,
           NEW names \in SUBSET (NodeNames \cup Others), x \in Pods \/ names = {},
           Write(op, x, names)
    PROVE  BlastInv'
  <1> DEFINE new == [op |-> op, key |-> x, needs |-> names]
  <1>1. /\ changes < MaxChanges /\ changes' = changes + 1
        /\ alive' = IF op = "DELETED" THEN alive \ {x} ELSE alive \cup {x}
        /\ needs' = IF x \in Pods THEN [needs EXCEPT ![x] = names] ELSE needs
        /\ inbox' = [inbox EXCEPT ![KindOf(x)] = Append(@, new)]
        /\ UNCHANGED <<nodes, forward, reverse, skips, cut>>
    BY DEF Write, adjacencyVars
  <1>2. /\ inbox \in [{"Pod", "Node"} -> Seq(Event)]
        /\ needs \in [Pods -> SUBSET (NodeNames \cup Others)]
    BY DEF BlastInv, GraphInv, EventsTyped
  <1>3. GraphInv'
    <2>1. EventsTyped' /\ UNCHANGED adjacencyVars
      BY WriteTyped DEF BlastInv, GraphInv
    <2>2. QED
      BY <2>1 DEF BlastInv, GraphInv, ListsTyped, AdjacencyAgrees, adjacencyVars
  <1>4. BoundsKept'
    <2>1. changes \in 0..MaxChanges /\ MaxChanges \in Nat
      BY GraphAssumption DEF BlastInv, BoundsKept
    <2>2. changes' \in 0..MaxChanges
      BY <1>1, <2>1
    <2>3. QED  BY <1>1, <2>2 DEF BlastInv, BoundsKept
  <1>5. EdgesLeavePods'
    BY <1>1 DEF BlastInv, EdgesLeavePods
  <1>6. ASSUME NEW kind \in {"Pod", "Node"}
        PROVE  /\ Len(inbox[kind]) \in Nat
               /\ kind # KindOf(x) => inbox'[kind] = inbox[kind]
               /\ kind = KindOf(x) =>
                     /\ Len(inbox'[kind]) = Len(inbox[kind]) + 1
                     /\ inbox'[kind][Len(inbox[kind]) + 1] = new
                     /\ \A n \in 1..Len(inbox[kind]) : inbox'[kind][n] = inbox[kind][n]
    <2>1. inbox[kind] \in Seq(Event)
      BY <1>2
    <2>2. inbox'[kind] = IF kind = KindOf(x) THEN Append(inbox[kind], new) ELSE inbox[kind]
      BY <1>1, <1>2
    <2> HIDE DEF new
    <2>3. QED  BY <2>1, <2>2
  <1>7. /\ KindOf(x) \in {"Pod", "Node"} /\ (KindOf(x) = "Pod" <=> x \in Pods)
        /\ new.op = op /\ new.key = x /\ new.needs = names
    BY DEF KindOf
  <1> HIDE DEF new
  <1>8. EventsSorted'
    <2>1. SUFFICES ASSUME NEW kind \in {"Pod", "Node"}, NEW n \in 1..Len(inbox'[kind])
                   PROVE  /\ KindOf(inbox'[kind][n].key) = kind
                          /\ inbox'[kind][n].needs \subseteq
                                (IF kind = "Pod" THEN NodeNames \cup Others ELSE {})
      BY DEF EventsSorted, KindOf
    <2>2. CASE n \in 1..Len(inbox[kind])
      <3>1. inbox'[kind][n] = inbox[kind][n]
        BY <1>6, <2>2
      <3>2. QED  BY <2>2, <3>1 DEF BlastInv, EventsSorted
    <2>3. CASE n \notin 1..Len(inbox[kind])
      <3>1. kind = KindOf(x) /\ n = Len(inbox[kind]) + 1
        BY <1>6, <2>1, <2>3
      <3>2. inbox'[kind][n] = new
        BY <1>6, <3>1
      <3>3. QED  BY <1>7, <3>1, <3>2
    <2>4. QED  BY <2>2, <2>3
  <1>9. ASSUME NEW p \in Pods, p # x
        PROVE  /\ \A n \in Nat : PodEvent(p, n)' <=> PodEvent(p, n)
               /\ \A n \in Nat : PodEvent(p, n) => inbox'["Pod"][n] = inbox["Pod"][n]
               /\ p \in alive' <=> p \in alive
               /\ needs'[p] = needs[p]
    <2>1. p \in alive' <=> p \in alive
      BY <1>1, <1>9
    <2>2. needs'[p] = needs[p]
      BY <1>1, <1>2, <1>9
    <2>3. ASSUME NEW n \in Nat
          PROVE  /\ PodEvent(p, n)' <=> PodEvent(p, n)
                 /\ PodEvent(p, n) => inbox'["Pod"][n] = inbox["Pod"][n]
      <3>1. CASE KindOf(x) = "Pod"
        <4>1. n \in 1..Len(inbox'["Pod"]) <=>
                 n \in 1..Len(inbox["Pod"]) \/ n = Len(inbox["Pod"]) + 1
          BY <1>6, <3>1
        <4>2. inbox'["Pod"][Len(inbox["Pod"]) + 1].key # p
          BY <1>6, <1>7, <1>9, <3>1
        <4>3. \A m \in 1..Len(inbox["Pod"]) : inbox'["Pod"][m] = inbox["Pod"][m]
          BY <1>6, <3>1
        <4>4. QED  BY <4>1, <4>2, <4>3, Zenon DEF PodEvent
      <3>2. CASE KindOf(x) # "Pod"
        BY <1>6, <3>2 DEF PodEvent
      <3>3. QED  BY <3>1, <3>2
    <2>4. QED  BY <2>1, <2>2, <2>3
  <1>10. ASSUME x \in Pods
         PROVE  /\ \A n \in Nat : n = Len(inbox["Pod"]) + 1 => PodEvent(x, n)'
                /\ \A n \in Nat : PodEvent(x, n)' =>
                      Len(inbox["Pod"]) + 1 > n \/ n = Len(inbox["Pod"]) + 1
                /\ (op = "DELETED") <=> (x \notin alive')
                /\ needs'[x] = names
    <2>1. (op = "DELETED") <=> (x \notin alive')
      BY <1>1
    <2>2. needs'[x] = names
      BY <1>1, <1>2, <1>10
    <2>3. /\ Len(inbox["Pod"]) \in Nat /\ Len(inbox'["Pod"]) = Len(inbox["Pod"]) + 1
          /\ inbox'["Pod"][Len(inbox["Pod"]) + 1] = new
      BY <1>6, <1>7, <1>10
    <2>4. \A n \in 1..Len(inbox'["Pod"]) :
             Len(inbox["Pod"]) + 1 > n \/ n = Len(inbox["Pod"]) + 1
      BY <2>3
    <2>5. Len(inbox["Pod"]) + 1 \in 1..Len(inbox'["Pod"])
      BY <2>3
    <2>6. QED  BY <1>7, <2>1, <2>2, <2>3, <2>4, <2>5, Zenon DEF PodEvent
  <1>11. LastEventsAreCurrent'
    <2>1. SUFFICES ASSUME skips = 0, NEW p \in Pods, NEW n \in Nat, PodEvent(p, n)',
                          \A m \in Nat : m > n => ~ PodEvent(p, m)'
                   PROVE  /\ (inbox'["Pod"][n].op = "DELETED") <=> (p \notin alive')
                          /\ p \in alive' => inbox'["Pod"][n].needs = needs'[p]
      BY <1>1 DEF LastEventsAreCurrent, PodEvent
    <2>2. CASE p # x
      <3>1. /\ PodEvent(p, n) /\ inbox'["Pod"][n] = inbox["Pod"][n]
            /\ \A m \in Nat : m > n => ~ PodEvent(p, m)
            /\ p \in alive' <=> p \in alive
            /\ needs'[p] = needs[p]
        BY <1>9, <2>1, <2>2
      <3>2. QED  BY <2>1, <3>1 DEF BlastInv, LastEventsAreCurrent
    <2>3. CASE p = x
      <3>1. Len(inbox["Pod"]) \in Nat /\ Len(inbox["Pod"]) + 1 \in Nat
        BY <1>6
      <3>2. n = Len(inbox["Pod"]) + 1
        BY <1>10, <2>1, <2>3, <3>1
      <3>3. inbox'["Pod"][n] = new
        BY <1>6, <1>7, <2>3, <3>2
      <3>4. QED  BY <1>7, <1>10, <2>3, <3>3
    <2>4. QED  BY <2>2, <2>3
  <1>12. ToldPodsAreCurrent'
    <2>1. SUFFICES ASSUME skips = 0, NEW p \in Pods, \A n \in Nat : ~ PodEvent(p, n)',
                          NEW y \in NodeNames \cup Others
                   PROVE  (p \in reverse'[y]) <=> Names(p, y)'
      BY <1>1 DEF ToldPodsAreCurrent
    <2>2. p # x
      <3>1. Len(inbox["Pod"]) + 1 \in Nat
        BY <1>6
      <3>2. QED  BY <1>10, <2>1, <3>1
    <2>3. \A n \in Nat : ~ PodEvent(p, n)
      BY <1>9, <2>1, <2>2
    <2>4. (p \in reverse[y]) <=> Names(p, y)
      BY <2>1, <2>3 DEF BlastInv, ToldPodsAreCurrent
    <2>5. QED  BY <1>1, <1>9, <2>2, <2>4 DEF Names
  <1>13. QED  BY <1>3, <1>4, <1>5, <1>8, <1>11, <1>12 DEF BlastInv

(* The handlers on a typed event: edges go on leaving pods only, a pod's   *)
(* own event sets what the graph tells of it, and another's leaves that    *)
(* alone but for the removal of what the pod names.                        *)
LEMMA DeliveryTells ==
    ASSUME BlastInv, NEW kind \in {"Pod", "Node"}, DeliverTo(kind),
           NEW e, e = Head(inbox[kind])
    PROVE  /\ EdgesLeavePods'
           /\ cut' \subseteq Pods \X NodeNames
           /\ kind = "Node" => e.key \notin Pods
           /\ \A p \in Pods, x \in NodeNames \cup Others :
                 /\ e.key = p => /\ <<p, x>> \notin cut'
                                 /\ p \in reverse'[x] <=> (e.op # "DELETED" /\ x \in e.needs)
                 /\ e.key # p => \/ /\ p \in reverse'[x] <=> p \in reverse[x]
                                    /\ <<p, x>> \in cut' <=> <<p, x>> \in cut
                                 \/ p \notin reverse'[x] /\ <<p, x>> \in cut'
  <1>1. /\ ListsTyped /\ AdjacencyAgrees /\ EdgesLeavePods
        /\ cut \subseteq Pods \X NodeNames
    BY DEF BlastInv, GraphInv, BoundsKept
  <1>2. /\ inbox[kind] \in Seq(Event) /\ inbox[kind] # << >> /\ Len(inbox[kind]) \in Nat
        /\ 1 \in 1..Len(inbox[kind]) /\ e = inbox[kind][1] /\ e \in Event
    <2>1. inbox[kind] \in Seq(Event) /\ inbox[kind] # << >>
      BY DEF BlastInv, GraphInv, EventsTyped, DeliverTo
    <2>2. QED  BY <2>1
  <1>3. /\ e.key \in Watched /\ e.key \in Keys /\ e.needs \in SUBSET Keys
        /\ KindOf(e.key) = kind
        /\ e.needs \subseteq (IF kind = "Pod" THEN NodeNames \cup Others ELSE {})
    <2>1. e.key \in Watched /\ e.needs \in SUBSET Keys
      BY <1>2 DEF Event
    <2>2. /\ KindOf(e.key) = kind
          /\ e.needs \subseteq (IF kind = "Pod" THEN NodeNames \cup Others ELSE {})
      BY <1>2 DEF BlastInv, EventsSorted
    <2>3. QED  BY <2>1, <2>2 DEF Watched, Keys
  <1>4. /\ kind = "Pod" => e.key \in Pods
        /\ kind = "Node" => e.key \in NodeNames /\ e.key \notin Pods /\ e.needs = {}
    BY <1>3, KeysApart
  <1>5. CASE e.op = "DELETED"
    <2>1. /\ RemoveResource(e.key)
          /\ cut' = IF kind = "Node" THEN cut \cup (Pods \X {e.key})
                                     ELSE {c \in cut : c[1] # e.key}
      BY <1>5 DEF DeliverTo
    <2>2. \A s, t \in Keys : t \in forward'[s] => t \in forward[s]
      BY <2>1 DEF RemoveResource
    <2>3. EdgesLeavePods'
      BY <1>1, <2>2 DEF EdgesLeavePods
    <2>4. cut' \subseteq Pods \X NodeNames
      BY <1>1, <1>4, <2>1
    <2>5. ASSUME NEW p \in Pods, NEW x \in NodeNames \cup Others
          PROVE  /\ e.key = p => <<p, x>> \notin cut' /\ p \notin reverse'[x]
                 /\ e.key # p => \/ /\ p \in reverse'[x] <=> p \in reverse[x]
                                    /\ <<p, x>> \in cut' <=> <<p, x>> \in cut
                                 \/ p \notin reverse'[x] /\ <<p, x>> \in cut'
      <3>1. (p \in reverse'[x]) <=> (p # e.key /\ x # e.key /\ p \in reverse[x])
        BY <1>1, <1>3, <2>1, KeysApart, RemoveTells
      <3>2. p \in Pods /\ x \notin Pods
        BY KeysApart
      <3>3. CASE kind = "Pod"
        <4>1. <<p, x>> \in cut' <=> <<p, x>> \in cut /\ p # e.key
          BY <2>1, <3>3
        <4>2. x # e.key
          BY <1>4, <3>2, <3>3
        <4>3. QED  BY <3>1, <4>1, <4>2
      <3>4. CASE kind = "Node"
        <4>1. <<p, x>> \in cut' <=> <<p, x>> \in cut \/ x = e.key
          BY <2>1, <3>4
        <4>2. p # e.key
          BY <1>4, <3>2, <3>4
        <4>3. QED  BY <3>1, <4>1, <4>2
      <3>5. QED  BY <3>3, <3>4
    <2>6. QED  BY <1>4, <1>5, <2>3, <2>4, <2>5
  <1>6. CASE e.op # "DELETED"
    <2>1. /\ AddResource(e.key, e.needs)
          /\ cut' = {c \in cut : c[1] # e.key}
      BY <1>6 DEF DeliverTo
    <2>2. \A s, t \in Keys : t \in forward'[s] =>
             t \in forward[s] \/ (s = e.key /\ t \in e.needs)
      BY <1>1, <1>3, <2>1 DEF AddResource, ListsTyped
    <2>3. EdgesLeavePods'
      BY <1>1, <1>3, <1>4, <2>2 DEF EdgesLeavePods
    <2>4. cut' \subseteq Pods \X NodeNames
      BY <1>1, <2>1
    <2>5. ASSUME NEW p \in Pods, NEW x \in NodeNames \cup Others
          PROVE  /\ e.key = p => <<p, x>> \notin cut' /\ (p \in reverse'[x] <=> x \in e.needs)
                 /\ e.key # p => /\ p \in reverse'[x] <=> p \in reverse[x]
                                 /\ <<p, x>> \in cut' <=> <<p, x>> \in cut
      <3>1. (p \in reverse'[x]) <=> IF p = e.key THEN x \in e.needs ELSE p \in reverse[x]
        BY <1>1, <1>3, <2>1, KeysApart, AddTells
      <3>2. <<p, x>> \in cut' <=> <<p, x>> \in cut /\ p # e.key
        BY <2>1
      <3>3. QED  BY <3>1, <3>2
    <2>6. QED  BY <1>4, <1>6, <2>3, <2>4, <2>5
  <1>7. QED  BY <1>5, <1>6

\* Every delivery keeps the graph as current as it can be.
LEMMA DeliveryBlastInv ==
    ASSUME BlastInv, NEW kind \in {"Pod", "Node"}, DeliverTo(kind)
    PROVE  BlastInv'
  <1>1. PICK e : e = Head(inbox[kind])
    OBVIOUS
  <1>2. /\ EdgesLeavePods'
        /\ cut' \subseteq Pods \X NodeNames
        /\ kind = "Node" => e.key \notin Pods
        /\ \A p \in Pods, x \in NodeNames \cup Others :
              /\ e.key = p => /\ <<p, x>> \notin cut'
                              /\ p \in reverse'[x] <=> (e.op # "DELETED" /\ x \in e.needs)
              /\ e.key # p => \/ /\ p \in reverse'[x] <=> p \in reverse[x]
                                 /\ <<p, x>> \in cut' <=> <<p, x>> \in cut
                              \/ p \notin reverse'[x] /\ <<p, x>> \in cut'
    BY <1>1, DeliveryTells
  <1>3. GraphInv'
    BY DeliveryInv DEF BlastInv
  <1>4. /\ inbox' = [inbox EXCEPT ![kind] = Tail(@)]
        /\ UNCHANGED <<alive, needs, changes, skips>>
    BY DEF DeliverTo
  <1>5. BoundsKept'
    BY <1>2, <1>4 DEF BlastInv, BoundsKept
  <1>6. /\ inbox \in [{"Pod", "Node"} -> Seq(Event)] /\ inbox[kind] # << >>
        /\ inbox[kind] \in Seq(Event)
    BY DEF BlastInv, GraphInv, EventsTyped, DeliverTo
  <1>7. /\ Len(inbox[kind]) \in Nat /\ e = inbox[kind][1] /\ 1 \in 1..Len(inbox[kind])
        /\ Len(inbox'[kind]) = Len(inbox[kind]) - 1
        /\ \A n \in 1..Len(inbox'[kind]) : inbox'[kind][n] = inbox[kind][n + 1]
    <2>1. inbox'[kind] = Tail(inbox[kind])
      BY <1>4, <1>6
    <2>2. QED  BY <1>1, <1>6, <2>1
  <1>8. \A other \in {"Pod", "Node"} : other # kind => inbox'[other] = inbox[other]
    BY <1>4, <1>6
  <1>9. EventsSorted'
    <2>1. SUFFICES ASSUME NEW k \in {"Pod", "Node"}, NEW n \in 1..Len(inbox'[k])
                   PROVE  /\ KindOf(inbox'[k][n].key) = k
                          /\ inbox'[k][n].needs \subseteq
                                (IF k = "Pod" THEN NodeNames \cup Others ELSE {})
      BY DEF EventsSorted, KindOf
    <2>2. CASE k = kind
      <3>1. n + 1 \in 1..Len(inbox[k]) /\ inbox'[k][n] = inbox[k][n + 1]
        BY <1>7, <2>1, <2>2
      <3>2. QED  BY <3>1 DEF BlastInv, EventsSorted
    <2>3. CASE k # kind
      BY <1>8, <2>1, <2>3 DEF BlastInv, EventsSorted
    <2>4. QED  BY <2>2, <2>3
  <1>10. CASE kind = "Pod"
    <2>1. ASSUME NEW p, NEW n \in Nat
          PROVE  /\ PodEvent(p, n)' <=> PodEvent(p, n + 1) /\ n # 0
                 /\ PodEvent(p, n)' => inbox'["Pod"][n] = inbox["Pod"][n + 1]
      <3>1. (n \in 1..Len(inbox'["Pod"])) <=> (n + 1 \in 1..Len(inbox["Pod"]) /\ n # 0)
        BY <1>7, <1>10
      <3>2. n \in 1..Len(inbox'["Pod"]) => inbox'["Pod"][n] = inbox["Pod"][n + 1]
        BY <1>7, <1>10
      <3>3. QED  BY <3>1, <3>2, Zenon DEF PodEvent
    <2>2. \A p, n : PodEvent(p, n) => n \in Nat /\ n # 0
      BY DEF PodEvent
    <2>3. LastEventsAreCurrent'
      <3>1. SUFFICES ASSUME skips = 0, NEW p \in Pods, NEW n \in Nat, PodEvent(p, n)',
                            \A m \in Nat : m > n => ~ PodEvent(p, m)'
                     PROVE  /\ (inbox'["Pod"][n].op = "DELETED") <=> (p \notin alive)
                            /\ p \in alive => inbox'["Pod"][n].needs = needs[p]
        BY <1>4 DEF LastEventsAreCurrent, PodEvent
      <3>2. ASSUME NEW m \in Nat, m > n + 1 PROVE ~ PodEvent(p, m)
        <4>1. m - 1 \in Nat /\ m - 1 > n /\ (m - 1) + 1 = m /\ m - 1 # 0
          BY <3>2
        <4>2. ~ PodEvent(p, m - 1)'
          BY <3>1, <4>1
        <4>3. QED  BY <2>1, <4>1, <4>2
      <3>3. /\ n + 1 \in Nat /\ PodEvent(p, n + 1)
            /\ inbox'["Pod"][n] = inbox["Pod"][n + 1]
        BY <2>1, <3>1
      <3>4. QED  BY <3>1, <3>2, <3>3 DEF BlastInv, LastEventsAreCurrent
    <2>4. ToldPodsAreCurrent'
      <3>1. SUFFICES ASSUME skips = 0, NEW p \in Pods, \A n \in Nat : ~ PodEvent(p, n)',
                            NEW x \in NodeNames \cup Others
                     PROVE  (p \in reverse'[x]) <=> Names(p, x)'
        BY <1>4 DEF ToldPodsAreCurrent
      <3>2. ASSUME NEW m \in Nat, m > 1 PROVE ~ PodEvent(p, m)
        <4>1. m - 1 \in Nat /\ (m - 1) + 1 = m /\ m - 1 # 0
          BY <3>2
        <4>2. ~ PodEvent(p, m - 1)'
          BY <3>1, <4>1
        <4>3. QED  BY <2>1, <4>1, <4>2
      <3>3. CASE e.key = p
        <4>1. PodEvent(p, 1)
          BY <1>7, <1>10, <3>3 DEF PodEvent
        <4>2. /\ (e.op = "DELETED") <=> (p \notin alive)
              /\ p \in alive => e.needs = needs[p]
          BY <1>7, <1>10, <3>1, <3>2, <4>1 DEF BlastInv, LastEventsAreCurrent
        <4>3. <<p, x>> \notin cut' /\ (p \in reverse'[x] <=> e.op # "DELETED" /\ x \in e.needs)
          BY <1>2, <3>3
        <4>4. QED  BY <1>4, <4>2, <4>3 DEF Names
      <3>4. CASE e.key # p
        <4>1. ASSUME NEW m \in Nat PROVE ~ PodEvent(p, m)
          <5>1. CASE m = 1
            BY <1>7, <1>10, <3>4, <5>1 DEF PodEvent
          <5>2. CASE m # 1
            <6>1. m > 1 \/ m = 0
              BY <5>2
            <6>2. QED  BY <2>2, <3>2, <6>1
          <5>3. QED  BY <5>1, <5>2
        <4>2. (p \in reverse[x]) <=> Names(p, x)
          BY <3>1, <4>1 DEF BlastInv, ToldPodsAreCurrent
        <4>3. QED  BY <1>2, <1>4, <3>4, <4>2 DEF Names
      <3>5. QED  BY <3>3, <3>4
    <2>5. QED  BY <1>2, <1>3, <1>5, <1>9, <2>3, <2>4 DEF BlastInv
  <1>11. CASE kind = "Node"
    <2>1. /\ inbox'["Pod"] = inbox["Pod"] /\ e.key \notin Pods
          /\ \A p, n : PodEvent(p, n)' <=> PodEvent(p, n)
      BY <1>2, <1>8, <1>11 DEF PodEvent
    <2>2. LastEventsAreCurrent'
      BY <1>4, <2>1 DEF BlastInv, LastEventsAreCurrent
    <2>3. ToldPodsAreCurrent'
      <3>1. SUFFICES ASSUME skips = 0, NEW p \in Pods, \A n \in Nat : ~ PodEvent(p, n),
                            NEW x \in NodeNames \cup Others
                     PROVE  (p \in reverse'[x]) <=> Names(p, x)'
        BY <1>4, <2>1 DEF ToldPodsAreCurrent
      <3>2. (p \in reverse[x]) <=> Names(p, x)
        BY <3>1 DEF BlastInv, ToldPodsAreCurrent
      <3>3. e.key # p
        BY <2>1
      <3>4. QED  BY <1>2, <1>4, <3>2, <3>3 DEF Names
    <2>4. QED  BY <1>2, <1>3, <1>5, <1>9, <2>2, <2>3 DEF BlastInv
  <1>12. QED  BY <1>10, <1>11

\* So does every step: a relist takes the promise back.
LEMMA BlastNextInv == BlastInv /\ [GraphNext]_graphVars => BlastInv'
  <1> SUFFICES ASSUME BlastInv, [GraphNext]_graphVars PROVE BlastInv'
    OBVIOUS
  <1>1. CASE Change
    <2>1. PICK op \in {"ADDED", "MODIFIED", "DELETED"}, x \in Watched,
               names \in SUBSET (NodeNames \cup Others) :
                 (x \in Pods \/ names = {}) /\ Write(op, x, names)
      BY <1>1, ChangeWrites DEF BlastInv, GraphInv
    <2>2. QED  BY <2>1, WriteBlastInv
  <1>2. CASE \E kind \in {"Pod", "Node"} : DeliverTo(kind)
    BY <1>2, DeliveryBlastInv
  <1>3. CASE \E kind \in {"Pod", "Node"} : SkipEvents(kind)
    <2>1. PICK kind \in {"Pod", "Node"} : SkipEvents(kind)
      BY <1>3
    <2>2. /\ skips < MaxSkips /\ skips' = skips + 1
          /\ inbox' = [inbox EXCEPT ![kind] = << >>]
          /\ UNCHANGED <<nodes, forward, reverse, alive, needs, changes, cut>>
      BY <2>1 DEF SkipEvents, adjacencyVars
    <2>3. GraphInv'
      BY GraphNextInv DEF BlastInv
    <2>4. skips \in 0..MaxSkips /\ MaxSkips \in Nat
      BY GraphAssumption DEF BlastInv, BoundsKept
    <2>5. skips' \in 0..MaxSkips /\ skips' # 0
      BY <2>2, <2>4
    <2>6. BoundsKept' /\ LastEventsAreCurrent' /\ ToldPodsAreCurrent'
      BY <2>2, <2>5 DEF BlastInv, BoundsKept, LastEventsAreCurrent, ToldPodsAreCurrent
    <2>7. EdgesLeavePods'
      BY <2>2 DEF BlastInv, EdgesLeavePods
    <2>8. EventsSorted'
      <3>1. inbox \in [{"Pod", "Node"} -> Seq(Event)]
        BY DEF BlastInv, GraphInv, EventsTyped
      <3>2. \A k \in {"Pod", "Node"} : inbox'[k] = IF k = kind THEN << >> ELSE inbox[k]
        BY <2>2, <3>1
      <3>3. \A k \in {"Pod", "Node"} : \A n : n \in 1..Len(inbox'[k]) =>
               n \in 1..Len(inbox[k]) /\ inbox'[k][n] = inbox[k][n]
        BY <3>2
      <3>4. QED  BY <3>3 DEF BlastInv, EventsSorted, KindOf
    <2>9. QED  BY <2>3, <2>6, <2>7, <2>8 DEF BlastInv
  <1>4. CASE UNCHANGED graphVars
    <2>1. GraphInv'
      BY GraphNextInv DEF BlastInv
    <2>2. QED
      BY <1>4, <2>1
      DEF graphVars, BlastInv, BoundsKept, EventsSorted, KindOf, EdgesLeavePods,
          LastEventsAreCurrent, ToldPodsAreCurrent, PodEvent, Names
  <1>5. QED  BY <1>1, <1>2, <1>3, <1>4 DEF GraphNext

(* What the invariant says of a graph that was told everything, as the     *)
(* coordinator asks for it.                                                *)
LEMMA BlastInvSays == BlastInv => BlastRadiusIsCurrent
  <1> SUFFICES ASSUME BlastInv, skips = 0,
                      \A kind \in {"Pod", "Node"} : inbox[kind] = << >>,
                      NEW x \in NodeNames \cup Others
               PROVE  Upstream(x, Depth) =
                         {p \in Pods \cap alive : x \in needs[p] /\ <<p, x>> \notin cut}
    BY DEF BlastRadiusIsCurrent
  <1>1. ListsTyped /\ AdjacencyAgrees /\ EdgesLeavePods
    BY DEF BlastInv, GraphInv
  <1>2. Upstream(x, Depth) = reverse[x]
    BY <1>1, UpstreamIsDirect
  <1>3. \A p, n : ~ PodEvent(p, n)
    BY DEF PodEvent
  <1>4. \A p \in Pods : (p \in reverse[x]) <=> Names(p, x)
    BY <1>3 DEF BlastInv, ToldPodsAreCurrent
  <1>5. reverse[x] \subseteq Pods
    <2>1. x \in Keys /\ reverse[x] \subseteq Keys
      BY <1>1, KeysApart DEF ListsTyped
    <2>2. QED  BY <1>1, <2>1 DEF AdjacencyAgrees, EdgesLeavePods
  <1>6. QED  BY <1>2, <1>4, <1>5 DEF Names

(* The blast radius the coordinator puts into an answer is the pods that   *)
(* name the resource, in whatever order the two watches told of pods and   *)
(* nodes, as long as no relist skipped an event.                           *)
THEOREM BlastRadiusStaysCurrent == GraphSpec => []BlastRadiusIsCurrent
  BY BlastInitInv, BlastNextInv, BlastInvSays, PTL DEF GraphSpec

\* The types of the graph, the streams that feed it and the bounds.
THEOREM GraphTypes == GraphSpec => []GraphTypeOK
  <1>1. BlastInv => GraphTypeOK
    BY DEF BlastInv, GraphInv, ListsTyped, EventsTyped, BoundsKept, GraphTypeOK
  <1>2. QED  BY BlastInitInv, BlastNextInv, <1>1, PTL DEF GraphSpec
=============================================================================
