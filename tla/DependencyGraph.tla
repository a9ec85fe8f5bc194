--------------------------- MODULE DependencyGraph ---------------------------
(***************************************************************************)
(* DependencyGraph (graph/dependency_graph.py) and what feeds it (app.py): *)
(* the seed from the cache, then the events of the pod watcher and of the  *)
(* node watcher, two streams that know nothing of each other.              *)
(*                                                                         *)
(* A pod needs the node it is scheduled to and the claims, config maps,    *)
(* secrets and owners it names (here: the objects of Others).  The spec of *)
(* an object from the start-up list has other field names than the code    *)
(* looks for (to_dict() makes node_name of nodeName), so the seed makes    *)
(* nodes and no edges.  An edge is kept as its two ends: its type and the  *)
(* number of times an object names another are left out.                   *)
(***************************************************************************)
EXTENDS Naturals, Sequences, FiniteSets, SequencesExt

CONSTANTS
    Pods, NodeNames, Others,  \* keys (kind, namespace, name), by kind
    Depth,       \* max_depth of the blast radius
    MaxChanges,  \* bound: changes to the cluster
    MaxSkips     \* bound: relists, which skip the events not yet delivered

ASSUME GraphAssumption ==
    /\ Pods \cap NodeNames = {} /\ Others \cap (Pods \cup NodeNames) = {}
    /\ IsFiniteSet(Pods) /\ IsFiniteSet(NodeNames)
    /\ Depth \in Nat \ {0}
    /\ MaxChanges \in Nat /\ MaxSkips \in Nat

VARIABLES
    nodes,            \* the keys of _nodes
    forward, reverse, \* _forward, _reverse: the keys at the other ends
    alive, needs,     \* external: the pods and nodes that exist; what each
                      \* pod's spec names
    inbox,            \* external: the events the two streams have still to deliver
    changes, skips,   \* bounded
    cut               \* history: <<pod, node>>, the node removed from the
                      \* graph since the pod was last added
adjacencyVars == <<nodes, forward, reverse>>
feedVars  == <<alive, needs, inbox, changes, skips, cut>>
graphVars == <<nodes, forward, reverse, alive, needs, inbox, changes, skips, cut>>

Keys == Pods \cup NodeNames \cup Others
Watched == Pods \cup NodeNames
KindOf(x) == IF x \in Pods THEN "Pod" ELSE "Node"
Event == [op : {"ADDED", "MODIFIED", "DELETED"}, key : Watched, needs : SUBSET Keys]

GraphTypeOK ==
    /\ nodes \subseteq Keys
    /\ forward \in [Keys -> SUBSET Keys] /\ reverse \in [Keys -> SUBSET Keys]
    /\ alive \subseteq Watched
    /\ needs \in [Pods -> SUBSET (NodeNames \cup Others)]
    /\ \A kind \in {"Pod", "Node"} : inbox[kind] \in Seq(Event)
    /\ changes \in 0..MaxChanges /\ skips \in 0..MaxSkips
    /\ cut \subseteq Pods \X NodeNames

-----------------------------------------------------------------------------
\* Mutant: the reverse list of what is no longer named keeps the entry.
AddResourceForgetful(k, targets) ==
    /\ nodes' = nodes \cup {k} \cup targets
    /\ forward' = [forward EXCEPT ![k] = targets]
    /\ reverse' = [t \in Keys |-> IF t \in targets THEN reverse[t] \cup {k} ELSE reverse[t]]

(* add_resource(): the edges that leave k are made anew, and what it names *)
(* is in the graph from then on (_ensure_node).                            *)
AddResource(k, targets) ==
    /\ nodes' = nodes \cup {k} \cup targets
    /\ forward' = [forward EXCEPT ![k] = targets]
    /\ reverse' = [t \in Keys |->
                      IF t \in targets THEN reverse[t] \cup {k}
                      ELSE IF t \in forward[k] THEN reverse[t] \ {k}
                      ELSE reverse[t]]

\* Mutant: the edges that lead to k are left to the resources they leave.
RemoveResourceOneWay(k) ==
    /\ nodes' = nodes \ {k}
    /\ forward' = [forward EXCEPT ![k] = {}]
    /\ reverse' = [t \in Keys |-> IF t \in forward[k] THEN reverse[t] \ {k} ELSE reverse[t]]

(* remove_resource(): the edges that leave k, found in its forward list,   *)
(* then those that lead to it, found in its reverse list.                  *)
RemoveResource(k) ==
    /\ nodes' = nodes \ {k}
    /\ forward' = [s \in Keys |->
                      IF s = k THEN {}
                      ELSE IF s \in reverse[k] THEN forward[s] \ {k} ELSE forward[s]]
    /\ reverse' = [t \in Keys |->
                      IF t = k THEN {}
                      ELSE IF t \in forward[k] THEN reverse[t] \ {k} ELSE reverse[t]]

(* upstream(k, max_depth=d), as the coordinator asks for the blast radius: *)
(* level by level along the reverse lists.                                 *)
Upstream(k, d) ==
    LET within[i \in 0..d] ==
            IF i = 0 THEN {k}
            ELSE within[i - 1] \cup UNION {reverse[x] : x \in within[i - 1]}
    IN  IF k \in nodes THEN (within[d] \ {k}) \cap nodes ELSE {}

-----------------------------------------------------------------------------
(* The graph is seeded with what the cache holds.  The watches are opened  *)
(* without a version: each object that exists is told as ADDED.            *)
GraphInit ==
    /\ nodes \in SUBSET Keys
    /\ forward = [k \in Keys |-> {}] /\ reverse = [k \in Keys |-> {}]
    /\ alive \in SUBSET Watched
    /\ \E on \in [Pods \cap alive -> {{}} \cup {{n} : n \in NodeNames}] :
          needs = [p \in Pods |-> IF p \in alive THEN Others \cup on[p] ELSE {}]
    /\ inbox = [kind \in {"Pod", "Node"} |->
                   SetToSeq({[op |-> "ADDED", key |-> x,
                              needs |-> IF x \in Pods THEN needs[x] ELSE {}] :
                                x \in {y \in alive : KindOf(y) = kind}})]
    /\ changes = 0 /\ skips = 0
    /\ cut = {}

\* external: a write to the cluster, which the stream of the kind will tell
Write(op, x, names) ==
    /\ changes < MaxChanges /\ changes' = changes + 1
    /\ alive' = IF op = "DELETED" THEN alive \ {x} ELSE alive \cup {x}
    /\ needs' = IF x \in Pods THEN [needs EXCEPT ![x] = names] ELSE needs
    /\ inbox' = [inbox EXCEPT ![KindOf(x)] =
                    Append(@, [op |-> op, key |-> x, needs |-> names])]
    /\ UNCHANGED <<adjacencyVars, skips, cut>>

\* external: pods come unscheduled, are given a node that exists, report
\* their status, and go; nodes come, report and go
Change ==
    \/ \E x \in Watched \ alive, names \in {{}, Others} :
          /\ x \in Pods \/ names = {}
          /\ Write("ADDED", x, names)
    \/ \E p \in Pods \cap alive, n \in NodeNames \cap alive :
          needs[p] \cap NodeNames = {} /\ Write("MODIFIED", p, needs[p] \cup {n})
    \/ \E x \in alive, op \in {"MODIFIED", "DELETED"} :
          Write(op, x, IF x \in Pods THEN needs[x] ELSE {})

(* The handler the application wraps around a watcher's: _feed_graph() for *)
(* ADDED and MODIFIED, remove_resource() for DELETED.                      *)
DeliverTo(kind) ==
    /\ inbox[kind] # << >>
    /\ LET e == Head(inbox[kind])
       IN  IF e.op = "DELETED"
           THEN /\ RemoveResource(e.key)
                /\ cut' = IF kind = "Node" THEN cut \cup (Pods \X {e.key})
                                           ELSE {c \in cut : c[1] # e.key}
           ELSE /\ AddResource(e.key, e.needs)
                /\ cut' = {c \in cut : c[1] # e.key}
    /\ inbox' = [inbox EXCEPT ![kind] = Tail(@)]
    /\ UNCHANGED <<alive, needs, changes, skips>>

\* a relist of the watcher goes on after what the stream had still to tell
SkipEvents(kind) ==
    /\ skips < MaxSkips /\ skips' = skips + 1
    /\ inbox[kind] # << >>
    /\ inbox' = [inbox EXCEPT ![kind] = << >>]
    /\ UNCHANGED <<adjacencyVars, alive, needs, changes, cut>>

GraphNext ==
    \/ Change
    \/ \E kind \in {"Pod", "Node"} : DeliverTo(kind) \/ SkipEvents(kind)

GraphSpec == GraphInit /\ [][GraphNext]_graphVars

-----------------------------------------------------------------------------
(* The two adjacency lists, kept by different loops of different methods,  *)
(* tell the same edges, and both ends of an edge are nodes, in whatever    *)
(* order pods and nodes are added, removed and named.                      *)
AdjacencyAgrees ==
    \A s, t \in Keys :
        /\ (t \in forward[s]) = (s \in reverse[t])
        /\ t \in forward[s] => s \in nodes /\ t \in nodes

(* With every event told and none skipped, the blast radius of a resource  *)
(* is the pods that name it, but for those whose last event came before    *)
(* the resource was removed for the last time: a node that goes and comes  *)
(* back affects no pod until the pod changes.                              *)
BlastRadiusIsCurrent ==
    (skips = 0 /\ \A kind \in {"Pod", "Node"} : inbox[kind] = << >>) =>
        \A x \in NodeNames \cup Others :
            Upstream(x, Depth) =
                {p \in Pods \cap alive : x \in needs[p] /\ <<p, x>> \notin cut}
=============================================================================
