--------------------------- MODULE DiagnosticRules ---------------------------
(***************************************************************************)
(* The eighteen rules of rules/r01 .. r18 as records for RuleEngine, and   *)
(* the situations they are asked about.  A rule is reduced to what decides *)
(* the evaluation: its priority, base confidence and resource              *)
(* dependencies, the events match() says yes to, and what correlate() may  *)
(* find: whether a relevant change is possible at all, and whether at most *)
(* one resource is related.  Which resources, and the wording of explain() *)
(* are left out.                                                           *)
(*                                                                         *)
(* A situation is an event (its reason, what its message is about, whether *)
(* it was seen three times or more) and what the cache holds: whether the  *)
(* pod's deployment is found, the claim the message names, and how many    *)
(* other unbound and bound claims and how many nodes there are (two stands *)
(* for more).                                                              *)
(***************************************************************************)
EXTENDS Integers, FiniteSets

Quiet == [reason |-> "Scheduled", about |-> {}, repeated |-> FALSE, deployment |-> FALSE,
          named |-> "absent", unbound |-> 0, bound |-> 0, nodes |-> 0]

UpTo(n, topics) == {a \in SUBSET topics : Cardinality(a) <= n}
MountTopics == {"claim", "not bound", "nfs", "configmap", "secret"}

\* a volume that cannot be mounted or attached, over four stocks of claims
MountSituations ==
    {[Quiet EXCEPT !.reason = r, !.about = a, !.repeated = b, !.deployment = b,
                   !.named = c[1], !.unbound = c[2], !.bound = c[3]] :
        r \in {"FailedMount", "FailedAttachVolume"}, a \in UpTo(2, MountTopics), b \in BOOLEAN,
        c \in {<<"absent", 0, 0>>, <<"unbound", 0, 1>>, <<"bound", 1, 0>>, <<"bound", 2, 2>>}}

\* a pod that cannot be scheduled, over four clusters
SchedulingSituations ==
    {[Quiet EXCEPT !.reason = "FailedScheduling", !.about = a, !.repeated = b, !.deployment = d,
                   !.nodes = c[1], !.unbound = c[2]] :
        a \in SUBSET {"nodes", "constraint", "unbound claim"}, b \in BOOLEAN, d \in BOOLEAN,
        c \in {<<0, 0>>, <<1, 0>>, <<0, 1>>, <<2, 1>>}}

\* a container that does not start or does not keep running
ContainerSituations ==
    {[Quiet EXCEPT !.reason = r, !.about = a, !.repeated = b, !.deployment = d] :
        r \in {"OOMKilled", "CrashLoopBackOff", "BackOff", "ImagePullBackOff", "Failed",
               "Unhealthy"},
        a \in UpTo(1, {"secret", "readiness", "phase lost"}), b \in BOOLEAN, d \in BOOLEAN}

OtherSituations ==
    {[Quiet EXCEPT !.reason = r, !.about = a, !.repeated = b] :
        r \in {"NotReady", "MemoryPressure", "FailedGetScale", "FailedCreate", "Evicted",
               "Killing", "ClaimLost", "Scheduled"},
        a \in UpTo(1, {"refused", "quota", "exceeded quota", "eviction", "phase lost"}),
        b \in BOOLEAN}

ClusterSituations ==
    MountSituations \cup SchedulingSituations \cup ContainerSituations \cup OtherSituations

-----------------------------------------------------------------------------
DiagnosticKinds ==
    {"Pod", "Deployment", "ReplicaSet", "ConfigMap", "Secret", "Node", "Service", "Endpoints",
     "HPA", "PVC", "PV", "ResourceQuota"}

Rule(priority, base, deps, matches, finds) ==
    [priority |-> priority, base |-> base, deps |-> deps, baseOnly |-> {},
     matches |-> matches, finds |-> finds]

\* what match() asks of an event
On(reasons) == {s \in ClusterSituations : s.reason \in reasons}
Says(topics) == {s \in ClusterSituations : s.about \cap topics # {}}
Repeated == {s \in ClusterSituations : s.repeated}

\* the correlations that come with any of these answers to is_single_resource
NoChange(singles) == [changes : {"none"}, single : singles]
MayChange(singles) == [changes : {"none", "old", "recent"}, single : singles]
Anywhere(found) == [s \in ClusterSituations |-> found]

\* the owning deployment, whose relevant changes are looked up
OwnDeployment ==
    [s \in ClusterSituations |->
        IF s.deployment THEN MayChange({TRUE}) ELSE NoChange({TRUE})]

One(b) == IF b THEN 1 ELSE 0
UnboundClaims(s) == s.unbound + One(s.named = "unbound")
AllClaims(s) == s.unbound + s.bound + One(s.named # "absent")
NamesCached(s) == "claim" \in s.about /\ s.named # "absent"
\* the claim the message names, and every unbound one
ClaimsAtHand(s) == UnboundClaims(s) + One(NamesCached(s) /\ s.named = "bound")

-----------------------------------------------------------------------------
R01 == Rule(10, 55, {"Pod", "Deployment", "ReplicaSet"}, On({"OOMKilled"}), OwnDeployment)

R02 == Rule(10, 50, {"Pod", "Deployment", "ReplicaSet", "ConfigMap"},
            On({"CrashLoopBackOff"}) \cup (On({"BackOff"}) \cap Repeated), OwnDeployment)

\* the patterns of the scheduler's message: insufficient resources, node
\* selector and taint count as "constraint", the last one is the claim's
R03Unknown == ClusterSituations \ Says({"constraint", "unbound claim"})
R03Related(s) == s.nodes + One(s.deployment) + One("constraint" \notin s.about) * UnboundClaims(s)

R03 == [Rule(20, 60, {"Pod", "Node", "Deployment"}, On({"FailedScheduling"}),
             [s \in ClusterSituations |->
                 IF s \in R03Unknown THEN NoChange({TRUE})
                 ELSE IF s.deployment THEN MayChange({R03Related(s) <= 1})
                 ELSE NoChange({R03Related(s) <= 1})])
        EXCEPT !.baseOnly = R03Unknown]

R04 == Rule(15, 60, {"Pod", "Deployment", "ReplicaSet"}, On({"ImagePullBackOff"}), OwnDeployment)

\* the autoscaler and its target, if they are cached
R05 == Rule(30, 50, {"HPA", "Deployment"}, On({"FailedGetScale"}), Anywhere(MayChange(BOOLEAN)))

\* a service of the pod's name or a prefix of it
R06 == Rule(25, 50, {"Service", "Pod", "Endpoints"},
            On({"NotReady"}) \cup Says({"refused"}), Anywhere(MayChange({TRUE})))

\* the deployment and the ConfigMaps it takes its environment from
R07 == Rule(20, 55, {"Pod", "Deployment", "ConfigMap"},
            On({"BackOff", "Failed", "FailedMount", "Unhealthy"}) \cap Says({"configmap", "secret"}),
            [s \in ClusterSituations |->
                IF s.deployment THEN MayChange(BOOLEAN) ELSE NoChange({TRUE})])

\* Mutant: only the claim that the message names is looked at.
R08NamedOnly ==
    Rule(20, 60, {"Pod", "PVC"},
         On({"FailedMount", "FailedAttachVolume"}) \cap Says({"claim"}),
         [s \in ClusterSituations |->
             IF NamesCached(s) THEN MayChange({TRUE}) ELSE NoChange({TRUE})])

R08 == Rule(20, 60, {"Pod", "PVC"}, On({"FailedMount", "FailedAttachVolume"}),
            [s \in ClusterSituations |->
                IF NamesCached(s) THEN MayChange({ClaimsAtHand(s) <= 1})
                ELSE NoChange({ClaimsAtHand(s) <= 1})])

\* the node, if it is cached, and its pods
R09 == Rule(15, 55, {"Node", "Pod"}, On({"MemoryPressure"}), Anywhere(MayChange(BOOLEAN)))

R10 == Rule(30, 50, {"Pod", "Deployment", "ReplicaSet"},
            On({"Unhealthy"}) \cap Repeated \cap Says({"readiness"}), OwnDeployment)

R11 == Rule(20, 60, {"Pod", "ConfigMap"},
            On({"FailedMount"}) \cap Says({"configmap"}), Anywhere(NoChange({TRUE})))

R12 == Rule(20, 60, {"Pod", "Secret"},
            On({"FailedMount"}) \cap Says({"secret"}), Anywhere(NoChange({TRUE})))

R13 == Rule(20, 60, {"Pod", "PVC", "PV"},
            On({"FailedMount", "FailedAttachVolume"}) \cap Says({"claim", "not bound"}),
            [s \in ClusterSituations |-> NoChange({ClaimsAtHand(s) <= 1})])

R14 == Rule(22, 55, {"Pod", "PVC", "PV"}, On({"FailedMount"}) \cap Says({"nfs"}),
            [s \in ClusterSituations |-> NoChange({AllClaims(s) <= 1})])

R15 == Rule(18, 55, {"Pod", "Node"}, On({"FailedScheduling"}) \cap Says({"nodes"}),
            [s \in ClusterSituations |-> NoChange({s.nodes <= 1})])

\* all the quotas of the namespace
R16 == Rule(15, 65, {"Pod", "ResourceQuota"},
            Says({"exceeded quota"}) \cup (On({"FailedCreate"}) \cap Says({"quota"})),
            Anywhere(NoChange(BOOLEAN)))

\* the pod and its node, if they are cached
R17 == Rule(18, 60, {"Pod", "Node"},
            On({"Evicted"}) \cup (On({"Killing"}) \cap Says({"eviction"})),
            Anywhere(NoChange(BOOLEAN)))

\* the claim and the volumes that are lost or failed
R18 == Rule(22, 55, {"PVC", "PV"}, On({"ClaimLost"}) \cup Says({"phase lost"}),
            Anywhere(NoChange(BOOLEAN)))

RuleNumbers == 1..18
Tier1Numbers == 1..3
DiagnosticCatalogue ==
    <<R01, R02, R03, R04, R05, R06, R07, R08, R09, R10, R11, R12, R13, R14, R15, R16, R17, R18>>
=============================================================================
